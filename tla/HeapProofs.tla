----------------------------- MODULE HeapProofs -----------------------------
(***************************************************************************)
(* What an allocation may rely on: as long as a serial number is free, the *)
(* call gets one that no block alive has.                                  *)
(***************************************************************************)
EXTENDS Heap, WellFoundedInduction, TLAPS

\* The number a call gets is in range and belongs to no other block.
LEMMA NextSerialFree ==
  ASSUME NEW live, FreeSerials(live) # {}
  PROVE  /\ NextSerial(live) \in 1..MaxSerial
         /\ \A b \in live : b[1] # NextSerial(live)
<1> DEFINE S == FreeSerials(live)
           Less == OpToRel(<, Nat)
<1>1. S \subseteq Nat /\ S # {}
  BY DEF FreeSerials
<1>2. PICK n \in S : \A k \in S : <<k, n>> \notin Less
  <2> HIDE DEF S, Less
  <2>1. IsWellFoundedOn(Less, Nat)
    BY NatLessThanWellFounded DEF Less
  <2> QED
    BY <1>1, <2>1, WFMin
<1>3. \A k \in S : n <= k
  <2>1. \A k \in S : ~(k < n) /\ k \in Nat /\ n \in Nat
    BY <1>1, <1>2 DEF OpToRel
  <2> QED
    BY <2>1
<1>4. NextSerial(live) \in S
  BY <1>2, <1>3 DEF NextSerial
<1> QED
  BY <1>4 DEF FreeSerials
=============================================================================
