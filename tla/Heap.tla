-------------------------------- MODULE Heap --------------------------------
(***************************************************************************)
(* The C heap, as far as the helpers of src/es_proto_helper.c use it: the  *)
(* set of blocks that are allocated and not freed.  A block is a sequence  *)
(* whose first element is the serial number of the call that allocated it; *)
(* malloc may give an address out again once nothing alive has it, and so  *)
(* may serial numbers be used again.                                       *)
(***************************************************************************)
EXTENDS Naturals

CONSTANT
  MaxSerial \* bound: the calls whose blocks may be alive together

ASSUME MaxSerialAssumption == MaxSerial \in Nat

FreeSerials(live) == {n \in 1..MaxSerial : \A b \in live : b[1] # n}

NextSerial(live) ==
  CHOOSE n \in FreeSerials(live) : \A k \in FreeSerials(live) : n <= k
=============================================================================
