--------------------------- MODULE EsHeaderProofs ---------------------------
(***************************************************************************)
(* Theorems about the header codec of es_msg_parser.c and the byte order   *)
(* of wtf_uuid.c under it: what read_header takes out of a frame,          *)
(* write_header puts back.                                                 *)
(***************************************************************************)
EXTENDS EsHeader, TLAPS

-----------------------------------------------------------------------------
(* The correlation id.                                                     *)

\* Reversing the bytes of a field twice puts them back.
LEMMA NetOrderInvolution ==
  \A i \in UuidOffsets :
    NetOrder[i] \in UuidOffsets /\ NetOrder[NetOrder[i]] = i
<1>1. TAKE i \in UuidOffsets
<1>2. CASE i \in 0..3
  BY <1>2 DEF NetOrder, UuidOffsets
<1>3. CASE i \in 4..5
  BY <1>3 DEF NetOrder, UuidOffsets
<1>4. CASE i \in 6..7
  BY <1>4 DEF NetOrder, UuidOffsets
<1>5. CASE i \in 8..15
  BY <1>5 DEF NetOrder, UuidOffsets
<1>6. QED
  BY <1>2, <1>3, <1>4, <1>5 DEF UuidOffsets

\* The loop of write_uuid_to_wtf writes each cell once, with the byte that
\* belongs there.
LEMMA WrittenByte ==
  ASSUME NEW uuid, NEW j \in UuidOffsets
  PROVE  WriteUuidToWtf(uuid)[j] = uuid[NetOrder[j]]
<1> DEFINE Writes(i) == /\ NetOrder[i] = j
                        /\ \A k \in UuidOffsets : NetOrder[k] = j => k <= i
<1>1. \A i \in UuidOffsets : Writes(i) <=> i = NetOrder[j]
  <2>1. TAKE i \in UuidOffsets
  <2>2. ASSUME Writes(i) PROVE i = NetOrder[j]
    BY <2>2, NetOrderInvolution
  <2>3. ASSUME i = NetOrder[j] PROVE Writes(i)
    <3>1. NetOrder[i] = j
      BY <2>3, NetOrderInvolution
    <3>2. ASSUME NEW k \in UuidOffsets, NetOrder[k] = j
          PROVE  k <= i
      <4>1. k = i
        BY <2>3, <3>2, NetOrderInvolution
      <4>2. QED
        BY <4>1 DEF UuidOffsets
    <3>3. QED
      BY <3>1, <3>2
  <2>4. QED
    BY <2>2, <2>3
<1>2. NetOrder[j] \in UuidOffsets
  BY NetOrderInvolution
<1>3. (CHOOSE i \in UuidOffsets : Writes(i)) = NetOrder[j]
  <2> HIDE DEF Writes
  <2> QED
    BY <1>1, <1>2
<1>4. QED
  BY <1>3 DEF WriteUuidToWtf

\* A UUID written into a frame and read back is the same UUID.
THEOREM ReadWritten ==
  ASSUME NEW S, NEW uuid \in [UuidOffsets -> S]
  PROVE  GetUuidFromWtf(WriteUuidToWtf(uuid)) = uuid
<1>1. ASSUME NEW i \in UuidOffsets
      PROVE  WriteUuidToWtf(uuid)[NetOrder[i]] = uuid[i]
  BY WrittenByte, NetOrderInvolution
<1>2. QED
  BY <1>1 DEF GetUuidFromWtf

\* The sixteen bytes of a frame read as a UUID and written into another frame,
\* which is what answering a request does, are the same sixteen bytes.
THEOREM WrittenRead ==
  ASSUME NEW S, NEW wtf \in [UuidOffsets -> S]
  PROVE  WriteUuidToWtf(GetUuidFromWtf(wtf)) = wtf
<1> DEFINE uuid == GetUuidFromWtf(wtf)
<1>1. ASSUME NEW j \in UuidOffsets
      PROVE  WriteUuidToWtf(uuid)[j] = wtf[j]
  <2>1. WriteUuidToWtf(uuid)[j] = uuid[NetOrder[j]]
    BY WrittenByte
  <2>2. uuid[NetOrder[j]] = wtf[NetOrder[NetOrder[j]]]
    BY NetOrderInvolution DEF GetUuidFromWtf
  <2>3. QED
    BY <2>1, <2>2, NetOrderInvolution
<1>2. DOMAIN WriteUuidToWtf(uuid) = UuidOffsets
  BY DEF WriteUuidToWtf
<1>3. WriteUuidToWtf(uuid) = [j \in UuidOffsets |-> WriteUuidToWtf(uuid)[j]]
  BY DEF WriteUuidToWtf
<1>4. QED
  <2> DEFINE written == WriteUuidToWtf(uuid)
  <2>1. written = [j \in UuidOffsets |-> written[j]]
    BY <1>3
  <2>2. \A j \in UuidOffsets : written[j] = wtf[j]
    BY <1>1
  <2> HIDE DEF written, uuid
  <2>3. QED
    BY <2>1, <2>2 DEF written, uuid

-----------------------------------------------------------------------------
(* The header.                                                             *)

\* A byte survives the signed char struct Header keeps it in.
LEMMA CharConversion ==
  ASSUME NEW byte \in 0..255
  PROVE  UnsignedChar(Char(byte)) = byte
<1>1. CASE byte >= 128
  <2>1. Char(byte) = byte - 256
    BY <1>1 DEF Char
  <2>2. (byte - 256) % 256 = byte
    BY <1>1, SMT
  <2> QED
    BY <2>1, <2>2 DEF UnsignedChar
<1>2. CASE byte < 128
  BY <1>2, SMT DEF Char, UnsignedChar
<1> QED
  BY <1>1, <1>2

\* A position of a sequence of elements of S holds an element of S.
LEMMA ElementOf ==
  ASSUME NEW S, NEW s \in Seq(S), NEW p \in 1..Len(s)
  PROVE  s[p] \in S
OBVIOUS

\* write_header of the header read_header returned stores the eighteen bytes the
\* frame began with: command and flags of any value, negative chars included,
\* and the correlation id in the peer's order.
THEOREM HeaderRoundTrip ==
  ASSUME NEW bytes \in Seq(0..255),
         NEW frame \in Seq(1..Len(bytes)),
         HasHeader(frame)
  PROVE  WriteHeader(ReadHeader(bytes, frame)) =
           [command |-> bytes[frame[1]],
            flags |-> bytes[frame[2]],
            correlation_id |-> [j \in UuidOffsets |-> frame[3 + j]]]
<1> DEFINE wtf == [j \in UuidOffsets |-> frame[3 + j]]
<1>1. frame[1] \in 1..Len(bytes) /\ frame[2] \in 1..Len(bytes)
  BY DEF HasHeader, MandatorySize
<1>2. bytes[frame[1]] \in 0..255 /\ bytes[frame[2]] \in 0..255
  BY <1>1, ElementOf
<1>3. /\ UnsignedChar(Char(bytes[frame[1]])) = bytes[frame[1]]
      /\ UnsignedChar(Char(bytes[frame[2]])) = bytes[frame[2]]
  BY <1>2, CharConversion
<1>4. WriteUuidToWtf(GetUuidFromWtf(wtf)) = wtf
  <2> DEFINE S == {frame[3 + j] : j \in UuidOffsets}
  <2>1. wtf \in [UuidOffsets -> S]
    OBVIOUS
  <2> HIDE DEF wtf, S
  <2> QED
    BY <2>1, WrittenRead
<1> QED
  BY <1>3, <1>4 DEF WriteHeader, ReadHeader

\* get_string_for_header names the command by the byte that was in the frame.
THEOREM CommandNamed ==
  ASSUME NEW bytes \in Seq(0..255),
         NEW frame \in Seq(1..Len(bytes)),
         HasHeader(frame)
  PROVE  GetStringForHeader(ReadHeader(bytes, frame)) =
           GetStringForTcpMessage(bytes[frame[1]])
<1>1. frame[1] \in 1..Len(bytes)
  BY DEF HasHeader, MandatorySize
<1>2. bytes[frame[1]] \in 0..255
  BY <1>1, ElementOf
<1>3. UnsignedChar(Char(bytes[frame[1]])) = bytes[frame[1]]
  BY <1>2, CharConversion
<1> QED
  BY <1>3 DEF GetStringForHeader, ReadHeader
=============================================================================
