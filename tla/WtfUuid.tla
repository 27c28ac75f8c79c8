------------------------------ MODULE WtfUuid ------------------------------
(***************************************************************************)
(* The byte order of correlation ids (src/wtf_uuid.c).  Event Store writes *)
(* the first three fields of a UUID least significant byte first; libuuid  *)
(* keeps all of them most significant byte first.  Bytes are any values: a *)
(* conversion moves them and never looks at them.                          *)
(***************************************************************************)
EXTENDS Naturals, Sequences

UuidOffsets == 0..15

\* Mutant of NetOrder: one wrong entry, which skips a byte of the node.
NetOrderShort ==
  [i \in UuidOffsets |-> <<3, 2, 1, 0, 5, 4, 7, 6, 8, 9, 10, 11, 12, 13, 14, 14>>[i + 1]]

\* net_order: the offset on the wire of the i-th byte of the UUID.
NetOrder ==
  [i \in UuidOffsets |-> <<3, 2, 1, 0, 5, 4, 7, 6, 8, 9, 10, 11, 12, 13, 14, 15>>[i + 1]]

\* get_uuid_from_wtf: byte i of the UUID comes from wtf_data[net_order[i]].
GetUuidFromWtf(wtf) == [i \in UuidOffsets |-> wtf[NetOrder[i]]]

\* Mutant of WriteUuidToWtf: the bytes are written in the order libuuid has them.
WriteUuidUnswapped(uuid) == [j \in UuidOffsets |-> uuid[j]]

\* write_uuid_to_wtf: byte i of the UUID goes to wtf_data[net_order[i]]; the
\* loop leaves in each cell the last byte it wrote there.
WriteUuidToWtf(uuid) ==
  [j \in UuidOffsets |->
     uuid[CHOOSE i \in UuidOffsets :
            /\ NetOrder[i] = j
            /\ \A k \in UuidOffsets : NetOrder[k] = j => k <= i]]
=============================================================================
