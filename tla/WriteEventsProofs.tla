------------------------- MODULE WriteEventsProofs -------------------------
(***************************************************************************)
(* Theorems about WriteEvents for any number of events, structs and heap   *)
(* blocks, any buffer and any contents: nothing is assumed beyond the      *)
(* assumptions on the constants.                                           *)
(***************************************************************************)
EXTENDS WriteEvents, HeapProofs, FiniteSetTheorems

-----------------------------------------------------------------------------
(* The inductive invariant.                                                *)

\* An event on the wire says what the event it was made from said, its id apart;
\* it always has a type, if only the empty one.
SameEvent(event, original) ==
  /\ event.event_type = OnWire(original.event_type)
  /\ event.event_type # Null
  /\ event.data_content_type = original.data_content_type
  /\ event.metadata_content_type = original.metadata_content_type
  /\ event.data = original.data
  /\ event.metadata = original.metadata

PacketAsWritten ==
  packet # NoPacket =>
    /\ Len(packet.events) \in 0..MaxEvents
    /\ Len(packet.source) = Len(packet.events)
    /\ \A i \in 1..Len(packet.source) : SameEvent(packet.events[i], packet.source[i])

\* The same for an event in memory, whose blobs are behind pointers.
SameUnpacked(event, original) ==
  /\ event.event_type = OnWire(original.event_type)
  /\ event.event_type # Null
  /\ event.data_content_type = original.data_content_type
  /\ event.metadata_content_type = original.metadata_content_type
  /\ event.data.bytes = original.data
  /\ event.data.block[2] = "data"
  /\ event.metadata.bytes = original.metadata

ObjectAsWritten(o) ==
  /\ o.serial \in 1..MaxSerial
  /\ Len(o.events) \in 0..MaxEvents
  /\ Len(o.source) = Len(o.events)
  /\ \A i \in 1..Len(o.source) : SameUnpacked(o.events[i], o.source[i])

ObjectsCounted == IsFiniteSet(objects) /\ Cardinality(objects) <= MaxObjects

CallersBlocks == UNION {BlocksOf(o.serial, Len(o.events)) : o \in objects}

RefusedBlocks == UNION {PackBlocks(r.serial, r.events) : r \in refused}

\* A block is one of a struct the caller has or one that a call which returned 0
\* has left; no two structs share one.
BlocksAccounted ==
  /\ live = CallersBlocks \cup RefusedBlocks
  /\ \A o, p \in objects : o.serial = p.serial => o = p
  /\ \A r \in refused : r.serial \in 1..MaxSerial

WriteInv ==
  /\ PacketAsWritten
  /\ \A o \in objects : ObjectAsWritten(o)
  /\ ObjectsCounted
  /\ BlocksAccounted

-----------------------------------------------------------------------------
(* The events.                                                             *)

\* A batch is a sequence of at most MaxEvents events.
LEMMA BatchSequence ==
  ASSUME NEW events, NEW batch \in Batches(events)
  PROVE  /\ Len(batch) \in 0..MaxEvents
         /\ \A i \in 1..Len(batch) : batch[i] \in events
<1>1. PICK n \in 0..MaxEvents : batch \in [1..n -> events]
  BY DEF Batches
<1>2. n \in Nat
  BY WriteBoundsAssumption
<1>3. Len(batch) = n
  BY <1>1, <1>2
<1> QED
  BY <1>1, <1>3

\* What es_pack_write_events makes of an event the application filled in.
LEMMA PackedEvent ==
  ASSUME NEW types, NEW data, NEW metadata, NEW event \in Events(types, data, metadata)
  PROVE  SameEvent(EventOnWire(event), event)
<1>1. Empty # Null
  BY DEF Empty, Null
<1> QED
  BY <1>1 DEF Events, EventOnWire, SameEvent, OnWire

\* An event a peer sends has a type.
LEMMA PeerEvent ==
  ASSUME NEW data, NEW metadata,
         NEW event \in Events(EventTypes \cup {Empty}, data, metadata)
  PROVE  SameEvent(event, event)
<1>1. event.event_type \in EventTypes \cup {Empty}
  BY DEF Events
<1>2. Null \notin EventTypes \cup {Empty}
  BY EventConstantsAssumption DEF Empty, Null
<1> QED
  BY <1>1, <1>2 DEF SameEvent, OnWire

\* es_unpack_write_events assigns every field but the id.
LEMMA UnpackedEvent ==
  ASSUME NEW event, NEW original, SameEvent(event, original),
         NEW serial, NEW i, NEW id
  PROVE  SameUnpacked(UnpackEvent(event, serial, i, id), original)
BY DEF SameEvent, SameUnpacked, UnpackEvent, IntoMessage, NullPointer

-----------------------------------------------------------------------------
(* The heap.                                                               *)

TemporaryFields == {"packed array", "packed event"}

MessageFields == {"message", "data", "metadata"}

\* Whose a block is can be told from its serial number and its field.
LEMMA BlockFields ==
  ASSUME NEW serial, NEW n
  PROVE  /\ \A b \in PackBlocks(serial, n) : b[1] = serial /\ b[2] \in TemporaryFields
         /\ \A b \in BlocksOf(serial, n) : /\ b[1] = serial
                                           /\ b[2] \notin TemporaryFields
                                           /\ b[2] \notin MessageFields
         /\ \A b \in MessageBlocks(serial, n) : b[1] = serial /\ b[2] \in MessageFields
         /\ <<serial, "struct", 0>> \in BlocksOf(serial, n)
         /\ FreedByPack(serial, n) = PackBlocks(serial, n)
<1>1. ASSUME NEW b \in PackBlocks(serial, n)
      PROVE  b[1] = serial /\ b[2] \in TemporaryFields
  <2>1. CASE b = <<serial, "packed array", 0>>
    BY <2>1 DEF TemporaryFields
  <2>2. ASSUME NEW i, b = <<serial, "packed event", i>>
        PROVE  b[1] = serial /\ b[2] \in TemporaryFields
    BY <2>2 DEF TemporaryFields
  <2> QED
    BY <2>1, <2>2 DEF PackBlocks
<1>2. ASSUME NEW b \in BlocksOf(serial, n)
      PROVE  b[1] = serial /\ b[2] \notin TemporaryFields /\ b[2] \notin MessageFields
  <2>1. ASSUME NEW field \in {"struct", "event_stream_id", "events", "event",
                              "event_type"},
               NEW i, b = <<serial, field, i>>
        PROVE  /\ b[1] = serial
               /\ b[2] \notin TemporaryFields
               /\ b[2] \notin MessageFields
    BY <2>1 DEF TemporaryFields, MessageFields
  <2> QED
    BY <2>1 DEF BlocksOf
<1>3. \A b \in MessageBlocks(serial, n) : b[1] = serial /\ b[2] \in MessageFields
  BY DEF MessageBlocks, MessageFields
<1>4. <<serial, "struct", 0>> \in BlocksOf(serial, n)
  BY DEF BlocksOf
<1>5. FreedByPack(serial, n) = PackBlocks(serial, n)
  BY DEF FreedByPack, PackBlocks
<1> QED
  BY <1>1, <1>2, <1>3, <1>4, <1>5

\* A number no block has is the number of no struct.
LEMMA SerialUnused ==
  ASSUME BlocksAccounted, NEW serial, \A b \in live : b[1] # serial,
         NEW o \in objects
  PROVE  o.serial # serial
<1>1. <<o.serial, "struct", 0>> \in BlocksOf(o.serial, Len(o.events))
  BY BlockFields
<1>2. <<o.serial, "struct", 0>> \in live
  BY <1>1 DEF BlocksAccounted, CallersBlocks
<1> QED
  BY <1>2

\* destroy_write_events frees all the blocks of a struct, since each of its
\* events has a type.
LEMMA FreedIsAll ==
  ASSUME NEW o, ObjectAsWritten(o)
  PROVE  FreedBy(o) = BlocksOf(o.serial, Len(o.events))
<1> DEFINE n == Len(o.events)
<1>1. \A i \in 1..n : o.events[i].event_type # Null
  BY DEF ObjectAsWritten, SameUnpacked
<1>2. {j \in 1..n : o.events[j].event_type # Null} = 1..n
  BY <1>1
<1>3. {<<o.serial, field, 0>> : field \in {"struct", "event_stream_id", "events"}}
        = {<<o.serial, "struct", 0>>, <<o.serial, "event_stream_id", 0>>,
           <<o.serial, "events", 0>>}
  OBVIOUS
<1> QED
  BY <1>2, <1>3 DEF FreedBy, BlocksOf

-----------------------------------------------------------------------------
(* Every step preserves the invariant.                                     *)

\* What is packed is what was written, and the copies are freed again: they had a
\* serial number of their own.
LEMMA PackWriteInv ==
  ASSUME WriteInv, NEW write \in Writes, NEW capacity, PackWrite(write, capacity)
  PROVE  WriteInv'
<1> DEFINE n == Len(write)
           serial == NextSerial(live)
           onWire == [i \in 1..n |-> EventOnWire(write[i])]
<1>1. /\ packet' = [events |-> onWire, source |-> write]
      /\ live' = (live \cup PackBlocks(serial, n)) \ FreedByPack(serial, n)
      /\ FreeSerials(live) # {}
      /\ UNCHANGED <<objects, refused>>
  BY DEF PackWrite
<1>2. /\ n \in 0..MaxEvents
      /\ \A i \in 1..n : SameEvent(EventOnWire(write[i]), write[i])
  BY BatchSequence, PackedEvent DEF Writes
<1>3. Len(onWire) = n
  BY <1>2
<1>4. PacketAsWritten'
  <2>1. packet'.events = onWire /\ packet'.source = write
    BY <1>1
  <2>2. \A i \in 1..n : onWire[i] = EventOnWire(write[i])
    OBVIOUS
  <2> HIDE DEF onWire
  <2> QED
    BY <1>2, <1>3, <2>1, <2>2 DEF PacketAsWritten, SameEvent
<1>5. live' = live
  <2>1. \A b \in live : b[1] # serial
    BY <1>1, NextSerialFree
  <2> HIDE DEF serial
  <2>2. \A b \in PackBlocks(serial, n) : b[1] = serial
    BY BlockFields
  <2>3. live \cap PackBlocks(serial, n) = {}
    BY <2>1, <2>2
  <2>4. FreedByPack(serial, n) = PackBlocks(serial, n)
    BY BlockFields
  <2> QED
    BY <1>1, <2>3, <2>4
<1>6. BlocksAccounted' /\ ObjectsCounted'
  BY <1>1, <1>5 DEF WriteInv, BlocksAccounted, CallersBlocks, RefusedBlocks,
                    ObjectsCounted
<1> QED
  BY <1>1, <1>4, <1>6 DEF WriteInv, ObjectAsWritten, SameUnpacked

\* A call that returns 0 leaves its copies, and nothing else.
LEMMA PackTooLargeInv ==
  ASSUME WriteInv, NEW write, NEW capacity, PackTooLarge(write, capacity)
  PROVE  WriteInv'
<1> DEFINE n == Len(write)
           serial == NextSerial(live)
           new == [serial |-> serial, events |-> n]
<1>1. /\ live' = live \cup PackBlocks(serial, n)
      /\ refused' = refused \cup {new}
      /\ FreeSerials(live) # {}
      /\ UNCHANGED <<packet, objects>>
  BY DEF PackTooLarge
<1>2. serial \in 1..MaxSerial
  BY <1>1, NextSerialFree
<1>3. new.serial = serial /\ new.events = n
  OBVIOUS
<1> HIDE DEF new, serial, n
<1>4. RefusedBlocks' = RefusedBlocks \cup PackBlocks(serial, n)
  BY <1>1, <1>3 DEF RefusedBlocks
<1>5. CallersBlocks' = CallersBlocks
  BY <1>1 DEF CallersBlocks
<1>6. BlocksAccounted'
  BY <1>1, <1>2, <1>3, <1>4, <1>5 DEF WriteInv, BlocksAccounted
<1>7. PacketAsWritten' /\ ObjectsCounted'
  BY <1>1 DEF WriteInv, PacketAsWritten, ObjectsCounted, SameEvent
<1> QED
  BY <1>1, <1>6, <1>7 DEF WriteInv, ObjectAsWritten, SameUnpacked

\* The buffer is filled by the peer, or given up.
LEMMA BufferInv ==
  ASSUME WriteInv,
         (\E write \in PeerWrites : ReceiveWrite(write)) \/ ReleaseWrite
           \/ UNCHANGED writeVars
  PROVE  WriteInv'
<1>1. UNCHANGED <<objects, live, refused>>
  BY DEF ReceiveWrite, ReleaseWrite, writeVars
<1>2. ASSUME NEW write \in PeerWrites, ReceiveWrite(write)
      PROVE  PacketAsWritten'
  <2>1. packet' = [events |-> write, source |-> write]
    BY <1>2 DEF ReceiveWrite
  <2>2. /\ Len(write) \in 0..MaxEvents
        /\ \A i \in 1..Len(write) : SameEvent(write[i], write[i])
    BY BatchSequence, PeerEvent DEF PeerWrites
  <2>3. packet'.events = write /\ packet'.source = write
    BY <2>1
  <2> QED
    BY <2>2, <2>3 DEF PacketAsWritten, SameEvent
<1>3. ASSUME ReleaseWrite PROVE PacketAsWritten'
  BY <1>3 DEF ReleaseWrite, PacketAsWritten
<1>4. ASSUME UNCHANGED packet PROVE PacketAsWritten'
  BY <1>4 DEF WriteInv, PacketAsWritten, SameEvent
<1>5. PacketAsWritten'
  BY <1>2, <1>3, <1>4 DEF writeVars
<1>6. BlocksAccounted' /\ ObjectsCounted'
  BY <1>1 DEF WriteInv, BlocksAccounted, CallersBlocks, RefusedBlocks, ObjectsCounted
<1> QED
  BY <1>1, <1>5, <1>6 DEF WriteInv, ObjectAsWritten, SameUnpacked

\* A struct unpacked has the events of the packet and blocks of its own, and of
\* the protobuf-c message nothing is left.
LEMMA UnpackWriteInv ==
  ASSUME WriteInv, UnpackWrite
  PROVE  WriteInv'
<1> DEFINE serial == NextSerial(live)
           n == Len(packet.events)
<1>1. PICK ids \in [1..n -> EventIds \cup {Stray}] :
        objects' = objects \cup
          {[serial |-> serial, source |-> packet.source,
            events |-> [i \in 1..n |->
                          UnpackEvent(packet.events[i], serial, i, ids[i])]]}
  BY DEF UnpackWrite
<1> DEFINE events == [i \in 1..n |-> UnpackEvent(packet.events[i], serial, i, ids[i])]
           new == [serial |-> serial, source |-> packet.source, events |-> events]
<1>2. /\ objects' = objects \cup {new}
      /\ live' = (live \cup MessageBlocks(serial, n) \cup BlocksOf(serial, n))
                    \ MessageBlocks(serial, n)
      /\ packet # NoPacket /\ FreeSerials(live) # {}
      /\ Cardinality(objects) < MaxObjects
      /\ UNCHANGED <<packet, refused>>
  BY <1>1 DEF UnpackWrite
<1>3. /\ n \in 0..MaxEvents /\ Len(packet.source) = n
      /\ \A i \in 1..Len(packet.source) :
           SameEvent(packet.events[i], packet.source[i])
  BY <1>2 DEF WriteInv, PacketAsWritten
<1>4. serial \in 1..MaxSerial /\ \A b \in live : b[1] # serial
  BY <1>2, NextSerialFree
<1>5. /\ Len(events) = n
      /\ \A i \in 1..n : SameUnpacked(events[i], packet.source[i])
  <2>1. Len(events) = n
    BY <1>3
  <2>2. ASSUME NEW i \in 1..n
        PROVE  SameUnpacked(events[i], packet.source[i])
    <3>1. SameUnpacked(UnpackEvent(packet.events[i], serial, i, ids[i]),
                       packet.source[i])
      BY <1>3, UnpackedEvent
    <3> QED
      BY <3>1
  <2> QED
    BY <2>1, <2>2
<1>6. new.serial = serial /\ new.source = packet.source /\ new.events = events
  OBVIOUS
<1> HIDE DEF new, events, serial, n
<1>7. ObjectAsWritten(new)
  BY <1>3, <1>4, <1>5, <1>6 DEF ObjectAsWritten
<1>8. (\A o \in objects : ObjectAsWritten(o))'
  BY <1>2, <1>7 DEF WriteInv, ObjectAsWritten, SameUnpacked
<1>9. live' = live \cup BlocksOf(serial, n)
  <2>1. \A b \in MessageBlocks(serial, n) : b[1] = serial /\ b[2] \in MessageFields
    BY BlockFields
  <2>2. \A b \in BlocksOf(serial, n) : b[2] \notin MessageFields
    BY BlockFields
  <2>3. MessageBlocks(serial, n) \cap (live \cup BlocksOf(serial, n)) = {}
    BY <1>4, <2>1, <2>2
  <2> QED
    BY <1>2, <2>3
<1>10. BlocksAccounted'
  <2>1. CallersBlocks' = CallersBlocks \cup BlocksOf(serial, n)
    <3>1. BlocksOf(new.serial, Len(new.events)) = BlocksOf(serial, n)
      BY <1>5, <1>6
    <3> QED
      BY <1>2, <3>1 DEF CallersBlocks
  <2>2. RefusedBlocks' = RefusedBlocks
    BY <1>2 DEF RefusedBlocks
  <2>3. \A o \in objects : o.serial # new.serial
    BY <1>4, <1>6, SerialUnused DEF WriteInv
  <2>4. \A o, p \in objects' : o.serial = p.serial => o = p
    BY <1>2, <2>3 DEF WriteInv, BlocksAccounted
  <2> QED
    BY <1>2, <1>9, <2>1, <2>2, <2>4 DEF WriteInv, BlocksAccounted
<1>11. ObjectsCounted'
  <2>1. IsFiniteSet(objects) /\ Cardinality(objects) \in Nat
    BY FS_CardinalityType DEF WriteInv, ObjectsCounted
  <2>2. /\ IsFiniteSet(objects \cup {new})
        /\ Cardinality(objects \cup {new}) = IF new \in objects THEN Cardinality(objects)
                                             ELSE Cardinality(objects) + 1
    BY <2>1, FS_AddElement
  <2> QED
    BY <1>2, <2>1, <2>2, WriteBoundsAssumption DEF ObjectsCounted
<1>12. PacketAsWritten'
  BY <1>2 DEF WriteInv, PacketAsWritten, SameEvent
<1> QED
  BY <1>8, <1>10, <1>11, <1>12 DEF WriteInv

\* destroy_write_events frees the blocks of that struct, and of no other.
LEMMA DestroyWriteInv ==
  ASSUME WriteInv, NEW object \in objects, DestroyWrite(object)
  PROVE  WriteInv'
<1>1. /\ objects' = objects \ {object}
      /\ live' = live \ BlocksOf(object.serial, Len(object.events))
      /\ UNCHANGED <<packet, refused>>
  BY FreedIsAll DEF DestroyWrite, WriteInv
<1> DEFINE Own == BlocksOf(object.serial, Len(object.events))
<1>2. CallersBlocks = CallersBlocks' \cup Own
  <2>1. objects = objects' \cup {object}
    BY <1>1
  <2> QED
    BY <2>1 DEF CallersBlocks
<1>3. CallersBlocks' \cap Own = {}
  <2>1. ASSUME NEW o \in objects'
        PROVE  BlocksOf(o.serial, Len(o.events)) \cap Own = {}
    <3>1. o.serial # object.serial
      BY <1>1 DEF WriteInv, BlocksAccounted
    <3>2. /\ \A b \in BlocksOf(o.serial, Len(o.events)) : b[1] = o.serial
          /\ \A b \in Own : b[1] = object.serial
      BY BlockFields
    <3> QED
      BY <3>1, <3>2
  <2> QED
    BY <2>1 DEF CallersBlocks
<1>4. RefusedBlocks \cap Own = {}
  <2>1. ASSUME NEW r \in refused
        PROVE  PackBlocks(r.serial, r.events) \cap Own = {}
    <3>1. /\ \A b \in PackBlocks(r.serial, r.events) : b[2] \in TemporaryFields
          /\ \A b \in Own : b[2] \notin TemporaryFields
      BY BlockFields
    <3> QED
      BY <3>1
  <2> QED
    BY <2>1 DEF RefusedBlocks
<1>5. RefusedBlocks' = RefusedBlocks
  BY <1>1 DEF RefusedBlocks
<1>6. BlocksAccounted'
  <2>1. live' = CallersBlocks' \cup RefusedBlocks'
    <3> HIDE DEF Own
    <3>1. live' = live \ Own
      BY <1>1 DEF Own
    <3>2. live = CallersBlocks \cup RefusedBlocks
      BY DEF WriteInv, BlocksAccounted
    <3> QED
      BY <1>2, <1>3, <1>4, <1>5, <3>1, <3>2
  <2> QED
    BY <1>1, <2>1 DEF WriteInv, BlocksAccounted
<1>7. ObjectsCounted'
  <2>1. /\ IsFiniteSet(objects') /\ Cardinality(objects') <= Cardinality(objects)
        /\ IsFiniteSet(objects) /\ Cardinality(objects) <= MaxObjects
    BY <1>1, FS_Subset DEF WriteInv, ObjectsCounted
  <2>2. Cardinality(objects) \in Nat /\ Cardinality(objects') \in Nat
    BY <2>1, FS_CardinalityType
  <2> QED
    BY <2>1, <2>2, WriteBoundsAssumption DEF ObjectsCounted
<1>8. PacketAsWritten'
  BY <1>1 DEF WriteInv, PacketAsWritten, SameEvent
<1> QED
  BY <1>1, <1>6, <1>7, <1>8 DEF WriteInv, ObjectAsWritten, SameUnpacked

LEMMA WriteNextInv ==
  ASSUME WriteInv, [WriteNext]_writeVars
  PROVE  WriteInv'
<1>1. ASSUME NEW write \in Writes, NEW capacity \in Capacities,
             PackWrite(write, capacity) \/ PackTooLarge(write, capacity)
      PROVE  WriteInv'
  BY <1>1, PackWriteInv, PackTooLargeInv
<1>2. CASE (\E write \in PeerWrites : ReceiveWrite(write)) \/ ReleaseWrite
             \/ UNCHANGED writeVars
  BY <1>2, BufferInv
<1>3. CASE UnpackWrite
  BY <1>3, UnpackWriteInv
<1>4. ASSUME NEW object \in objects, DestroyWrite(object)
      PROVE  WriteInv'
  BY <1>4, DestroyWriteInv
<1> QED
  BY <1>1, <1>2, <1>3, <1>4 DEF WriteNext

LEMMA WriteInitInv ==
  ASSUME WriteInit
  PROVE  WriteInv
<1>1. packet = NoPacket /\ objects = {} /\ live = {} /\ refused = {}
  BY DEF WriteInit
<1>2. ObjectsCounted
  BY <1>1, FS_EmptySet, WriteBoundsAssumption DEF ObjectsCounted
<1>3. BlocksAccounted
  BY <1>1 DEF BlocksAccounted, CallersBlocks, RefusedBlocks
<1> QED
  BY <1>1, <1>2, <1>3 DEF WriteInv, PacketAsWritten

-----------------------------------------------------------------------------
(* The theorems.                                                           *)

\* The inductive invariant holds in every reachable state.
THEOREM WriteInvariance == WriteSpec => []WriteInv
<1>1. WriteInit => WriteInv
  BY WriteInitInv
<1>2. WriteInv /\ [WriteNext]_writeVars => WriteInv'
  BY WriteNextInv
<1> QED
  BY <1>1, <1>2, PTL DEF WriteSpec

\* The events es_unpack_write_events returns are those that were packed, or that
\* the peer sent, in order and with their own types, content types and blobs.
THEOREM EventsAlwaysUnpackedAsPacked == WriteSpec => []EventsUnpackedAsPacked
<1>1. WriteInv => EventsUnpackedAsPacked
  BY DEF WriteInv, ObjectAsWritten, SameUnpacked, EventsUnpackedAsPacked
<1> QED
  BY <1>1, WriteInvariance, PTL

\* The field of a block says whether a struct or a refused call has it, and its
\* serial number which.
LEMMA OwnersOfBlocks ==
  /\ \A b \in CallersBlocks : /\ b[2] \notin TemporaryFields
                              /\ \E o \in objects : b[1] = o.serial
  /\ \A b \in RefusedBlocks : /\ b[2] \in TemporaryFields
                              /\ \E r \in refused : b[1] = r.serial
<1>1. ASSUME NEW b \in CallersBlocks
      PROVE  b[2] \notin TemporaryFields /\ \E o \in objects : b[1] = o.serial
  <2>1. PICK o \in objects : b \in BlocksOf(o.serial, Len(o.events))
    BY DEF CallersBlocks
  <2>2. b[1] = o.serial /\ b[2] \notin TemporaryFields
    BY <2>1, BlockFields
  <2> QED
    BY <2>2
<1>2. ASSUME NEW b \in RefusedBlocks
      PROVE  b[2] \in TemporaryFields /\ \E r \in refused : b[1] = r.serial
  <2>1. PICK r \in refused : b \in PackBlocks(r.serial, r.events)
    BY DEF RefusedBlocks
  <2>2. b[1] = r.serial /\ b[2] \in TemporaryFields
    BY <2>1, BlockFields
  <2> QED
    BY <2>2
<1> QED
  BY <1>1, <1>2

\* The temporary blocks are those of the calls that returned 0.
LEMMA TemporaryIsRefused ==
  ASSUME BlocksAccounted
  PROVE  Temporary = RefusedBlocks /\ live \ Temporary = CallersBlocks
<1>1. live = CallersBlocks \cup RefusedBlocks
  BY DEF BlocksAccounted
<1>2. \A b \in CallersBlocks : b[2] \notin TemporaryFields
  BY OwnersOfBlocks
<1>3. \A b \in RefusedBlocks : b[2] \in TemporaryFields
  BY OwnersOfBlocks
<1>4. Temporary = {b \in live : b[2] \in TemporaryFields}
  BY DEF Temporary, TemporaryFields
<1> QED
  BY <1>1, <1>2, <1>3, <1>4

\* Every block es_unpack_write_events has allocated belongs to one struct the
\* caller still has, and destroy_write_events frees it with that struct.
THEOREM UnpackedBlocksAlwaysCallers == WriteSpec => []UnpackedBlocksAreCallers
<1>1. WriteInv => UnpackedBlocksAreCallers
  BY TemporaryIsRefused DEF WriteInv, UnpackedBlocksAreCallers, CallersBlocks
<1> QED
  BY <1>1, WriteInvariance, PTL

\* Every call of es_pack_write_events that returns 0 leaves the array and all the
\* copies it made, and no other call leaves any.
THEOREM OnlyRefusedPacksEverLeak == WriteSpec => []OnlyRefusedPacksLeak
<1>1. WriteInv => OnlyRefusedPacksLeak
  BY TemporaryIsRefused DEF WriteInv, OnlyRefusedPacksLeak, RefusedBlocks
<1> QED
  BY <1>1, WriteInvariance, PTL

\* The opposite of DataReadable, for every event: its data is in a block that
\* es_unpack_write_events freed before it returned.
DataFreed ==
  \A o \in objects : \A i \in 1..Len(o.events) : o.events[i].data.block \notin live

\* No event es_unpack_write_events ever returns has data the caller can read,
\* whatever the heap looked like and whatever is allocated in it later.
THEOREM DataAlwaysFreed == WriteSpec => []DataFreed
<1>1. WriteInv => DataFreed
  <2>1. SUFFICES ASSUME WriteInv,
                        NEW o \in objects, NEW i \in 1..Len(o.events)
                 PROVE  o.events[i].data.block \notin live
    BY DEF DataFreed
  <2>2. o.events[i].data.block[2] = "data"
    BY <2>1 DEF WriteInv, ObjectAsWritten, SameUnpacked
  <2>3. \A b \in CallersBlocks : b[2] # "data"
    <3>1. ASSUME NEW p \in objects, NEW b \in BlocksOf(p.serial, Len(p.events))
          PROVE  b[2] # "data"
      <4>1. b[2] \notin MessageFields
        BY <3>1, BlockFields
      <4> QED
        BY <4>1 DEF MessageFields
    <3> QED
      BY <3>1 DEF CallersBlocks
  <2>4. \A b \in RefusedBlocks : b[2] # "data"
    BY OwnersOfBlocks DEF TemporaryFields
  <2> QED
    BY <2>1, <2>2, <2>3, <2>4 DEF WriteInv, BlocksAccounted
<1> QED
  BY <1>1, WriteInvariance, PTL

\* Packets, structs and blocks keep to their bounds.
THEOREM WriteTypeCorrect == WriteSpec => []WriteTypeOK
<1>1. WriteInv => WriteTypeOK
  <2>1. SUFFICES ASSUME WriteInv PROVE WriteTypeOK
    OBVIOUS
  <2>2. \A b \in CallersBlocks : b[1] \in 1..MaxSerial
    BY <2>1, OwnersOfBlocks DEF WriteInv, ObjectAsWritten
  <2>3. \A b \in RefusedBlocks : b[1] \in 1..MaxSerial
    BY <2>1, OwnersOfBlocks DEF WriteInv, BlocksAccounted
  <2>4. \A b \in live : b[1] \in 1..MaxSerial
    BY <2>1, <2>2, <2>3 DEF WriteInv, BlocksAccounted
  <2>5. packet # NoPacket => Len(packet.events) = Len(packet.source)
    BY <2>1 DEF WriteInv, PacketAsWritten
  <2>6. \A o \in objects : Len(o.events) = Len(o.source) /\ Len(o.events) <= MaxEvents
    BY <2>1, WriteBoundsAssumption DEF WriteInv, ObjectAsWritten
  <2> QED
    BY <2>1, <2>4, <2>5, <2>6 DEF WriteInv, ObjectsCounted, WriteTypeOK
<1> QED
  BY <1>1, WriteInvariance, PTL
=============================================================================
