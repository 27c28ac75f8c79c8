---------------------------- MODULE WriteEvents ----------------------------
(***************************************************************************)
(* es_pack_write_events, es_unpack_write_events and destroy_write_events   *)
(* of src/es_proto_helper.c: the one message with a repeated field, whose  *)
(* events are allocated one by one on both sides.                          *)
(*                                                                         *)
(* The fields of the message itself, which are assigned both ways as in    *)
(* EsProtoHelper, are left out; the block of event_stream_id is not.       *)
(***************************************************************************)
EXTENDS Naturals, Sequences, FiniteSets, Heap

CONSTANTS
  EventIds,             \* the ids the application and the peer give to events
  EventTypes,           \* their types
  DataContentTypes,     \* the values of data_content_type
  MetadataContentTypes, \* the values of metadata_content_type
  Blobs,                \* the contents of data and metadata, none of them empty
  MaxEvents,            \* bound: the events of one write
  Capacities,           \* the lengths of es_pack_write_events' buffer, in events
  MaxObjects            \* bound: structs the caller holds at a time

\* A NULL pointer, the empty string or blob, and what malloc leaves in a block.
Null == "null"
Empty == "empty"
Stray == "stray"

ASSUME EventConstantsAssumption ==
  \A special \in {Null, Empty, Stray} :
    special \notin EventIds \cup EventTypes \cup Blobs
ASSUME WriteBoundsAssumption ==
  MaxEvents \in Nat /\ MaxObjects \in Nat /\ Capacities \subseteq Nat

VARIABLES
  packet,  \* the bytes in the caller's buffer, or NoPacket
  objects, \* the structs WriteEvents unpacked and not destroyed
  live,    \* the heap blocks allocated and not freed
  refused  \* the calls of es_pack_write_events that returned 0: their serial
           \* number and how many events they had copied

writeVars == <<packet, objects, live, refused>>

NoPacket == [source |-> Null]

\* Events in memory or on the wire whose types, data and metadata are in the
\* given sets.
Events(types, data, metadata) ==
  [event_id : EventIds, event_type : types,
   data_content_type : DataContentTypes,
   metadata_content_type : MetadataContentTypes,
   data : data, metadata : metadata]

Batches(events) == UNION {[1..n -> events] : n \in 0..MaxEvents}

\* The events of a struct WriteEvents as the application fills it in: a type and
\* metadata may be NULL; es_pack_write_events asserts that there is data.
Writes == Batches(Events(EventTypes \cup {Null}, Blobs, Blobs \cup {Null}))

\* What the peer may put in a packet: Null for data or metadata it leaves out.
PeerWrites == Batches(Events(EventTypes \cup {Empty}, Blobs \cup {Empty, Null},
                             Blobs \cup {Empty, Null}))

WriteInit ==
  /\ packet = NoPacket
  /\ objects = {}
  /\ live = {}
  /\ refused = {}

-----------------------------------------------------------------------------
(* Packing.                                                                *)

\* protobuf-c packs a required string that is NULL as "".
OnWire(string) == IF string = Null THEN Empty ELSE string

\* Mutant of EventOnWire: the flag that says there is metadata is not set.
EventWithoutMetadata(event) ==
  [event EXCEPT !.event_id = Empty, !.event_type = OnWire(@), !.metadata = Null]

\* The NewEvent es_pack_write_events fills in from its __INIT: it sets every
\* field but event_id, which is packed as the empty bytes of __INIT.
EventOnWire(event) ==
  [event EXCEPT !.event_id = Empty, !.event_type = OnWire(@)]

\* get_packed_size, in events.
PackedSize(write) == Len(write)

\* The pointer array and the copy of each of n events that es_pack_write_events
\* makes.
PackBlocks(serial, n) ==
  {<<serial, "packed array", 0>>}
    \cup {<<serial, "packed event", i>> : i \in 1..n}

\* Mutant of FreedByPack: the events are freed, and the array forgotten.
FreedByPackButArray(serial, n) == {<<serial, "packed event", i>> : i \in 1..n}

\* What es_pack_write_events frees again once it has packed the message.
FreedByPack(serial, n) ==
  {<<serial, "packed event", i>> : i \in 1..n} \cup {<<serial, "packed array", 0>>}

\* Mutant of PackWrite: the loop over the events stops one short.
PackWriteUncounted(write, capacity) ==
  /\ packet = NoPacket
  /\ PackedSize(write) <= capacity
  /\ write # <<>>
  /\ packet' = [events |-> [i \in 1..(Len(write) - 1) |-> EventOnWire(write[i])],
                source |-> write]
  /\ UNCHANGED <<objects, live, refused>>

\* The message fits: it is packed and the temporary blocks are freed.
PackWrite(write, capacity) ==
  /\ packet = NoPacket
  /\ PackedSize(write) <= capacity
  /\ FreeSerials(live) # {}
  /\ packet' = [events |-> [i \in 1..Len(write) |-> EventOnWire(write[i])],
                source |-> write]
  /\ LET serial == NextSerial(live)
     IN live' = (live \cup PackBlocks(serial, Len(write)))
                  \ FreedByPack(serial, Len(write))
  /\ UNCHANGED <<objects, refused>>

\* It does not: es_pack_write_events returns 0 before the loop that frees them.
PackTooLarge(write, capacity) ==
  /\ packet = NoPacket
  /\ PackedSize(write) > capacity
  /\ FreeSerials(live) # {}
  /\ LET serial == NextSerial(live)
     IN /\ live' = live \cup PackBlocks(serial, Len(write))
        /\ refused' = refused \cup {[serial |-> serial, events |-> Len(write)]}
  /\ UNCHANGED <<packet, objects>>

\* The peer's message arrives in the buffer instead.
ReceiveWrite(write) ==
  /\ packet = NoPacket
  /\ packet' = [events |-> write, source |-> write]
  /\ UNCHANGED <<objects, live, refused>>

\* The caller is done with its buffer.
ReleaseWrite ==
  /\ packet # NoPacket
  /\ packet' = NoPacket
  /\ UNCHANGED <<objects, live, refused>>

-----------------------------------------------------------------------------
(* Unpacking.                                                              *)

\* The blocks es_unpack_write_events allocates for its caller.
BlocksOf(serial, n) ==
  {<<serial, "struct", 0>>, <<serial, "event_stream_id", 0>>,
   <<serial, "events", 0>>}
    \cup {<<serial, "event", i>> : i \in 1..n}
    \cup {<<serial, "event_type", i>> : i \in 1..n}

\* The blocks of the protobuf-c message the unpack wrapper returns, which
\* free_unpacked frees before es_unpack_write_events returns.
MessageBlocks(serial, n) ==
  {<<serial, "message", 0>>}
    \cup {<<serial, "data", i>> : i \in 1..n} \cup {<<serial, "metadata", i>> : i \in 1..n}

\* protobuf_c_message_unpack returns NULL for a packet that lacks a required field;
\* data stands for all of those an event has.
CanUnpack(events) == \A i \in 1..Len(events) : events[i].data # Null

\* A pointer into that message.
IntoMessage(serial, field, i, blob) ==
  [block |-> <<serial, field, i>>, bytes |-> blob]
NullPointer == [block |-> <<>>, bytes |-> Null]

\* Mutant of UnpackEvent: the content types change places.
UnpackEventSwapped(event, serial, i, id) ==
  [event_id |-> id,
   event_type |-> event.event_type,
   data_content_type |-> event.metadata_content_type,
   metadata_content_type |-> event.data_content_type,
   data |-> IntoMessage(serial, "data", i, event.data),
   metadata |-> IF event.metadata = Null THEN NullPointer
                ELSE IntoMessage(serial, "metadata", i, event.metadata)]

\* The struct NewEvent of the i-th event.  Its event_id is not assigned: id is
\* what the block happened to hold.
UnpackEvent(event, serial, i, id) ==
  [event_id |-> id,
   event_type |-> event.event_type,
   data_content_type |-> event.data_content_type,
   metadata_content_type |-> event.metadata_content_type,
   data |-> IntoMessage(serial, "data", i, event.data),
   metadata |-> IF event.metadata = Null THEN NullPointer
                ELSE IntoMessage(serial, "metadata", i, event.metadata)]

\* es_unpack_write_events: event_type is copied, data and metadata are not.  Of a
\* packet that cannot be unpacked it makes nothing: it returns NULL.
UnpackWrite ==
  /\ packet # NoPacket
  /\ CanUnpack(packet.events)
  /\ Cardinality(objects) < MaxObjects
  /\ FreeSerials(live) # {}
  /\ LET serial == NextSerial(live)
         n == Len(packet.events)
     IN /\ \E ids \in [1..n -> EventIds \cup {Stray}] :
             objects' = objects \cup
               {[serial |-> serial, source |-> packet.source,
                 events |-> [i \in 1..n |->
                               UnpackEvent(packet.events[i], serial, i, ids[i])]]}
        /\ live' = (live \cup MessageBlocks(serial, n) \cup BlocksOf(serial, n))
                      \ MessageBlocks(serial, n)
  /\ UNCHANGED <<packet, refused>>

\* Mutant of FreedBy: the events are freed, and their types forgotten.
FreedWithoutTypes(object) ==
  {<<object.serial, field, 0>> : field \in {"struct", "event_stream_id", "events"}}
    \cup {<<object.serial, "event", i>> : i \in 1..Len(object.events)}

\* What destroy_write_events frees: the stream name, each event and its type if
\* it has one, the array, the struct.
FreedBy(object) ==
  {<<object.serial, field, 0>> : field \in {"struct", "event_stream_id", "events"}}
    \cup {<<object.serial, "event", i>> : i \in 1..Len(object.events)}
    \cup {<<object.serial, "event_type", i>> :
            i \in {j \in 1..Len(object.events) : object.events[j].event_type # Null}}

\* destroy_write_events.
DestroyWrite(object) ==
  /\ objects' = objects \ {object}
  /\ live' = live \ FreedBy(object)
  /\ UNCHANGED <<packet, refused>>

WriteNext ==
  \/ \E write \in Writes, capacity \in Capacities :
       PackWrite(write, capacity) \/ PackTooLarge(write, capacity)
  \/ \E write \in PeerWrites : ReceiveWrite(write)
  \/ ReleaseWrite
  \/ UnpackWrite
  \/ \E object \in objects : DestroyWrite(object)

WriteSpec == WriteInit /\ [][WriteNext]_writeVars
-----------------------------------------------------------------------------
(* Properties.                                                             *)

\* Blocks have a serial number in range, and structs and packets the number of
\* events they may have.
WriteTypeOK ==
  /\ packet # NoPacket => Len(packet.events) = Len(packet.source)
  /\ Cardinality(objects) <= MaxObjects
  /\ \A b \in live : b[1] \in 1..MaxSerial
  /\ \A o \in objects : Len(o.events) = Len(o.source) /\ Len(o.events) <= MaxEvents

\* The events es_unpack_write_events returns are the events that were packed, or
\* that the peer sent: as many, in that order, each with its own type, content
\* types and blobs (the ids, and whether the blobs can still be read, are
\* EventIdsSurvive and DataReadable).
EventsUnpackedAsPacked ==
  \A o \in objects : \A i \in 1..Len(o.source) :
    /\ o.events[i].event_type = OnWire(o.source[i].event_type)
    /\ o.events[i].data_content_type = o.source[i].data_content_type
    /\ o.events[i].metadata_content_type = o.source[i].metadata_content_type
    /\ o.events[i].data.bytes = o.source[i].data
    /\ o.events[i].metadata.bytes = o.source[i].metadata

Temporary == {b \in live : b[2] \in {"packed array", "packed event"}}

\* Whatever is packed, unpacked and destroyed in whatever order, the blocks
\* es_unpack_write_events allocated are those of the structs the caller still
\* has, so that destroy_write_events frees each exactly once, and nothing of the
\* protobuf-c message is left.
UnpackedBlocksAreCallers ==
  live \ Temporary = UNION {BlocksOf(o.serial, Len(o.events)) : o \in objects}

\* Of the copies es_pack_write_events makes, none outlives a call that packs the
\* message; all of them outlive each call that returned 0, also when the caller
\* tries again with a larger buffer.
OnlyRefusedPacksLeak ==
  Temporary = UNION {PackBlocks(r.serial, r.events) : r \in refused}

\* An event keeps its id from the application that wrote it to the application
\* that reads it.
EventIdsSurvive ==
  \A o \in objects : \A i \in 1..Len(o.source) :
    o.events[i].event_id = o.source[i].event_id

\* The data of an event the caller has been given can be read until the caller
\* destroys the struct.
DataReadable ==
  \A o \in objects : \A i \in 1..Len(o.events) : o.events[i].data.block \in live
=============================================================================
