--------------------------- MODULE EsProtoHelper ---------------------------
(***************************************************************************)
(* The es_pack_*, es_unpack_* and destroy_* functions of                   *)
(* src/es_proto_helper.c for the messages without repeated fields, and the *)
(* heap they share with their caller.  Each trio of functions is described *)
(* by what it does with each field (Code); one action models each kind of  *)
(* function.                                                               *)
(***************************************************************************)
EXTENDS Naturals, EsProto, Heap

CONSTANTS
  Messages,      \* the messages exchanged
  NullStrings,   \* the string fields the application may leave NULL
  OmittedByPeer, \* the fields the peer may leave out, required ones included
  Capacities,    \* the buffer lengths passed to es_pack_*, in fields
  MaxObjects     \* bound: structs the caller holds at a time

ASSUME MessagesAssumption == Messages \subseteq DOMAIN Schema
ASSUME CapacitiesAssumption == Capacities \subseteq Nat
ASSUME MaxObjectsAssumption == MaxObjects \in Nat

VARIABLES
  packet,  \* the bytes in the caller's buffer, or NoPacket
  objects, \* the structs es_unpack_* returned that have not been destroyed
  live,    \* the heap blocks allocated and not freed
  status,  \* "running", or "crashed" once a NULL pointer was dereferenced
  told     \* what the result of the last es_pack_* says: "packed", or "failed"
           \* for 0; "nothing" once the caller has gone on

protoVars == <<packet, objects, live, status, told>>

NoPacket == [message |-> "none"]
NoSource == [none |-> Null]

-----------------------------------------------------------------------------
(* What the code does with a field.                                        *)

\* Assigned from one struct to the other, both ways.
Copied == [pack |-> "copy", unpack |-> "copy", destroy |-> "nothing"]

\* Mutant of Marked: the flag protobuf-c looks at is not set.
Unmarked == Copied

\* Assigned, and its has_ flag set before packing.
Marked == [pack |-> "mark", unpack |-> "copy", destroy |-> "nothing"]

\* The pointer is passed to protobuf-c, the string it returns is strdup'ed, and
\* destroy frees the copy.
Owned == [pack |-> "copy", unpack |-> "strdup", destroy |-> "free"]

\* As Owned, but destroy does not free the copy.
Kept == [Owned EXCEPT !.destroy = "nothing"]

DeleteStreamCode ==
  [event_stream_id |-> Owned, expected_version |-> Copied,
   require_master |-> Copied, hard_delete |-> Marked]

DeleteStreamCompletedCode ==
  [result |-> Copied, message |-> Owned,
   prepare_position |-> Marked, commit_position |-> Marked]

SubscribeToStreamCode == [event_stream_id |-> Owned, resolve_link_tos |-> Copied]

SubscriptionConfirmationCode ==
  [last_commit_position |-> Copied, last_event_number |-> Marked]

SubscriptionDroppedCode == [reason |-> Marked]

ScavengeDatabaseCode == [f \in {} |-> Copied]

ScavengeDatabaseCompletedCode ==
  [result |-> Copied, error |-> Kept,
   total_time_ms |-> Copied, total_space_saved |-> Copied]

WriteEventsCompletedCode ==
  [result |-> Copied, message |-> Owned,
   first_event_number |-> Copied, last_event_number |-> Copied,
   prepare_position |-> Marked, commit_position |-> Marked]

ReadStreamEventsCode ==
  [event_stream_id |-> Owned, from_event_number |-> Copied,
   max_count |-> Copied, resolve_link_tos |-> Copied, require_master |-> Copied]

ReadEventCode ==
  [event_stream_id |-> Owned, event_number |-> Copied,
   resolve_link_tos |-> Copied, require_master |-> Copied]

ReadAllEventsCode ==
  [commit_position |-> Copied, prepare_position |-> Copied,
   max_count |-> Copied, resolve_link_tos |-> Copied, require_master |-> Copied]

\* Mutant of DeletePersistentSubscriptionCode: destroy forgets the group name.
DeletePersistentSubscriptionForgets ==
  [subscription_group_name |-> Kept, event_stream_id |-> Owned]

DeletePersistentSubscriptionCode ==
  [subscription_group_name |-> Owned, event_stream_id |-> Owned]

TransactionCommitCode == [transaction_id |-> Copied, require_master |-> Copied]

Code ==
  [DeleteStream |-> DeleteStreamCode,
   DeleteStreamCompleted |-> DeleteStreamCompletedCode,
   SubscribeToStream |-> SubscribeToStreamCode,
   SubscriptionConfirmation |-> SubscriptionConfirmationCode,
   SubscriptionDropped |-> SubscriptionDroppedCode,
   ScavengeDatabase |-> ScavengeDatabaseCode,
   ScavengeDatabaseCompleted |-> ScavengeDatabaseCompletedCode,
   WriteEventsCompleted |-> WriteEventsCompletedCode,
   ReadStreamEvents |-> ReadStreamEventsCode,
   ReadEvent |-> ReadEventCode,
   ReadAllEvents |-> ReadAllEventsCode,
   DeletePersistentSubscription |-> DeletePersistentSubscriptionCode,
   TransactionCommit |-> TransactionCommitCode]

-----------------------------------------------------------------------------

ProtoInit ==
  /\ packet = NoPacket
  /\ objects = {}
  /\ live = {}
  /\ status = "running"
  /\ told = "nothing"

\* read_event and read_stream_events assert that they have a stream name; the
\* other functions take NULL.
Packable(m, values) ==
  m \in {"ReadEvent", "ReadStreamEvents"} => values.event_stream_id # Null

\* The protobuf-c message es_pack_* fills in on its stack, from __INIT.
ToMessage(m, values) ==
  [f \in FieldsOf(m) |->
     [has |-> Code[m][f].pack = "mark",
      value |-> IF Code[m][f].pack = "skip" THEN Unset(Schema[m][f])
                ELSE values[f]]]

\* es_pack_<m> of a message that fits returns the size it had.
Pack(m, values, capacity) ==
  /\ status = "running"
  /\ packet = NoPacket
  /\ Packable(m, values)
  /\ LET size == PackedSize(m, ToMessage(m, values))
     IN /\ size <= capacity
        /\ told' = IF size = 0 THEN "failed" ELSE "packed"
  /\ packet' = [message |-> m, source |-> values,
                fields |-> PackMessage(m, ToMessage(m, values))]
  /\ UNCHANGED <<objects, live, status>>

\* One that does not fit: 0, and the buffer is left alone.
PackTooLarge(m, values, capacity) ==
  /\ status = "running"
  /\ packet = NoPacket
  /\ Packable(m, values)
  /\ PackedSize(m, ToMessage(m, values)) > capacity
  /\ told' = "failed"
  /\ UNCHANGED <<packet, objects, live, status>>

\* The peer's message of that kind arrives instead, with any value in any field
\* it does not leave out.
Receive(m, fields) ==
  /\ status = "running"
  /\ packet = NoPacket
  /\ packet' = [message |-> m, source |-> NoSource, fields |-> fields]
  /\ told' = "nothing"
  /\ UNCHANGED <<objects, live, status>>

\* The caller is done with the bytes in its buffer.
Release ==
  /\ status = "running"
  /\ packet # NoPacket
  /\ packet' = NoPacket
  /\ told' = "nothing"
  /\ UNCHANGED <<objects, live, status>>

\* The heap blocks of a struct and of the strings it owns.  The blocks of one
\* call share a serial number that no live block has.
BlocksOf(m, serial) ==
  {<<serial, "struct">>} \cup {<<serial, f>> : f \in {g \in FieldsOf(m) :
                                                       Code[m][g].unpack = "strdup"}}

\* es_unpack_<m> of a packet that has the required fields; the protobuf-c
\* message lives and dies in the call, unless strdup(NULL) ends the process.  Of
\* any other packet it makes nothing: it returns NULL.
Unpack ==
  /\ status = "running"
  /\ packet # NoPacket
  /\ CanUnpack(packet.message, packet.fields)
  /\ Cardinality(objects) < MaxObjects
  /\ FreeSerials(live) # {}
  /\ LET m == packet.message
         message == UnpackMessage(m, packet.fields)
         serial == NextSerial(live)
     IN \/ /\ \E f \in Strings(m) : message[f].value = Null
           /\ status' = "crashed"
           /\ UNCHANGED <<objects, live>>
        \/ /\ \A f \in Strings(m) : message[f].value # Null
           /\ objects' = objects \cup
                {[message |-> m, serial |-> serial, source |-> packet.source,
                  values |-> [f \in FieldsOf(m) |-> message[f].value]]}
           /\ live' = live \cup BlocksOf(m, serial)
           /\ UNCHANGED status
  /\ UNCHANGED <<packet, told>>

\* destroy_<m>: the strings that are not NULL, then the struct.
Destroy(object) ==
  /\ status = "running"
  /\ objects' = objects \ {object}
  /\ live' = live \ ({<<object.serial, "struct">>}
                       \cup {<<object.serial, f>> :
                               f \in {g \in FieldsOf(object.message) :
                                        Code[object.message][g].destroy = "free"}})
  /\ UNCHANGED <<packet, status, told>>

\* The structs the application may pack, and the packets the peer may send.
Structs(m) ==
  {values \in [FieldsOf(m) -> ScalarValues \cup StringValues \cup {Null}] :
     \A f \in FieldsOf(m) :
       /\ values[f] \in StructValues(Schema[m][f])
       /\ values[f] = Null => f \in NullStrings}

Packets(m) ==
  UNION {{fields \in [present -> ScalarValues \cup StringValues] :
            \A f \in present : fields[f] \in WireValues(Schema[m][f])} :
         present \in {s \in SUBSET FieldsOf(m) :
                        FieldsOf(m) \ s \subseteq OmittedByPeer}}

ProtoNext ==
  \/ \E m \in Messages :
       \/ \E values \in Structs(m), capacity \in Capacities :
            Pack(m, values, capacity) \/ PackTooLarge(m, values, capacity)
       \/ \E fields \in Packets(m) : Receive(m, fields)
  \/ Release
  \/ Unpack
  \/ \E object \in objects : Destroy(object)

ProtoSpec == ProtoInit /\ [][ProtoNext]_protoVars

-----------------------------------------------------------------------------
(* Properties.                                                             *)

\* Packets, structs and blocks are what they should be.
ProtoTypeOK ==
  /\ packet # NoPacket =>
       /\ packet.message \in Messages
       /\ DOMAIN packet.fields \subseteq FieldsOf(packet.message)
       /\ packet.source # NoSource => CanUnpack(packet.message, packet.fields)
  /\ \A o \in objects : /\ o.serial \in 1..MaxSerial
                        /\ DOMAIN o.values = FieldsOf(o.message)
  /\ status \in {"running", "crashed"}
  /\ told \in {"nothing", "packed", "failed"}

\* What a struct es_unpack_* returns says of the struct that was packed: every
\* field has the value it had; a required string that was NULL is "".
UnpackedAsPacked ==
  \A o \in objects : o.source # NoSource =>
    \A f \in FieldsOf(o.message) :
      \/ o.values[f] = o.source[f]
      \/ f \in Strings(o.message) /\ o.source[f] = Null /\ o.values[f] = Empty

CallersBlocks == UNION {BlocksOf(o.message, o.serial) : o \in objects}

\* Between calls the heap holds the structs the caller has and their strings and
\* nothing else: no destroy function forgets a block or frees another struct's.
HeapIsCallers == live = CallersBlocks

\* All that any destroy function forgets is the error text of a
\* ScavengeDatabaseCompleted; none frees a block of a struct the caller has.
OnlyErrorTextsLeak ==
  /\ CallersBlocks \subseteq live
  /\ \A b \in live \ CallersBlocks : b[2] = "error"

\* A caller that takes a result of 0 for a failure, the only sign of one there
\* is, is right: nothing is in its buffer.  ScavengeDatabase, which has no fields,
\* is always packed in 0 bytes.
ZeroMeansNotPacked ==
  told = "failed" => packet = NoPacket \/ packet.message = "ScavengeDatabase"

\* The only packets that end the process are those without an optional text:
\* one that lacks a required field, or any other optional one, does no harm.
CrashesOnlyOnAbsentText ==
  status = "crashed" =>
    /\ packet # NoPacket
    /\ \E f \in Strings(packet.message) \ Required(packet.message) :
         f \notin DOMAIN packet.fields

\* No message the peer may send, and none the client packs itself, makes
\* es_unpack_* dereference a NULL pointer.
NeverCrashes == status = "running"
=============================================================================
