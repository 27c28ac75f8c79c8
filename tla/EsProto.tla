------------------------------ MODULE EsProto ------------------------------
(***************************************************************************)
(* The wire schemas src/es_proto.c declares (generated from                *)
(* proto/ClientMessageDtos.proto) for the messages es_proto_helper.c       *)
(* packs and unpacks, and what protobuf-c, a library, does with them.      *)
(*                                                                         *)
(* A message in memory maps each field to [has, value]; has is the         *)
(* has_<field> flag, which only an optional scalar has.  A packet maps     *)
(* each field present on the wire to its value.                            *)
(***************************************************************************)
EXTENDS FiniteSets

CONSTANTS
  ScalarValues, \* the values of numbers, booleans and enumerations
  StringValues  \* the strings the application and the peer use, without Null

\* The number 0, a NULL char pointer, and the string of length 0.
Zero == "0"
Null == "null"
Empty == "empty"

ASSUME ScalarValuesAssumption == Zero \in ScalarValues
ASSUME StringValuesAssumption == StringValues # {} /\ Null \notin StringValues

RequiredScalar == [label |-> "required", type |-> "scalar"]
OptionalScalar == [label |-> "optional", type |-> "scalar"]
RequiredString == [label |-> "required", type |-> "string"]
OptionalString == [label |-> "optional", type |-> "string"]

DeleteStreamFields ==
  [event_stream_id |-> RequiredString, expected_version |-> RequiredScalar,
   require_master |-> RequiredScalar, hard_delete |-> OptionalScalar]

DeleteStreamCompletedFields ==
  [result |-> RequiredScalar, message |-> OptionalString,
   prepare_position |-> OptionalScalar, commit_position |-> OptionalScalar]

SubscribeToStreamFields ==
  [event_stream_id |-> RequiredString, resolve_link_tos |-> RequiredScalar]

SubscriptionConfirmationFields ==
  [last_commit_position |-> RequiredScalar, last_event_number |-> OptionalScalar]

SubscriptionDroppedFields == [reason |-> OptionalScalar]

ScavengeDatabaseFields == [f \in {} |-> RequiredScalar]

ScavengeDatabaseCompletedFields ==
  [result |-> RequiredScalar, error |-> OptionalString,
   total_time_ms |-> RequiredScalar, total_space_saved |-> RequiredScalar]

WriteEventsCompletedFields ==
  [result |-> RequiredScalar, message |-> OptionalString,
   first_event_number |-> RequiredScalar, last_event_number |-> RequiredScalar,
   prepare_position |-> OptionalScalar, commit_position |-> OptionalScalar]

ReadStreamEventsFields ==
  [event_stream_id |-> RequiredString, from_event_number |-> RequiredScalar,
   max_count |-> RequiredScalar, resolve_link_tos |-> RequiredScalar,
   require_master |-> RequiredScalar]

ReadEventFields ==
  [event_stream_id |-> RequiredString, event_number |-> RequiredScalar,
   resolve_link_tos |-> RequiredScalar, require_master |-> RequiredScalar]

ReadAllEventsFields ==
  [commit_position |-> RequiredScalar, prepare_position |-> RequiredScalar,
   max_count |-> RequiredScalar, resolve_link_tos |-> RequiredScalar,
   require_master |-> RequiredScalar]

DeletePersistentSubscriptionFields ==
  [subscription_group_name |-> RequiredString, event_stream_id |-> RequiredString]

TransactionCommitFields ==
  [transaction_id |-> RequiredScalar, require_master |-> RequiredScalar]

-----------------------------------------------------------------------------
(* The functions es_proto.c has for each message call protobuf-c with the  *)
(* descriptor of that message: unpack hands it over; the others assert     *)
(* that the message, whose __INIT has put it there, has it.                *)

WriteFunctions ==
  [WriteEventsCompleted |-> WriteEventsCompletedFields,
   DeleteStream |-> DeleteStreamFields,
   DeleteStreamCompleted |-> DeleteStreamCompletedFields]

TransactionFunctions == [TransactionCommit |-> TransactionCommitFields]

ReadEventFunctions == [ReadEvent |-> ReadEventFields]

ReadStreamFunctions == [ReadStreamEvents |-> ReadStreamEventsFields]

ReadAllFunctions == [ReadAllEvents |-> ReadAllEventsFields]

PersistentFunctions ==
  [DeletePersistentSubscription |-> DeletePersistentSubscriptionFields]

SubscribeFunctions ==
  [SubscribeToStream |-> SubscribeToStreamFields,
   SubscriptionConfirmation |-> SubscriptionConfirmationFields]

DroppedFunctions == [SubscriptionDropped |-> SubscriptionDroppedFields]

ScavengeFunctions ==
  [ScavengeDatabase |-> ScavengeDatabaseFields,
   ScavengeDatabaseCompleted |-> ScavengeDatabaseCompletedFields]

\* The descriptor a message is packed and unpacked by.
Schema ==
  [DeleteStream |-> WriteFunctions.DeleteStream,
   DeleteStreamCompleted |-> WriteFunctions.DeleteStreamCompleted,
   SubscribeToStream |-> SubscribeFunctions.SubscribeToStream,
   SubscriptionConfirmation |-> SubscribeFunctions.SubscriptionConfirmation,
   SubscriptionDropped |-> DroppedFunctions.SubscriptionDropped,
   ScavengeDatabase |-> ScavengeFunctions.ScavengeDatabase,
   ScavengeDatabaseCompleted |-> ScavengeFunctions.ScavengeDatabaseCompleted,
   WriteEventsCompleted |-> WriteFunctions.WriteEventsCompleted,
   ReadStreamEvents |-> ReadStreamFunctions.ReadStreamEvents,
   ReadEvent |-> ReadEventFunctions.ReadEvent,
   ReadAllEvents |-> ReadAllFunctions.ReadAllEvents,
   DeletePersistentSubscription |-> PersistentFunctions.DeletePersistentSubscription,
   TransactionCommit |-> TransactionFunctions.TransactionCommit]

FieldsOf(m) == DOMAIN Schema[m]
Required(m) == {f \in FieldsOf(m) : Schema[m][f].label = "required"}
Strings(m) == {f \in FieldsOf(m) : Schema[m][f].type = "string"}

-----------------------------------------------------------------------------
(* The library, as es_proto.c uses it.                                     *)

\* A field nobody has set: 0 or NULL.
Unset(field) == IF field.type = "string" THEN Null ELSE Zero

\* Mutant of Present: a required string that is NULL is left out.
PresentIfSet(m, message) ==
  {f \in Required(m) : message[f].value # Null}
    \cup {f \in Strings(m) : message[f].value # Null}
    \cup {f \in FieldsOf(m) \ Strings(m) : message[f].has}

\* The fields a packet has: every required one, an optional string that is not
\* NULL, an optional scalar whose flag is set.
Present(m, message) ==
  Required(m)
    \cup {f \in Strings(m) : message[f].value # Null}
    \cup {f \in FieldsOf(m) \ Strings(m) : message[f].has}

\* protobuf_c_message_pack: a required string that is NULL is packed as "".
PackMessage(m, message) ==
  [f \in Present(m, message) |->
     IF f \in Strings(m) /\ message[f].value = Null THEN Empty
     ELSE message[f].value]

\* protobuf_c_message_get_packed_size, in fields; it is 0 for no field only.
PackedSize(m, message) == Cardinality(Present(m, message))

\* Mutant of CanUnpack: the caller does not look at what unpack returned.
CanAlwaysUnpack(m, packet) == TRUE

\* protobuf_c_message_unpack returns NULL for a packet that lacks a required
\* field.
CanUnpack(m, packet) == Required(m) \subseteq DOMAIN packet

UnpackMessage(m, packet) ==
  [f \in FieldsOf(m) |->
     IF f \in DOMAIN packet THEN [has |-> TRUE, value |-> packet[f]]
     ELSE [has |-> FALSE, value |-> Unset(Schema[m][f])]]

\* The values a field may have in a C struct, and in a packet of the peer's.
StructValues(field) ==
  IF field.type = "string" THEN StringValues \cup {Null} ELSE ScalarValues
WireValues(field) ==
  IF field.type = "string" THEN StringValues ELSE ScalarValues
=============================================================================
