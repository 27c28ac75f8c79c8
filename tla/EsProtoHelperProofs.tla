------------------------ MODULE EsProtoHelperProofs ------------------------
(***************************************************************************)
(* Theorems about EsProtoHelper for any values, any subset of the messages *)
(* and any number of structs alive.  All that is known of the messages is  *)
(* stated once, message by message, in the lemmas of the first section.    *)
(***************************************************************************)
EXTENDS EsProtoHelper, HeapProofs, FiniteSetTheorems

-----------------------------------------------------------------------------
(* What the code does with each field, against what the schema says of it. *)

\* What es_proto_helper.c does with a field is right for its label and type:
\* every field is packed, the has_ flag of an optional scalar is set, strings are
\* copied, and all copies but an error text are freed again.
FieldHandled(m, f) ==
  /\ Code[m][f].pack # "skip"
  /\ f \notin Strings(m) \cup Required(m) => Code[m][f].pack = "mark"
  /\ Code[m][f].unpack = "strdup" =>
       \/ Code[m][f].destroy = "free"
       \/ m = "ScavengeDatabaseCompleted" /\ f = "error"

\* A message other than ScavengeDatabase has a field the packed form never lacks.
HasSureField(m) ==
  \E f \in FieldsOf(m) : f \in Required(m) \/ f \notin Strings(m)

MessageHandled(m) ==
  /\ IsFiniteSet(FieldsOf(m))
  /\ \A f \in FieldsOf(m) : FieldHandled(m, f)
  /\ m # "ScavengeDatabase" => HasSureField(m)

\* Each field is treated in one of the four ways, and each way fits what it is
\* used for.
LEMMA ByTable ==
  ASSUME NEW m \in DOMAIN Schema, NEW code, NEW fields,
         Code[m] = code, Schema[m] = fields,
         IsFiniteSet(DOMAIN fields),
         \A f \in DOMAIN fields :
           \/ code[f] = Copied /\ fields[f].label = "required"
           \/ code[f] = Marked /\ fields[f].type = "scalar"
           \/ code[f] = Owned /\ fields[f].type = "string"
           \/ /\ code[f] = Kept /\ fields[f].type = "string"
              /\ m = "ScavengeDatabaseCompleted" /\ f = "error",
         \/ m = "ScavengeDatabase"
         \/ \E f \in DOMAIN fields : \/ fields[f].label = "required"
                                     \/ fields[f].type = "scalar"
  PROVE  MessageHandled(m)
<1>1. ASSUME NEW f \in FieldsOf(m) PROVE FieldHandled(m, f)
  BY <1>1 DEF FieldHandled, FieldsOf, Strings, Required, Copied, Marked, Owned, Kept
<1>2. m # "ScavengeDatabase" => HasSureField(m)
  BY DEF HasSureField, FieldsOf, Strings, Required
<1> QED
  BY <1>1, <1>2 DEF MessageHandled, FieldsOf

\* es_proto_helper.c handles every field of every message of EsProto, as
\* FieldHandled says.
LEMMA EveryMessageHandled ==
  ASSUME NEW m \in DOMAIN Schema
  PROVE  MessageHandled(m)
<1>1. CASE m = "DeleteStream"
  <2>1. IsFiniteSet({} \cup {"event_stream_id"} \cup {"expected_version"}
                      \cup {"require_master"} \cup {"hard_delete"})
    BY FS_EmptySet, FS_AddElement
  <2>2. IsFiniteSet(DOMAIN DeleteStreamFields)
    BY <2>1 DEF DeleteStreamFields
  <2>3. Schema[m] = DeleteStreamFields /\ Code[m] = DeleteStreamCode
    BY <1>1 DEF Schema, WriteFunctions, Code
  <2> QED
    BY <1>1, <2>2, <2>3, ByTable
       DEF DeleteStreamFields, DeleteStreamCode,
           RequiredScalar, OptionalScalar, RequiredString
<1>2. CASE m = "DeleteStreamCompleted"
  <2>1. IsFiniteSet({} \cup {"result"} \cup {"message"}
                      \cup {"prepare_position"} \cup {"commit_position"})
    BY FS_EmptySet, FS_AddElement
  <2>2. IsFiniteSet(DOMAIN DeleteStreamCompletedFields)
    BY <2>1 DEF DeleteStreamCompletedFields
  <2>3. Schema[m] = DeleteStreamCompletedFields /\ Code[m] = DeleteStreamCompletedCode
    BY <1>2 DEF Schema, WriteFunctions, Code
  <2> QED
    BY <1>2, <2>2, <2>3, ByTable
       DEF DeleteStreamCompletedFields, DeleteStreamCompletedCode,
           RequiredScalar, OptionalScalar, OptionalString
<1>3. CASE m = "SubscribeToStream"
  <2>1. IsFiniteSet({} \cup {"event_stream_id"} \cup {"resolve_link_tos"})
    BY FS_EmptySet, FS_AddElement
  <2>2. IsFiniteSet(DOMAIN SubscribeToStreamFields)
    BY <2>1 DEF SubscribeToStreamFields
  <2>3. Schema[m] = SubscribeToStreamFields /\ Code[m] = SubscribeToStreamCode
    BY <1>3 DEF Schema, SubscribeFunctions, Code
  <2> QED
    BY <1>3, <2>2, <2>3, ByTable
       DEF SubscribeToStreamFields, SubscribeToStreamCode,
           RequiredScalar, RequiredString
<1>4. CASE m = "SubscriptionConfirmation"
  <2>1. IsFiniteSet({} \cup {"last_commit_position"} \cup {"last_event_number"})
    BY FS_EmptySet, FS_AddElement
  <2>2. IsFiniteSet(DOMAIN SubscriptionConfirmationFields)
    BY <2>1 DEF SubscriptionConfirmationFields
  <2>3. Schema[m] = SubscriptionConfirmationFields /\ Code[m] = SubscriptionConfirmationCode
    BY <1>4 DEF Schema, SubscribeFunctions, Code
  <2> QED
    BY <1>4, <2>2, <2>3, ByTable
       DEF SubscriptionConfirmationFields, SubscriptionConfirmationCode,
           RequiredScalar, OptionalScalar
<1>5. CASE m = "SubscriptionDropped"
  <2>1. IsFiniteSet({} \cup {"reason"})
    BY FS_EmptySet, FS_AddElement
  <2>2. IsFiniteSet(DOMAIN SubscriptionDroppedFields)
    BY <2>1 DEF SubscriptionDroppedFields
  <2>3. Schema[m] = SubscriptionDroppedFields /\ Code[m] = SubscriptionDroppedCode
    BY <1>5 DEF Schema, DroppedFunctions, Code
  <2> QED
    BY <1>5, <2>2, <2>3, ByTable
       DEF SubscriptionDroppedFields, SubscriptionDroppedCode,
           OptionalScalar
<1>6. CASE m = "ScavengeDatabase"
  <2>1. DOMAIN ScavengeDatabaseFields = {}
    BY DEF ScavengeDatabaseFields
  <2>2. IsFiniteSet(DOMAIN ScavengeDatabaseFields)
    BY <2>1, FS_EmptySet
  <2>3. Schema[m] = ScavengeDatabaseFields /\ Code[m] = ScavengeDatabaseCode
    BY <1>6 DEF Schema, ScavengeFunctions, Code
  <2> QED
    BY <1>6, <2>2, <2>3, ByTable
       DEF ScavengeDatabaseFields, ScavengeDatabaseCode,
           RequiredScalar
<1>7. CASE m = "ScavengeDatabaseCompleted"
  <2>1. IsFiniteSet({} \cup {"result"} \cup {"error"} \cup {"total_time_ms"}
                      \cup {"total_space_saved"})
    BY FS_EmptySet, FS_AddElement
  <2>2. IsFiniteSet(DOMAIN ScavengeDatabaseCompletedFields)
    BY <2>1 DEF ScavengeDatabaseCompletedFields
  <2>3. Schema[m] = ScavengeDatabaseCompletedFields /\ Code[m] = ScavengeDatabaseCompletedCode
    BY <1>7 DEF Schema, ScavengeFunctions, Code
  <2> QED
    BY <1>7, <2>2, <2>3, ByTable
       DEF ScavengeDatabaseCompletedFields, ScavengeDatabaseCompletedCode,
           RequiredScalar, OptionalString
<1>8. CASE m = "WriteEventsCompleted"
  <2>1. IsFiniteSet({} \cup {"result"} \cup {"message"}
                      \cup {"first_event_number"} \cup {"last_event_number"}
                      \cup {"prepare_position"} \cup {"commit_position"})
    BY FS_EmptySet, FS_AddElement
  <2>2. IsFiniteSet(DOMAIN WriteEventsCompletedFields)
    BY <2>1 DEF WriteEventsCompletedFields
  <2>3. Schema[m] = WriteEventsCompletedFields /\ Code[m] = WriteEventsCompletedCode
    BY <1>8 DEF Schema, WriteFunctions, Code
  <2> QED
    BY <1>8, <2>2, <2>3, ByTable
       DEF WriteEventsCompletedFields, WriteEventsCompletedCode,
           RequiredScalar, OptionalScalar, OptionalString
<1>9. CASE m = "ReadStreamEvents"
  <2>1. IsFiniteSet({} \cup {"event_stream_id"} \cup {"from_event_number"}
                      \cup {"max_count"} \cup {"resolve_link_tos"}
                      \cup {"require_master"})
    BY FS_EmptySet, FS_AddElement
  <2>2. IsFiniteSet(DOMAIN ReadStreamEventsFields)
    BY <2>1 DEF ReadStreamEventsFields
  <2>3. Schema[m] = ReadStreamEventsFields /\ Code[m] = ReadStreamEventsCode
    BY <1>9 DEF Schema, ReadStreamFunctions, Code
  <2> QED
    BY <1>9, <2>2, <2>3, ByTable
       DEF ReadStreamEventsFields, ReadStreamEventsCode,
           RequiredScalar, RequiredString
<1>10. CASE m = "ReadEvent"
  <2>1. IsFiniteSet({} \cup {"event_stream_id"} \cup {"event_number"}
                      \cup {"resolve_link_tos"} \cup {"require_master"})
    BY FS_EmptySet, FS_AddElement
  <2>2. IsFiniteSet(DOMAIN ReadEventFields)
    BY <2>1 DEF ReadEventFields
  <2>3. Schema[m] = ReadEventFields /\ Code[m] = ReadEventCode
    BY <1>10 DEF Schema, ReadEventFunctions, Code
  <2> QED
    BY <1>10, <2>2, <2>3, ByTable
       DEF ReadEventFields, ReadEventCode,
           RequiredScalar, RequiredString
<1>11. CASE m = "ReadAllEvents"
  <2>1. IsFiniteSet({} \cup {"commit_position"} \cup {"prepare_position"}
                      \cup {"max_count"} \cup {"resolve_link_tos"}
                      \cup {"require_master"})
    BY FS_EmptySet, FS_AddElement
  <2>2. IsFiniteSet(DOMAIN ReadAllEventsFields)
    BY <2>1 DEF ReadAllEventsFields
  <2>3. Schema[m] = ReadAllEventsFields /\ Code[m] = ReadAllEventsCode
    BY <1>11 DEF Schema, ReadAllFunctions, Code
  <2> QED
    BY <1>11, <2>2, <2>3, ByTable
       DEF ReadAllEventsFields, ReadAllEventsCode,
           RequiredScalar
<1>12. CASE m = "DeletePersistentSubscription"
  <2>1. IsFiniteSet({} \cup {"subscription_group_name"}
                      \cup {"event_stream_id"})
    BY FS_EmptySet, FS_AddElement
  <2>2. IsFiniteSet(DOMAIN DeletePersistentSubscriptionFields)
    BY <2>1 DEF DeletePersistentSubscriptionFields
  <2>3. Schema[m] = DeletePersistentSubscriptionFields /\ Code[m] = DeletePersistentSubscriptionCode
    BY <1>12 DEF Schema, PersistentFunctions, Code
  <2> QED
    BY <1>12, <2>2, <2>3, ByTable
       DEF DeletePersistentSubscriptionFields, DeletePersistentSubscriptionCode,
           RequiredString
<1>13. CASE m = "TransactionCommit"
  <2>1. IsFiniteSet({} \cup {"transaction_id"} \cup {"require_master"})
    BY FS_EmptySet, FS_AddElement
  <2>2. IsFiniteSet(DOMAIN TransactionCommitFields)
    BY <2>1 DEF TransactionCommitFields
  <2>3. Schema[m] = TransactionCommitFields /\ Code[m] = TransactionCommitCode
    BY <1>13 DEF Schema, TransactionFunctions, Code
  <2> QED
    BY <1>13, <2>2, <2>3, ByTable
       DEF TransactionCommitFields, TransactionCommitCode,
           RequiredScalar
<1> QED
  BY <1>1, <1>2, <1>3, <1>4, <1>5, <1>6, <1>7,
     <1>8, <1>9, <1>10, <1>11, <1>12, <1>13 DEF Schema

-----------------------------------------------------------------------------
(* The inductive invariant.                                                *)

\* What was packed from a struct says what the struct did: all its fields but the
\* absent texts are there, with the values they had.
AsPacked(m, fields, source) ==
  /\ CanUnpack(m, fields)
  /\ FieldsOf(m) \ DOMAIN fields \subseteq Strings(m)
  /\ \A f \in DOMAIN fields :
       \/ fields[f] = source[f]
       \/ f \in Strings(m) /\ source[f] = Null /\ fields[f] = Empty

\* A packet has fields of its message only, and no NULL among its texts.
PacketOK(p) ==
  /\ p.message \in Messages
  /\ DOMAIN p.fields \subseteq FieldsOf(p.message)
  /\ \A f \in Strings(p.message) \cap DOMAIN p.fields : p.fields[f] # Null
  /\ p.source # NoSource => AsPacked(p.message, p.fields, p.source)

\* What UnpackedAsPacked says of one struct.
AsSource(o) ==
  o.source # NoSource =>
    \A f \in FieldsOf(o.message) :
      \/ o.values[f] = o.source[f]
      \/ f \in Strings(o.message) /\ o.source[f] = Null /\ o.values[f] = Empty

ObjectOK(o) ==
  /\ o.message \in Messages
  /\ o.serial \in 1..MaxSerial
  /\ DOMAIN o.values = FieldsOf(o.message)
  /\ AsSource(o)

\* No two structs share blocks, and a struct's blocks are alive.
HeapOK ==
  /\ \A o, p \in objects : o.serial = p.serial => o = p
  /\ OnlyErrorTextsLeak
  /\ "ScavengeDatabaseCompleted" \notin Messages => HeapIsCallers

\* Neither the application nor the peer leaves an optional text out.
TextsGiven ==
  \A m \in Messages :
    (Strings(m) \ Required(m)) \cap (NullStrings \cup OmittedByPeer) = {}

CrashOK ==
  /\ CrashesOnlyOnAbsentText
  /\ TextsGiven /\ packet # NoPacket =>
       Strings(packet.message) \ Required(packet.message) \subseteq DOMAIN packet.fields

ProtoInv ==
  /\ packet # NoPacket => PacketOK(packet)
  /\ \A o \in objects : ObjectOK(o)
  /\ HeapOK
  /\ CrashOK
  /\ ZeroMeansNotPacked
  /\ status \in {"running", "crashed"}
  /\ told \in {"nothing", "packed", "failed"}

-----------------------------------------------------------------------------
(* What protobuf-c makes of a struct.                                      *)

\* es_pack_* of a struct makes a packet that says what the struct does.
LEMMA PackedOK ==
  ASSUME NEW m \in Messages, NEW values \in Structs(m)
  PROVE  PacketOK([message |-> m, source |-> values,
                   fields |-> PackMessage(m, ToMessage(m, values))])
<1> DEFINE message == ToMessage(m, values)
           fields == PackMessage(m, message)
           p == [message |-> m, source |-> values, fields |-> fields]
<1>1. MessageHandled(m)
  BY EveryMessageHandled, MessagesAssumption
<1>2. \A f \in FieldsOf(m) : /\ message[f].value = values[f]
                             /\ message[f].has = (Code[m][f].pack = "mark")
  BY <1>1 DEF ToMessage, MessageHandled, FieldHandled
<1> HIDE DEF message
<1>3. /\ DOMAIN fields = Present(m, message)
      /\ \A f \in DOMAIN fields :
           fields[f] = IF f \in Strings(m) /\ message[f].value = Null THEN Empty
                       ELSE message[f].value
  BY DEF PackMessage
<1> HIDE DEF fields
<1>4. Required(m) \subseteq DOMAIN fields /\ DOMAIN fields \subseteq FieldsOf(m)
  BY <1>3 DEF Present, Required, Strings
<1>5. \A f \in DOMAIN fields :
        \/ fields[f] = values[f]
        \/ f \in Strings(m) /\ values[f] = Null /\ fields[f] = Empty
  BY <1>2, <1>3, <1>4
<1>6. FieldsOf(m) \ DOMAIN fields \subseteq Strings(m)
  BY <1>1, <1>2, <1>3 DEF Present, MessageHandled, FieldHandled
<1>7. \A f \in Strings(m) \cap DOMAIN fields : fields[f] # Null
  BY <1>3 DEF Empty, Null
<1>8. AsPacked(m, fields, values)
  BY <1>4, <1>5, <1>6 DEF AsPacked, CanUnpack
<1>9. p.message = m /\ p.source = values /\ p.fields = fields
  OBVIOUS
<1> HIDE DEF p
<1>10. PacketOK(p)
  BY <1>4, <1>7, <1>8, <1>9 DEF PacketOK
<1> QED
  BY <1>10 DEF p, fields, message

\* Only ScavengeDatabase is packed in 0 bytes.
LEMMA ZeroSize ==
  ASSUME NEW m \in Messages, NEW values \in Structs(m),
         PackedSize(m, ToMessage(m, values)) = 0
  PROVE  m = "ScavengeDatabase"
<1> DEFINE message == ToMessage(m, values)
<1>1. MessageHandled(m)
  BY EveryMessageHandled, MessagesAssumption
<1>2. \A f \in FieldsOf(m) : message[f].has = (Code[m][f].pack = "mark")
  BY DEF ToMessage
<1> HIDE DEF message
<1>3. Present(m, message) \subseteq FieldsOf(m)
  BY DEF Present, Required, Strings
<1>4. Present(m, message) = {}
  <2>1. IsFiniteSet(Present(m, message))
    BY <1>1, <1>3, FS_Subset DEF MessageHandled
  <2> QED
    BY <2>1, FS_EmptySet DEF PackedSize, message
<1>5. ~HasSureField(m)
  BY <1>1, <1>2, <1>4
     DEF HasSureField, Present, Required, MessageHandled, FieldHandled
<1> QED
  BY <1>1, <1>5 DEF MessageHandled

\* An optional text a struct has is in the packet made of it.
LEMMA TextsPacked ==
  ASSUME NEW m \in Messages, NEW values \in Structs(m), TextsGiven
  PROVE  Strings(m) \ Required(m) \subseteq DOMAIN PackMessage(m, ToMessage(m, values))
<1>1. MessageHandled(m)
  BY EveryMessageHandled, MessagesAssumption
<1>2. \A f \in FieldsOf(m) : ToMessage(m, values)[f].value = values[f]
  BY <1>1 DEF ToMessage, MessageHandled, FieldHandled
<1>3. \A f \in Strings(m) \ Required(m) : f \in FieldsOf(m) /\ values[f] # Null
  BY DEF Structs, TextsGiven, Strings
<1> QED
  BY <1>2, <1>3 DEF PackMessage, Present

\* The packets the peer may send.
LEMMA ReceivedOK ==
  ASSUME NEW m \in Messages, NEW fields \in Packets(m)
  PROVE  /\ PacketOK([message |-> m, source |-> NoSource, fields |-> fields])
         /\ TextsGiven => Strings(m) \ Required(m) \subseteq DOMAIN fields
<1>1. PICK present \in SUBSET FieldsOf(m) :
        /\ FieldsOf(m) \ present \subseteq OmittedByPeer
        /\ DOMAIN fields = present
        /\ \A f \in present : fields[f] \in WireValues(Schema[m][f])
  BY DEF Packets
<1>2. \A f \in Strings(m) \cap present : fields[f] # Null
  BY <1>1, StringValuesAssumption DEF Strings, WireValues
<1>3. TextsGiven => Strings(m) \ Required(m) \subseteq present
  BY <1>1 DEF TextsGiven, Strings
<1> QED
  BY <1>1, <1>2, <1>3 DEF PacketOK

\* What es_unpack_* makes of a packet says what the packet does, and so what the
\* struct it was packed from did.
LEMMA UnpackedOK ==
  ASSUME NEW p, PacketOK(p), CanUnpack(p.message, p.fields),
         NEW message, message = UnpackMessage(p.message, p.fields),
         \A f \in Strings(p.message) : message[f].value # Null,
         NEW serial \in 1..MaxSerial
  PROVE  ObjectOK([message |-> p.message, serial |-> serial, source |-> p.source,
                   values |-> [f \in FieldsOf(p.message) |-> message[f].value]])
<1> DEFINE m == p.message
           values == [f \in FieldsOf(m) |-> message[f].value]
           o == [message |-> m, serial |-> serial, source |-> p.source,
                 values |-> values]
<1>1. \A f \in FieldsOf(m) :
        message[f].value = IF f \in DOMAIN p.fields THEN p.fields[f]
                           ELSE Unset(Schema[m][f])
  BY DEF UnpackMessage
<1>2. Strings(m) \subseteq DOMAIN p.fields
  BY <1>1 DEF Unset, Strings
<1>3. ASSUME p.source # NoSource, NEW f \in FieldsOf(m)
      PROVE  \/ values[f] = p.source[f]
             \/ f \in Strings(m) /\ p.source[f] = Null /\ values[f] = Empty
  BY <1>1, <1>2, <1>3 DEF PacketOK, AsPacked
<1>4. /\ o.message = m /\ o.serial = serial /\ o.source = p.source
      /\ o.values = values /\ DOMAIN values = FieldsOf(m) /\ m \in Messages
  BY DEF PacketOK
<1> HIDE DEF o, values
<1>5. AsSource(o)
  BY <1>3, <1>4 DEF AsSource
<1>6. ObjectOK(o)
  BY <1>4, <1>5 DEF ObjectOK
<1> QED
  BY <1>6 DEF o, values

\* The packets es_unpack_* crashes on.
LEMMA CrashedOn ==
  ASSUME NEW p, PacketOK(p), CanUnpack(p.message, p.fields),
         NEW f \in Strings(p.message),
         UnpackMessage(p.message, p.fields)[f].value = Null
  PROVE  f \notin Required(p.message) /\ f \notin DOMAIN p.fields
BY DEF PacketOK, UnpackMessage, Strings, CanUnpack

-----------------------------------------------------------------------------
(* The heap.                                                               *)

\* The blocks of a struct are told apart by its serial number.
LEMMA BlockSerial ==
  ASSUME NEW m, NEW serial, NEW b \in BlocksOf(m, serial)
  PROVE  b[1] = serial
BY DEF BlocksOf

\* The blocks destroy_* frees.
Freed(o) ==
  {<<o.serial, "struct">>}
    \cup {<<o.serial, f>> : f \in {g \in FieldsOf(o.message) :
                                     Code[o.message][g].destroy = "free"}}

\* destroy_* frees no block of another struct, and of its own all but the error
\* text of a ScavengeDatabaseCompleted.
LEMMA FreedBlocks ==
  ASSUME NEW o, o.message \in Messages
  PROVE  /\ \A b \in Freed(o) : b[1] = o.serial
         /\ \A b \in BlocksOf(o.message, o.serial) \ Freed(o) :
              o.message = "ScavengeDatabaseCompleted" /\ b[2] = "error"
<1>1. MessageHandled(o.message)
  BY EveryMessageHandled, MessagesAssumption
<1>2. \A f \in FieldsOf(o.message) :
        Code[o.message][f].unpack = "strdup" =>
          \/ Code[o.message][f].destroy = "free"
          \/ o.message = "ScavengeDatabaseCompleted" /\ f = "error"
  BY <1>1 DEF MessageHandled, FieldHandled
<1> QED
  BY <1>2 DEF Freed, BlocksOf

\* A struct that is destroyed takes its own blocks with it.
LEMMA DestroyKeepsHeap ==
  ASSUME HeapOK, \A o \in objects : ObjectOK(o), NEW object \in objects,
         Destroy(object)
  PROVE  HeapOK'
<1>1. objects' = objects \ {object} /\ live' = live \ Freed(object)
  BY DEF Destroy, Freed
<1>2. object.message \in Messages
  BY DEF ObjectOK
<1>3. \A o \in objects' : o.serial # object.serial
  BY <1>1 DEF HeapOK
<1>4. CallersBlocks' \subseteq live'
  <2>1. ASSUME NEW o \in objects', NEW b \in BlocksOf(o.message, o.serial)
        PROVE  b \in live'
    <3>1. b \in live
      BY <1>1, <2>1 DEF HeapOK, OnlyErrorTextsLeak, CallersBlocks
    <3>2. b[1] = o.serial
      BY <2>1, BlockSerial
    <3> QED
      BY <1>1, <1>2, <1>3, <2>1, <3>1, <3>2, FreedBlocks
  <2> QED
    BY <2>1 DEF CallersBlocks
<1>5. ASSUME NEW b \in live' \ CallersBlocks'
      PROVE  /\ b[2] = "error"
             /\ \/ "ScavengeDatabaseCompleted" \in Messages
                \/ b \in live \ CallersBlocks
  <2>1. CASE b \in live \ CallersBlocks
    BY <2>1 DEF HeapOK, OnlyErrorTextsLeak
  <2>2. CASE b \in CallersBlocks
    <3>1. b \in BlocksOf(object.message, object.serial)
      BY <1>1, <1>5, <2>2 DEF CallersBlocks
    <3> QED
      BY <1>1, <1>2, <1>5, <3>1, FreedBlocks
  <2> QED
    BY <1>1, <1>5, <2>1, <2>2
<1> QED
  BY <1>1, <1>4, <1>5 DEF HeapOK, OnlyErrorTextsLeak, HeapIsCallers

\* A new struct gets blocks nobody has.
LEMMA UnpackKeepsHeap ==
  ASSUME HeapOK, FreeSerials(live) # {}, NEW new,
         new.serial = NextSerial(live),
         objects' = objects \cup {new},
         live' = live \cup BlocksOf(new.message, new.serial)
  PROVE  HeapOK'
<1>1. \A b \in live : b[1] # new.serial
  BY NextSerialFree
<1>2. \A o \in objects : o.serial # new.serial
  <2>1. \A o \in objects : <<o.serial, "struct">> \in live
    BY DEF HeapOK, OnlyErrorTextsLeak, CallersBlocks, BlocksOf
  <2> QED
    BY <1>1, <2>1
<1>3. CallersBlocks' = CallersBlocks \cup BlocksOf(new.message, new.serial)
  BY DEF CallersBlocks
<1>4. \A o, p \in objects' : o.serial = p.serial => o = p
  BY <1>2 DEF HeapOK
<1> QED
  BY <1>3, <1>4 DEF HeapOK, OnlyErrorTextsLeak, HeapIsCallers

-----------------------------------------------------------------------------
(* The invariant holds.                                                    *)

\* es_pack_* of a message that fits.
LEMMA PackStep ==
  ASSUME ProtoInv, NEW m \in Messages, NEW values \in Structs(m),
         NEW capacity \in Capacities, Pack(m, values, capacity)
  PROVE  ProtoInv'
<1> DEFINE fields == PackMessage(m, ToMessage(m, values))
           p == [message |-> m, source |-> values, fields |-> fields]
<1>1. /\ packet' = p /\ UNCHANGED <<objects, live, status>> /\ status = "running"
      /\ told' = IF PackedSize(m, ToMessage(m, values)) = 0 THEN "failed" ELSE "packed"
  BY DEF Pack
<1>2. PacketOK(p)
  BY PackedOK
<1>3. p.message = m /\ p.fields = fields
  OBVIOUS
<1>4. TextsGiven => Strings(m) \ Required(m) \subseteq DOMAIN fields
  BY TextsPacked
<1>5. told' = "failed" => m = "ScavengeDatabase"
  BY <1>1, ZeroSize
<1> HIDE DEF p, fields
<1>6. HeapOK'
  BY <1>1 DEF ProtoInv, HeapOK, OnlyErrorTextsLeak, HeapIsCallers, CallersBlocks
<1>7. CrashOK' /\ ZeroMeansNotPacked'
  BY <1>1, <1>3, <1>4, <1>5
     DEF CrashOK, CrashesOnlyOnAbsentText, ZeroMeansNotPacked
<1> QED
  BY <1>1, <1>2, <1>6, <1>7 DEF ProtoInv

\* A packet of the peer's.
LEMMA ReceiveStep ==
  ASSUME ProtoInv, NEW m \in Messages, NEW fields \in Packets(m), Receive(m, fields)
  PROVE  ProtoInv'
<1> DEFINE p == [message |-> m, source |-> NoSource, fields |-> fields]
<1>1. /\ packet' = p /\ UNCHANGED <<objects, live, status>> /\ status = "running"
      /\ told' = "nothing"
  BY DEF Receive
<1>2. PacketOK(p) /\ (TextsGiven => Strings(m) \ Required(m) \subseteq DOMAIN fields)
  BY ReceivedOK
<1>3. p.message = m /\ p.fields = fields
  OBVIOUS
<1> HIDE DEF p
<1>4. HeapOK'
  BY <1>1 DEF ProtoInv, HeapOK, OnlyErrorTextsLeak, HeapIsCallers, CallersBlocks
<1>5. CrashOK' /\ ZeroMeansNotPacked'
  BY <1>1, <1>2, <1>3 DEF CrashOK, CrashesOnlyOnAbsentText, ZeroMeansNotPacked
<1> QED
  BY <1>1, <1>2, <1>4, <1>5 DEF ProtoInv

\* es_unpack_*, which makes a struct or ends the process.
LEMMA UnpackStep ==
  ASSUME ProtoInv, Unpack
  PROVE  ProtoInv'
<1> DEFINE m == packet.message
           message == UnpackMessage(m, packet.fields)
           serial == NextSerial(live)
           new == [message |-> m, serial |-> serial, source |-> packet.source,
                   values |-> [f \in FieldsOf(m) |-> message[f].value]]
<1>1. /\ packet # NoPacket /\ status = "running" /\ UNCHANGED <<packet, told>>
      /\ CanUnpack(m, packet.fields) /\ FreeSerials(live) # {}
      /\ PacketOK(packet)
  BY DEF Unpack, ProtoInv
<1>2. ZeroMeansNotPacked'
  BY <1>1 DEF ProtoInv, ZeroMeansNotPacked
<1>3. CASE /\ \E f \in Strings(m) : message[f].value = Null
           /\ status' = "crashed"
           /\ UNCHANGED <<objects, live>>
  <2>1. HeapOK'
    BY <1>3 DEF ProtoInv, HeapOK, OnlyErrorTextsLeak, HeapIsCallers, CallersBlocks
  <2>2. \E f \in Strings(m) \ Required(m) : f \notin DOMAIN packet.fields
    BY <1>1, <1>3, CrashedOn
  <2>3. CrashOK'
    BY <1>1, <2>2 DEF ProtoInv, CrashOK, CrashesOnlyOnAbsentText
  <2> QED
    BY <1>1, <1>2, <1>3, <2>1, <2>3 DEF ProtoInv
<1>4. CASE /\ \A f \in Strings(m) : message[f].value # Null
           /\ objects' = objects \cup {new}
           /\ live' = live \cup BlocksOf(m, serial)
           /\ UNCHANGED status
  <2>1. serial \in 1..MaxSerial
    BY <1>1, NextSerialFree
  <2>2. ObjectOK(new)
    BY <1>1, <1>4, <2>1, UnpackedOK
  <2>3. new.message = m /\ new.serial = serial
    OBVIOUS
  <2> HIDE DEF new, m, message, serial
  <2>4. HeapOK'
    BY <1>1, <1>4, <2>3, UnpackKeepsHeap DEF ProtoInv, serial
  <2>5. CrashOK'
    BY <1>1, <1>4 DEF ProtoInv, CrashOK, CrashesOnlyOnAbsentText
  <2> QED
    BY <1>1, <1>2, <1>4, <2>2, <2>4, <2>5 DEF ProtoInv
<1> QED
  BY <1>3, <1>4 DEF Unpack

\* No call takes the invariant away.
LEMMA ProtoNextInv ==
  ASSUME ProtoInv, [ProtoNext]_protoVars
  PROVE  ProtoInv'
<1>1. ASSUME NEW m \in Messages, NEW values \in Structs(m),
             NEW capacity \in Capacities, PackTooLarge(m, values, capacity)
      PROVE  ProtoInv'
  BY <1>1 DEF PackTooLarge, ProtoInv, HeapOK, OnlyErrorTextsLeak, HeapIsCallers,
              CallersBlocks, CrashOK, CrashesOnlyOnAbsentText, ZeroMeansNotPacked
<1>2. CASE Release
  BY <1>2 DEF Release, ProtoInv, HeapOK, OnlyErrorTextsLeak, HeapIsCallers,
              CallersBlocks, CrashOK, CrashesOnlyOnAbsentText, ZeroMeansNotPacked
<1>3. ASSUME NEW object \in objects, Destroy(object)
      PROVE  ProtoInv'
  <2>1. HeapOK'
    BY <1>3, DestroyKeepsHeap DEF ProtoInv
  <2>2. objects' \subseteq objects /\ UNCHANGED <<packet, status, told>>
    BY <1>3 DEF Destroy
  <2> QED
    BY <2>1, <2>2
       DEF ProtoInv, CrashOK, CrashesOnlyOnAbsentText, ZeroMeansNotPacked
<1>4. CASE UNCHANGED protoVars
  BY <1>4 DEF protoVars, ProtoInv, HeapOK, OnlyErrorTextsLeak, HeapIsCallers,
              CallersBlocks, CrashOK, CrashesOnlyOnAbsentText, ZeroMeansNotPacked
<1> QED
  BY <1>1, <1>2, <1>3, <1>4, PackStep, ReceiveStep, UnpackStep DEF ProtoNext

\* The invariant of the trios of functions, for any caller and any peer.
THEOREM ProtoInvariance == ProtoSpec => []ProtoInv
<1>1. ProtoInit => ProtoInv
  BY DEF ProtoInit, ProtoInv, HeapOK, OnlyErrorTextsLeak, HeapIsCallers,
         CallersBlocks, CrashOK, CrashesOnlyOnAbsentText, ZeroMeansNotPacked
<1>2. ProtoInv /\ [ProtoNext]_protoVars => ProtoInv'
  BY ProtoNextInv
<1> QED
  BY <1>1, <1>2, PTL DEF ProtoSpec

\* A packet has fields of its message only, and what es_pack_* packs es_unpack_*
\* can unpack; a struct has all the fields of its message.
THEOREM ProtoTypeCorrect == ProtoSpec => []ProtoTypeOK
<1>1. ProtoInv => ProtoTypeOK
  BY DEF ProtoInv, ProtoTypeOK, PacketOK, AsPacked, ObjectOK
<1> QED
  BY <1>1, ProtoInvariance, PTL

\* es_unpack_* gives back, field by field, what es_pack_* was given, whatever else
\* is packed, received, unpacked or destroyed in between.
THEOREM AlwaysUnpackedAsPacked == ProtoSpec => []UnpackedAsPacked
<1>1. ProtoInv => UnpackedAsPacked
  BY DEF ProtoInv, UnpackedAsPacked, ObjectOK, AsSource
<1> QED
  BY <1>1, ProtoInvariance, PTL

\* No order of calls makes a destroy_* function free a block of a struct still in
\* use, or forget one other than the error text of a ScavengeDatabaseCompleted.
THEOREM OnlyErrorTextsEverLeak == ProtoSpec => []OnlyErrorTextsLeak
<1>1. ProtoInv => OnlyErrorTextsLeak
  BY DEF ProtoInv, HeapOK
<1> QED
  BY <1>1, ProtoInvariance, PTL

\* destroy_scavenge_database_completed is the only function that leaks: a program
\* that does not use that message has on the heap what it holds and nothing else.
THEOREM HeapIsCallersWithoutScavenge ==
  ASSUME "ScavengeDatabaseCompleted" \notin Messages
  PROVE  ProtoSpec => []HeapIsCallers
<1>1. ProtoInv => HeapIsCallers
  BY DEF ProtoInv, HeapOK
<1> QED
  BY <1>1, ProtoInvariance, PTL

\* A result of 0 means that nothing was packed, for every message that has fields.
THEOREM ZeroAlwaysMeansNotPacked == ProtoSpec => []ZeroMeansNotPacked
<1>1. ProtoInv => ZeroMeansNotPacked
  BY DEF ProtoInv
<1> QED
  BY <1>1, ProtoInvariance, PTL

\* es_unpack_* passes NULL to strdup for an absent optional text, and for nothing
\* else a packet may lack.
THEOREM AlwaysCrashesOnAbsentText == ProtoSpec => []CrashesOnlyOnAbsentText
<1>1. ProtoInv => CrashesOnlyOnAbsentText
  BY DEF ProtoInv, CrashOK
<1> QED
  BY <1>1, ProtoInvariance, PTL

\* As long as the application and the peer set every optional text, es_unpack_*
\* crashes on no packet, whatever other fields it lacks.
THEOREM NeverCrashesOnGivenTexts ==
  ASSUME TextsGiven
  PROVE  ProtoSpec => []NeverCrashes
<1>1. ProtoInv => NeverCrashes
  BY DEF ProtoInv, CrashOK, CrashesOnlyOnAbsentText, NeverCrashes
<1> QED
  BY <1>1, ProtoInvariance, PTL
=============================================================================
