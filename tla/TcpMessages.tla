----------------------------- MODULE TcpMessages -----------------------------
(***************************************************************************)
(* The command codes of src/es_tcp_messages.h and the names                *)
(* src/es_tcp_messages.c gives them.  The codes come in six blocks without *)
(* gaps; a name stands for the text the code returns.                      *)
(***************************************************************************)
EXTENDS Naturals, Sequences

HeartbeatRequest == 1
HeartbeatResponse == 2

\* The names of consecutive codes, starting with first.
Block(first, names) == [code \in first..(first + Len(names) - 1) |->
                          names[code - first + 1]]

ReplicationNames ==
  <<"HeartbeatRequest", "HeartbeatResponse", "Ping", "Pong", "PrepareAck",
    "CommitAck", "SlaveAssignment", "CloneAssignment">>

ChunkNames ==
  <<"SubscribeReplica", "ReplicaLogPositionAck", "CreateChunk", "RawChunkBulk",
    "DataChunkBulk", "ReplicaSubscriptionRetry", "ReplicaSubscribed">>

WriteNames ==
  <<"WriteEvents", "WriteEventsCompleted", "TransactionStart",
    "TransactionStartCompleted", "TransactionWrite", "TransactionWriteCompleted",
    "TransactionCommit", "TransactionCommitCompleted", "DeleteStream",
    "DeleteStreamCompleted">>

ReadNames ==
  <<"ReadEvent", "ReadEventCompleted", "ReadStreamEventsForward",
    "ReadStreamEventsForwardCompleted", "ReadStreamEventsBackward",
    "ReadStreamEventsBackwardCompleted", "ReadAllEventsForward",
    "ReadAllEventsForwardCompleted", "ReadAllEventsBackward",
    "ReadAllEventsBackwardCompleted">>

SubscriptionNames ==
  <<"SubscribeToStream", "SubscriptionConfirmation", "StreamEventAppeared",
    "UnsubscribeFromStream", "SubscriptionDropped",
    "ConnectToPersistentSubscription", "PersistentSubscriptionConfirmation",
    "PersistentSubscriptionStreamEventAppeared", "CreatePersistentSubscription",
    "CreatePersistentSubscriptionCompleted", "DeletePersistentSubscription",
    "DeletePersistentSubscriptionCompleted", "PersistentSubscriptionAckEvents",
    "PersistentSubscriptionNakEvents", "UpdatePersistentSubscription",
    "UpdatePersistentSubscriptionCompleted", "ScavengeDatabase",
    "ScavengeDatabaseCompleted">>

StatusNames ==
  <<"BadRequest", "NotHandled", "Authenticate", "Authenticated",
    "NotAuthenticated">>

Blocks ==
  {Block(1, ReplicationNames), Block(16, ChunkNames), Block(130, WriteNames),
   Block(176, ReadNames), Block(192, SubscriptionNames), Block(240, StatusNames)}

\* get_string_for_tcp_message.
GetStringForTcpMessage(message) ==
  IF \E block \in Blocks : message \in DOMAIN block
    THEN (CHOOSE block \in Blocks : message \in DOMAIN block)[message]
    ELSE "Unknown"
=============================================================================
