SPECIFICATION ProtoSpec
CONSTANTS
  ScalarValues = {"0", "1"}
  StringValues = {"text"}
  Messages = {"DeleteStream", "DeleteStreamCompleted", "SubscribeToStream",
              "SubscriptionConfirmation", "SubscriptionDropped",
              "ScavengeDatabase", "ScavengeDatabaseCompleted",
              "WriteEventsCompleted", "ReadStreamEvents",
              "ReadEvent", "ReadAllEvents", "DeletePersistentSubscription",
              "TransactionCommit"}
  NullStrings = {"event_stream_id", "subscription_group_name", "message",
                 "error"}
  OmittedByPeer = {"hard_delete", "prepare_position", "commit_position",
                   "last_event_number", "reason", "message",
                   "error",
                   "transaction_id", "event_stream_id"}
  Capacities = {0, 6}
  MaxObjects = 1
  MaxSerial = 2
INVARIANTS
  ProtoTypeOK
  UnpackedAsPacked
  OnlyErrorTextsLeak
  ZeroMeansNotPacked
  CrashesOnlyOnAbsentText
CHECK_DEADLOCK FALSE
