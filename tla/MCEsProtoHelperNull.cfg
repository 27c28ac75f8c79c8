SPECIFICATION ProtoSpec
CONSTANTS
  ScalarValues = {"0", "1"}
  StringValues = {"text"}
  Messages = {"DeleteStreamCompleted", "WriteEventsCompleted",
              "ScavengeDatabaseCompleted"}
  NullStrings = {}
  OmittedByPeer = {"prepare_position", "commit_position", "message", "error"}
  Capacities = {6}
  MaxObjects = 1
  MaxSerial = 1
INVARIANT
  NeverCrashes
CHECK_DEADLOCK FALSE
