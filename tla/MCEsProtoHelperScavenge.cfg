SPECIFICATION ProtoSpec
CONSTANTS
  ScalarValues = {"0", "1"}
  StringValues = {"text"}
  Messages = {"ScavengeDatabase", "ScavengeDatabaseCompleted"}
  NullStrings = {}
  OmittedByPeer = {}
  Capacities = {4}
  MaxObjects = 1
  MaxSerial = 2
INVARIANT
  HeapIsCallers
CHECK_DEADLOCK FALSE
