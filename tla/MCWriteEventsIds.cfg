SPECIFICATION WriteSpec
CONSTANTS
  EventIds = {"id"}
  EventTypes = {"type"}
  DataContentTypes = {1}
  MetadataContentTypes = {2}
  Blobs = {"blob"}
  MaxEvents = 1
  Capacities = {0, 1}
  MaxObjects = 2
  MaxSerial = 3
INVARIANT
  EventIdsSurvive
CHECK_DEADLOCK FALSE
