SPECIFICATION WriteSpec
CONSTANTS
  EventIds = {"id"}
  EventTypes = {"type"}
  DataContentTypes = {1}
  MetadataContentTypes = {2}
  Blobs = {"blob"}
  MaxEvents = 2
  Capacities = {1, 2}
  MaxObjects = 1
  MaxSerial = 2
INVARIANTS
  WriteTypeOK
  EventsUnpackedAsPacked
  UnpackedBlocksAreCallers
  OnlyRefusedPacksLeak
CHECK_DEADLOCK FALSE
