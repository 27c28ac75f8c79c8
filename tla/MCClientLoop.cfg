SPECIFICATION FairClientSpec
CONSTANTS
  BufferSize = 72
  FrameLengths = {17, 18, 25}
  PayloadBytes = {1, 130}
  MaxFrames = 2
  ChunkSizes = {1, 44}
  MemcpyOrders = {"ascending"}
  MaxReadErrors = 0
  CutLengths = {0, 5}
  SendOutcomes = {"whole", "part", "refused", "sigpipe"}
INVARIANTS
  ClientTypeOK
  DeliveredAsSent
  CommandsNamedAsSent
  RoomAtPoll
PROPERTIES
  EveryRequestAnswered
  ReturnsAfterClose
  ImplementsHeartbeatService
CHECK_DEADLOCK FALSE
