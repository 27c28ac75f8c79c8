SPECIFICATION ClientSpec
CONSTANTS
  BufferSize = 30
  FrameLengths = {1, 18}
  PayloadBytes = {1, 130, 255}
  MaxFrames = 3
  ChunkSizes = {6, 22}
  MemcpyOrders = {"ascending"}
  MaxReadErrors = 1
  CutLengths = {0, 5}
  SendOutcomes = {"whole", "part", "refused", "sigpipe"}
INVARIANTS
  RequestsAnsweredInOrder
  PollsOnlyWhenDrained
CHECK_DEADLOCK FALSE
