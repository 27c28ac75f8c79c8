SPECIFICATION Spec
CONSTANTS
  BufferSize = 33200
  FrameLengths = {32768}
  PayloadBytes = {7}
  MaxFrames = 1
  ChunkSizes = {32772}
  MemcpyOrders = {"ascending"}
INVARIANT
  CompleteFrameIsReady
CHECK_DEADLOCK FALSE
