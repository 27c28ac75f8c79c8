SPECIFICATION Spec
CONSTANTS
  BufferSize = 11
  FrameLengths = {0, 1, 3}
  PayloadBytes = {7}
  MaxFrames = 3
  ChunkSizes = {1, 2, 3, 4, 5, 6, 7, 8, 9, 10, 11}
  MemcpyOrders = {"ascending", "descending"}
INVARIANT
  UnreadBytesInOrder
CHECK_DEADLOCK FALSE
