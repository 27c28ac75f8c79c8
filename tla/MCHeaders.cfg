SPECIFICATION HeadersSpec
CONSTANTS
  BufferSize = 44
  FrameLengths = {17, 18}
  PayloadBytes = {1, 130}
  MaxFrames = 2
  ChunkSizes = {21, 22}
  MemcpyOrders = {"ascending"}
  MaxSerial = 3
  Usernames = {"user"}
  Passwords = {"password"}
INVARIANTS
  HeadersTypeOK
  HeadersOutliveFrames
  HeaderBlocksAccounted
CHECK_DEADLOCK FALSE
