SPECIFICATION ServedSpec
CONSTANTS
  x = x
  y = y
  z = z
  NL = NL
  SeekTo = SeekTo
  Zero = Zero
  Stamper = Stamper
  None = None
  Clients = {"long", "short"}
  Packet <- MCPacket
  Closers = {}
  Resetters = {}
  BlockSize = 2
  NumThreads = 3
  SocketRoom = 2
  UseCharDevice = FALSE
  MayHappen = {"overread"}
  MaxFile = 6
  MaxStamps = 1
INVARIANTS
  ResponsePrefix
  OwnPacketInResponse
  BytesInOrder
  SmallPacketContiguous
PROPERTIES
  Answered
CHECK_DEADLOCK FALSE
