SPECIFICATION FairSpec
CONSTANTS
  x = x
  y = y
  z = z
  NL = NL
  SeekTo = SeekTo
  Zero = Zero
  Stamper = Stamper
  None = None
  Clients = {"short"}
  Packet <- MCPacket
  Closers = {}
  Resetters = {}
  BlockSize = 2
  NumThreads = 3
  SocketRoom = 2
  UseCharDevice = FALSE
  MayHappen = {"signal"}
  MaxFile = 6
  MaxStamps = 1
PROPERTIES
  ExitsAfterSignal
CHECK_DEADLOCK FALSE
