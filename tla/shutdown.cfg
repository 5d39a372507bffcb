SPECIFICATION Spec
CONSTANTS
  x = x
  y = y
  z = z
  NL = NL
  SeekTo = SeekTo
  Zero = Zero
  Stamper = Stamper
  None = None
  Clients = {"long", "seek"}
  Packet <- MCPacket
  Closers = {"long"}
  Resetters = {"long"}
  BlockSize = 2
  NumThreads = 3
  SocketRoom = 2
  UseCharDevice = FALSE
  MayHappen = {"overread", "signal", "create_fails"}
  MaxFile = 5
  MaxStamps = 1
INVARIANTS
  TypeOK
  ResponsePrefix
  BytesInOrder
PROPERTIES
  TornDownWhenIdle
  FileStableWhileSending
CHECK_DEADLOCK FALSE
