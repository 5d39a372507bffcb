SPECIFICATION DSpec
CONSTANTS
  x = x
  y = y
  z = z
  NL = NL
  SeekTo = SeekTo
  Zero = Zero
  Stamper = Stamper
  None = None
  Clients = {"long", "seek"}
  Packet <- MCStream
  Closers = {}
  Resetters = {}
  BlockSize = 2
  NumThreads = 3
  SocketRoom = 2
  UseCharDevice = TRUE
  MayHappen = {"overread"}
  MaxFile = 12
  MaxStamps = 0
  MaxWriteOps = 4
  Byte <- MCIndex
  Earlier <- MCEarlier
  SeekRequest <- MCSeekRequest
INVARIANTS
  SeekFindsCommand
  DeviceKeepsNewest
  ResponseInOrder
  ResponseFromOffset
  OwnPacketFromDevice
PROPERTIES
  SeekExactOnDevice
CHECK_DEADLOCK FALSE
