CONSTANTS
  a = a
  nl = nl
  Byte <- MCByte
  NL = nl
  MaxWriteOps = 2
  Files = {f1,f2}
  Threads = {t1,t2}
  None = None
  WriteInputs <- MCByteWrites
  ReadCounts = {1,2}
  SeekOffsets = {}
  SeekCmds = {1}
  SeekCmdOffsets = {0}
  MayFail = {"EINTR","ENOMEM","EFAULT"}
  ReadBytesMax = 1
  MaxEntry = 2
  MaxPos = 3
SPECIFICATION Spec
INVARIANTS
  RingShape
  EntriesWhole
  NoHoles
  NoLiveBufferOverwritten
  LockHeldInside
  SizeCoversData
  SpinOnlyOnLongEntry
PROPERTIES
  KeepsLog
  ReadReturnsContents
  PosTracksSize
SYMMETRY Symmetry
CHECK_DEADLOCK FALSE
