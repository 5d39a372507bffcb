CONSTANTS
  a = a
  nl = nl
  Byte <- MCByte
  NL = nl
  MaxWriteOps = 3
  Files = {f1}
  Threads = {t1}
  None = None
  WriteInputs <- MCWritesEmpty
  ReadCounts = {0,1,2,5}
  SeekOffsets <- MCSeekOffsets
  SeekCmds = {0,1,2}
  SeekCmdOffsets = {0,1}
  MayFail = {}
  ReadBytesMax = 65535
  MaxEntry = 2
  MaxPos = 6
SPECIFICATION Spec
INVARIANTS
  TypeOK
  FindMatchesContents
PROPERTIES
  KeepsLog
  ReadReturnsContents
  SeekExactFromSlotZero
