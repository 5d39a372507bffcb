CONSTANTS
  a = a
  nl = nl
  Byte <- MCByte
  NL = nl
  MaxWriteOps = 3
  Files = {f1}
  Threads = {t1}
  None = None
  WriteInputs <- MCWrites
  ReadCounts = {3}
  SeekOffsets = {0}
  SeekCmds = {0,1}
  SeekCmdOffsets = {0,1}
  MayFail = {}
  ReadBytesMax = 65535
  MaxEntry = 2
  MaxPos = 6
SPECIFICATION Spec
PROPERTIES
  SeekLandsInCommand
