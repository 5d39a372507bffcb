CONSTANTS
  a = a
  nl = nl
  Byte <- MCByte
  NL = nl
  MaxWriteOps = 2
  Files = {f1}
  Threads = {t1,t2}
  None = None
  WriteInputs <- MCWrites
  ReadCounts = {3}
  SeekOffsets = {0}
  SeekCmds = {0}
  SeekCmdOffsets = {0}
  MayFail = {"EINTR"}
  ReadBytesMax = 65535
  MaxEntry = 2
  MaxPos = 6
SPECIFICATION Spec
PROPERTIES
  SeekReportsFailure
