CONSTANTS
  a = a
  nl = nl
  Byte <- MCByte
  NL = nl
  MaxWriteOps = 2
  Files = {f1}
  Threads = {t1}
  None = None
  WriteInputs <- MCWrites
  ReadCounts = {3}
  SeekOffsets = {0}
  SeekCmds = {0}
  SeekCmdOffsets = {0}
  MayFail = {"EFAULT"}
  ReadBytesMax = 65535
  MaxEntry = 2
  MaxPos = 4
SPECIFICATION Spec
INVARIANTS
  SizeExact
