CONSTANTS
  a = a
  nl = nl
  Byte <- MCByte
  NL = nl
  MaxWriteOps = 2
  Files = {f1}
  Threads = {t1,t2}
  None = None
  WriteInputs <- MCByteWrites
  ReadCounts = {2}
  SeekOffsets = {0}
  SeekCmds = {0}
  SeekCmdOffsets = {0}
  MayFail = {"EINTR"}
  ReadBytesMax = 1
  MaxEntry = 2
  MaxPos = 3
  InitMayFail = {"region","device","buffer","cdev"}
SPECIFICATION MFairSpec
PROPERTIES
  GoesLiveReady
  FreedWhenUnused
  CallReturns
CHECK_DEADLOCK FALSE
