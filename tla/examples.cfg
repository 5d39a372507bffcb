SPECIFICATION ExamplesSpec
CONSTANTS
  Callers = {t1,t2}
  Fns = {"do_system","do_exec","do_exec_redirect"}
  Fails = {"open","fork","dup2","execv"}
  Starts = {s1,s2}
  Nobody = Nobody
  NoHolder = NoHolder
INVARIANTS
  TrueMeansOwnChild
  SystemReportsFailure
  OneProcessReturns
  FileClosed
PROPERTIES
  Returns
  ThreadsComplete
CHECK_DEADLOCK FALSE
