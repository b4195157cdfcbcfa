CONSTANTS
  t1 = t1
  t2 = t2
  s1 = s1
  s2 = s2
  w1 = w1
  Tx = {t1}
  Session = {}
  Worker = {w1}
  NoTx = NoTx
  NoSession = NoSession
  CoordinatorKind = {"Completed"}
  TerminateOp = {"Cancel", "ForceTerminate"}
  MaxActive = 1
  MaxDistinct = 1
  ControlCap = 1
  WorkerCap = 1
  SpawnCap = 1
SPECIFICATION Spec
INVARIANT ResidualWorkHasRow
CHECK_DEADLOCK FALSE
