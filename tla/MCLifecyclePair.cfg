CONSTANTS
  t1 = t1
  t2 = t2
  s1 = s1
  s2 = s2
  w1 = w1
  Tx = {t1, t2}
  Session = {s1, s2}
  Worker = {}
  NoTx = NoTx
  NoSession = NoSession
  CoordinatorKind = {"Completed"}
  TerminateOp = {"Cancel", "ForceTerminate"}
  MaxActive = 2
  MaxDistinct = 1
  ControlCap = 1
  WorkerCap = 1
  SpawnCap = 1
SPECIFICATION Spec
PROPERTY ParkedProposalWins
INVARIANT SessionIndex
INVARIANT DistinctSessionsBound
CONSTRAINT PairBounds
CHECK_DEADLOCK FALSE
