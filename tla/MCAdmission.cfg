CONSTANTS
  t1 = t1
  t2 = t2
  t3 = t3
  c1 = c1
  c2 = c2
  s1 = s1
  s2 = s2
  Tx = {t1, t2, t3}
  Channel = {c1, c2}
  Session = {s1, s2}
  NoTx = NoTx
  NoChannel = NoChannel
  NoSession = NoSession
  MaxGlobal = 2
  MaxChannel <- OneOnFirst
  MaxDistinct <- OneDistinct
SPECIFICATION Spec
SYMMETRY CallSymmetry
INVARIANT LedgerSlotAvailable
INVARIANT ShutdownSeesAll
PROPERTY ImplementsContract
CHECK_DEADLOCK FALSE
