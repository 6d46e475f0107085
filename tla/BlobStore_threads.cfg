SPECIFICATION FairSpec
CONSTANTS
  p1 = p1
  p2 = p2
  t1 = t1
  t2 = t2
  t3 = t3
  Proc = {p1}
  Thread = {t1, t2, t3}
  ProcOf <- MCThreeThreads
  Blob = {b1}
  Ino = {i1}
  NoFile = NoFile
  Free = Free
  Offered = {"stage", "rows"}
  MaxPending = 3
  SyncfsMin = 5
  MaxTicket = 3
  MaxIoErrors = 1
INVARIANTS OneBatch
PROPERTIES SyncReturns
