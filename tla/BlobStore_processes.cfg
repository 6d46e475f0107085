SPECIFICATION Spec
CONSTANTS
  p1 = p1
  p2 = p2
  t1 = t1
  t2 = t2
  t3 = t3
  Proc = {p1, p2}
  Thread = {t1, t2}
  ProcOf <- MCTwoProcesses
  Blob = {b1}
  Ino = {i1, i2}
  NoFile = NoFile
  Free = Free
  Offered = {"put", "stage", "verify", "rows"}
  MaxPending = 2
  SyncfsMin = 5
  MaxTicket = 3
  MaxIoErrors = 0
SYMMETRY MCSymmetryProcesses
INVARIANTS RowsIntact StampsSound
PROPERTIES CrashKeepsRowBlobs OnlyCorruptRemoved ImplementsPromise
