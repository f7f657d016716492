\* Two incidents, two help desks with different tables, two tasks at a time.
SPECIFICATION Spec
CONSTANTS
  i1 = i1
  i2 = i2
  t1 = t1
  t2 = t2
  r1 = r1
  r2 = r2
  None = None
  Incident = {i1, i2}
  Setups = {{"freshservice", "servicenow"}, {"freshdesk"}}
  Task = {t1, t2}
  Request = {r1, r2}
  AskedStatus = {"customer response received", "resolved"}
  OwnIds = {1}
  DeskMoves = {"open", "6"}
  MaxOps = 2
  MaxMoves = 1
  MaxFaults = 1
SYMMETRY MCSymmetry
CHECK_DEADLOCK FALSE
INVARIANTS
  ClosedHasCause
  CalmAgrees
  MappedIsReal
  NoteTold
  SharedIdHasCause
  PendingHasReason
