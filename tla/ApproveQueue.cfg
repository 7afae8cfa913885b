SPECIFICATION Spec
CONSTANTS
  w1 = w1
  w2 = w2
  approver = approver
  g1 = g1
  g2 = g2
  p1 = p1
  None = None
  Records = {g1, p1}
  Gated = {g1}
  Procs = {"flow", "approve"}
  Tasks = {w1, w2, approver}
  ProcOf <- ProcessOf
  Together = FALSE
  MaxErrors = 1
  MaxRuns = 2
  MaxApproves = 2
SYMMETRY Interchangeable
INVARIANTS QueueAccountsForParks ApprovedIsDelivered
PROPERTIES SavesAreAtomic
CHECK_DEADLOCK FALSE
