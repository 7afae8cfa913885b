SPECIFICATION FairSpec
CONSTANTS
  h = h
  q = q
  c = c
  h1 = h1
  h2 = h2
  h3 = h3
  q1 = q1
  q2 = q2
  c1 = c1
  Http = {h}
  Queue = {q}
  Cron = {c}
  Payloads = {h1, h2, q1, c1}
  Home <- HomeOf
  Flows <- BothOrders
  None = None
  CAP = 1
  MaxCalls = 2
  MaxErrors = 1
INVARIANTS AcceptedIsHandled
PROPERTIES ShutdownCompletes RequestsAnswered
CHECK_DEADLOCK FALSE
