SPECIFICATION FairSpec
CONSTANTS
  p1 = p1
  p2 = p2
  w1 = w1
  w2 = w2
  s1 = s1
  s2 = s2
  d1 = d1
  l1 = l1
  Publishes = {p1, p2}
  Sends = {w1, w2}
  Saves = {s1, s2}
  Deletes = {d1}
  Loads = {l1}
  Deployments <- MCDeployments
  None = None
  BATCH = 1
  IDS = 3
INVARIANTS RowsInOrder
PROPERTIES CallsAtMostOnce CallsReturn StopCompletes
CHECK_DEADLOCK FALSE
