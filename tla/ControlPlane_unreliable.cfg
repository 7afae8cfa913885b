SPECIFICATION FairSpec
CONSTANTS
  n1 = n1
  n2 = n2
  a = a
  b = b
  Nodes = {n1}
  Instances = {a}
  None = None
  LocalConfig <- OneConfigured
  AckLoss = TRUE
  MaxSeq = 20
  MaxOps = 1
  MaxChanges = 2
  MaxUpsets = 0
  MaxPlaneRestarts = 1
  MaxAgentRestarts = 1
INVARIANTS TypeOK QueueHasNoDuplicates
PROPERTIES ExecutesEachCommandOnce CommandLeavesQueueExecuted ManagedSetConverges
CHECK_DEADLOCK FALSE
