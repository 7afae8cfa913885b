SPECIFICATION FairSpec
CONSTANTS
  n1 = n1
  n2 = n2
  a = a
  b = b
  Nodes = {n1, n2}
  Instances = {a}
  None = None
  LocalConfig <- OneConfigured
  AckLoss = FALSE
  MaxSeq = 20
  MaxOps = 1
  MaxChanges = 2
  MaxUpsets = 1
  MaxPlaneRestarts = 0
  MaxAgentRestarts = 0
PROPERTIES Converges
CHECK_DEADLOCK FALSE
