SPECIFICATION Spec
CONSTANTS
  r1 = r1
  r2 = r2
  i1 = i1
  i2 = i2
  i3 = i3
  k1 = k1
  f = f
  None = None
  Requests = {r1, r2}
  Instances = {i1, i2, i3}
  Initially = {i1, i2}
  FlowOf <- Flow
  Asks <- Asked
  Keys = {k1}
  HashOrder <- Hashes
  RouteIds = {"A", "B"}
  RouteDecls <- Declared
  Routes <- Saved
  MaxChanges = 1
  MaxHealth = 1
SYMMETRY Interchangeable
INVARIANTS AnswersTruthful SelectionSpreads KeyKeepsTarget
CHECK_DEADLOCK FALSE
