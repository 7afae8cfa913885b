SPECIFICATION Spec
CONSTANTS
  Flows <- SmallFlows
  Items <- ItemsOf
  MaxUuids = 8
  MaxErrors = 1
INVARIANTS NothingVanishes BuffersAccount StatesCount
PROPERTIES RunEnds
CHECK_DEADLOCK FALSE
