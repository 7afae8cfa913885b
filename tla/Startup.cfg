SPECIFICATION StartupSpec
CONSTANTS
  Inputs <- SmallInputs
  BuiltinSteps <- Builtins
  Reserved = {"builtin-a"}
  BuiltinTriggers = {"cron", "queue"}
INVARIANTS BuiltSoundly RefusedForCycle WarnsExactly
PROPERTIES RegistrationsStay
CHECK_DEADLOCK FALSE
