SPECIFICATION BootSpec
CONSTANTS
  Settings = {setting1}
  Undefined = Undefined
  MaxMishaps = 2
INVARIANTS RollbackIsReported
CHECK_DEADLOCK FALSE
