\* A European console, and nothing fails.
CONSTANTS
  Console <- MCEurope
  Batch = 8
  MaxFaults = 0
  SameConsole = TRUE
SPECIFICATION Spec
INVARIANT OwnFolderKept
CHECK_DEADLOCK FALSE
