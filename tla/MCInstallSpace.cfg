CONSTANTS
  Console <- MCConsole
  MaxExtra = 0
  FileClusters = 1
  Free = {15, 20, 25}
SPECIFICATION Spec
INVARIANT PassedCheckFits
CHECK_DEADLOCK FALSE
