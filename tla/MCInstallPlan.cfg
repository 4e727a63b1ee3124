\* Cards that are full, just too small for some of the lists, and empty.
CONSTANTS
  Console <- MCConsole
  MaxExtra = 2
  FileClusters = 1
  Free = {0, 20, 100}
SPECIFICATION Spec
INVARIANTS
  CountIsFilled
  FoldersCreated
  BootsEverywhere
CHECK_DEADLOCK FALSE
