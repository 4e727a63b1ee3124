\* Calls of three aliases, so that the loops go round; two faults.
CONSTANTS
  Console <- MCConsole
  Batch = 3
  MaxFaults = 2
  SameConsole = TRUE
SPECIFICATION FairSpec
INVARIANTS
  InstallComplete
  UninstallFileFirst
  DowngradeIsNormal
  OneAliasPerFault
PROPERTY OperationEnds
CHECK_DEADLOCK FALSE
