\* Two cards, of which one is put in, taken out or exchanged once, all operations, and the power button.
CONSTANTS
  Card = {A, B}
  MaxChanges = 1
SPECIFICATION FairCards
INVARIANTS
  NoPowerOffInside
  ToolsReady
  FlagsOfThisCard
PROPERTIES
  MultiRespected
  OperationReturns
CHECK_DEADLOCK FALSE
