\* No access fails, but the card has no room.
CONSTANTS
  A = A
  B = B
  x = x
  y = y
  NumClusters = 3
  PagesPerCluster = 2
  Folder = {A, B}
  Start <- MCStart
  Name = {x}
  Dot = Dot
  Gone = Gone
  Stale <- MCStale
  FatPages <- MCFatPages
  MaxFaults = 0
  MaxLength = 4
  SpaceChecked = FALSE
SPECIFICATION Spec
INVARIANT ErrorIsNoCluster
