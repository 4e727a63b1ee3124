\* Two folders of one cluster each and two free clusters: a folder can grow
\* twice, and both can compete for the last cluster.  Two accesses may fail.
CONSTANTS
  A = A
  B = B
  x = x
  y = y
  NumClusters = 5
  PagesPerCluster = 2
  Folder = {A, B}
  Start <- MCStart
  Name = {x, y}
  Dot = Dot
  Gone = Gone
  Stale <- MCStale
  FatPages <- MCFatPages
  MaxFaults = 2
  MaxLength = 5
  SpaceChecked = TRUE
SYMMETRY MCSymmetry
SPECIFICATION Spec
INVARIANTS
  ChainsApart
PROPERTIES
  ListingSpec
  EntriesKept
