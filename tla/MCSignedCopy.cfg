\* Up to four entries: a file after a file, a file after directories, and
\* directories after a file, are enough to go through each way of waiting.
\* Numbers of 16 and 32 bits, and pieces of 16 bytes, are scaled down.
CONSTANTS
  Lists <- MCLists
  NumFds = 3
  MaxPulls = 1
  Kelfs <- MCKelfs
  Piece = 4
  UShort = 16
  UInt = 64
SPECIFICATION FairCopy
INVARIANTS
  CopiesArrive
  BufferHeld
  SignsAlone
  NothingLeft
  AuthAgreed
  FailureForgets
  SignedForOneCard
  FedAsTold
PROPERTIES
  SigningEnds
CHECK_DEADLOCK FALSE
