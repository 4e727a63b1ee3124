\* Each of the two buffers is used twice, and a STOP can come before, between
\* and after the units.  The program may exit, after which nothing happens.
CONSTANT NumSteps = 4
SPECIFICATION FairMaint
INVARIANTS
  FileOutlivesTransfer
  OneAnswerPerCommand
  BuffersHeld
  AnnouncedIsCopied
PROPERTIES
  DumpCopies
  RestoreCopies
  OperationEnds
CHECK_DEADLOCK FALSE
