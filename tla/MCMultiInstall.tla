--------------------------- MODULE MCMultiInstall ---------------------------
EXTENDS MultiInstall

MCConsole ==
  [region : {"J"}, rom : {\h100, \h101, \h120, \h150}, type : {"PS2"}]
  \cup [region : {"A"}, rom : {\h110, \h150}, type : {"PS2"}]
  \cup [region : {"C"}, rom : {\h190}, type : {"PS2"}]
MCEurope == [region : {"E"}, rom : {\h150}, type : {"PS2"}]
=============================================================================
