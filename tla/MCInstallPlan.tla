--------------------------- MODULE MCInstallPlan ---------------------------
EXTENDS InstallPlan

(* ROM versions of each region, from SCPH-10000 on; DEX consoles have      *)
(* regions that the installer does not know.                               *)
MCConsole ==
  [region : {"J"}, rom : {\h100, \h101, \h120, \h150, \h180}, type : {"PS2"}]
  \cup [region : {"A"}, rom : {\h110, \h120, \h150}, type : {"PS2"}]
  \cup [region : {"E"}, rom : {\h120, \h150, \h220}, type : {"PS2"}]
  \cup [region : {"H", "C"}, rom : {\h160, \h190}, type : {"PS2"}]
  \cup [region : {"J"}, rom : {\h180}, type : {"PSX"}]
  \cup [region : {"X"}, rom : {\h160}, type : {"DEX"}]

(* The tables are made for them, as the theorems on folders and on the     *)
(* consoles served suppose.                                                *)
ASSUME MCConsoleAssumption == KnownRegions /\ KnownVersions
=============================================================================
