\* A boot program of two and a half writes, the last of a part of a sector;
\* a file in fsck/lang, and what others have there; one access that fails, in any of them.
CONSTANTS
  NumLang = 1
  BootHdd <- MCBootHdd
  AppsHdd <- MCAppsHdd
  MbrSize = 9
  Sector = 2
  MaxFaults = 1
SPECIFICATION Spec
INVARIANTS
  InstalledWhole
  NothingMounted
PROPERTIES
  EnabledLast
  UserFilesKept
