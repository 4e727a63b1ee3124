---------------------------- MODULE InstallPlan ----------------------------
(***************************************************************************)
(* How an installation to a Memory Card is planned, before its files are   *)
(* copied.                                                                 *)
(*   system.c   PerformInstallation, GetAllBaseFileStats,                  *)
(*              AddDirContentsToFileCopyList, CreateBasicFolders           *)
(*   menu.c     MainMenu, the flags it passes                              *)
(*                                                                         *)
(* The files are first counted, an array of that many is allocated, and it *)
(* is filled by code that repeats the conditions of the count.             *)
(***************************************************************************)
EXTENDS InstallFiles, FiniteSets

CONSTANTS
  Console,        \* the consoles there are: region, ROM version, type
  MaxExtra,       \* how many entries the folders BOOT and APPS may have
  FileClusters,   \* the clusters of each file
  Free            \* how many clusters of the card may be free

ASSUME ConsoleAssumption ==
  Console \subseteq [region : Region, rom : Nat, type : Type]

ASSUME SizeAssumption ==
  MaxExtra \in Nat /\ FileClusters \in Nat \ {0} /\ Free \subseteq Nat

VARIABLES
  console,          \* the console that the installer runs on
  flags,            \* INSTALL_MODE_FLAG_*
  NumFiles,
  NumDirectories,
  list,             \* FileCopyList, a sequence of targets
  dirs,             \* the entries of it that are directories
  free,             \* what GetMcFreeSpace returns
  refused,          \* history: realloc has not enlarged the array
  pc,
  result

vars == <<console, flags, NumFiles, NumDirectories, list, dirs, free, refused, pc, result>>

(***************************************************************************)
(* The conditions.                                                         *)
(***************************************************************************)
TargetSystemType(c, fs) == IF "CROSS_PSX" \in fs THEN "PSX" ELSE c.type
MGLetter(c, fs)         == IF "CROSS_PSX" \in fs THEN "I" ELSE SysExecFolder(c)

AllFolders(fs) == "MULTI_INST" \in fs \/ "CROSS_REG" \in fs
AllOfJapan(c, fs) ==
  AllFolders(fs) \/ (MGLetter(c, fs) = "I" /\ "CROSS_MODEL" \in fs)

(* Mutant: the region is not asked for. *)
EarlyModel_AnyRegion(c, fs) == c.rom <= \h120 \/ AllOfJapan(c, fs)

EarlyModel(c, fs) ==
  (MGLetter(c, fs) = "I" /\ c.rom <= \h120) \/ AllOfJapan(c, fs)

(* The aliases that get a copy of the file of their own.                   *)
Wanted(c, fs, a) ==
  /\ a # OwnFile(c)
  /\ IF "CROSS_MODEL" \in fs THEN a[1] = SysExecFolder(c) ELSE "CROSS_REG" \in fs

Copied(c, fs) ==
  LET copy(i) == IF Wanted(c, fs, FileAlias[i]) THEN << FileAlias[i] >> ELSE << >>
  IN  copy(1) \o copy(2) \o copy(3) \o copy(4) \o copy(5) \o copy(6) \o copy(7) \o copy(8)

(***************************************************************************)
(* The menu, with what system.h says of the flags: the type of the         *)
(* installation is asked for on a PS2 only; multi-installations and those  *)
(* for a PSX can be chosen on a PS2 only.                                  *)
(***************************************************************************)
MenuFlags(c) ==
  LET modes == IF c.type = "PS2"
                 THEN {{}, {"CROSS_MODEL"}, {"CROSS_REG"}, {"MULTI_INST"},
                       {"CROSS_PSX", "SKIP_CLEANUP"}}
                 ELSE {{}}
  IN  modes \cup {m \cup {"SKIP_CNF"} : m \in modes}

Init ==
  /\ console \in Console
  /\ free \in Free
  /\ flags = {} /\ NumFiles = 0 /\ NumDirectories = 0
  /\ list = << >> /\ dirs = 0 /\ refused = FALSE
  /\ pc = "menu" /\ result = "ok"

MainMenu ==
  /\ pc = "menu"
  /\ flags' \in MenuFlags(console)
  /\ pc' = "count"
  /\ UNCHANGED <<console, NumFiles, NumDirectories, list, dirs, free, refused, result>>

(***************************************************************************)
(* PerformInstallation: the files are counted.                             *)
(***************************************************************************)
CountSystem(c, fs) ==
  CASE TargetSystemType(c, fs) = "PSX" -> Len(PSXSysFiles)
    [] TargetSystemType(c, fs) = "DEX" -> Len(DEXSysFiles)
    [] OTHER -> Len(PS2SysFiles(c))

CountUpdates(c, fs) ==
  IF AllOfJapan(c, fs) THEN Len(BootROM100JUpdateFiles) + Len(BootROM101JUpdateFiles)
  ELSE IF MGLetter(c, fs) = "I" /\ c.rom = \h100 THEN Len(BootROM100JUpdateFiles)
  ELSE IF MGLetter(c, fs) = "I" /\ c.rom = \h101 THEN Len(BootROM101JUpdateFiles)
  ELSE 0

(* Mutant: the folder for China is forgotten. *)
CountResources_ThreeFolders(fs) ==
  Len(SysResourceFiles("R")) * (IF AllFolders(fs) THEN 3 ELSE 1)

CountResources(fs) ==
  Len(SysResourceFiles("R")) + (IF AllFolders(fs) THEN Len(SysResourceFiles("R")) * 3 ELSE 0)

CountBase(fs)     == Len(BaseFiles) - (IF "SKIP_CNF" \in fs THEN 1 ELSE 0)
CountEarly(c, fs) == IF EarlyModel(c, fs) THEN Len(PS2HDDLOADSysFiles) ELSE 0

CountFiles ==
  /\ pc = "count"
  /\ NumFiles' = CountBase(flags) + CountResources(flags) + CountSystem(console, flags)
                   + CountUpdates(console, flags) + CountEarly(console, flags)
                   + Len(Copied(console, flags))
  /\ pc' = "fill"
  /\ UNCHANGED <<console, flags, NumDirectories, list, dirs, free, refused, result>>

(***************************************************************************)
(* The list is filled.  The copies are added for a PS2 only.               *)
(***************************************************************************)
SystemFiles(c, fs) ==
  CASE TargetSystemType(c, fs) = "PSX" -> PSXSysFiles
    [] TargetSystemType(c, fs) = "DEX" -> DEXSysFiles
    [] OTHER -> PS2SysFiles(c) \o Copied(c, fs)

UpdateFiles(c, fs) ==
  LET japan(rom) == (MGLetter(c, fs) = "I" /\ c.rom = rom) \/ AllOfJapan(c, fs)
  IN  (IF japan(\h100) THEN BootROM100JUpdateFiles ELSE << >>)
        \o (IF japan(\h101) THEN BootROM101JUpdateFiles ELSE << >>)

EarlyFiles(c, fs) == IF EarlyModel(c, fs) THEN PS2HDDLOADSysFiles ELSE << >>

ResourceFiles(fs) ==
  IF AllFolders(fs)
    THEN SysResourceFiles("I") \o SysResourceFiles("E")
           \o SysResourceFiles("A") \o SysResourceFiles("C")
    ELSE SysResourceFiles("R")

(* FREEMCB.CNF is the second of them.                                      *)
ConfigFiles(fs) ==
  IF "SKIP_CNF" \in fs
    THEN << BaseFiles[1] >> \o SubSeq(BaseFiles, 3, Len(BaseFiles))
    ELSE BaseFiles

Filled(c, fs) ==
  SystemFiles(c, fs) \o UpdateFiles(c, fs) \o EarlyFiles(c, fs)
    \o ResourceFiles(fs) \o ConfigFiles(fs)

FillList ==
  /\ pc = "fill"
  /\ \/ list' = Filled(console, flags) /\ pc' = "stat" /\ UNCHANGED result
     \/ pc' = "done" /\ result' = "ENOMEM" /\ UNCHANGED list
  /\ UNCHANGED <<console, flags, NumFiles, NumDirectories, dirs, free, refused>>

(* GetAllBaseFileStats: BREXEC-SYSTEM becomes the folder of the console; a *)
(* file of the installer may be missing.                                   *)
Regional(c, fs, t) == IF t[1] = "R" THEN <<MGLetter(c, fs), t[2], t[3]>> ELSE t

GetAllBaseFileStats ==
  /\ pc = "stat"
  /\ list' = [i \in DOMAIN list |-> Regional(console, flags, list[i])]
  /\ \/ pc' = "extra" /\ UNCHANGED result
     \/ pc' = "space" /\ result' = "ENOENT"
  /\ UNCHANGED <<console, flags, NumFiles, NumDirectories, dirs, free, refused>>

(* AddDirContentsToFileCopyList, one entry of BOOT or APPS at a time: the  *)
(* counts are raised before the array is enlarged for them.                *)
CountExtra(isDir) ==
  /\ pc = "extra"
  /\ Len(list) < Len(Filled(console, flags)) + MaxExtra
  /\ NumDirectories' = IF isDir THEN NumDirectories + 1 ELSE NumDirectories
  /\ NumFiles' = IF isDir THEN NumFiles ELSE NumFiles + 1
  /\ pc' = "grow"
  /\ UNCHANGED <<console, flags, list, dirs, free, refused, result>>

(* There may be no memory for the names of the new entry: it stays empty.  *)
AddExtra ==
  /\ pc = "grow"
  /\ list' = Append(list, <<"APPS", "entry", Len(list)>>)
  /\ \/ pc' = "extra" /\ dirs' = NumDirectories /\ UNCHANGED result
     \/ pc' = "space" /\ result' = "ENOMEM" /\ UNCHANGED dirs
  /\ UNCHANGED <<console, flags, NumFiles, NumDirectories, free, refused>>

NoLargerArray ==
  /\ pc = "grow"
  /\ refused' = TRUE
  /\ pc' = "space" /\ result' = "ENOMEM"
  /\ UNCHANGED <<console, flags, NumFiles, NumDirectories, list, dirs, free>>

AddDirContentsEnd ==
  /\ pc = "extra"
  /\ pc' = "space"
  /\ result' \in {"ok", "error"}    \* a folder that cannot be read
  /\ UNCHANGED <<console, flags, NumFiles, NumDirectories, list, dirs, free, refused>>

(***************************************************************************)
(* The check of the space, in bytes.                                       *)
(***************************************************************************)
CalculateRequiredSpace == (Len(list) - dirs) * FileClusters * 1024

TotalRequiredSpace ==
  CalculateRequiredSpace + 1024
    + (NumFiles + NumDirectories + 3) \div 2
    + (IF "MULTI_INST" \in flags THEN (Len(FileAlias) + 1) \div 2 ELSE 0)
    + NumDirectories * 2

TooSmall == free * 1024 < TotalRequiredSpace

(* Of an array that was not enlarged, an entry past the end is added up    *)
(* too: the sum is anything.  Files are copied only while nothing failed.  *)
CheckSpace ==
  /\ pc = "space"
  /\ \/ (TooSmall \/ refused) /\ pc' = "free" /\ result' = "ENOSPC"
     \/ (~ TooSmall \/ refused) /\ pc' = (IF result = "ok" THEN "copy" ELSE "free") /\ UNCHANGED result
  /\ UNCHANGED <<console, flags, NumFiles, NumDirectories, list, dirs, free, refused>>

(* CleanupTarget, CreateBasicFolders and CopyFiles, which may fail.        *)
CopyFiles ==
  /\ pc = "copy"
  /\ pc' = "free"
  /\ result' \in {"ok", "error"}
  /\ UNCHANGED <<console, flags, NumFiles, NumDirectories, list, dirs, free, refused>>

(* The names of as many entries as were counted are freed, then the array. *)
FreeList ==
  /\ pc = "free"
  /\ list' = << >> /\ dirs' = 0
  /\ pc' = "done"
  /\ UNCHANGED <<console, flags, NumFiles, NumDirectories, free, refused, result>>

Next ==
  \/ MainMenu \/ CountFiles \/ FillList \/ GetAllBaseFileStats
  \/ \E isDir \in BOOLEAN : CountExtra(isDir)
  \/ AddExtra \/ NoLargerArray \/ AddDirContentsEnd
  \/ CheckSpace \/ CopyFiles \/ FreeList

Spec == Init /\ [][Next]_vars

(* CreateBasicFolders *)
BasicFolders(c, fs) ==
  {"APPS", "BOOT", "SYS-CONF"} \cup
    (IF AllFolders(fs) THEN {"I", "E", "A", "C"}
     ELSE {IF "CROSS_PSX" \in fs THEN "I" ELSE SysExecFolder(c)})

(***************************************************************************)
(* Properties.                                                             *)
(***************************************************************************)
Folder == {"I", "E", "A", "C", "R", "APPS", "SYS-CONF"}
Pc     == {"menu", "count", "fill", "stat", "extra", "grow", "space", "copy", "free", "done"}

TypeOK ==
  /\ console \in Console
  /\ flags \in MenuFlags(console)
  /\ NumFiles \in Nat /\ NumDirectories \in Nat /\ dirs \in Nat
  /\ \A i \in DOMAIN list : list[i][1] \in Folder /\ list[i][3] \in Nat
  /\ free \in Free /\ refused \in BOOLEAN
  /\ pc \in Pc
  /\ result \in {"ok", "error", "ENOMEM", "ENOENT", "ENOSPC"}

Targets == {list[i] : i \in DOMAIN list}

(* The array has exactly as many entries as were counted whenever it is    *)
(* gone through: with more of them it is overrun, with fewer the code goes *)
(* through empty entries (system.c:1394-1443 and 1448-1663).  Where        *)
(* realloc refuses to enlarge it, the counts stay one above it, the sum of *)
(* the sizes and the freeing of the names go past its end (system.c:804,   *)
(* 1683, 1722), and nothing is copied.                                     *)
CountIsFilled ==
  pc \in {"stat", "extra", "space", "copy", "free"} =>
    \/ ~ refused /\ NumFiles + NumDirectories = Len(list)
    \/ refused /\ NumFiles + NumDirectories = Len(list) + 1 /\ pc # "copy" /\ result # "ok"

(* Every file goes to a folder that CreateBasicFolders makes; mcOpen makes *)
(* none (system.c:603-642, 1186).                                          *)
FoldersCreated ==
  pc = "copy" => \A t \in Targets : t[1] \in BasicFolders(console, flags)

(* A cross-model installation boots on every console that the system       *)
(* folder is for, a cross-region or multi-installation on every PS2: it    *)
(* has what a normal installation on that console would have installed     *)
(* (system.c:331-339, 133-143).                                            *)
Normal(c) ==
  LET l == Filled(c, {}) IN {Regional(c, {}, l[i]) : i \in DOMAIN l}

Served(c) ==
  /\ c.type = "PS2"
  /\ \/ AllFolders(flags)
     \/ "CROSS_MODEL" \in flags /\ SysExecFolder(c) = SysExecFolder(console)

(* Consoles that the tables are made for: each PS2 is of a region with a   *)
(* folder of its own, and its ROM is none older than the first ones sold   *)
(* in that region.                                                         *)
KnownRegions  == \A c \in Console : c.type = "PS2" => c.region # "X"
KnownVersions ==
  \A c \in Console : c.type = "PS2" =>
    \/ c.region = "J" /\ (c.rom \in {\h100, \h101} \/ c.rom >= \h120)
    \/ c.region \in {"A", "H"} /\ c.rom >= \h110
    \/ c.region = "E" /\ c.rom >= \h120
    \/ c.region = "C" /\ c.rom >= \h130

Aliases == IF "MULTI_INST" \in flags THEN {FileAlias[i] : i \in DOMAIN FileAlias} ELSE {}
Skipped == IF "SKIP_CNF" \in flags THEN {Named("SYS-CONF", "FREEMCB.CNF")} ELSE {}

BootsEverywhere ==
  pc = "copy" =>
    \A c \in Console : Served(c) => Normal(c) \subseteq Targets \cup Aliases \cup Skipped

(* The files fit on a card that passed the check.  Directories grow by a   *)
(* cluster for every two entries, "." and ".." included.                   *)
(* system.c:1688 "A new cluster is required for every two files."          *)
DirClusters(f) == (Cardinality({t \in Targets : t[1] = f}) + 3) \div 2
NeededClusters ==
  LET fs == BasicFolders(console, flags)
      total[s \in SUBSET fs] ==
        IF s = {} THEN 0
        ELSE LET f == CHOOSE g \in s : TRUE IN DirClusters(f) + total[s \ {f}]
  IN  (Len(list) - dirs) * FileClusters + dirs + total[fs]

PassedCheckFits == pc = "copy" => NeededClusters <= free
=============================================================================
