----------------------------- MODULE HddInstall -----------------------------
(***************************************************************************)
(* Installation on a hard disk (FHDB), its clean-up, and the formatting of *)
(* the disk.                                                               *)
(*   system.c   PerformHDDInstallation, CleanupHDDTarget, CopyFilesToHDD,  *)
(*              InstallMBRToHDD, EnableHDDBooting, CreateAPPSPartition ... *)
(*   menu.c     CheckFormat and the three events of the disk               *)
(*                                                                         *)
(* The disk has a boot program (MBR) on sectors of its own, and partitions *)
(* with file systems, one of which is mounted at a time (pfs0:).  Any      *)
(* access may fail.  The file systems and the drivers are external.        *)
(***************************************************************************)
EXTENDS Naturals, Sequences, SequencesExt

CONSTANTS
  NumLang,      \* files in fsck/lang; the code has 17
  BootHdd,      \* what BOOT-HDD may contain: sequences of names
  AppsHdd,      \* what APPS-HDD may contain: sequences of entries
  MbrSize,      \* bytes of the boot program
  Sector,       \* bytes of a sector
  MaxFaults     \* bound: accesses that fail in a behaviour

(* The sectors of the boot program are counted in 16 bits. *)
ASSUME SizesAssumption ==
  /\ NumLang \in Nat /\ MbrSize \in Nat \ {0} /\ Sector \in Nat \ {0} /\ MaxFaults \in Nat
  /\ MbrSize <= 65535 * Sector

(***************************************************************************)
(* The tables.                                                             *)
(***************************************************************************)
File(p, d, n) == [part |-> p, dir |-> d, name |-> n, isdir |-> FALSE]
Dir(p, d, n)  == [part |-> p, dir |-> d, name |-> n, isdir |-> TRUE]
Mbr  == File("__mbr", "", "")
Cnf  == File("__sysconf", "FMCB", "FREEHDB.CNF")
Apps == "PP.FHDB.APPS"

Lang == [n \in 1 .. NumLang |-> File("__system", "fsck/lang", ToString(n))]

HDDBaseFiles ==
  <<Cnf, File("__sysconf", "FMCB", "FMCB_CFG.ELF"),
    File("__sysconf", "FMCB", "USBD.IRX"), File("__sysconf", "FMCB", "USBHDFSD.IRX"),
    File("__system", "fsck", "fsck.elf")>> \o Lang

DEXSysHDDFiles == <<Mbr, File("__system", "osd", "osdmain.elf")>>
PS2SysHDDFiles == DEXSysHDDFiles \o <<File("__sysconf", "FMCB", "endvdpl.irx")>>

BootFiles(names) == [n \in DOMAIN names |-> File("__sysconf", "FMCB", names[n])]

(* Somebody else's files in the folders of the installation. *)
Foreign == {File("__system", d, "other") : d \in {"osd", "fsck", "fsck/lang"}}
             \cup {File("__sysconf", "FMCB", "other")}

(* BOOT-HDD brings no settings of its own, APPS-HDD goes to its partition. *)
ASSUME ListsAssumption ==
  /\ BootHdd \subseteq Seq(STRING \ {"FREEHDB.CNF"})
  /\ AppsHdd \subseteq Seq([part : {Apps}, dir : STRING, name : STRING, isdir : BOOLEAN])

SeqSet(s) == {s[n] : n \in DOMAIN s}
AnyBoot == UNION {SeqSet(BootFiles(b)) : b \in BootHdd}
AnyApps == UNION {SeqSet(a) : a \in AppsHdd}
Files == {f \in SeqSet(PS2SysHDDFiles \o HDDBaseFiles) \cup Foreign \cup AnyBoot \cup AnyApps :
            ~ f.isdir} \ {Mbr}

VARIABLES
  dex,        \* PS2SystemType is PS2_SYSTEM_TYPE_DEX
  op,         \* "install", "cleanup", "format"
  skip,       \* INSTALL_MODE_FLAG_SKIP_CNF
  boots,      \* what the list has of BOOT-HDD ...
  extra,      \* ... and of APPS-HDD
  pc, result,
  k,          \* the entry of the list
  current,    \* CurrentlyMountedBlockDeviceName
  mounted,    \* the partition that pfs0: stands for, or "none"
  disk,       \* what each file holds: "absent", "old", "part", "new"
  dirs,       \* the folders: pairs of partition and folder
  misread,    \* history: those last taken for empty because their reading failed
  apps,       \* the partition PP.FHDB.APPS: "none", "raw", "pfs"
  mbr,        \* the sectors that this installation has written
  boot,       \* booting from the disk is enabled
  config,     \* the block of settings: "closed", "read", "write"
  seen,       \* the setting in OSDConfigBuffer
  faults      \* how many accesses have failed

vars == <<dex, op, skip, boots, extra, pc, result, k, current, mounted, disk, dirs,
          misread, apps, mbr, boot, config, seen, faults>>
ofUser == <<dex, op, skip, boots, extra>>
ofDisk == <<disk, dirs, misread, apps, mbr>>
ofBoot == <<boot, config, seen>>

SystemDirs  == {<<"__system", d>> : d \in {"osd", "fsck", "fsck/lang"}}
SysconfDirs == {<<"__sysconf", "FMCB">>}

(* The files in the folder d of partition p, and in the folders within it. *)
Inside(p, d) ==
  {f \in Files : f.part = p /\ (f.dir = d \/ (d = "fsck" /\ f.dir = "fsck/lang"))}

Left(p, d, dk) == {f \in Inside(p, d) : dk[f] # "absent"}

Init ==
  /\ dex \in BOOLEAN
  /\ op = "cleanup" /\ skip = FALSE /\ boots \in BootHdd /\ extra \in AppsHdd
  /\ pc = "done" /\ result = "error" /\ k = 1
  /\ current = "none" /\ mounted = "none"
  /\ \E there \in SUBSET Foreign :
       disk = [f \in Files |-> IF f \in there THEN "old" ELSE "absent"]
  /\ dirs = {x \in SystemDirs \cup SysconfDirs : Left(x[1], x[2], disk) # {}}
  /\ misread = {}
  /\ apps = "none" /\ mbr = {}
  /\ boot \in BOOLEAN /\ config = "closed" /\ seen = FALSE
  /\ faults = 0

(***************************************************************************)
(* The list.                                                               *)
(***************************************************************************)
(* The settings, which the user may want to keep, are the first of these. *)
BaseFiles == IF skip THEN Tail(HDDBaseFiles) ELSE HDDBaseFiles

SysFiles == IF dex THEN DEXSysHDDFiles ELSE PS2SysHDDFiles
FileCopyList == SysFiles \o BaseFiles \o BootFiles(boots) \o extra

Fault == faults < MaxFaults /\ faults' = faults + 1
Goto(there) == pc' = there /\ UNCHANGED <<result, faults>>
Refuse(there) == pc' = there /\ result' = "error" /\ UNCHANGED faults
Fail(there) == pc' = there /\ result' = "error" /\ Fault
Ok == result = "ok"

(***************************************************************************)
(* The user begins an operation, and another one when it is over.  What    *)
(* there is on the disk then, is old.                                      *)
(***************************************************************************)
Aged == [f \in Files |-> IF disk[f] = "absent" THEN "absent" ELSE "old"]

Choose(o) ==
  /\ pc = "done"
  /\ op' = o /\ result' = "ok" /\ k' = 1
  /\ disk' = Aged /\ mbr' = {}
  /\ current' = "none" /\ seen' = FALSE /\ misread' = {}
  /\ UNCHANGED <<dex, mounted, dirs, apps, boot, config, faults>>

(* HasOldFMCBConfigFileOnHDD, and the question. *)
BeginInstall ==
  /\ Choose("install")
  /\ pc' = "stat"
  /\ boots' \in BootHdd /\ extra' \in AppsHdd
  /\ skip' \in {FALSE} \cup (IF disk[Cnf] # "absent" THEN {TRUE} ELSE {})

BeginCleanup == Choose("cleanup") /\ pc' = "clean_system" /\ UNCHANGED <<skip, boots, extra>>

(* hddFormat, by CheckFormat or from the menu, which goes on when it has   *)
(* failed.  It leaves the settings of the console alone.                   *)
Format ==
  /\ pc = "done"
  /\ op' = "format"
  /\ \/ result' = "ok" /\ UNCHANGED faults
     \/ result' = "error" /\ Fault
  /\ disk' = [f \in Files |-> "absent"] /\ dirs' = {} /\ apps' = "none" /\ mbr' = {}
  /\ UNCHANGED <<dex, skip, boots, extra, pc, k, current, mounted, misread, ofBoot>>

(***************************************************************************)
(* Mounting.                                                               *)
(***************************************************************************)
Mountable(p) == mounted = "none" /\ (p = Apps => apps = "pfs")

(* Mounts p and goes on, or fails. *)
MountFor(at, p, there) ==
  /\ pc = at
  /\ \/ Mountable(p) /\ mounted' = p /\ Goto(there)
     \/ ~ Mountable(p) /\ mounted' = mounted /\ Refuse("done")
     \/ mounted' = mounted /\ Fail("done")
  /\ UNCHANGED <<ofUser, k, current, ofDisk, ofBoot>>

(***************************************************************************)
(* The sizes of the files, and the partition for APPS-HDD.                 *)
(***************************************************************************)
(* AddDirContentsToFileCopyList takes a folder of the source whose reading *)
(* fails for one that ends there, and the list is shorter.                 *)
Some(s, lists) == {t \in lists : SeqSet(t) \subseteq SeqSet(s)}

Stat ==
  /\ pc = "stat"
  /\ \/ Fail("done") /\ UNCHANGED <<boots, extra>>
     \/ /\ \/ UNCHANGED <<boots, extra, faults>>
           \/ boots' \in Some(boots, BootHdd) /\ extra' \in Some(extra, AppsHdd) /\ Fault
        /\ pc' = (IF extra' = <<>> THEN "clean_system" ELSE "apps") /\ UNCHANGED result
  /\ UNCHANGED <<dex, op, skip, k, current, mounted, ofDisk, ofBoot>>

MountApps ==
  /\ pc = "apps"
  /\ \/ Mountable(Apps) /\ mounted' = Apps /\ Goto("apps_space")
     \/ ~ Mountable(Apps) /\ mounted' = mounted /\ Goto("apps_create")
     \/ mounted' = mounted /\ pc' = "apps_create" /\ UNCHANGED result /\ Fault
  /\ UNCHANGED <<ofUser, k, current, ofDisk, ofBoot>>

AppsSpace ==
  /\ pc = "apps_space"
  /\ mounted' = "none"
  /\ Refuse("done") \/ Goto("clean_system")
  /\ UNCHANGED <<ofUser, k, current, ofDisk, ofBoot>>

AppsGone == [f \in Files |-> IF f.part = Apps THEN "absent" ELSE disk[f]]
WithoutApps == {d \in dirs : d[1] # Apps}

(* HDDCheckHasSpace says no; or CreateAPPSPartition.  What a failure in it *)
(* leaves is a partition without a file system.  An old one that could not *)
(* be mounted may be opened, too.                                          *)
CreateAPPSPartition ==
  /\ pc = "apps_create"
  /\ \/ Refuse("done") /\ UNCHANGED <<apps, disk, dirs>>
     \/ /\ apps' = "raw" /\ disk' = AppsGone /\ dirs' = WithoutApps
        /\ Fail("done")
     \/ /\ apps' = "pfs" /\ disk' = AppsGone /\ dirs' = WithoutApps \cup {<<Apps, "">>}
        /\ Goto("apps_attributes")
  /\ UNCHANGED <<ofUser, k, current, mounted, misread, mbr, ofBoot>>

(* WriteAPPSPartitionAttributes, and DeleteAPPSPartition when it fails. *)
WriteAttributes ==
  /\ pc = "apps_attributes"
  /\ \/ Goto("clean_system") /\ UNCHANGED <<apps, dirs>>
     \/ /\ Fail("done")
        /\ \/ apps' = "none" /\ dirs' = WithoutApps
           \/ UNCHANGED <<apps, dirs>>
  /\ UNCHANGED <<ofUser, k, current, mounted, disk, misread, mbr, ofBoot>>

(***************************************************************************)
(* _CleanupHDDTarget.  The results of its deletions are not looked at; a   *)
(* fault of one of them stands for any number of accesses that fail in it. *)
(***************************************************************************)
(* Mutant: one file more is taken for ".". *)
Empty_OneLeft(p, d, dk) == \A f, g \in Left(p, d, dk) : f = g
Empty(p, d, dk) == Left(p, d, dk) = {}

Without(S) == [f \in Files |-> IF f \in S THEN "absent" ELSE disk[f]]

(* The doomed files are deleted by name or with their folder, then the     *)
(* folders in tested: DeleteFolderIfEmpty counts what it reads, an error   *)
(* ends its loop as the end of the folder does, and DeleteFolder takes     *)
(* all that it finds.  A folder that nothing is left in goes, too.         *)
DeleteIn(p, doomed, tested) ==
  \E gone \in SUBSET doomed, unread \in SUBSET tested :
    LET rest  == Without(gone)
        taken == UNION {Left(p, d, rest) : d \in unread \cup {x \in tested : Empty(p, x, rest)}}
    IN  \E kept \in SUBSET taken :
          /\ IF gone = doomed /\ unread = {} /\ kept = {} THEN UNCHANGED faults ELSE Fault
          /\ disk' = Without(gone \cup (taken \ kept))
          /\ misread' = {<<p, d>> : d \in unread}
          /\ dirs' = {x \in dirs : x[1] = p => Left(p, x[2], disk') # {}}

CleanSystem == MountFor("clean_system", "__system", "delete_system")

SystemFiles == {File("__system", "osd", "osdmain.elf"), File("__system", "fsck", "fsck.elf")}
                 \cup Inside("__system", "fsck/lang")
SysconfFiles == {File("__sysconf", "FMCB", n) :
                   n \in {"FMCB_CFG.ELF", "USBD.IRX", "USBHDFSD.IRX"}}

DeleteSystem ==
  /\ pc = "delete_system"
  /\ DeleteIn("__system", SystemFiles, {"osd", "fsck"})
  /\ mounted' = "none"
  /\ pc' = "clean_sysconf" /\ UNCHANGED result
  /\ UNCHANGED <<ofUser, k, current, apps, mbr, ofBoot>>

CleanSysconf == MountFor("clean_sysconf", "__sysconf", "delete_sysconf")

DeleteSysconf ==
  /\ pc = "delete_sysconf"
  /\ DeleteIn("__sysconf", SysconfFiles, {"FMCB"})
  /\ mounted' = "none"
  /\ pc' = (IF op = "install" THEN "folders_system" ELSE "done") /\ UNCHANGED result
  /\ UNCHANGED <<ofUser, k, current, apps, mbr, ofBoot>>

(***************************************************************************)
(* CreateBasicFoldersOnHDD                                                 *)
(***************************************************************************)
FoldersSystem  == MountFor("folders_system", "__system", "make_system")
FoldersSysconf == MountFor("folders_sysconf", "__sysconf", "make_sysconf")

Make(at, new, there) ==
  /\ pc = at
  /\ mounted' = "none"
  /\ \/ dirs' = dirs \cup new /\ Goto(there)
     \/ dirs' = dirs /\ Fail("done")
  /\ UNCHANGED <<ofUser, k, current, disk, misread, apps, mbr, ofBoot>>

MakeSystem  == Make("make_system", SystemDirs, "folders_sysconf")
MakeSysconf == Make("make_sysconf", SysconfDirs, "copy")

(***************************************************************************)
(* CopyFilesToHDD                                                          *)
(***************************************************************************)
Entry == FileCopyList[k]
AllCopied == k > Len(FileCopyList)

AfterCopy_Enable == "enable"      \* mutant: the result of the copying is lost
AfterCopy == IF Ok THEN "enable" ELSE "done"

CopyEnd ==
  /\ pc = "copy" /\ (AllCopied \/ ~ Ok)
  /\ mounted' = "none"
  /\ pc' = AfterCopy
  /\ UNCHANGED <<ofUser, result, k, current, ofDisk, ofBoot, faults>>

(* The file is opened, then its partition is mounted, unless it is, says   *)
(* CurrentlyMountedBlockDeviceName.                                        *)
Umount == IF current # "none" THEN "none" ELSE mounted

MountableNow == Umount = "none" /\ (Entry.part = Apps => apps = "pfs")

CopyMount ==
  /\ pc = "copy" /\ ~ AllCopied /\ Ok /\ Entry # Mbr
  /\ \/ ~ Entry.isdir /\ Fail("copy") /\ UNCHANGED <<mounted, current>>     \* fopen
     \/ /\ Entry.part = current
        /\ Goto("write") /\ UNCHANGED <<mounted, current>>
     \/ /\ Entry.part # current
        /\ \/ MountableNow /\ mounted' = Entry.part /\ Goto("write")
           \/ ~ MountableNow /\ mounted' = Umount /\ Refuse("copy")
           \/ mounted' = Umount /\ Fail("copy")
        /\ current' = IF Entry.isdir /\ result' # "ok" THEN current ELSE Entry.part
  /\ UNCHANGED <<ofUser, k, ofDisk, ofBoot>>

HasFolder == <<mounted, Entry.dir>> \in dirs
Onto == [Entry EXCEPT !.part = mounted]     \* the partition behind pfs0:

WriteEntry ==
  /\ pc = "write"
  /\ \/ /\ HasFolder
        /\ IF Entry.isdir
             THEN dirs' = dirs \cup {<<mounted, Entry.name>>} /\ UNCHANGED disk
             ELSE disk' = [disk EXCEPT ![Onto] = "new"] /\ UNCHANGED dirs
        /\ k' = k + 1 /\ Goto("copy")
     \/ /\ HasFolder /\ ~ Entry.isdir                 \* a read or a write fails
        /\ disk' = [disk EXCEPT ![Onto] = "part"]
        /\ Fail("copy") /\ UNCHANGED <<dirs, k>>
     \/ Fail("copy") /\ UNCHANGED <<disk, dirs, k>>   \* mkdir or fopen
     \/ ~ HasFolder /\ Refuse("copy") /\ UNCHANGED <<disk, dirs, k>>
  /\ UNCHANGED <<ofUser, current, mounted, misread, apps, mbr, ofBoot>>

(* InstallMBRToHDD: MBR_WRITE_BLOCK_SIZE sectors at a time. *)
MBR_WRITE_BLOCK_SIZE == 2
MBR_NumSectors_Down == MbrSize \div Sector      \* mutant: rounded down
MBR_NumSectors == (MbrSize + Sector - 1) \div Sector

Written == Cardinality(mbr)
NumSectorsToWrite ==
  IF MBR_NumSectors - Written > MBR_WRITE_BLOCK_SIZE THEN MBR_WRITE_BLOCK_SIZE
                                                     ELSE MBR_NumSectors - Written

(* At last the program is registered, and the result not looked at. *)
InstallMBRToHDD ==
  /\ pc = "copy" /\ ~ AllCopied /\ Ok /\ Entry = Mbr
  /\ \/ Fail("copy") /\ UNCHANGED <<mbr, k>>
     \/ /\ Written < MBR_NumSectors
        /\ mbr' = mbr \cup Written .. Written + NumSectorsToWrite - 1
        /\ UNCHANGED <<k, pc, result, faults>>
     \/ /\ Written = MBR_NumSectors
        /\ k' = k + 1 /\ Goto("copy") /\ UNCHANGED mbr
  /\ UNCHANGED <<ofUser, current, mounted, disk, dirs, misread, apps, ofBoot>>

(***************************************************************************)
(* EnableHDDBooting.  Each call is repeated until it succeeds.             *)
(***************************************************************************)
OpenConfig ==
  /\ pc \in {"enable", "enable_write"} /\ config = "closed"
  /\ config' = IF pc = "enable" THEN "read" ELSE "write"
  /\ UNCHANGED <<ofUser, pc, result, k, current, mounted, ofDisk, boot, seen, faults>>

ReadConfig ==
  /\ pc = "enable" /\ config = "read"
  /\ seen' = boot
  /\ pc' = "close"
  /\ UNCHANGED <<ofUser, result, k, current, mounted, ofDisk, boot, config, faults>>

WriteConfig ==
  /\ pc = "enable_write" /\ config = "write"
  /\ boot' = TRUE /\ seen' = TRUE
  /\ pc' = "close"
  /\ UNCHANGED <<ofUser, result, k, current, mounted, ofDisk, config, faults>>

CloseConfig_Stays == config      \* mutant: not closed when there is nothing to write
CloseConfig == "closed"

Close ==
  /\ pc = "close"
  /\ config' = IF seen THEN CloseConfig ELSE "closed"
  /\ pc' = IF seen THEN "done" ELSE "enable_write"
  /\ UNCHANGED <<ofUser, result, k, current, mounted, ofDisk, boot, seen, faults>>

(* A call of these that fails changes nothing, and is made again. *)
Config == OpenConfig \/ ReadConfig \/ WriteConfig \/ Close

Work ==
  \/ Stat \/ MountApps \/ AppsSpace \/ CreateAPPSPartition \/ WriteAttributes
  \/ CleanSystem \/ DeleteSystem \/ CleanSysconf \/ DeleteSysconf
  \/ FoldersSystem \/ MakeSystem \/ FoldersSysconf \/ MakeSysconf
  \/ CopyMount \/ WriteEntry \/ InstallMBRToHDD \/ CopyEnd

Next == BeginInstall \/ BeginCleanup \/ Format \/ Work \/ Config

Spec == Init /\ [][Next]_vars

(***************************************************************************)
(* Properties.                                                             *)
(***************************************************************************)
Complete ==
  /\ \A e \in SeqSet(FileCopyList) :
       IF e = Mbr THEN TRUE ELSE IF e.isdir THEN <<e.part, e.name>> \in dirs ELSE disk[e] = "new"
  /\ mbr = 0 .. (MbrSize + Sector - 1) \div Sector - 1

TypeOK ==
  /\ dex \in BOOLEAN /\ op \in {"install", "cleanup", "format"} /\ skip \in BOOLEAN
  /\ boots \in BootHdd /\ extra \in AppsHdd /\ result \in {"ok", "error"} /\ k \in Nat
  /\ {current, mounted} \subseteq {"none", "__system", "__sysconf", Apps}
  /\ disk \in [Files -> {"absent", "old", "part", "new"}]
  /\ misread \subseteq SystemDirs \cup SysconfDirs
  /\ apps \in {"none", "raw", "pfs"} /\ mbr \subseteq Nat
  /\ boot \in BOOLEAN /\ config \in {"closed", "read", "write"} /\ seen \in BOOLEAN
  /\ faults \in 0 .. MaxFaults

(* An installation announced as complete has every file of its list whole, *)
(* on its own partition, every sector of the boot program and no more, and *)
(* booting from the disk enabled (system.c:938-971, 1041-1079, 1356).      *)
InstalledWhole == pc = "done" /\ op = "install" /\ result = "ok" => Complete /\ boot

(* Booting from the disk is never turned on before there is all that it    *)
(* boots (system.c:1349-1361).                                             *)
EnabledLast == [][~ boot /\ boot' => Complete]_vars

(* However an operation ends, pfs0: is free and the settings are closed    *)
(* for the next one (system.c:1085, 1103-1125, 1135-1153, 881-906).        *)
NothingMounted == pc = "done" => mounted = "none" /\ config = "closed"

(* Clean-up and installation lose no file of others, and not the settings  *)
(* that the user wants to keep (system.c:1135-1149, 1262-1265), except     *)
(* what others have in fsck/lang, which is deleted whole (system.c:1138),  *)
(* and what is in a folder whose reading failed when it was tested: that   *)
(* one is taken for empty and deleted with all its files (735-748).        *)
Exposed(f) == f.dir = "fsck/lang" \/ <<f.part, f.dir>> \in misread

UserFilesKept ==
  [][\A f \in Foreign \cup {Cnf} : op' = "format" \/ Exposed(f)' \/
       /\ disk[f] # "absent" => disk'[f] # "absent"
       /\ f = Cnf /\ op = "install" /\ skip /\ disk[f] = "old" => disk'[f] = "old"]_vars
=============================================================================
