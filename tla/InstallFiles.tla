---------------------------- MODULE InstallFiles ----------------------------
(***************************************************************************)
(* The tables of the files that an installation consists of, and what a    *)
(* console looks for when it starts.                                       *)
(*   system.c   the tables, UpdateRegionalPaths, GetMGFolderLetter         *)
(*                                                                         *)
(* A console is a record of its region, ROM version and type.  A file is   *)
(* <<folder, name, version>>, the version being that of osdXXX.elf, 0 for  *)
(* other names.  Folder "I" is BIEXEC-SYSTEM and so on.                    *)
(***************************************************************************)
EXTENDS Naturals, Sequences

Region == {"J", "H", "A", "E", "C", "X"}
Type   == {"PS2", "PSX", "DEX"}

(***************************************************************************)
(* The console.                                                            *)
(***************************************************************************)
GetMGFolderLetter(region) ==
  CASE region = "C" -> "C"
    [] region = "J" -> "I"
    [] region \in {"H", "A"} -> "A"
    [] region = "E" -> "E"
    [] OTHER -> "R"

(* Mutant: the version is not rounded up. *)
SysExecFile_RoundedDown(rom) ==
  IF rom >= \h130 THEN <<"osdmain.elf", 0>>
  ELSE IF rom \in {\h100, \h101} THEN <<"osd", \h130>>
  ELSE <<"osd", (rom \div 16) * 16>>

SysExecFile(rom) ==
  IF rom >= \h130 THEN <<"osdmain.elf", 0>>
  ELSE IF rom \in {\h100, \h101} THEN <<"osd", \h130>>
  ELSE <<"osd", ((rom + 16) \div 16) * 16>>

In(folder, file) == <<folder, file[1], file[2]>>

SysExecFolder(c) == GetMGFolderLetter(c.region)

OwnFile(c) == In(SysExecFolder(c), SysExecFile(c.rom))

FileAlias == <<
  <<"I", "osd", \h130>>, <<"I", "osdmain.elf", 0>>,
  <<"E", "osd", \h130>>, <<"E", "osdmain.elf", 0>>,
  <<"A", "osd", \h120>>, <<"A", "osd", \h130>>, <<"A", "osdmain.elf", 0>>,
  <<"C", "osdmain.elf", 0>> >>

(***************************************************************************)
(* The tables of files.                                                    *)
(***************************************************************************)
Named(folder, name) == <<folder, name, 0>>

BootROM100JUpdateFiles == << Named("I", "osdsys.elf") >>
BootROM101JUpdateFiles == << <<"I", "osd", \h110>> >>
DEXSysFiles            == << Named("R", "osdmain.elf") >>
PS2HDDLOADSysFiles     == << Named("I", "dev9.irx"), Named("I", "atad.irx"),
                             Named("I", "hddload.irx") >>
PSXSysFiles            == << Named("R", "xosdmain.elf"), Named("R", "xosdmain.irx"),
                             Named("R", "xendvdpl.irx") >>
SysResourceFiles(f)    == << Named(f, "FMCB.icn"), Named(f, "icon.sys") >>
BaseFiles              == << Named("SYS-CONF", "FMCB_CFG.ELF"), Named("SYS-CONF", "FREEMCB.CNF"),
                             Named("SYS-CONF", "icon.sys"), Named("SYS-CONF", "sysconf.icn"),
                             Named("SYS-CONF", "USBD.IRX"), Named("SYS-CONF", "USBHDFSD.IRX") >>
PS2SysFiles(c)         == << In("R", SysExecFile(c.rom)), Named("SYS-CONF", "endvdpl.irx") >>
=============================================================================
