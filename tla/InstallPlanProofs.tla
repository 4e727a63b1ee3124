-------------------------- MODULE InstallPlanProofs --------------------------
(***************************************************************************)
(* The plan of an installation (InstallPlan), for any set of consoles, any *)
(* number of added files and any size of them.                             *)
(***************************************************************************)
EXTENDS InstallPlan, TLAPS

(***************************************************************************)
(* Lists of targets.                                                       *)
(***************************************************************************)
Name     == {"osd", "osdmain.elf", "osdsys.elf", "dev9.irx", "atad.irx", "hddload.irx",
             "xosdmain.elf", "xosdmain.irx", "xendvdpl.irx", "endvdpl.irx", "FMCB.icn",
             "icon.sys", "FMCB_CFG.ELF", "FREEMCB.CNF", "sysconf.icn", "USBD.IRX",
             "USBHDFSD.IRX", "entry"}
Target   == Folder \X Name \X Nat
Elems(s) == {s[i] : i \in DOMAIN s}

LEMMA Cat ==
  ASSUME NEW s \in Seq(Target), NEW t \in Seq(Target)
  PROVE  /\ s \o t \in Seq(Target) /\ Len(s \o t) = Len(s) + Len(t)
         /\ Elems(s \o t) = Elems(s) \cup Elems(t)
  <1>1. s \o t \in Seq(Target) /\ Len(s \o t) = Len(s) + Len(t)
    OBVIOUS
  <1>2. \A x \in Elems(s) \cup Elems(t) : x \in Elems(s \o t)
    <2> TAKE x \in Elems(s) \cup Elems(t)
    <2>1. CASE x \in Elems(s)
      <3>1. PICK i \in 1 .. Len(s) : x = s[i]
        BY <2>1 DEF Elems
      <3>2. i \in 1 .. Len(s \o t) /\ (s \o t)[i] = s[i]
        OBVIOUS
      <3> QED BY <3>1, <3>2, <1>1 DEF Elems
    <2>2. CASE x \in Elems(t)
      <3>1. PICK i \in 1 .. Len(t) : x = t[i]
        BY <2>2 DEF Elems
      <3>2. Len(s) + i \in 1 .. Len(s \o t) /\ (s \o t)[Len(s) + i] = t[i]
        OBVIOUS
      <3> QED BY <3>1, <3>2, <1>1 DEF Elems
    <2> QED BY <2>1, <2>2
  <1>3. \A x \in Elems(s \o t) : x \in Elems(s) \cup Elems(t)
    <2> TAKE x \in Elems(s \o t)
    <2>1. PICK i \in 1 .. Len(s) + Len(t) : x = (s \o t)[i]
      BY <1>1 DEF Elems
    <2>2. CASE i <= Len(s)
      <3>1. i \in 1 .. Len(s) /\ x = s[i]
        BY <2>1, <2>2
      <3> QED BY <3>1 DEF Elems
    <2>3. CASE i > Len(s)
      <3>1. i - Len(s) \in 1 .. Len(t) /\ x = t[i - Len(s)]
        BY <2>1, <2>3
      <3> QED BY <3>1 DEF Elems
    <2> QED BY <2>1, <2>2, <2>3
  <1> QED BY <1>1, <1>2, <1>3

LEMMA One ==
  ASSUME NEW x \in Target
  PROVE  << x >> \in Seq(Target) /\ Len(<< x >>) = 1 /\ Elems(<< x >>) = {x}
  BY DEF Elems

LEMMA Empty == << >> \in Seq(Target) /\ Len(<< >>) = 0 /\ Elems(<< >>) = {}
  BY DEF Elems

LEMMA NamedIs ==
  ASSUME NEW f \in Folder, NEW n \in Name
  PROVE  Named(f, n) \in Target /\ Named(f, n)[1] = f
  BY DEF Named, Target

(* The file that a console looks for, in a folder.                         *)
LEMMA InIs ==
  ASSUME NEW f \in Folder, NEW rom \in Nat
  PROVE  In(f, SysExecFile(rom)) \in Target
  <1>1. SysExecFile(rom)[1] \in {"osd", "osdmain.elf"} /\ SysExecFile(rom)[2] \in Nat
    <2>1. CASE rom >= \h130
      <3>1. SysExecFile(rom) = << "osdmain.elf", 0 >>
        BY <2>1 DEF SysExecFile
      <3> QED BY <3>1
    <2>2. CASE ~ (rom >= \h130) /\ rom \in {\h100, \h101}
      <3>1. SysExecFile(rom) = << "osd", \h130 >>
        BY <2>2 DEF SysExecFile
      <3> QED BY <3>1
    <2>3. CASE ~ (rom >= \h130) /\ rom \notin {\h100, \h101}
      <3>1. ((rom + 16) \div 16) * 16 \in Nat
        OBVIOUS
      <3>2. SysExecFile(rom) = << "osd", ((rom + 16) \div 16) * 16 >>
        BY <2>3 DEF SysExecFile
      <3> QED BY <3>1, <3>2
    <2> QED BY <2>1, <2>2, <2>3
  <1> QED BY <1>1 DEF Target, In, Name

LEMMA TableIs ==
  /\ Len(FileAlias) = 8 /\ DOMAIN FileAlias = 1 .. 8
  /\ FileAlias[1] = <<"I", "osd", \h130>> /\ FileAlias[2] = <<"I", "osdmain.elf", 0>>
  /\ FileAlias[3] = <<"E", "osd", \h130>> /\ FileAlias[4] = <<"E", "osdmain.elf", 0>>
  /\ FileAlias[5] = <<"A", "osd", \h120>> /\ FileAlias[6] = <<"A", "osd", \h130>>
  /\ FileAlias[7] = <<"A", "osdmain.elf", 0>> /\ FileAlias[8] = <<"C", "osdmain.elf", 0>>
  BY DEF FileAlias

LEMMA AliasIs ==
  ASSUME NEW k \in 1 .. 8
  PROVE  FileAlias[k] \in Target /\ FileAlias[k][1] \in {"I", "E", "A", "C"}
  <1>1. k \in {1, 2, 3, 4, 5, 6, 7, 8}
    OBVIOUS
  <1> QED BY <1>1, TableIs DEF Target, Folder, Name

(* The copies: the aliases that are wanted.                                *)
LEMMA CopiedIs ==
  ASSUME NEW c, NEW fs
  PROVE  /\ Copied(c, fs) \in Seq(Target)
         /\ Elems(Copied(c, fs)) = {FileAlias[k] : k \in {j \in 1 .. 8 : Wanted(c, fs, FileAlias[j])}}
         /\ (\A k \in 1 .. 8 : ~ Wanted(c, fs, FileAlias[k])) => Len(Copied(c, fs)) = 0
  <1> DEFINE w(i) == Wanted(c, fs, FileAlias[i])
             p(i) == IF w(i) THEN << FileAlias[i] >> ELSE << >>
             e(i) == IF w(i) THEN {FileAlias[i]} ELSE {}
  <1>1. ASSUME NEW i \in 1 .. 8
        PROVE  /\ p(i) \in Seq(Target) /\ Elems(p(i)) = e(i)
               /\ ~ w(i) => Len(p(i)) = 0
    <2>1. CASE w(i)
      <3>1. p(i) = << FileAlias[i] >> /\ e(i) = {FileAlias[i]}
        BY <2>1
      <3> HIDE DEF p, e, w
      <3> QED BY <2>1, <3>1, AliasIs, One
    <2>2. CASE ~ w(i)
      <3>1. p(i) = << >> /\ e(i) = {}
        BY <2>2
      <3> HIDE DEF p, e, w
      <3> QED BY <2>2, <3>1, Empty
    <2> QED BY <2>1, <2>2
  <1>2. Copied(c, fs) = p(1) \o p(2) \o p(3) \o p(4) \o p(5) \o p(6) \o p(7) \o p(8)
    BY DEF Copied
  <1> HIDE DEF p
  <1> DEFINE s2 == p(1) \o p(2)
             s3 == s2 \o p(3)
             s4 == s3 \o p(4)
             s5 == s4 \o p(5)
             s6 == s5 \o p(6)
             s7 == s6 \o p(7)
             s8 == s7 \o p(8)
  <1> HIDE DEF e
  <1>3. s2 \in Seq(Target) /\ Elems(s2) = e(1) \cup e(2) /\ Len(s2) = Len(p(1)) + Len(p(2))
    BY <1>1, Cat
  <1>4. /\ s3 \in Seq(Target) /\ Elems(s3) = Elems(s2) \cup e(3)
        /\ Len(s3) = Len(s2) + Len(p(3))
    <2> HIDE DEF s2
    <2>1. s3 = s2 \o p(3) /\ 3 \in 1 .. 8
      OBVIOUS
    <2> HIDE DEF s3
    <2>2. p(3) \in Seq(Target) /\ Elems(p(3)) = e(3) /\ s2 \in Seq(Target)
      BY <1>1, <1>3, <2>1
    <2> QED BY <2>1, <2>2, Cat, Zenon
  <1>5. /\ s4 \in Seq(Target) /\ Elems(s4) = Elems(s3) \cup e(4)
        /\ Len(s4) = Len(s3) + Len(p(4))
    <2> HIDE DEF s3
    <2>1. s4 = s3 \o p(4) /\ 4 \in 1 .. 8
      OBVIOUS
    <2> HIDE DEF s4
    <2>2. p(4) \in Seq(Target) /\ Elems(p(4)) = e(4) /\ s3 \in Seq(Target)
      BY <1>1, <1>4, <2>1
    <2> QED BY <2>1, <2>2, Cat, Zenon
  <1>6. /\ s5 \in Seq(Target) /\ Elems(s5) = Elems(s4) \cup e(5)
        /\ Len(s5) = Len(s4) + Len(p(5))
    <2> HIDE DEF s4
    <2>1. s5 = s4 \o p(5) /\ 5 \in 1 .. 8
      OBVIOUS
    <2> HIDE DEF s5
    <2>2. p(5) \in Seq(Target) /\ Elems(p(5)) = e(5) /\ s4 \in Seq(Target)
      BY <1>1, <1>5, <2>1
    <2> QED BY <2>1, <2>2, Cat, Zenon
  <1>7. /\ s6 \in Seq(Target) /\ Elems(s6) = Elems(s5) \cup e(6)
        /\ Len(s6) = Len(s5) + Len(p(6))
    <2> HIDE DEF s5
    <2>1. s6 = s5 \o p(6) /\ 6 \in 1 .. 8
      OBVIOUS
    <2> HIDE DEF s6
    <2>2. p(6) \in Seq(Target) /\ Elems(p(6)) = e(6) /\ s5 \in Seq(Target)
      BY <1>1, <1>6, <2>1
    <2> QED BY <2>1, <2>2, Cat, Zenon
  <1>8. /\ s7 \in Seq(Target) /\ Elems(s7) = Elems(s6) \cup e(7)
        /\ Len(s7) = Len(s6) + Len(p(7))
    <2> HIDE DEF s6
    <2>1. s7 = s6 \o p(7) /\ 7 \in 1 .. 8
      OBVIOUS
    <2> HIDE DEF s7
    <2>2. p(7) \in Seq(Target) /\ Elems(p(7)) = e(7) /\ s6 \in Seq(Target)
      BY <1>1, <1>7, <2>1
    <2> QED BY <2>1, <2>2, Cat, Zenon
  <1>9. /\ s8 \in Seq(Target) /\ Elems(s8) = Elems(s7) \cup e(8)
        /\ Len(s8) = Len(s7) + Len(p(8))
    <2> HIDE DEF s7
    <2>1. s8 = s7 \o p(8) /\ 8 \in 1 .. 8
      OBVIOUS
    <2> HIDE DEF s8
    <2>2. p(8) \in Seq(Target) /\ Elems(p(8)) = e(8) /\ s7 \in Seq(Target)
      BY <1>1, <1>8, <2>1
    <2> QED BY <2>1, <2>2, Cat, Zenon
  <1> HIDE DEF s2, s3, s4, s5, s6, s7
  <1>10. Copied(c, fs) = s8
    BY <1>2 DEF s2, s3, s4, s5, s6, s7
  <1> HIDE DEF s8
  <1>11. Elems(s8) = e(1) \cup e(2) \cup e(3) \cup e(4) \cup e(5) \cup e(6) \cup e(7) \cup e(8)
    BY <1>3, <1>4, <1>5, <1>6, <1>7, <1>8, <1>9
  <1>12. \A x : x \in Elems(s8) <=> \E k \in {1, 2, 3, 4, 5, 6, 7, 8} : x \in e(k)
    BY <1>11
  <1>13. {1, 2, 3, 4, 5, 6, 7, 8} = 1 .. 8
    OBVIOUS
  <1>14. Elems(s8) = {FileAlias[k] : k \in {j \in 1 .. 8 : w(j)}}
    BY <1>12, <1>13 DEF e
  <1>15. (\A k \in 1 .. 8 : ~ w(k)) => Len(s8) = 0
    <2> SUFFICES ASSUME \A k \in 1 .. 8 : ~ w(k) PROVE Len(s8) = 0
      OBVIOUS
    <2>1. \A k \in 1 .. 8 : Len(p(k)) = 0
      BY <1>1
    <2>2. /\ Len(p(1)) = 0 /\ Len(p(2)) = 0 /\ Len(p(3)) = 0 /\ Len(p(4)) = 0
          /\ Len(p(5)) = 0 /\ Len(p(6)) = 0 /\ Len(p(7)) = 0 /\ Len(p(8)) = 0
      BY <2>1
    <2>3. Len(s4) = 0
      BY <2>2, <1>3, <1>4, <1>5
    <2>4. Len(s7) = 0
      BY <2>2, <2>3, <1>6, <1>7, <1>8
    <2> QED BY <2>2, <2>4, <1>9
  <1> QED BY <1>9, <1>10, <1>14, <1>15

(***************************************************************************)
(* The tables.                                                             *)
(***************************************************************************)
IsList(s, n, e) == s \in Seq(Target) /\ Len(s) = n /\ Elems(s) = e

LEMMA TwoList ==
  ASSUME NEW x \in Target, NEW y \in Target
  PROVE  IsList(<< x, y >>, 2, {x, y})
  BY DEF IsList, Elems

LEMMA ThreeList ==
  ASSUME NEW x \in Target, NEW y \in Target, NEW z \in Target
  PROVE  IsList(<< x, y, z >>, 3, {x, y, z})
  BY DEF IsList, Elems

LEMMA CatList ==
  ASSUME NEW s, NEW t, NEW m, NEW n, NEW e, NEW f, IsList(s, m, e), IsList(t, n, f)
  PROVE  IsList(s \o t, m + n, e \cup f)
  BY Cat DEF IsList

Hddload == {Named("I", "dev9.irx"), Named("I", "atad.irx"), Named("I", "hddload.irx")}
Psx     == {Named("R", "xosdmain.elf"), Named("R", "xosdmain.irx"), Named("R", "xendvdpl.irx")}
Resource(f) == {Named(f, "FMCB.icn"), Named(f, "icon.sys")}
Cnf     == Named("SYS-CONF", "FREEMCB.CNF")
Others  == {Named("SYS-CONF", "FMCB_CFG.ELF"), Named("SYS-CONF", "icon.sys"),
            Named("SYS-CONF", "sysconf.icn"), Named("SYS-CONF", "USBD.IRX"),
            Named("SYS-CONF", "USBHDFSD.IRX")}

LEMMA TablesAre ==
  /\ IsList(BootROM100JUpdateFiles, 1, {Named("I", "osdsys.elf")})
  /\ IsList(BootROM101JUpdateFiles, 1, {<<"I", "osd", \h110>>})
  /\ IsList(DEXSysFiles, 1, {Named("R", "osdmain.elf")})
  /\ IsList(PS2HDDLOADSysFiles, 3, Hddload)
  /\ IsList(PSXSysFiles, 3, Psx)
  /\ IsList(<< >>, 0, {})
  <1>1. IsList(BootROM100JUpdateFiles, 1, {Named("I", "osdsys.elf")})
    <2>1. Named("I", "osdsys.elf") \in Target
      BY NamedIs DEF Folder, Name
    <2> QED BY <2>1, One DEF IsList, BootROM100JUpdateFiles
  <1>2. IsList(BootROM101JUpdateFiles, 1, {<<"I", "osd", \h110>>})
    <2>1. <<"I", "osd", \h110>> \in Target
      BY DEF Target, Folder, Name
    <2> QED BY <2>1, One DEF IsList, BootROM101JUpdateFiles
  <1>3. IsList(DEXSysFiles, 1, {Named("R", "osdmain.elf")})
    <2>1. Named("R", "osdmain.elf") \in Target
      BY NamedIs DEF Folder, Name
    <2> QED BY <2>1, One DEF IsList, DEXSysFiles
  <1>4. IsList(PS2HDDLOADSysFiles, 3, Hddload)
    <2>1. \A t \in Hddload : t \in Target
      BY NamedIs DEF Folder, Name, Hddload
    <2> QED BY <2>1, ThreeList DEF Hddload, PS2HDDLOADSysFiles
  <1>5. IsList(PSXSysFiles, 3, Psx)
    <2>1. \A t \in Psx : t \in Target
      BY NamedIs DEF Folder, Name, Psx
    <2> QED BY <2>1, ThreeList DEF Psx, PSXSysFiles
  <1> QED BY <1>1, <1>2, <1>3, <1>4, <1>5, Empty DEF IsList

LEMMA ResourcesAre ==
  ASSUME NEW f \in Folder
  PROVE  IsList(SysResourceFiles(f), 2, Resource(f))
  <1>1. Named(f, "FMCB.icn") \in Target /\ Named(f, "icon.sys") \in Target
    BY NamedIs DEF Name
  <1> QED BY <1>1, TwoList DEF SysResourceFiles, Resource

LEMMA OwnList ==
  ASSUME NEW c \in Console
  PROVE  IsList(PS2SysFiles(c), 2,
                {In("R", SysExecFile(c.rom)), Named("SYS-CONF", "endvdpl.irx")})
  <1>1. Named("SYS-CONF", "endvdpl.irx") \in Target
    BY NamedIs DEF Folder, Name
  <1>2. c.rom \in Nat /\ "R" \in Folder
    BY ConsoleAssumption DEF Folder
  <1>3. In("R", SysExecFile(c.rom)) \in Target
    BY <1>2, InIs
  <1> QED BY <1>1, <1>3, TwoList DEF PS2SysFiles

LEMMA ConfigIs ==
  ASSUME NEW fs
  PROVE  IF "SKIP_CNF" \in fs THEN IsList(ConfigFiles(fs), 5, Others)
                              ELSE IsList(ConfigFiles(fs), 6, Others \cup {Cnf})
  <1>1. \A t \in Others \cup {Cnf} : t \in Target
    BY NamedIs DEF Folder, Name, Others, Cnf
  <1>2. IsList(BaseFiles, 6, Others \cup {Cnf})
    BY <1>1 DEF BaseFiles, IsList, Elems, Others, Cnf
  <1>3. IsList(<< BaseFiles[1] >> \o SubSeq(BaseFiles, 3, Len(BaseFiles)), 5, Others)
    <2> DEFINE t == SubSeq(BaseFiles, 3, Len(BaseFiles))
               e == Others \ {Named("SYS-CONF", "FMCB_CFG.ELF")}
    <2>1. /\ BaseFiles[1] = Named("SYS-CONF", "FMCB_CFG.ELF")
          /\ BaseFiles[3] = Named("SYS-CONF", "icon.sys")
          /\ BaseFiles[4] = Named("SYS-CONF", "sysconf.icn")
          /\ BaseFiles[5] = Named("SYS-CONF", "USBD.IRX")
          /\ BaseFiles[6] = Named("SYS-CONF", "USBHDFSD.IRX")
      BY DEF BaseFiles
    <2>2. BaseFiles \in Seq(Target) /\ Len(BaseFiles) = 6
      BY <1>2 DEF IsList
    <2>3. t \in Seq(Target) /\ Len(t) = 4 /\ \A k \in 1 .. 4 : t[k] = BaseFiles[k + 2]
      <3>1. t = [k \in 1 .. 4 |-> BaseFiles[2 + k]]
        BY <2>2
      <3>2. \A k \in 1 .. 4 : BaseFiles[2 + k] \in Target
        <4> TAKE k \in 1 .. 4
        <4>1. k \in {1, 2, 3, 4}
          OBVIOUS
        <4> QED BY <1>1, <2>1, <4>1 DEF Others
      <3> HIDE DEF t
      <3> QED BY <3>1, <3>2
    <2> HIDE DEF t
    <2>4. DOMAIN t = {1, 2, 3, 4}
      BY <2>3
    <2>5. t[1] = BaseFiles[3] /\ t[2] = BaseFiles[4] /\ t[3] = BaseFiles[5] /\ t[4] = BaseFiles[6]
      BY <2>3
    <2>6. Elems(t) = e
      <3>1. Elems(t) = {t[1], t[2], t[3], t[4]}
        BY <2>4 DEF Elems
      <3> QED BY <2>1, <2>5, <3>1 DEF Others, Named
    <2>7. IsList(t, 4, e) /\ IsList(<< BaseFiles[1] >>, 1, {BaseFiles[1]})
      <3>1. BaseFiles[1] \in Target
        BY <1>1, <2>1 DEF Others
      <3> QED BY <2>3, <2>6, <3>1, One DEF IsList
    <2>8. IsList(<< BaseFiles[1] >> \o t, 1 + 4, {BaseFiles[1]} \cup e)
      BY <2>7, CatList
    <2>9. {BaseFiles[1]} \cup e = Others
      BY <2>1 DEF Others
    <2>10. IsList(<< BaseFiles[1] >> \o t, 5, Others)
      <3>1. 1 + 4 = 5
        OBVIOUS
      <3> QED BY <2>8, <2>9, <3>1, Zenon
    <2> QED BY <2>10 DEF t
  <1> QED BY <1>2, <1>3 DEF ConfigFiles

(***************************************************************************)
(* The whole list, part by part: as long as it was counted, and of what.   *)
(***************************************************************************)
LEMMA FlagsAre ==
  ASSUME NEW c \in Console, NEW fs \in MenuFlags(c)
  PROVE  /\ c.type \in Type /\ c.rom \in Nat /\ c.region \in Region
         /\ fs \cap {"CROSS_MODEL", "CROSS_REG", "MULTI_INST", "CROSS_PSX"} # {} => c.type = "PS2"
         /\ "CROSS_PSX" \in fs =>
              fs \cap {"CROSS_MODEL", "CROSS_REG", "MULTI_INST"} = {}
         /\ "CROSS_MODEL" \in fs => "CROSS_REG" \notin fs /\ "MULTI_INST" \notin fs
  <1>1. c.type \in Type /\ c.rom \in Nat /\ c.region \in Region
    BY ConsoleAssumption
  <1>2. CASE c.type = "PS2"
    BY <1>1, <1>2 DEF MenuFlags
  <1>3. CASE c.type # "PS2"
    BY <1>1, <1>3 DEF MenuFlags
  <1> QED BY <1>2, <1>3

SystemElems(c, fs) ==
  CASE TargetSystemType(c, fs) = "PSX" -> Psx
    [] TargetSystemType(c, fs) = "DEX" -> {Named("R", "osdmain.elf")}
    [] OTHER -> {In("R", SysExecFile(c.rom)), Named("SYS-CONF", "endvdpl.irx")}
                  \cup Elems(Copied(c, fs))

LEMMA SystemIs ==
  ASSUME NEW c \in Console, NEW fs \in MenuFlags(c)
  PROVE  /\ IsList(SystemFiles(c, fs), CountSystem(c, fs) + Len(Copied(c, fs)), SystemElems(c, fs))
         /\ CountSystem(c, fs) \in Nat /\ Len(Copied(c, fs)) \in Nat
  <1>1. Copied(c, fs) \in Seq(Target) /\ Len(Copied(c, fs)) \in Nat
    BY CopiedIs
  <1>2. IsList(Copied(c, fs), Len(Copied(c, fs)), Elems(Copied(c, fs)))
    BY <1>1 DEF IsList
  <1>3. CASE TargetSystemType(c, fs) = "PSX" \/ TargetSystemType(c, fs) = "DEX"
    <2>1. "CROSS_MODEL" \notin fs /\ "CROSS_REG" \notin fs
      BY <1>3, FlagsAre DEF TargetSystemType
    <2>2. Len(Copied(c, fs)) = 0
      <3>1. \A k \in 1 .. 8 : ~ Wanted(c, fs, FileAlias[k])
        BY <2>1 DEF Wanted
      <3> QED BY <3>1, CopiedIs
    <2>3. CASE TargetSystemType(c, fs) = "PSX"
      <3>1. /\ SystemFiles(c, fs) = PSXSysFiles /\ SystemElems(c, fs) = Psx
            /\ CountSystem(c, fs) = Len(PSXSysFiles)
        BY <2>3 DEF SystemFiles, SystemElems, CountSystem
      <3> QED BY <2>2, <3>1, TablesAre DEF IsList
    <2>4. CASE TargetSystemType(c, fs) = "DEX"
      <3>1. /\ SystemFiles(c, fs) = DEXSysFiles
            /\ SystemElems(c, fs) = {Named("R", "osdmain.elf")}
            /\ CountSystem(c, fs) = Len(DEXSysFiles)
        BY <2>4 DEF SystemFiles, SystemElems, CountSystem
      <3> QED BY <2>2, <3>1, TablesAre DEF IsList
    <2> QED BY <1>3, <2>3, <2>4
  <1>4. CASE TargetSystemType(c, fs) # "PSX" /\ TargetSystemType(c, fs) # "DEX"
    <2> DEFINE o == {In("R", SysExecFile(c.rom)), Named("SYS-CONF", "endvdpl.irx")}
    <2>1. /\ SystemFiles(c, fs) = PS2SysFiles(c) \o Copied(c, fs)
          /\ SystemElems(c, fs) = o \cup Elems(Copied(c, fs))
          /\ CountSystem(c, fs) = Len(PS2SysFiles(c))
      BY <1>4 DEF SystemFiles, SystemElems, CountSystem
    <2>2. IsList(PS2SysFiles(c), 2, o) /\ Len(PS2SysFiles(c)) = 2
      BY OwnList DEF IsList
    <2> HIDE DEF o
    <2>3. IsList(PS2SysFiles(c) \o Copied(c, fs), 2 + Len(Copied(c, fs)), o \cup Elems(Copied(c, fs)))
      BY <1>2, <2>2, CatList
    <2> QED BY <1>1, <2>1, <2>2, <2>3
  <1> QED BY <1>3, <1>4

Japan(c, fs, rom) == (MGLetter(c, fs) = "I" /\ c.rom = rom) \/ AllOfJapan(c, fs)

UpdateElems(c, fs) ==
  (IF Japan(c, fs, \h100) THEN {Named("I", "osdsys.elf")} ELSE {})
    \cup (IF Japan(c, fs, \h101) THEN {<<"I", "osd", \h110>>} ELSE {})

LEMMA UpdatesAre ==
  ASSUME NEW c \in Console, NEW fs \in MenuFlags(c)
  PROVE  /\ IsList(UpdateFiles(c, fs), CountUpdates(c, fs), UpdateElems(c, fs))
         /\ CountUpdates(c, fs) \in Nat
  <1> DEFINE a == IF Japan(c, fs, \h100) THEN BootROM100JUpdateFiles ELSE << >>
             b == IF Japan(c, fs, \h101) THEN BootROM101JUpdateFiles ELSE << >>
             m == IF Japan(c, fs, \h100) THEN 1 ELSE 0
             n == IF Japan(c, fs, \h101) THEN 1 ELSE 0
             d == IF Japan(c, fs, \h100) THEN {Named("I", "osdsys.elf")} ELSE {}
             e == IF Japan(c, fs, \h101) THEN {<<"I", "osd", \h110>>} ELSE {}
  <1>1. UpdateFiles(c, fs) = a \o b /\ UpdateElems(c, fs) = d \cup e
    BY DEF UpdateFiles, UpdateElems, Japan
  <1>2. IsList(a, m, d)
    BY TablesAre
  <1>3. IsList(b, n, e)
    BY TablesAre
  <1>4. CountUpdates(c, fs) = m + n
    <2>1. Len(BootROM100JUpdateFiles) = 1 /\ Len(BootROM101JUpdateFiles) = 1
      BY TablesAre DEF IsList
    <2>2. c.rom \in Nat /\ \h100 # \h101
      BY FlagsAre
    <2> QED BY <2>1, <2>2 DEF CountUpdates, Japan
  <1>5. m + n \in Nat
    OBVIOUS
  <1> HIDE DEF a, b, m, n, d, e
  <1>6. IsList(a \o b, m + n, d \cup e)
    BY <1>2, <1>3, CatList
  <1> QED BY <1>1, <1>4, <1>5, <1>6

EarlyElems(c, fs) == IF EarlyModel(c, fs) THEN Hddload ELSE {}

LEMMA EarlyAre ==
  ASSUME NEW c, NEW fs
  PROVE  /\ IsList(EarlyFiles(c, fs), CountEarly(c, fs), EarlyElems(c, fs))
         /\ CountEarly(c, fs) \in Nat
  <1>1. IsList(PS2HDDLOADSysFiles, 3, Hddload) /\ Len(PS2HDDLOADSysFiles) = 3
    BY TablesAre DEF IsList
  <1>2. IsList(<< >>, 0, {})
    BY TablesAre
  <1>3. CASE EarlyModel(c, fs)
    BY <1>1, <1>3 DEF EarlyFiles, CountEarly, EarlyElems
  <1>4. CASE ~ EarlyModel(c, fs)
    BY <1>2, <1>4 DEF EarlyFiles, CountEarly, EarlyElems
  <1> QED BY <1>3, <1>4

ResourceElems(fs) ==
  IF AllFolders(fs) THEN Resource("I") \cup Resource("E") \cup Resource("A") \cup Resource("C")
                    ELSE Resource("R")

LEMMA ResourceFilesAre ==
  ASSUME NEW fs
  PROVE  /\ IsList(ResourceFiles(fs), CountResources(fs), ResourceElems(fs))
         /\ CountResources(fs) \in Nat
  <1>1. {"I", "E", "A", "C", "R"} \subseteq Folder
    BY DEF Folder
  <1>2. \A f \in {"I", "E", "A", "C", "R"} : IsList(SysResourceFiles(f), 2, Resource(f))
    BY <1>1, ResourcesAre
  <1>3. CASE AllFolders(fs)
    <2>1. IsList(SysResourceFiles("I") \o SysResourceFiles("E"), 2 + 2,
                 Resource("I") \cup Resource("E"))
      BY <1>2, CatList
    <2>2. IsList(SysResourceFiles("I") \o SysResourceFiles("E") \o SysResourceFiles("A"),
                 2 + 2 + 2, Resource("I") \cup Resource("E") \cup Resource("A"))
      BY <1>2, <2>1, CatList
    <2>3. IsList(SysResourceFiles("I") \o SysResourceFiles("E") \o SysResourceFiles("A")
                   \o SysResourceFiles("C"), 2 + 2 + 2 + 2,
                 Resource("I") \cup Resource("E") \cup Resource("A") \cup Resource("C"))
      BY <1>2, <2>2, CatList
    <2>4. CountResources(fs) = 2 + 2 + 2 + 2
      <3>1. Len(SysResourceFiles("R")) = 2
        BY <1>2 DEF IsList
      <3> DEFINE n == Len(SysResourceFiles("R"))
      <3>2. CountResources(fs) = n + n * 3
        BY <1>3 DEF CountResources
      <3> HIDE DEF n
      <3>3. n = 2
        BY <3>1 DEF n
      <3> QED BY <3>2, <3>3
    <2> QED BY <1>3, <2>3, <2>4 DEF ResourceFiles, ResourceElems
  <1>4. CASE ~ AllFolders(fs)
    BY <1>2, <1>4 DEF ResourceFiles, ResourceElems, CountResources, IsList
  <1> QED BY <1>3, <1>4

ConfigElems(fs) == IF "SKIP_CNF" \in fs THEN Others ELSE Others \cup {Cnf}

LEMMA ConfigFilesAre ==
  ASSUME NEW fs
  PROVE  IsList(ConfigFiles(fs), CountBase(fs), ConfigElems(fs)) /\ CountBase(fs) \in Nat
  <1>1. Len(BaseFiles) = 6
    BY DEF BaseFiles
  <1> QED BY <1>1, ConfigIs DEF CountBase, ConfigElems

Total(c, fs) ==
  CountBase(fs) + CountResources(fs) + CountSystem(c, fs) + CountUpdates(c, fs)
    + CountEarly(c, fs) + Len(Copied(c, fs))

FilledElems(c, fs) ==
  SystemElems(c, fs) \cup UpdateElems(c, fs) \cup EarlyElems(c, fs)
    \cup ResourceElems(fs) \cup ConfigElems(fs)

LEMMA FilledIs ==
  ASSUME NEW c \in Console, NEW fs \in MenuFlags(c)
  PROVE  IsList(Filled(c, fs), Total(c, fs), FilledElems(c, fs)) /\ Total(c, fs) \in Nat
  <1> DEFINE s == CountSystem(c, fs)
             k == Len(Copied(c, fs))
             u == CountUpdates(c, fs)
             y == CountEarly(c, fs)
             r == CountResources(fs)
             b == CountBase(fs)
  <1>1. s \in Nat /\ k \in Nat /\ u \in Nat /\ y \in Nat /\ r \in Nat /\ b \in Nat
    BY SystemIs, UpdatesAre, EarlyAre, ResourceFilesAre, ConfigFilesAre
  <1>2. Total(c, fs) = b + r + s + u + y + k
    BY DEF Total
  <1>3. /\ IsList(SystemFiles(c, fs), s + k, SystemElems(c, fs))
        /\ IsList(UpdateFiles(c, fs), u, UpdateElems(c, fs))
        /\ IsList(EarlyFiles(c, fs), y, EarlyElems(c, fs))
        /\ IsList(ResourceFiles(fs), r, ResourceElems(fs))
        /\ IsList(ConfigFiles(fs), b, ConfigElems(fs))
    BY SystemIs, UpdatesAre, EarlyAre, ResourceFilesAre, ConfigFilesAre
  <1> HIDE DEF s, k, u, y, r, b
  <1>4. IsList(SystemFiles(c, fs) \o UpdateFiles(c, fs), s + k + u,
               SystemElems(c, fs) \cup UpdateElems(c, fs))
    BY <1>3, CatList
  <1>5. IsList(SystemFiles(c, fs) \o UpdateFiles(c, fs) \o EarlyFiles(c, fs), s + k + u + y,
               SystemElems(c, fs) \cup UpdateElems(c, fs) \cup EarlyElems(c, fs))
    BY <1>3, <1>4, CatList
  <1>6. IsList(SystemFiles(c, fs) \o UpdateFiles(c, fs) \o EarlyFiles(c, fs) \o ResourceFiles(fs),
               s + k + u + y + r,
               SystemElems(c, fs) \cup UpdateElems(c, fs) \cup EarlyElems(c, fs)
                 \cup ResourceElems(fs))
    BY <1>3, <1>5, CatList
  <1>7. IsList(Filled(c, fs), s + k + u + y + r + b, FilledElems(c, fs))
    BY <1>3, <1>6, CatList DEF Filled, FilledElems
  <1>8. s + k + u + y + r + b = b + r + s + u + y + k /\ b + r + s + u + y + k \in Nat
    BY <1>1
  <1> QED BY <1>2, <1>7, <1>8

(***************************************************************************)
(* The invariant: the counts are those of the list, and the list is the    *)
(* filled one, its folders those of the console, before entries of APPS.   *)
(***************************************************************************)
Types ==
  /\ console \in Console /\ flags \in MenuFlags(console)
  /\ NumFiles \in Nat /\ NumDirectories \in Nat /\ dirs \in Nat
  /\ list \in Seq(Target)
  /\ free \in Free /\ refused \in BOOLEAN /\ pc \in Pc
  /\ result \in {"ok", "error", "ENOMEM", "ENOENT", "ENOSPC"}

Counted ==
  /\ pc \in {"menu", "count", "fill"} => NumDirectories = 0
  /\ pc = "fill" => NumFiles = Total(console, flags)
  /\ pc = "stat" => list = Filled(console, flags)
  /\ pc \in {"menu", "count", "fill", "stat", "extra", "grow"} => ~ refused
  /\ pc = "grow" => NumFiles + NumDirectories = Len(list) + 1

Planned ==
  pc \in {"extra", "grow", "space", "copy"} =>
    /\ Len(list) >= Total(console, flags)
    /\ \A i \in 1 .. Total(console, flags) :
         list[i] = Regional(console, flags, Filled(console, flags)[i])
    /\ \A i \in 1 .. Len(list) : i > Total(console, flags) => list[i][1] = "APPS"

PlanInv == Types /\ Counted /\ Planned /\ CountIsFilled

LEMMA RegionalIs ==
  ASSUME NEW c \in Console, NEW fs, NEW t \in Target
  PROVE  Regional(c, fs, t) \in Target
  <1>1. t[1] \in Folder /\ t[2] \in Name /\ t[3] \in Nat
    BY DEF Target
  <1>2. MGLetter(c, fs) \in Folder
    BY DEF MGLetter, SysExecFolder, GetMGFolderLetter, Folder
  <1>3. CASE t[1] = "R"
    <2>1. Regional(c, fs, t) = <<MGLetter(c, fs), t[2], t[3]>>
      BY <1>3 DEF Regional
    <2> QED BY <1>1, <1>2, <2>1 DEF Target
  <1>4. CASE t[1] # "R"
    BY <1>4 DEF Regional
  <1> QED BY <1>3, <1>4

LEMMA InitHolds == Init => PlanInv
  <1> SUFFICES ASSUME Init PROVE PlanInv
    OBVIOUS
  <1>1. flags \in MenuFlags(console)
    BY DEF Init, MenuFlags
  <1>2. list \in Seq(Target)
    BY Empty DEF Init
  <1>3. Types
    BY <1>1, <1>2 DEF Init, Types, Pc
  <1> QED BY <1>3 DEF Init, PlanInv, Counted, Planned, CountIsFilled

LEMMA Typing == PlanInv => TypeOK
  <1> SUFFICES ASSUME PlanInv PROVE TypeOK
    OBVIOUS
  <1>1. \A i \in DOMAIN list : list[i][1] \in Folder /\ list[i][3] \in Nat
    <2> TAKE i \in DOMAIN list
    <2>1. list[i] \in Target
      BY DEF PlanInv, Types
    <2> QED BY <2>1 DEF Target
  <1> QED BY <1>1 DEF PlanInv, Types, TypeOK

LEMMA MainMenuStep == ASSUME PlanInv, MainMenu PROVE PlanInv'
  <1>1. Types'
    BY DEF MainMenu, PlanInv, Types, Pc
  <1> QED BY <1>1 DEF MainMenu, PlanInv, Types, Counted, Planned, CountIsFilled

LEMMA CountFilesStep == ASSUME PlanInv, CountFiles PROVE PlanInv'
  <1>1. NumFiles' = Total(console, flags) /\ Total(console, flags) \in Nat
    BY FilledIs DEF CountFiles, Total, PlanInv, Types
  <1>2. Types'
    BY <1>1 DEF CountFiles, PlanInv, Types, Pc
  <1>3. Counted'
    <2>1. NumDirectories' = 0 /\ pc' = "fill" /\ console' = console /\ flags' = flags /\ ~ refused'
      BY DEF CountFiles, PlanInv, Counted
    <2>2. Total(console, flags)' = Total(console, flags)
      BY <2>1
    <2> QED BY <1>1, <2>1, <2>2 DEF Counted
  <1> QED BY <1>2, <1>3 DEF CountFiles, PlanInv, Planned, CountIsFilled

LEMMA FillListStep == ASSUME PlanInv, FillList PROVE PlanInv'
  <1>1. /\ IsList(Filled(console, flags), Total(console, flags), FilledElems(console, flags))
        /\ Total(console, flags) \in Nat
    BY FilledIs DEF PlanInv, Types
  <1>2. CASE pc' = "done"
    <2>1. list' = list /\ result' = "ENOMEM"
      BY <1>2 DEF FillList
    <2>2. Types'
      BY <1>2, <2>1 DEF FillList, PlanInv, Types, Pc
    <2> QED BY <1>2, <2>2 DEF PlanInv, Counted, Planned, CountIsFilled
  <1>3. CASE pc' = "stat" /\ list' = Filled(console, flags) /\ result' = result
    <2>1. Types'
      BY <1>1, <1>3 DEF FillList, PlanInv, Types, Pc, IsList
    <2>2. console' = console /\ flags' = flags
      BY DEF FillList
    <2>3. Filled(console, flags)' = Filled(console, flags)
      BY <2>2
    <2>4. Len(list') = NumFiles' + NumDirectories' /\ ~ refused'
      <3>1. NumFiles' = Total(console, flags) /\ NumDirectories' = 0 /\ ~ refused'
        BY DEF FillList, PlanInv, Counted
      <3>2. Len(list') = Total(console, flags)
        BY <1>1, <1>3 DEF IsList
      <3> QED BY <1>1, <3>1, <3>2
    <2>5. Counted' /\ Planned' /\ CountIsFilled'
      BY <1>3, <2>3, <2>4 DEF Counted, Planned, CountIsFilled
    <2> QED BY <2>1, <2>5 DEF PlanInv
  <1> QED BY <1>2, <1>3 DEF FillList

LEMMA StatStep == ASSUME PlanInv, GetAllBaseFileStats PROVE PlanInv'
  <1>1. /\ IsList(Filled(console, flags), Total(console, flags), FilledElems(console, flags))
        /\ Total(console, flags) \in Nat
    BY FilledIs DEF PlanInv, Types
  <1>2. list = Filled(console, flags) /\ list \in Seq(Target)
    BY DEF GetAllBaseFileStats, PlanInv, Types, Counted
  <1>3. Len(list) = Total(console, flags) /\ DOMAIN list = 1 .. Total(console, flags)
    BY <1>1, <1>2 DEF IsList
  <1>4. list' = [i \in 1 .. Total(console, flags) |-> Regional(console, flags, list[i])]
    BY <1>3 DEF GetAllBaseFileStats
  <1>5. \A i \in 1 .. Total(console, flags) : Regional(console, flags, list[i]) \in Target
    BY <1>2, <1>3, RegionalIs DEF PlanInv, Types
  <1>6. list' \in Seq(Target) /\ Len(list') = Total(console, flags)
    BY <1>1, <1>4, <1>5
  <1>7. Types'
    BY <1>6 DEF GetAllBaseFileStats, PlanInv, Types, Pc
  <1>8. Planned'
    <2>1. console' = console /\ flags' = flags
      BY DEF GetAllBaseFileStats
    <2>2. Total(console, flags)' = Total(console, flags) /\ Filled(console, flags)' = Filled(console, flags)
      BY <2>1
    <2>3. \A i \in 1 .. Total(console, flags) :
            list'[i] = Regional(console', flags', Filled(console, flags)[i])
      BY <1>2, <1>4, <2>1
    <2>4. \A i \in 1 .. Len(list') : ~ (i > Total(console, flags))
      BY <1>1, <1>6
    <2> QED BY <1>1, <1>6, <2>2, <2>3, <2>4 DEF Planned
  <1>9. CountIsFilled'
    BY <1>3, <1>6 DEF GetAllBaseFileStats, PlanInv, CountIsFilled
  <1> QED BY <1>7, <1>8, <1>9 DEF GetAllBaseFileStats, PlanInv, Counted

LEMMA CountExtraStep == ASSUME PlanInv, NEW isDir \in BOOLEAN, CountExtra(isDir) PROVE PlanInv'
  <1>1. NumFiles \in Nat /\ NumDirectories \in Nat /\ Len(list) \in Nat
    BY DEF PlanInv, Types
  <1>2. /\ pc = "extra" /\ pc' = "grow"
        /\ UNCHANGED <<console, flags, list, dirs, free, refused, result>>
    BY DEF CountExtra
  <1>3. NumFiles' \in Nat /\ NumDirectories' \in Nat
        /\ NumFiles' + NumDirectories' = NumFiles + NumDirectories + 1
    BY <1>1 DEF CountExtra
  <1>4. ~ refused /\ NumFiles + NumDirectories = Len(list)
    BY <1>2 DEF PlanInv, Counted, CountIsFilled
  <1>5. Types'
    BY <1>2, <1>3 DEF PlanInv, Types, Pc
  <1>6. Counted'
    BY <1>2, <1>3, <1>4 DEF Counted
  <1>7. Planned'
    BY <1>2 DEF PlanInv, Planned
  <1>8. CountIsFilled'
    BY <1>2 DEF CountIsFilled
  <1> QED BY <1>5, <1>6, <1>7, <1>8 DEF PlanInv

LEMMA AddExtraStep == ASSUME PlanInv, AddExtra PROVE PlanInv'
  <1> DEFINE n == Total(console, flags)
             x == <<"APPS", "entry", Len(list)>>
  <1>1. /\ list \in Seq(Target) /\ Len(list) >= n /\ n \in Nat
        /\ NumFiles \in Nat /\ NumDirectories \in Nat /\ Len(list) \in Nat
    BY FilledIs DEF AddExtra, PlanInv, Types, Planned
  <1>2. x \in Target /\ x[1] = "APPS"
    BY <1>1 DEF Target, Folder, Name
  <1>3. /\ list' = Append(list, x) /\ pc = "grow" /\ pc' \in {"extra", "space"}
        /\ UNCHANGED <<console, flags, NumFiles, NumDirectories, free, refused>>
        /\ dirs' \in {dirs, NumDirectories} /\ result' \in {result, "ENOMEM"}
    BY DEF AddExtra
  <1> HIDE DEF x
  <1>4. /\ list' \in Seq(Target) /\ Len(list') = Len(list) + 1
        /\ list'[Len(list) + 1] = x /\ \A i \in 1 .. Len(list) : list'[i] = list[i]
    BY <1>1, <1>2, <1>3
  <1>5. Types'
    BY <1>3, <1>4 DEF PlanInv, Types, Pc
  <1>6. Planned'
    <2>1. console' = console /\ flags' = flags /\ pc = "grow"
      BY <1>3
    <2>2. Total(console, flags)' = n /\ Filled(console, flags)' = Filled(console, flags)
      BY <2>1
    <2>3. \A i \in 1 .. n : list'[i] = Regional(console', flags', Filled(console, flags)[i])
      BY <1>1, <1>4, <2>1 DEF PlanInv, Planned
    <2>4. \A i \in 1 .. Len(list') : i > n => list'[i][1] = "APPS"
      <3> TAKE i \in 1 .. Len(list')
      <3> HAVE i > n
      <3>1. CASE i \in 1 .. Len(list)
        BY <1>4, <2>1, <3>1 DEF PlanInv, Planned
      <3>2. CASE i = Len(list) + 1
        BY <1>2, <1>4, <3>2
      <3> QED BY <1>1, <1>4, <3>1, <3>2
    <2>5. Len(list') >= n
      BY <1>1, <1>4
    <2> HIDE DEF n
    <2> QED BY <2>2, <2>3, <2>4, <2>5 DEF Planned
  <1>7. NumFiles' + NumDirectories' = Len(list') /\ ~ refused'
    BY <1>3, <1>4 DEF PlanInv, Counted
  <1>8. CountIsFilled' /\ Counted'
    BY <1>3, <1>7 DEF CountIsFilled, Counted
  <1> QED BY <1>5, <1>6, <1>8 DEF PlanInv

LEMMA NoArrayStep == ASSUME PlanInv, NoLargerArray PROVE PlanInv'
  <1>1. /\ pc = "grow" /\ pc' = "space" /\ refused' = TRUE /\ result' = "ENOMEM"
        /\ UNCHANGED <<console, flags, NumFiles, NumDirectories, list, dirs, free>>
    BY DEF NoLargerArray
  <1>2. Types'
    BY <1>1 DEF PlanInv, Types, Pc
  <1>3. Planned'
    BY <1>1 DEF PlanInv, Planned
  <1>4. Counted' /\ CountIsFilled'
    BY <1>1 DEF PlanInv, Counted, CountIsFilled
  <1> QED BY <1>2, <1>3, <1>4 DEF PlanInv

LEMMA SpaceStep == ASSUME PlanInv, CheckSpace PROVE PlanInv'
  <1>1. /\ pc = "space" /\ pc' \in {"copy", "free"} /\ result' \in {result, "ENOSPC"}
        /\ pc' = "copy" => result = "ok" /\ result' = "ok"
        /\ UNCHANGED <<console, flags, NumFiles, NumDirectories, list, dirs, free, refused>>
    BY DEF CheckSpace
  <1>2. Types'
    BY <1>1 DEF PlanInv, Types, Pc
  <1>3. Planned'
    BY <1>1 DEF PlanInv, Planned
  <1>4. Counted' /\ CountIsFilled'
    BY <1>1 DEF PlanInv, Counted, CountIsFilled
  <1> QED BY <1>2, <1>3, <1>4 DEF PlanInv

LEMMA Step == ASSUME PlanInv, [Next]_vars PROVE PlanInv'
  <1>1. CASE MainMenu
    BY <1>1, MainMenuStep
  <1>2. CASE CountFiles
    BY <1>2, CountFilesStep
  <1>3. CASE FillList
    BY <1>3, FillListStep
  <1>4. CASE GetAllBaseFileStats
    BY <1>4, StatStep
  <1>5. CASE \E isDir \in BOOLEAN : CountExtra(isDir)
    BY <1>5, CountExtraStep
  <1>6. CASE AddExtra \/ NoLargerArray \/ CheckSpace
    BY <1>6, AddExtraStep, NoArrayStep, SpaceStep
  <1>7. CASE AddDirContentsEnd
    <2>1. Types'
      BY <1>7 DEF AddDirContentsEnd, PlanInv, Types, Pc
    <2> QED BY <1>7, <2>1 DEF AddDirContentsEnd, PlanInv, Counted, Planned, CountIsFilled
  <1>8. CASE CopyFiles
    <2>1. Types'
      BY <1>8 DEF CopyFiles, PlanInv, Types, Pc
    <2> QED BY <1>8, <2>1 DEF CopyFiles, PlanInv, Counted, Planned, CountIsFilled
  <1>9. CASE FreeList
    <2>1. Types'
      BY <1>9, Empty DEF FreeList, PlanInv, Types, Pc
    <2> QED BY <1>9, <2>1 DEF FreeList, PlanInv, Counted, Planned, CountIsFilled
  <1>10. CASE UNCHANGED vars
    BY <1>10 DEF vars, PlanInv, Types, Counted, Planned, CountIsFilled
  <1> QED BY <1>1, <1>2, <1>3, <1>4, <1>5, <1>6, <1>7, <1>8, <1>9, <1>10 DEF Next

(* What is counted is what is put into the list, whatever the console, the *)
(* flags and the folders BOOT and APPS, until realloc refuses an entry.    *)
THEOREM PlanInvariant == Spec => []PlanInv
  <1>1. Init => PlanInv
    BY InitHolds
  <1>2. PlanInv /\ [Next]_vars => PlanInv'
    BY Step
  <1> QED BY <1>1, <1>2, PTL DEF Spec

THEOREM TypesHold == Spec => []TypeOK
  BY PlanInvariant, Typing, PTL

(* FileCopyList has as many entries as were counted whenever it is gone    *)
(* through; where realloc has refused to enlarge it, one less, and then    *)
(* nothing is copied.                                                      *)
THEOREM CountedIsFilled == Spec => []CountIsFilled
  <1>1. PlanInv => CountIsFilled
    BY DEF PlanInv
  <1> QED BY <1>1, PlanInvariant, PTL

(***************************************************************************)
(* What is copied: the files of the filled list in the folders of the      *)
(* console, and entries of APPS.                                           *)
(***************************************************************************)
Placed(c, fs) == {Regional(c, fs, t) : t \in FilledElems(c, fs)}

LEMMA PlacedIs ==
  ASSUME PlanInv, pc \in {"extra", "grow", "space", "copy"}
  PROVE  /\ Placed(console, flags) \subseteq Targets
         /\ \A t \in Targets : t \in Placed(console, flags) \/ t[1] = "APPS"
  <1> DEFINE n == Total(console, flags)
             l == Filled(console, flags)
  <1>1. l \in Seq(Target) /\ Len(l) = n /\ Elems(l) = FilledElems(console, flags) /\ n \in Nat
    BY FilledIs DEF PlanInv, Types, IsList
  <1>2. /\ list \in Seq(Target) /\ Len(list) >= n
        /\ \A i \in 1 .. n : list[i] = Regional(console, flags, l[i])
        /\ \A i \in 1 .. Len(list) : i > n => list[i][1] = "APPS"
    BY DEF PlanInv, Types, Planned
  <1> HIDE DEF n, l
  <1>3. Placed(console, flags) \subseteq Targets
    <2> SUFFICES ASSUME NEW t \in FilledElems(console, flags)
                 PROVE  Regional(console, flags, t) \in Targets
      BY DEF Placed
    <2>1. PICK i \in 1 .. n : t = l[i]
      BY <1>1 DEF Elems
    <2>2. i \in DOMAIN list /\ list[i] = Regional(console, flags, t)
      BY <1>1, <1>2, <2>1
    <2> QED BY <2>2 DEF Targets
  <1>4. \A t \in Targets : t \in Placed(console, flags) \/ t[1] = "APPS"
    <2> TAKE t \in Targets
    <2>1. PICK i \in 1 .. Len(list) : t = list[i]
      BY <1>2 DEF Targets
    <2>2. CASE i \in 1 .. n
      <3>1. l[i] \in FilledElems(console, flags)
        BY <1>1, <2>2 DEF Elems
      <3> QED BY <1>2, <2>1, <2>2, <3>1 DEF Placed
    <2>3. CASE i > n
      BY <1>2, <2>1, <2>3
    <2> QED BY <1>1, <1>2, <2>1, <2>2, <2>3
  <1> QED BY <1>3, <1>4

(* The folders that the files of a list are in before it is made regional. *)
LEMMA FoldersAre ==
  ASSUME NEW c \in Console, NEW fs \in MenuFlags(c), NEW t \in FilledElems(c, fs)
  PROVE  \/ t[1] \in {"R", "SYS-CONF"}
         \/ t[1] = "I" /\ (AllOfJapan(c, fs) \/ MGLetter(c, fs) = "I")
         \/ t[1] \in {"I", "E", "A", "C"} /\ AllFolders(fs)
         \/ t[1] = SysExecFolder(c) /\ "CROSS_MODEL" \in fs
  <1>1. CASE t \in SystemElems(c, fs)
    <2>1. CASE t \in Psx \/ t = Named("R", "osdmain.elf") \/ t = In("R", SysExecFile(c.rom))
                \/ t = Named("SYS-CONF", "endvdpl.irx")
      BY <2>1 DEF Psx, Named, In
    <2>2. CASE t \in Elems(Copied(c, fs))
      <3>1. PICK k \in 1 .. 8 : t = FileAlias[k] /\ Wanted(c, fs, FileAlias[k])
        BY <2>2, CopiedIs
      <3>2. t[1] \in {"I", "E", "A", "C"}
        BY <3>1, AliasIs
      <3> QED BY <3>1, <3>2 DEF Wanted, AllFolders
    <2> QED BY <1>1, <2>1, <2>2 DEF SystemElems
  <1>2. CASE t \in UpdateElems(c, fs)
    BY <1>2 DEF UpdateElems, Japan, Named
  <1>3. CASE t \in EarlyElems(c, fs)
    BY <1>3 DEF EarlyElems, EarlyModel, Hddload, Named
  <1>4. CASE t \in ResourceElems(fs)
    BY <1>4 DEF ResourceElems, Resource, Named
  <1>5. CASE t \in ConfigElems(fs)
    BY <1>5 DEF ConfigElems, Others, Cnf, Named
  <1> QED BY <1>1, <1>2, <1>3, <1>4, <1>5 DEF FilledElems

LEMMA LetterIs ==
  ASSUME KnownRegions, NEW c \in Console, c.type = "PS2"
  PROVE  SysExecFolder(c) \in {"I", "E", "A", "C"}
  BY ConsoleAssumption DEF KnownRegions, SysExecFolder, GetMGFolderLetter, Region

(* Where every PS2 is of a region that has a folder, no file is copied to  *)
(* a folder that CreateBasicFolders has not made.                          *)
THEOREM FoldersAreCreated == KnownRegions => (Spec => []FoldersCreated)
  <1> SUFFICES ASSUME KnownRegions PROVE Spec => []FoldersCreated
    OBVIOUS
  <1>1. ASSUME PlanInv PROVE FoldersCreated
    <2> SUFFICES ASSUME pc = "copy", NEW t \in Targets
                 PROVE  t[1] \in BasicFolders(console, flags)
      BY DEF FoldersCreated
    <2>1. console \in Console /\ flags \in MenuFlags(console)
      BY <1>1 DEF PlanInv, Types
    <2>2. /\ AllFolders(flags) => MGLetter(console, flags) \in {"I", "E", "A", "C"}
          /\ ~ AllFolders(flags) => MGLetter(console, flags) \in BasicFolders(console, flags)
      <3>1. AllFolders(flags) => console.type = "PS2" /\ "CROSS_PSX" \notin flags
        BY <2>1, FlagsAre DEF AllFolders
      <3> QED BY <2>1, <3>1, LetterIs DEF MGLetter, BasicFolders
    <2>3. AllFolders(flags) => {"I", "E", "A", "C"} \subseteq BasicFolders(console, flags)
      BY DEF BasicFolders
    <2>4. MGLetter(console, flags) \in BasicFolders(console, flags)
      BY <2>2, <2>3
    <2>5. {"APPS", "SYS-CONF"} \subseteq BasicFolders(console, flags)
      BY DEF BasicFolders
    <2>6. CASE t[1] = "APPS"
      BY <2>5, <2>6
    <2>7. CASE t \in Placed(console, flags)
      <3>1. PICK s \in FilledElems(console, flags) : t = Regional(console, flags, s)
        BY <2>7 DEF Placed
      <3>2. CASE s[1] = "R"
        <4>1. t[1] = MGLetter(console, flags)
          BY <3>1, <3>2 DEF Regional
        <4> QED BY <2>4, <4>1
      <3>3. CASE s[1] # "R"
        <4>1. t = s
          BY <3>1, <3>3 DEF Regional
        <4>2. \/ t[1] = "SYS-CONF"
              \/ t[1] = "I" /\ (AllFolders(flags) \/ MGLetter(console, flags) = "I")
              \/ t[1] \in {"I", "E", "A", "C"} /\ AllFolders(flags)
              \/ t[1] = SysExecFolder(console) /\ "CROSS_MODEL" \in flags
          BY <2>1, <3>3, <4>1, FoldersAre DEF AllOfJapan
        <4>3. "CROSS_MODEL" \in flags => MGLetter(console, flags) = SysExecFolder(console)
          BY <2>1, FlagsAre DEF MGLetter
        <4> QED BY <2>3, <2>4, <2>5, <4>2, <4>3
      <3> QED BY <3>2, <3>3
    <2> QED BY <1>1, <2>6, <2>7, PlacedIs
  <1> QED BY <1>1, PlanInvariant, PTL

(***************************************************************************)
(* What a normal installation on a PS2 consists of, and that each part of  *)
(* it is among what is copied.                                             *)
(***************************************************************************)
LEMMA NormalIs ==
  ASSUME NEW c \in Console, c.type = "PS2", NEW t \in Normal(c)
  PROVE  \/ t = OwnFile(c) \/ t = Named("SYS-CONF", "endvdpl.irx")
         \/ SysExecFolder(c) = "I" /\ t \in {Named("I", "osdsys.elf"), <<"I", "osd", \h110>>} \cup Hddload
         \/ t \in Resource(SysExecFolder(c)) \/ t \in Others \/ t = Cnf
  <1>1. {} \in MenuFlags(c)
    BY DEF MenuFlags
  <1>2. IsList(Filled(c, {}), Total(c, {}), FilledElems(c, {}))
    BY <1>1, FilledIs
  <1>3. PICK s \in FilledElems(c, {}) : t = Regional(c, {}, s)
    BY <1>2 DEF Normal, IsList, Elems
  <1>4. MGLetter(c, {}) = SysExecFolder(c) /\ ~ AllOfJapan(c, {}) /\ ~ AllFolders({})
    BY DEF MGLetter, AllOfJapan, AllFolders
  <1>5. CASE s \in SystemElems(c, {})
    <2>1. Elems(Copied(c, {})) = {}
      <3>1. \A k \in 1 .. 8 : ~ Wanted(c, {}, FileAlias[k])
        BY DEF Wanted
      <3> QED BY <3>1, CopiedIs
    <2>2. s = In("R", SysExecFile(c.rom)) \/ s = Named("SYS-CONF", "endvdpl.irx")
      BY <1>5, <2>1 DEF SystemElems, TargetSystemType
    <2>3. CASE s = In("R", SysExecFile(c.rom))
      BY <1>3, <1>4, <2>3 DEF Regional, In, OwnFile
    <2>4. CASE s = Named("SYS-CONF", "endvdpl.irx")
      BY <1>3, <2>4 DEF Regional, Named
    <2> QED BY <2>2, <2>3, <2>4
  <1>6. CASE s \in UpdateElems(c, {})
    <2>1. SysExecFolder(c) = "I" /\ s \in {Named("I", "osdsys.elf"), <<"I", "osd", \h110>>}
      BY <1>4, <1>6 DEF UpdateElems, Japan
    <2>2. t = s
      BY <1>3, <2>1 DEF Regional, Named
    <2> QED BY <2>1, <2>2
  <1>7. CASE s \in EarlyElems(c, {})
    <2>1. SysExecFolder(c) = "I" /\ s \in Hddload
      BY <1>4, <1>7 DEF EarlyElems, EarlyModel
    <2>2. t = s
      BY <1>3, <2>1 DEF Regional, Hddload, Named
    <2> QED BY <2>1, <2>2
  <1>8. CASE s \in ResourceElems({})
    <2>1. s \in Resource("R")
      BY <1>4, <1>8 DEF ResourceElems
    <2> QED BY <1>3, <1>4, <2>1 DEF Regional, Resource, Named
  <1>9. CASE s \in ConfigElems({})
    <2>1. s \in Others \cup {Cnf}
      BY <1>9 DEF ConfigElems
    <2>2. t = s
      BY <1>3, <2>1 DEF Regional, Others, Cnf, Named
    <2> QED BY <2>1, <2>2
  <1> QED BY <1>5, <1>6, <1>7, <1>8, <1>9 DEF FilledElems

(* A file with a folder of its own is copied as it is.                     *)
LEMMA KeptIs ==
  ASSUME NEW c, NEW fs, NEW t \in FilledElems(c, fs), t[1] # "R"
  PROVE  t \in Placed(c, fs)
  BY DEF Placed, Regional

LEMMA ServedIs ==
  ASSUME PlanInv, NEW c \in Console, Served(c)
  PROVE  /\ console \in Console /\ flags \in MenuFlags(console)
         /\ console.type = "PS2" /\ c.type = "PS2"
         /\ TargetSystemType(console, flags) = "PS2"
         /\ MGLetter(console, flags) = SysExecFolder(console)
         /\ SysExecFolder(c) = "I" => AllOfJapan(console, flags)
         /\ AllFolders(flags) \/ SysExecFolder(c) = SysExecFolder(console)
         /\ \/ "CROSS_MODEL" \in flags /\ SysExecFolder(c) = SysExecFolder(console)
            \/ "CROSS_REG" \in flags /\ "CROSS_MODEL" \notin flags
            \/ "MULTI_INST" \in flags
  <1>1. console \in Console /\ flags \in MenuFlags(console)
    BY DEF PlanInv, Types
  <1>2. /\ console.type = "PS2" /\ "CROSS_PSX" \notin flags
        /\ "CROSS_MODEL" \in flags => "CROSS_REG" \notin flags /\ "MULTI_INST" \notin flags
    BY <1>1, FlagsAre DEF Served, AllFolders
  <1>3. TargetSystemType(console, flags) = "PS2" /\ MGLetter(console, flags) = SysExecFolder(console)
    BY <1>2 DEF TargetSystemType, MGLetter
  <1>4. SysExecFolder(c) = "I" => AllOfJapan(console, flags)
    BY <1>3 DEF Served, AllOfJapan
  <1>5. /\ c.type = "PS2" /\ (AllFolders(flags) \/ SysExecFolder(c) = SysExecFolder(console))
        /\ \/ "CROSS_MODEL" \in flags /\ SysExecFolder(c) = SysExecFolder(console)
           \/ "CROSS_REG" \in flags /\ "CROSS_MODEL" \notin flags
           \/ "MULTI_INST" \in flags
    BY <1>2 DEF Served, AllFolders
  <1> QED BY <1>1, <1>2, <1>3, <1>4, <1>5

(* What a console starts by is one of the aliases: the version that it     *)
(* looks for is its own, rounded up.                                       *)
LEMMA StartsByAlias ==
  ASSUME KnownVersions, NEW c \in Console, c.type = "PS2"
  PROVE  \E k \in 1 .. 8 : OwnFile(c) = FileAlias[k]
  <1> DEFINE r == c.rom
             s == SysExecFile(r)
  <1>1. /\ r \in Nat
        /\ \/ c.region = "J" /\ (r \in {\h100, \h101} \/ r >= \h120)
           \/ c.region \in {"A", "H"} /\ r >= \h110
           \/ c.region = "E" /\ r >= \h120
           \/ c.region = "C" /\ r >= \h130
    BY ConsoleAssumption DEF KnownVersions
  <1>2. /\ r >= \h130 => s = <<"osdmain.elf", 0>>
        /\ r \in {\h100, \h101} => s = <<"osd", \h130>>
    BY DEF SysExecFile
  <1>3. r >= \h120 /\ r < \h130 => s = <<"osd", \h130>>
    <2> SUFFICES ASSUME r >= \h120, r < \h130 PROVE s = <<"osd", \h130>>
      OBVIOUS
    <2>1. (r + 16) \div 16 = 19 /\ r \notin {\h100, \h101} /\ ~ (r >= \h130)
      BY <1>1
    <2>2. 19 * 16 = \h130
      OBVIOUS
    <2> QED BY <2>1, <2>2 DEF SysExecFile
  <1>4. r >= \h110 /\ r < \h120 => s = <<"osd", \h120>>
    <2> SUFFICES ASSUME r >= \h110, r < \h120 PROVE s = <<"osd", \h120>>
      OBVIOUS
    <2>1. (r + 16) \div 16 = 18 /\ r \notin {\h100, \h101} /\ ~ (r >= \h130)
      BY <1>1
    <2>2. 18 * 16 = \h120
      OBVIOUS
    <2> QED BY <2>1, <2>2 DEF SysExecFile
  <1>5. OwnFile(c) = <<SysExecFolder(c), s[1], s[2]>>
    BY DEF OwnFile, In
  <1>6. SysExecFolder(c) = CASE c.region = "C" -> "C" [] c.region = "J" -> "I"
                             [] c.region \in {"H", "A"} -> "A" [] c.region = "E" -> "E" [] OTHER -> "R"
    BY DEF SysExecFolder, GetMGFolderLetter
  <1> HIDE DEF r, s
  <1>7. /\ r >= \h130 \/ (r >= \h120 /\ r < \h130) \/ (r >= \h110 /\ r < \h120) \/ r < \h110
        /\ r \in {\h100, \h101} => r < \h110
        /\ r < \h110 /\ r >= \h110 => FALSE
        /\ r < \h120 /\ r >= \h120 => FALSE
        /\ r < \h120 /\ r >= \h130 => FALSE
        /\ r < \h130 /\ r >= \h130 => FALSE
        /\ r < \h110 => ~ (r >= \h120) /\ ~ (r >= \h130)
        /\ r >= \h110 => r \notin {\h100, \h101}
    BY <1>1
  <1>8. CASE c.region = "J"
    <2>1. SysExecFolder(c) = "I" /\ s \in {<<"osdmain.elf", 0>>, <<"osd", \h130>>}
      BY <1>1, <1>2, <1>3, <1>6, <1>7, <1>8
    <2> QED BY <1>5, <2>1, TableIs
  <1>9. CASE c.region \in {"A", "H"}
    <2>1. /\ SysExecFolder(c) = "A"
          /\ s \in {<<"osdmain.elf", 0>>, <<"osd", \h130>>, <<"osd", \h120>>}
      BY <1>1, <1>2, <1>3, <1>4, <1>6, <1>7, <1>9
    <2> QED BY <1>5, <2>1, TableIs
  <1>10. CASE c.region = "E"
    <2>1. SysExecFolder(c) = "E" /\ s \in {<<"osdmain.elf", 0>>, <<"osd", \h130>>}
      BY <1>1, <1>2, <1>3, <1>6, <1>7, <1>10
    <2> QED BY <1>5, <2>1, TableIs
  <1>11. CASE c.region = "C"
    <2>1. SysExecFolder(c) = "C" /\ s = <<"osdmain.elf", 0>>
      BY <1>1, <1>2, <1>6, <1>7, <1>11
    <2> QED BY <1>5, <2>1, TableIs
  <1> QED BY <1>1, <1>8, <1>9, <1>10, <1>11

LEMMA OwnIs ==
  ASSUME PlanInv, KnownVersions, NEW c \in Console, Served(c)
  PROVE  OwnFile(c) \in Placed(console, flags) \cup Aliases
  <1>1. PICK k \in 1 .. 8 : OwnFile(c) = FileAlias[k]
    BY ServedIs, StartsByAlias
  <1>2. CASE "MULTI_INST" \in flags
    BY <1>1, <1>2, TableIs DEF Aliases
  <1>3. CASE OwnFile(c) = OwnFile(console)
    <2>1. In("R", SysExecFile(console.rom)) \in FilledElems(console, flags)
      BY ServedIs DEF FilledElems, SystemElems
    <2>2. Regional(console, flags, In("R", SysExecFile(console.rom))) = OwnFile(console)
      BY ServedIs DEF Regional, In, OwnFile
    <2> QED BY <1>3, <2>1, <2>2 DEF Placed
  <1>4. CASE "MULTI_INST" \notin flags /\ OwnFile(c) # OwnFile(console)
    <2>1. Wanted(console, flags, FileAlias[k])
      <3>1. OwnFile(c)[1] = SysExecFolder(c)
        BY DEF OwnFile, In
      <3> QED BY <1>1, <1>4, <3>1, ServedIs DEF Wanted
    <2>2. OwnFile(c) \in Elems(Copied(console, flags))
      BY <1>1, <2>1, CopiedIs
    <2>3. OwnFile(c) \in FilledElems(console, flags)
      BY <2>2, ServedIs DEF FilledElems, SystemElems
    <2>4. OwnFile(c)[1] # "R"
      BY <1>1, AliasIs
    <2> QED BY <2>3, <2>4, KeptIs
  <1> QED BY <1>2, <1>3, <1>4

(* What the console would have installed for itself is what others of its  *)
(* region, or all of them, are given, where no PS2 has a ROM older than    *)
(* the first of its region.                                                *)
THEOREM ServedBoot == KnownVersions => (Spec => []BootsEverywhere)
  <1> SUFFICES ASSUME KnownVersions PROVE Spec => []BootsEverywhere
    OBVIOUS
  <1>1. ASSUME PlanInv PROVE BootsEverywhere
    <2> SUFFICES ASSUME pc = "copy", NEW c \in Console, Served(c), NEW t \in Normal(c)
                 PROVE  t \in Placed(console, flags) \cup Aliases \cup Skipped
      BY <1>1, PlacedIs DEF BootsEverywhere
    <2>1. console \in Console /\ flags \in MenuFlags(console) /\ c.type = "PS2"
      BY <1>1, ServedIs
    <2>2. CASE t = OwnFile(c)
      BY <1>1, <2>2, OwnIs
    <2>3. CASE t = Named("SYS-CONF", "endvdpl.irx")
      <3>1. t \in FilledElems(console, flags)
        BY <1>1, <2>3, ServedIs DEF FilledElems, SystemElems
      <3>2. t[1] # "R"
        BY <2>3 DEF Named
      <3> QED BY <3>1, <3>2, KeptIs
    <2>4. CASE SysExecFolder(c) = "I" /\ t \in {Named("I", "osdsys.elf"), <<"I", "osd", \h110>>} \cup Hddload
      <3>1. AllOfJapan(console, flags)
        BY <1>1, <2>4, ServedIs
      <3>2. t \in FilledElems(console, flags)
        BY <2>4, <3>1 DEF FilledElems, UpdateElems, EarlyElems, EarlyModel, Japan
      <3>3. t[1] # "R"
        BY <2>4 DEF Named, Hddload
      <3> QED BY <3>2, <3>3, KeptIs
    <2>5. CASE t \in Resource(SysExecFolder(c))
      <3>1. CASE AllFolders(flags)
        <4>1. SysExecFolder(c) \in {"I", "E", "A", "C"}
          <5>1. PICK k \in 1 .. 8 : OwnFile(c) = FileAlias[k]
            BY <2>1, StartsByAlias
          <5> QED BY <5>1, AliasIs DEF OwnFile, In
        <4>2. t \in FilledElems(console, flags)
          BY <2>5, <3>1, <4>1 DEF FilledElems, ResourceElems
        <4>3. t[1] # "R"
          BY <2>5, <4>1 DEF Resource, Named
        <4> QED BY <4>2, <4>3, KeptIs
      <3>2. CASE ~ AllFolders(flags)
        <4>1. SysExecFolder(c) = MGLetter(console, flags)
          BY <1>1, <3>2, ServedIs
        <4>2. PICK s \in Resource("R") : t = Regional(console, flags, s)
          BY <2>5, <4>1 DEF Resource, Regional, Named
        <4>3. s \in FilledElems(console, flags)
          BY <3>2, <4>2 DEF FilledElems, ResourceElems
        <4> QED BY <4>2, <4>3 DEF Placed
      <3> QED BY <3>1, <3>2
    <2>6. CASE t \in Others
      <3>1. t \in FilledElems(console, flags)
        BY <2>6 DEF FilledElems, ConfigElems
      <3>2. t[1] # "R"
        BY <2>6 DEF Others, Named
      <3> QED BY <3>1, <3>2, KeptIs
    <2>7. CASE t = Cnf
      <3>1. CASE "SKIP_CNF" \in flags
        BY <2>7, <3>1 DEF Cnf, Skipped
      <3>2. CASE "SKIP_CNF" \notin flags
        <4>1. t \in FilledElems(console, flags)
          BY <2>7, <3>2 DEF FilledElems, ConfigElems
        <4>2. t[1] # "R"
          BY <2>7 DEF Cnf, Named
        <4> QED BY <4>1, <4>2, KeptIs
      <3> QED BY <3>1, <3>2
    <2> QED BY <2>1, <2>2, <2>3, <2>4, <2>5, <2>6, <2>7, NormalIs
  <1> QED BY <1>1, PlanInvariant, PTL
=============================================================================
