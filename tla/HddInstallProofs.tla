-------------------------- MODULE HddInstallProofs --------------------------
(***************************************************************************)
(* Installations on a disk, for lists, boot programs and faults of any     *)
(* number.                                                                 *)
(***************************************************************************)
EXTENDS HddInstall, FiniteSetTheorems, TLAPS

(***************************************************************************)
(* The list.                                                               *)
(***************************************************************************)
Part == {"__system", "__sysconf", Apps}

IsEntry(e) ==
  /\ e = [part |-> e.part, dir |-> e.dir, name |-> e.name, isdir |-> e.isdir]
  /\ e.isdir \in BOOLEAN
  /\ e = Mbr \/ e.part \in Part

IsList(s) == s \in Seq(SeqSet(s)) /\ \A n \in DOMAIN s : IsEntry(s[n])

LEMMA FileIs ==
  ASSUME NEW p \in Part, NEW d, NEW n
  PROVE  /\ IsEntry(File(p, d, n)) /\ ~ File(p, d, n).isdir
         /\ File(p, d, n).part = p /\ File(p, d, n).dir = d /\ File(p, d, n).name = n
  BY DEF IsEntry, File

LEMMA Concat ==
  ASSUME NEW s, NEW t, IsList(s), IsList(t)
  PROVE  /\ IsList(s \o t) /\ Len(s \o t) = Len(s) + Len(t)
         /\ \A n \in 1 .. Len(s) : (s \o t)[n] = s[n]
         /\ \A n \in 1 .. Len(t) : (s \o t)[Len(s) + n] = t[n]
         /\ SeqSet(s \o t) = SeqSet(s) \cup SeqSet(t)
  <1> DEFINE S == SeqSet(s)  T == SeqSet(t)  st == s \o t
  <1>1. s \in Seq(S \cup T) /\ t \in Seq(S \cup T)
    BY DEF IsList
  <1>2. /\ st \in Seq(S \cup T) /\ Len(st) = Len(s) + Len(t)
        /\ \A n \in 1 .. Len(s) : st[n] = s[n]
        /\ \A n \in 1 .. Len(t) : st[Len(s) + n] = t[n]
    <2> HIDE DEF S, T
    <2> QED BY <1>1
  <1>3. Len(s) \in Nat /\ Len(t) \in Nat /\ DOMAIN s = 1 .. Len(s) /\ DOMAIN t = 1 .. Len(t)
    <2> HIDE DEF S, T
    <2> QED BY <1>1
  <1>4. DOMAIN st = 1 .. Len(s) + Len(t)
    <2> HIDE DEF S, T
    <2> QED BY <1>2
  <1>5. \A n \in DOMAIN st : \/ n \in DOMAIN s /\ st[n] = s[n]
                             \/ \E m \in DOMAIN t : n = Len(s) + m /\ st[n] = t[m]
    <2> SUFFICES ASSUME NEW n \in DOMAIN st, n \notin DOMAIN s
                 PROVE  \E m \in DOMAIN t : n = Len(s) + m /\ st[n] = t[m]
      BY <1>2, <1>3
    <2> HIDE DEF st
    <2>1. n - Len(s) \in DOMAIN t /\ n = Len(s) + (n - Len(s))
      BY <1>3, <1>4
    <2> QED BY <2>1, <1>2, <1>3
  <1>6. SeqSet(st) = S \cup T
    <2>1. SeqSet(st) \subseteq S \cup T
      BY <1>5 DEF SeqSet
    <2>2. \A n \in DOMAIN s : s[n] \in SeqSet(st)
      <3> TAKE n \in DOMAIN s
      <3> HIDE DEF st
      <3>1. n \in DOMAIN st /\ st[n] = s[n]
        BY <1>2, <1>3, <1>4
      <3> QED BY <3>1 DEF SeqSet
    <2>3. \A n \in DOMAIN t : t[n] \in SeqSet(st)
      <3> TAKE n \in DOMAIN t
      <3> HIDE DEF st
      <3>1. Len(s) + n \in DOMAIN st /\ st[Len(s) + n] = t[n]
        BY <1>2, <1>3, <1>4
      <3> QED BY <3>1 DEF SeqSet
    <2> QED BY <2>1, <2>2, <2>3 DEF SeqSet
  <1>7. st \in Seq(SeqSet(st))
    BY <1>2, <1>6
  <1>8. \A n \in DOMAIN st : IsEntry(st[n])
    BY <1>5 DEF IsList
  <1> QED BY <1>2, <1>6, <1>7, <1>8 DEF IsList

LEMMA SysIs ==
  /\ IsList(PS2SysHDDFiles) /\ IsList(DEXSysHDDFiles)
  /\ SeqSet(DEXSysHDDFiles) \subseteq SeqSet(PS2SysHDDFiles)
  /\ Len(PS2SysHDDFiles) > 0 /\ Len(DEXSysHDDFiles) > 0
  /\ PS2SysHDDFiles[1] = Mbr /\ DEXSysHDDFiles[1] = Mbr
  /\ \A e \in SeqSet(PS2SysHDDFiles) : ~ e.isdir /\ e # Cnf
  <1> DEFINE o == File("__system", "osd", "osdmain.elf")
             v == File("__sysconf", "FMCB", "endvdpl.irx")
  <1>1. IsEntry(Mbr) /\ IsEntry(o) /\ IsEntry(v) /\ ~ Mbr.isdir /\ ~ o.isdir /\ ~ v.isdir
    BY FileIs DEF Part, IsEntry, Mbr, File
  <1>2. Mbr # Cnf /\ o # Cnf /\ v # Cnf
    <2>1. Cnf.part = "__sysconf" /\ Cnf.name = "FREEHDB.CNF"
      BY DEF Cnf, File
    <2>2. Mbr.part = "__mbr" /\ o.part = "__system" /\ v.name = "endvdpl.irx"
      BY DEF Mbr, File
    <2> QED BY <2>1, <2>2
  <1>3. DEXSysHDDFiles = <<Mbr, o>> /\ PS2SysHDDFiles = <<Mbr, o>> \o <<v>>
    BY DEF DEXSysHDDFiles, PS2SysHDDFiles
  <1> HIDE DEF o, v
  <1>4. SeqSet(DEXSysHDDFiles) = {Mbr, o} /\ SeqSet(PS2SysHDDFiles) = {Mbr, o, v}
        /\ PS2SysHDDFiles[1] = Mbr /\ Len(PS2SysHDDFiles) = 3
    <2>1. DOMAIN DEXSysHDDFiles = {1, 2} /\ DEXSysHDDFiles[1] = Mbr /\ DEXSysHDDFiles[2] = o
      BY <1>3
    <2>2. /\ DOMAIN PS2SysHDDFiles = {1, 2, 3} /\ PS2SysHDDFiles[1] = Mbr
          /\ PS2SysHDDFiles[2] = o /\ PS2SysHDDFiles[3] = v /\ Len(PS2SysHDDFiles) = 3
      BY <1>3
    <2> QED BY <2>1, <2>2, Zenon DEF SeqSet
  <1>5. DEXSysHDDFiles \in Seq({Mbr, o}) /\ PS2SysHDDFiles \in Seq({Mbr, o, v})
    BY <1>3
  <1>6. (\A n \in DOMAIN DEXSysHDDFiles : IsEntry(DEXSysHDDFiles[n]))
        /\ \A n \in DOMAIN PS2SysHDDFiles : IsEntry(PS2SysHDDFiles[n])
    <2>1. \A e \in SeqSet(DEXSysHDDFiles) \cup SeqSet(PS2SysHDDFiles) : IsEntry(e)
      BY <1>1, <1>4
    <2> QED BY <2>1 DEF SeqSet
  <1> QED BY <1>1, <1>2, <1>3, <1>4, <1>5, <1>6 DEF IsList

LEMMA LangIs ==
  IsList(Lang) /\ \A e \in SeqSet(Lang) : ~ e.isdir /\ e.part = "__system" /\ e.dir = "fsck/lang"
  <1>1. \A n \in 1 .. NumLang : /\ IsEntry(Lang[n]) /\ ~ Lang[n].isdir
                                /\ Lang[n].part = "__system" /\ Lang[n].dir = "fsck/lang"
    <2> TAKE n \in 1 .. NumLang
    <2>1. Lang[n] = File("__system", "fsck/lang", ToString(n))
      BY DEF Lang
    <2>2. "__system" \in Part
      BY DEF Part
    <2> QED BY <2>1, <2>2, FileIs
  <1>2. Lang \in Seq(SeqSet(Lang)) /\ DOMAIN Lang = 1 .. NumLang
    <2>1. DOMAIN Lang = 1 .. NumLang /\ Lang = [n \in 1 .. NumLang |-> Lang[n]]
      BY DEF Lang
    <2>2. NumLang \in Nat /\ \A n \in 1 .. NumLang : Lang[n] \in SeqSet(Lang)
      BY <2>1, SizesAssumption DEF SeqSet
    <2> QED BY <2>1, <2>2
  <1> QED BY <1>1, <1>2 DEF IsList, SeqSet

LEMMA BootIs ==
  ASSUME NEW b \in BootHdd
  PROVE  /\ IsList(BootFiles(b))
         /\ \A e \in SeqSet(BootFiles(b)) : ~ e.isdir /\ e.part = "__sysconf" /\ e # Cnf
  <1> DEFINE s == BootFiles(b)
  <1>1. /\ \A n \in DOMAIN b : b[n] # "FREEHDB.CNF"
        /\ DOMAIN b = 1 .. Len(b) /\ Len(b) \in Nat
    <2> DEFINE Name == STRING \ {"FREEHDB.CNF"}
    <2>1. b \in Seq(Name) /\ \A x \in Name : x # "FREEHDB.CNF"
      BY ListsAssumption
    <2> HIDE DEF Name
    <2> QED BY <2>1
  <1>2. Cnf.name = "FREEHDB.CNF" /\ "__sysconf" \in Part
    BY DEF Cnf, File, Part
  <1>3. \A n \in DOMAIN b : IsEntry(s[n]) /\ ~ s[n].isdir /\ s[n].part = "__sysconf" /\ s[n] # Cnf
    <2> TAKE n \in DOMAIN b
    <2>1. s[n] = File("__sysconf", "FMCB", b[n])
      BY DEF BootFiles
    <2> HIDE DEF s
    <2> QED BY <1>1, <1>2, <2>1, FileIs
  <1>4. s \in Seq(SeqSet(s)) /\ DOMAIN s = DOMAIN b
    <2>1. DOMAIN s = 1 .. Len(b) /\ s = [n \in 1 .. Len(b) |-> s[n]]
      BY <1>1 DEF BootFiles
    <2> HIDE DEF s
    <2>2. \A n \in 1 .. Len(b) : s[n] \in SeqSet(s)
      BY <2>1 DEF SeqSet
    <2> QED BY <1>1, <2>1, <2>2
  <1> QED BY <1>3, <1>4 DEF IsList, SeqSet

LEMMA BaseIs ==
  /\ IsList(HDDBaseFiles) /\ IsList(Tail(HDDBaseFiles))
  /\ SeqSet(Tail(HDDBaseFiles)) \subseteq SeqSet(HDDBaseFiles)
  /\ Cnf \in SeqSet(HDDBaseFiles) /\ Cnf \notin SeqSet(Tail(HDDBaseFiles))
  /\ \A e \in SeqSet(HDDBaseFiles) : ~ e.isdir /\ e.part \in {"__system", "__sysconf"}
  <1> DEFINE a == File("__sysconf", "FMCB", "FMCB_CFG.ELF")
             b == File("__sysconf", "FMCB", "USBD.IRX")
             c == File("__sysconf", "FMCB", "USBHDFSD.IRX")
             d == File("__system", "fsck", "fsck.elf")
  <1>1. /\ IsEntry(Cnf) /\ IsEntry(a) /\ IsEntry(b) /\ IsEntry(c) /\ IsEntry(d)
        /\ ~ Cnf.isdir /\ ~ a.isdir /\ ~ b.isdir /\ ~ c.isdir /\ ~ d.isdir
        /\ Cnf.part = "__sysconf" /\ a.part = "__sysconf" /\ b.part = "__sysconf"
        /\ c.part = "__sysconf" /\ d.part = "__system"
    BY FileIs DEF Cnf, Part
  <1>2. a # Cnf /\ b # Cnf /\ c # Cnf /\ d # Cnf /\ Cnf \notin SeqSet(Lang)
    <2>1. Cnf.part = "__sysconf" /\ Cnf.name = "FREEHDB.CNF"
      BY DEF Cnf, File
    <2>2. a.name = "FMCB_CFG.ELF" /\ b.name = "USBD.IRX" /\ c.name = "USBHDFSD.IRX"
      BY DEF File
    <2>3. d.part = "__system" /\ \A e \in SeqSet(Lang) : e.part = "__system"
      BY <1>1, LangIs
    <2> QED BY <2>1, <2>2, <2>3
  <1> HIDE DEF a, b, c, d
  <1>3. IsList(<<Cnf, a, b, c, d>>) /\ SeqSet(<<Cnf, a, b, c, d>>) = {Cnf, a, b, c, d}
    <2> DEFINE s == <<Cnf, a, b, c, d>>
    <2>1. /\ DOMAIN s = {1, 2, 3, 4, 5} /\ s[1] = Cnf /\ s[2] = a /\ s[3] = b /\ s[4] = c
          /\ s[5] = d /\ s \in Seq({Cnf, a, b, c, d})
      OBVIOUS
    <2> HIDE DEF s
    <2>2. SeqSet(s) = {Cnf, a, b, c, d}
      <3>1. SeqSet(s) = {s[n] : n \in {1, 2, 3, 4, 5}}
        BY <2>1 DEF SeqSet
      <3>2. \A x : (\E n \in {1, 2, 3, 4, 5} : x = s[n])
                    <=> x = s[1] \/ x = s[2] \/ x = s[3] \/ x = s[4] \/ x = s[5]
        OBVIOUS
      <3>3. \A x : x \in {s[n] : n \in {1, 2, 3, 4, 5}} <=> x \in {s[1], s[2], s[3], s[4], s[5]}
        BY <3>2
      <3>4. SeqSet(s) = {s[1], s[2], s[3], s[4], s[5]}
        BY <3>1, <3>3
      <3> QED BY <2>1, <3>4
    <2>3. \A n \in DOMAIN s : IsEntry(s[n])
      BY <1>1, <2>1
    <2>4. IsList(s)
      BY <2>1, <2>2, <2>3 DEF IsList
    <2> QED BY <2>2, <2>4 DEF s
  <1>4. IsList(<<a, b, c, d>>) /\ SeqSet(<<a, b, c, d>>) = {a, b, c, d}
    <2> DEFINE s == <<a, b, c, d>>
    <2>1. /\ DOMAIN s = {1, 2, 3, 4} /\ s[1] = a /\ s[2] = b /\ s[3] = c
          /\ s[4] = d /\ s \in Seq({a, b, c, d})
      OBVIOUS
    <2> HIDE DEF s
    <2>2. SeqSet(s) = {a, b, c, d}
      BY <2>1, Zenon DEF SeqSet
    <2>3. \A n \in DOMAIN s : IsEntry(s[n])
      BY <1>1, <2>1
    <2>4. IsList(s)
      BY <2>1, <2>2, <2>3 DEF IsList
    <2> QED BY <2>2, <2>4 DEF s
  <1>5. HDDBaseFiles = <<Cnf, a, b, c, d>> \o Lang
    BY DEF HDDBaseFiles, a, b, c, d
  <1>6. Tail(HDDBaseFiles) = <<a, b, c, d>> \o Lang
    <2>1. Lang \in Seq(SeqSet(Lang))
      BY LangIs DEF IsList
    <2> HIDE DEF SeqSet
    <2> QED BY <1>5, <2>1
  <1>7. IsList(HDDBaseFiles) /\ SeqSet(HDDBaseFiles) = {Cnf, a, b, c, d} \cup SeqSet(Lang)
    <2> DEFINE s == <<Cnf, a, b, c, d>>
    <2>1. IsList(s) /\ IsList(Lang) /\ SeqSet(s) = {Cnf, a, b, c, d} /\ HDDBaseFiles = s \o Lang
      BY <1>3, <1>5, LangIs
    <2> HIDE DEF s
    <2> QED BY <2>1, Concat
  <1>8. IsList(Tail(HDDBaseFiles)) /\ SeqSet(Tail(HDDBaseFiles)) = {a, b, c, d} \cup SeqSet(Lang)
    <2> DEFINE s == <<a, b, c, d>>
    <2>1. IsList(s) /\ IsList(Lang) /\ SeqSet(s) = {a, b, c, d} /\ Tail(HDDBaseFiles) = s \o Lang
      BY <1>4, <1>6, LangIs
    <2> HIDE DEF s
    <2> QED BY <2>1, Concat
  <1> QED BY <1>1, <1>2, <1>7, <1>8, LangIs

LEMMA ExtraIs ==
  ASSUME NEW s \in AppsHdd
  PROVE  IsList(s) /\ \A e \in SeqSet(s) : e.part = Apps /\ e # Cnf /\ e # Mbr
  <1> DEFINE E == [part : {Apps}, dir : STRING, name : STRING, isdir : BOOLEAN]
  <1>1. \A e \in E : IsEntry(e) /\ e.part = Apps
    BY DEF IsEntry, Part
  <1>2. Cnf.part # Apps /\ Mbr.part # Apps
    BY DEF Cnf, Mbr, File, Apps
  <1>3. s \in Seq(E)
    BY ListsAssumption
  <1> HIDE DEF E
  <1>4. DOMAIN s = 1 .. Len(s) /\ Len(s) \in Nat /\ \A n \in DOMAIN s : s[n] \in E
    BY <1>3
  <1>5. s \in Seq(SeqSet(s))
    <2>1. \A n \in 1 .. Len(s) : s[n] \in SeqSet(s)
      BY <1>4 DEF SeqSet
    <2> QED BY <1>3, <1>4, <2>1
  <1> QED BY <1>1, <1>2, <1>4, <1>5 DEF IsList, SeqSet

(* The files of the disk are those that any list names, and some of others. *)
LEMMA FilesAre ==
  /\ \A e \in SeqSet(PS2SysHDDFiles) \cup SeqSet(HDDBaseFiles) : e.isdir \/ e = Mbr \/ e \in Files
  /\ \A b \in BootHdd : \A e \in SeqSet(BootFiles(b)) : e.isdir \/ e = Mbr \/ e \in Files
  /\ \A a \in AppsHdd : \A e \in SeqSet(a) : e.isdir \/ e = Mbr \/ e \in Files
  /\ Cnf \in Files /\ Foreign \subseteq Files
  <1>1. SeqSet(PS2SysHDDFiles \o HDDBaseFiles) = SeqSet(PS2SysHDDFiles) \cup SeqSet(HDDBaseFiles)
    BY SysIs, BaseIs, Concat
  <1>2. \A e \in SeqSet(PS2SysHDDFiles) \cup SeqSet(HDDBaseFiles) \cup Foreign
                 \cup AnyBoot \cup AnyApps : e.isdir \/ e = Mbr \/ e \in Files
    BY <1>1 DEF Files
  <1>3. ~ Cnf.isdir /\ Cnf # Mbr
    BY DEF Cnf, Mbr, File
  <1>4. \A f \in Foreign : ~ f.isdir /\ f # Mbr
    <2>1. \A p, d, n : ~ File(p, d, n).isdir /\ File(p, d, n).part = p
      BY DEF File
    <2>2. Mbr.part = "__mbr"
      BY <2>1 DEF Mbr
    <2>3. \A f \in Foreign : f.part \in {"__system", "__sysconf"} /\ ~ f.isdir
      BY <2>1 DEF Foreign
    <2> QED BY <2>2, <2>3
  <1>5. Cnf \in Files /\ Foreign \subseteq Files
    BY <1>2, <1>3, <1>4, BaseIs
  <1>6. \A b \in BootHdd : SeqSet(BootFiles(b)) \subseteq AnyBoot
    BY DEF AnyBoot
  <1>7. \A a \in AppsHdd : SeqSet(a) \subseteq AnyApps
    BY DEF AnyApps
  <1> QED BY <1>2, <1>5, <1>6, <1>7

LEMMA ListIs ==
  ASSUME dex \in BOOLEAN, skip \in BOOLEAN, boots \in BootHdd, extra \in AppsHdd
  PROVE  /\ Len(FileCopyList) \in Nat \ {0} /\ FileCopyList[1] = Mbr
         /\ DOMAIN FileCopyList = 1 .. Len(FileCopyList)
         /\ \A e \in SeqSet(FileCopyList) :
              /\ IsEntry(e)
              /\ e.isdir \/ e = Mbr \/ e \in Files
              /\ skip => e # Cnf
  <1> DEFINE bf == BootFiles(boots)
  <1>0. IsList(bf) /\ \A e \in SeqSet(bf) : e # Cnf
    BY BootIs
  <1>9. \A e \in SeqSet(bf) : e.isdir \/ e = Mbr \/ e \in Files
    BY FilesAre
  <1>1. /\ IsList(SysFiles) /\ SeqSet(SysFiles) \subseteq SeqSet(PS2SysHDDFiles)
        /\ SysFiles[1] = Mbr /\ Len(SysFiles) > 0
    BY SysIs DEF SysFiles
  <1>2. /\ IsList(BaseFiles) /\ SeqSet(BaseFiles) \subseteq SeqSet(HDDBaseFiles)
        /\ skip => Cnf \notin SeqSet(BaseFiles)
    BY BaseIs DEF BaseFiles
  <1>3. FileCopyList = ((SysFiles \o BaseFiles) \o bf) \o extra
    BY DEF FileCopyList
  <1> HIDE DEF bf
  <1> DEFINE s1 == SysFiles \o BaseFiles  s2 == s1 \o bf
  <1>4. /\ IsList(s1) /\ SeqSet(s1) = SeqSet(SysFiles) \cup SeqSet(BaseFiles)
        /\ Len(s1) = Len(SysFiles) + Len(BaseFiles) /\ s1[1] = SysFiles[1]
    <2>1. 1 \in 1 .. Len(SysFiles) /\ Len(SysFiles) \in Nat /\ Len(BaseFiles) \in Nat
      BY <1>1, <1>2 DEF IsList
    <2> QED BY <1>1, <1>2, <2>1, Concat
  <1> HIDE DEF s1
  <1>5. /\ IsList(s2) /\ SeqSet(s2) = SeqSet(s1) \cup SeqSet(bf)
        /\ Len(s2) = Len(s1) + Len(bf) /\ s2[1] = s1[1] /\ Len(s1) > 0
    <2>1. Len(SysFiles) \in Nat /\ Len(BaseFiles) \in Nat /\ Len(bf) \in Nat
      BY <1>1, <1>2, <1>0 DEF IsList
    <2>2. 1 \in 1 .. Len(s1) /\ Len(s1) > 0
      BY <1>1, <1>4, <2>1
    <2> QED BY <1>4, <2>1, <2>2, <1>0, Concat
  <1> HIDE DEF s2
  <1>6. /\ IsList(FileCopyList) /\ SeqSet(FileCopyList) = SeqSet(s2) \cup SeqSet(extra)
        /\ Len(FileCopyList) = Len(s2) + Len(extra) /\ FileCopyList[1] = s2[1] /\ Len(s2) > 0
    <2>1. Len(s1) \in Nat /\ Len(bf) \in Nat /\ Len(s2) \in Nat
      BY <1>4, <1>5, <1>0 DEF IsList
    <2>2. 1 \in 1 .. Len(s2) /\ Len(s2) > 0
      BY <1>5, <2>1
    <2> QED BY <1>3, <1>5, <2>1, <2>2, ExtraIs, Concat DEF s1, s2
  <1>7. Len(FileCopyList) \in Nat \ {0} /\ DOMAIN FileCopyList = 1 .. Len(FileCopyList)
    <2>1. Len(s2) \in Nat /\ Len(extra) \in Nat
      BY <1>5, ExtraIs DEF IsList
    <2>2. FileCopyList \in Seq(SeqSet(FileCopyList))
      BY <1>6 DEF IsList
    <2> HIDE DEF SeqSet
    <2> QED BY <1>6, <2>1, <2>2
  <1>8. ASSUME NEW e \in SeqSet(FileCopyList)
        PROVE  /\ IsEntry(e)
               /\ e.isdir \/ e = Mbr \/ e \in Files
               /\ skip => e # Cnf
    <2>1. IsEntry(e)
      BY <1>6, <1>8 DEF IsList, SeqSet
    <2>2. \/ e \in SeqSet(SysFiles) \/ e \in SeqSet(BaseFiles)
          \/ e \in SeqSet(bf) \/ e \in SeqSet(extra)
      BY <1>4, <1>5, <1>6, <1>8
    <2>3. e.isdir \/ e = Mbr \/ e \in Files
      BY <1>1, <1>2, <1>9, <2>2, FilesAre
    <2>4. skip => e # Cnf
      BY <1>1, <1>2, <2>2, <1>0, SysIs, ExtraIs
    <2> QED BY <2>1, <2>3, <2>4
  <1> QED BY <1>1, <1>4, <1>5, <1>6, <1>7, <1>8

(***************************************************************************)
(* The invariant: the flow of an operation; what pfs0: stands for, and the *)
(* block of settings; what has been copied, as long as nothing has failed. *)
(***************************************************************************)
CleanUp == {"clean_system", "delete_system", "clean_sysconf", "delete_sysconf"}
Prepare == {"stat", "apps", "apps_space", "apps_create", "apps_attributes",
            "folders_system", "make_system", "folders_sysconf", "make_sysconf"}
Copying == {"copy", "write"}
Enabling == {"enable", "enable_write", "close"}
Mounting == {"apps_space", "delete_system", "make_system", "delete_sysconf", "make_sysconf"}

FlowInv ==
  /\ pc \in CleanUp \cup Prepare \cup Copying \cup Enabling \cup {"done"}
  /\ pc \in CleanUp => op \in {"install", "cleanup"}
  /\ pc \in Prepare \cup Copying \cup Enabling => op = "install"
  /\ pc \notin {"copy", "done"} => Ok

MountInv == pc \notin Mounting \cup Copying => mounted = "none"

ConfigInv ==
  /\ pc \notin Enabling => config = "closed"
  /\ seen => boot

StartInv == pc \in CleanUp \cup Prepare => current = "none" /\ k = 1 /\ mbr = {}

Present(e) == IF e = Mbr THEN TRUE
              ELSE IF e.isdir THEN <<e.part, e.name>> \in dirs ELSE disk[e] = "new"

Arrived ==
  /\ \A n \in 1 .. k - 1 : Present(FileCopyList[n])
  /\ \E w \in 0 .. MBR_NumSectors : mbr = 0 .. w - 1
  /\ k > 1 => mbr = 0 .. MBR_NumSectors - 1

CopyInv ==
  /\ pc \in Copying => k <= Len(FileCopyList) + 1
  /\ pc \in Copying /\ Ok => mounted = current /\ Arrived
  /\ pc = "write" => k <= Len(FileCopyList) /\ Entry # Mbr /\ current = Entry.part
  /\ pc \in Enabling => Complete

WholeInv == pc = "done" /\ op = "install" /\ Ok => Complete /\ boot

Types == TypeOK /\ k > 0

IInv == Types /\ FlowInv /\ MountInv /\ ConfigInv /\ StartInv /\ CopyInv /\ WholeInv

LEMMA SectorsAre == MBR_NumSectors \in Nat
  BY SizesAssumption DEF MBR_NumSectors

LEMMA EntryIs ==
  ASSUME IInv, k <= Len(FileCopyList)
  PROVE  /\ Entry \in SeqSet(FileCopyList) /\ IsEntry(Entry)
         /\ Entry.isdir \/ Entry = Mbr \/ Entry \in Files
         /\ skip => Entry # Cnf
  <1>1. dex \in BOOLEAN /\ skip \in BOOLEAN /\ boots \in BootHdd /\ extra \in AppsHdd /\ k \in Nat /\ k > 0
    BY DEF IInv, Types, TypeOK
  <1>2. k \in DOMAIN FileCopyList
    BY <1>1, ListIs
  <1>3. Entry \in SeqSet(FileCopyList)
    BY <1>2 DEF Entry, SeqSet
  <1> QED BY <1>1, <1>3, ListIs

LEMMA WriteIs ==
  ASSUME IInv, pc = "write"
  PROVE  /\ Ok /\ k <= Len(FileCopyList) /\ Entry # Mbr /\ mounted = Entry.part
         /\ Onto = Entry /\ (~ Entry.isdir => Entry \in Files)
  <1>1. Ok /\ mounted = current /\ k <= Len(FileCopyList) /\ Entry # Mbr /\ current = Entry.part
    BY DEF IInv, FlowInv, CopyInv, Copying
  <1>2. IsEntry(Entry) /\ (Entry.isdir \/ Entry \in Files)
    BY <1>1, EntryIs
  <1>3. Onto = Entry
    BY <1>1, <1>2 DEF Onto, IsEntry
  <1> QED BY <1>1, <1>2, <1>3

(***************************************************************************)
(* Types.                                                                  *)
(***************************************************************************)
State == {"absent", "old", "part", "new"}

LEMMA DiskType ==
  ASSUME IInv, [Next]_vars
  PROVE  disk' \in [Files -> State]
  <1>1. disk \in [Files -> State]
    BY DEF IInv, Types, TypeOK, State
  <1>2. \A S : Without(S) \in [Files -> State]
    BY <1>1 DEF Without, State
  <1>3. CASE BeginInstall \/ BeginCleanup
    BY <1>1, <1>3 DEF BeginInstall, BeginCleanup, Choose, Aged, State
  <1>4. CASE Format
    BY <1>4 DEF Format, State
  <1>5. CASE CreateAPPSPartition
    BY <1>1, <1>5 DEF CreateAPPSPartition, AppsGone, State
  <1>6. CASE DeleteSystem \/ DeleteSysconf
    BY <1>2, <1>6 DEF DeleteSystem, DeleteSysconf, DeleteIn
  <1>7. CASE WriteEntry
    <2>1. pc = "write" /\ k <= Len(FileCopyList)
      BY <1>7, WriteIs DEF WriteEntry
    <2>2. Entry.isdir \in BOOLEAN /\ (~ Entry.isdir => Onto \in Files)
      BY <2>1, WriteIs, EntryIs DEF IsEntry
    <2>3. \/ disk' = disk
          \/ ~ Entry.isdir /\ disk' = [disk EXCEPT ![Onto] = "new"]
          \/ ~ Entry.isdir /\ disk' = [disk EXCEPT ![Onto] = "part"]
      BY <1>7, <2>2 DEF WriteEntry
    <2> QED BY <1>1, <2>2, <2>3 DEF State
  <1>8. CASE UNCHANGED disk
    BY <1>1, <1>8
  <1>9. QED
    BY <1>3, <1>4, <1>5, <1>6, <1>7, <1>8
       DEF Next, Work, Config, vars, ofDisk, Stat, MountApps, AppsSpace, WriteAttributes,
           CleanSystem, CleanSysconf, MountFor, FoldersSystem, FoldersSysconf, MakeSystem,
           MakeSysconf,
           Make, CopyMount, InstallMBRToHDD, CopyEnd, OpenConfig, ReadConfig, WriteConfig, Close

LEMMA MbrStep ==
  ASSUME NEW w \in 0 .. MBR_NumSectors, mbr = 0 .. w - 1
  PROVE  /\ Written = w
         /\ NumSectorsToWrite \in Nat /\ w + NumSectorsToWrite <= MBR_NumSectors
         /\ mbr \cup Written .. Written + NumSectorsToWrite - 1 = 0 .. (w + NumSectorsToWrite) - 1
  <1>1. MBR_NumSectors \in Nat
    BY SectorsAre
  <1>2. Cardinality(0 .. w - 1) = w
    BY FS_Interval
  <1>3. Written = w
    BY <1>2 DEF Written
  <1>4. NumSectorsToWrite \in Nat /\ w + NumSectorsToWrite <= MBR_NumSectors
    BY <1>1, <1>3 DEF NumSectorsToWrite, MBR_WRITE_BLOCK_SIZE
  <1> HIDE DEF Written, NumSectorsToWrite
  <1> QED BY <1>3, <1>4

LEMMA TypesStep ==
  ASSUME IInv, [Next]_vars
  PROVE  Types'
  <1> USE DEF Types, TypeOK
  <1>1. Types
    BY DEF IInv
  <1>2. disk' \in [Files -> {"absent", "old", "part", "new"}]
    BY DiskType DEF State
  <1>3. faults' \in 0 .. MaxFaults
    <2>1. faults' = faults \/ (faults < MaxFaults /\ faults' = faults + 1)
      BY DEF Next, Work, Config, vars, BeginInstall, BeginCleanup, Choose, Format, Fault, Goto,
             Refuse,
             Fail, Stat, MountApps, AppsSpace, CreateAPPSPartition, WriteAttributes,
             CleanSystem, DeleteSystem, CleanSysconf, DeleteSysconf, DeleteIn, MountFor,
             FoldersSystem, FoldersSysconf, MakeSystem, MakeSysconf, Make,
             CopyMount, WriteEntry, InstallMBRToHDD, CopyEnd, OpenConfig, ReadConfig,
             WriteConfig, Close
    <2> QED BY <1>1, <2>1, SizesAssumption
  <1>4. mbr' \subseteq Nat
    <2>1. CASE InstallMBRToHDD
      <3>1. mbr' = mbr \/ mbr' = mbr \cup Written .. Written + NumSectorsToWrite - 1
        BY <2>1 DEF InstallMBRToHDD
      <3>2. pc = "copy" /\ Ok
        BY <2>1 DEF InstallMBRToHDD
      <3>3. PICK w \in 0 .. MBR_NumSectors : mbr = 0 .. w - 1
        BY <3>2 DEF IInv, CopyInv, Copying, Arrived
      <3> QED BY <1>1, <3>1, <3>3, MbrStep
    <2>2. CASE mbr' = mbr \/ mbr' = {}
      BY <1>1, <2>2
    <2> QED BY <2>1, <2>2
       DEF Next, Work, Config, vars, ofDisk, BeginInstall, BeginCleanup, Choose, Format,
           Stat, MountApps, AppsSpace, CreateAPPSPartition, WriteAttributes,
           CleanSystem, DeleteSystem, CleanSysconf, DeleteSysconf, DeleteIn, MountFor,
           FoldersSystem, FoldersSysconf, MakeSystem, MakeSysconf, Make,
           CopyMount, WriteEntry, CopyEnd, OpenConfig, ReadConfig, WriteConfig, Close
  <1>5. /\ dex' \in BOOLEAN /\ op' \in {"install", "cleanup", "format"} /\ skip' \in BOOLEAN
        /\ boots' \in BootHdd /\ extra' \in AppsHdd
    BY <1>1
       DEF Next, Work, Config, vars, ofUser, BeginInstall, BeginCleanup, Choose, Format,
           Stat, MountApps, AppsSpace, CreateAPPSPartition, WriteAttributes,
           CleanSystem, DeleteSystem, CleanSysconf, DeleteSysconf, DeleteIn, MountFor,
           FoldersSystem, FoldersSysconf, MakeSystem, MakeSysconf, Make,
           CopyMount, WriteEntry, InstallMBRToHDD, CopyEnd, OpenConfig, ReadConfig, WriteConfig,
           Close, Some
  <1>12. misread' \subseteq SystemDirs \cup SysconfDirs
    <2>1. CASE DeleteSystem
      <3>1. DeleteIn("__system", SystemFiles, {"osd", "fsck"})
        BY <2>1 DEF DeleteSystem
      <3>2. PICK unread \in SUBSET {"osd", "fsck"} : misread' = {<<"__system", d>> : d \in unread}
        BY <3>1 DEF DeleteIn
      <3> QED BY <3>2 DEF SystemDirs
    <2>2. CASE DeleteSysconf
      <3>1. DeleteIn("__sysconf", SysconfFiles, {"FMCB"})
        BY <2>2 DEF DeleteSysconf
      <3>2. PICK unread \in SUBSET {"FMCB"} : misread' = {<<"__sysconf", d>> : d \in unread}
        BY <3>1 DEF DeleteIn
      <3> QED BY <3>2 DEF SysconfDirs
    <2>3. CASE misread' = misread \/ misread' = {}
      BY <1>1, <2>3
    <2> QED BY <2>1, <2>2, <2>3
       DEF Next, Work, Config, vars, ofDisk, BeginInstall, BeginCleanup, Choose, Format,
           Stat, MountApps, AppsSpace, CreateAPPSPartition, WriteAttributes,
           CleanSystem, CleanSysconf, MountFor,
           FoldersSystem, FoldersSysconf, MakeSystem, MakeSysconf, Make,
           CopyMount, WriteEntry, InstallMBRToHDD, CopyEnd, OpenConfig, ReadConfig, WriteConfig,
           Close
  <1>6. result' \in {"ok", "error"}
    BY <1>1
       DEF Next, Work, Config, vars, BeginInstall, BeginCleanup, Choose, Format, Goto, Refuse, Fail,
           Stat, MountApps, AppsSpace, CreateAPPSPartition, WriteAttributes,
           CleanSystem, DeleteSystem, CleanSysconf, DeleteSysconf, DeleteIn, MountFor,
           FoldersSystem, FoldersSysconf, MakeSystem, MakeSysconf, Make,
           CopyMount, WriteEntry, InstallMBRToHDD, CopyEnd, OpenConfig, ReadConfig, WriteConfig,
           Close
  <1>7. k' \in Nat /\ k' > 0
    <2>1. k' \in {k, k + 1, 1}
      <3>1. CASE BeginInstall \/ BeginCleanup \/ Format
        BY <3>1 DEF BeginInstall, BeginCleanup, Choose, Format
      <3>2. CASE Work
        BY <3>2 DEF Work, Stat, MountApps, AppsSpace, CreateAPPSPartition, WriteAttributes,
             CleanSystem, DeleteSystem, CleanSysconf, DeleteSysconf, DeleteIn, MountFor,
             FoldersSystem, FoldersSysconf, MakeSystem, MakeSysconf, Make,
             CopyMount, WriteEntry, InstallMBRToHDD, CopyEnd
      <3>3. CASE Config \/ UNCHANGED vars
        BY <3>3 DEF Config, vars, OpenConfig, ReadConfig, WriteConfig, Close
      <3> QED BY <3>1, <3>2, <3>3 DEF Next
    <2> QED BY <1>1, <2>1
  <1>8. {current', mounted'} \subseteq {"none", "__system", "__sysconf", Apps}
    <2>1. CASE CopyMount
      <3>1. k <= Len(FileCopyList) /\ Entry # Mbr
        <4>1. k \in Nat /\ Len(FileCopyList) \in Nat /\ ~ k > Len(FileCopyList) /\ Entry # Mbr
          BY <1>1, <2>1, ListIs DEF CopyMount, AllCopied
        <4> QED BY <4>1
      <3>2. Entry.part \in {"none", "__system", "__sysconf", Apps}
        BY <3>1, EntryIs DEF IsEntry, Part
      <3> QED BY <1>1, <2>1, <3>2 DEF CopyMount, Umount
    <2>2. CASE ~ CopyMount
      BY <1>1, <2>2
       DEF Next, Work, Config, vars, BeginInstall, BeginCleanup, Choose, Format,
           Stat, MountApps, AppsSpace, CreateAPPSPartition, WriteAttributes,
           CleanSystem, DeleteSystem, CleanSysconf, DeleteSysconf, DeleteIn, MountFor,
           FoldersSystem, FoldersSysconf, MakeSystem, MakeSysconf, Make,
           WriteEntry, InstallMBRToHDD, CopyEnd, OpenConfig, ReadConfig, WriteConfig, Close
    <2> QED BY <2>1, <2>2
  <1>9. apps' \in {"none", "raw", "pfs"}
    BY <1>1
       DEF Next, Work, Config, vars, ofDisk, BeginInstall, BeginCleanup, Choose, Format,
           Stat, MountApps, AppsSpace, CreateAPPSPartition, WriteAttributes,
           CleanSystem, DeleteSystem, CleanSysconf, DeleteSysconf, DeleteIn, MountFor,
           FoldersSystem, FoldersSysconf, MakeSystem, MakeSysconf, Make,
           CopyMount, WriteEntry, InstallMBRToHDD, CopyEnd, OpenConfig, ReadConfig, WriteConfig,
           Close
  <1>10. boot' \in BOOLEAN /\ config' \in {"closed", "read", "write"} /\ seen' \in BOOLEAN
    BY <1>1
       DEF Next, Work, Config, vars, ofBoot, BeginInstall, BeginCleanup, Choose, Format,
           Stat, MountApps, AppsSpace, CreateAPPSPartition, WriteAttributes,
           CleanSystem, DeleteSystem, CleanSysconf, DeleteSysconf, DeleteIn, MountFor,
           FoldersSystem, FoldersSysconf, MakeSystem, MakeSysconf, Make, CloseConfig,
           CopyMount, WriteEntry, InstallMBRToHDD, CopyEnd, OpenConfig, ReadConfig, WriteConfig,
           Close
  <1>11. QED
    BY <1>2, <1>3, <1>4, <1>5, <1>6, <1>7, <1>8, <1>9, <1>10, <1>12

LEMMA FlowStep ==
  ASSUME IInv, [Next]_vars
  PROVE  FlowInv'
  <1>1. FlowInv /\ op \in {"install", "cleanup", "format"} /\ result \in {"ok", "error"}
    BY DEF IInv, Types, TypeOK
  <1> USE DEF FlowInv, CleanUp, Prepare, Copying, Enabling, Ok
  <1>2. CASE BeginInstall \/ BeginCleanup \/ Format
    BY <1>1, <1>2 DEF BeginInstall, BeginCleanup, Choose, Format
  <1>3. CASE Work
    BY <1>1, <1>3
       DEF Work, ofUser, Goto, Refuse, Fail,
           Stat, MountApps, AppsSpace, CreateAPPSPartition, WriteAttributes,
           CleanSystem, DeleteSystem, CleanSysconf, DeleteSysconf, DeleteIn, MountFor,
           FoldersSystem, FoldersSysconf, MakeSystem, MakeSysconf, Make,
           CopyMount, WriteEntry, InstallMBRToHDD, CopyEnd, AfterCopy
  <1>4. CASE Config
    BY <1>1, <1>4 DEF Config, ofUser, OpenConfig, ReadConfig, WriteConfig, Close
  <1>5. CASE UNCHANGED vars
    BY <1>1, <1>5 DEF vars
  <1>6. QED
    BY <1>2, <1>3, <1>4, <1>5 DEF Next

LEMMA MountStep ==
  ASSUME IInv, [Next]_vars
  PROVE  MountInv' /\ ConfigInv' /\ StartInv'
  <1>1. FlowInv /\ MountInv /\ ConfigInv /\ StartInv
    BY DEF IInv
  <1> USE DEF FlowInv, MountInv, ConfigInv, StartInv, CleanUp, Prepare, Copying, Enabling, Mounting
  <1>2. CASE BeginInstall \/ BeginCleanup
    BY <1>1, <1>2 DEF BeginInstall, BeginCleanup, Choose
  <1>7. CASE Format
    BY <1>1, <1>7 DEF Format, ofBoot
  <1>3. CASE Work
    <2>1. MountInv'
      BY <1>1, <1>3
         DEF Work, Goto, Refuse, Fail,
           Stat, MountApps, AppsSpace, CreateAPPSPartition, WriteAttributes,
           CleanSystem, DeleteSystem, CleanSysconf, DeleteSysconf, DeleteIn, MountFor,
           FoldersSystem, FoldersSysconf, MakeSystem, MakeSysconf, Make,
           CopyMount, WriteEntry, InstallMBRToHDD, CopyEnd, AfterCopy
    <2>2. ConfigInv'
      <3>1. UNCHANGED <<boot, config, seen>> /\ pc \notin Enabling
        BY <1>3
         DEF Work, ofBoot,
           Stat, MountApps, AppsSpace, CreateAPPSPartition, WriteAttributes,
           CleanSystem, DeleteSystem, CleanSysconf, DeleteSysconf, DeleteIn, MountFor,
           FoldersSystem, FoldersSysconf, MakeSystem, MakeSysconf, Make,
           CopyMount, WriteEntry, InstallMBRToHDD, CopyEnd
      <3> QED BY <1>1, <3>1
    <2>3. StartInv'
      BY <1>1, <1>3
         DEF Work, ofDisk, Goto, Refuse, Fail,
           Stat, MountApps, AppsSpace, CreateAPPSPartition, WriteAttributes,
           CleanSystem, DeleteSystem, CleanSysconf, DeleteSysconf, DeleteIn, MountFor,
           FoldersSystem, FoldersSysconf, MakeSystem, MakeSysconf, Make,
           CopyMount, WriteEntry, InstallMBRToHDD, CopyEnd, AfterCopy
    <2> QED BY <2>1, <2>2, <2>3
  <1>4. CASE Config
    BY <1>1, <1>4 DEF Config, ofDisk, OpenConfig, ReadConfig, WriteConfig, Close, CloseConfig
  <1>5. CASE UNCHANGED vars
    BY <1>1, <1>5 DEF vars
  <1>6. QED
    BY <1>2, <1>3, <1>4, <1>5, <1>7 DEF Next

(***************************************************************************)
(* What has been copied.                                                   *)
(***************************************************************************)
LEMMA SameList ==
  ASSUME UNCHANGED <<dex, skip, boots, extra>>
  PROVE  FileCopyList' = FileCopyList
  BY DEF FileCopyList, SysFiles, BaseFiles

LEMMA SameDisk ==
  ASSUME UNCHANGED <<dex, skip, boots, extra, disk, dirs, mbr>>
  PROVE  /\ Complete' <=> Complete
         /\ k' = k => (Arrived' <=> Arrived)
  <1>1. FileCopyList' = FileCopyList
    BY SameList
  <1>2. \A e : Present(e)' <=> Present(e)
    BY DEF Present
  <1> QED BY <1>1, <1>2 DEF Complete, Arrived, SeqSet

LEMMA CompleteIs ==
  ASSUME IInv, Arrived, k > Len(FileCopyList)
  PROVE  Complete
  <1>1. /\ Len(FileCopyList) \in Nat \ {0} /\ DOMAIN FileCopyList = 1 .. Len(FileCopyList)
        /\ k \in Nat
    BY ListIs DEF IInv, Types, TypeOK
  <1>2. \A n \in DOMAIN FileCopyList : Present(FileCopyList[n])
    BY <1>1 DEF Arrived
  <1>3. mbr = 0 .. (MbrSize + Sector - 1) \div Sector - 1
    BY <1>1 DEF Arrived, MBR_NumSectors
  <1> QED BY <1>2, <1>3 DEF Complete, Present, SeqSet

LEMMA InCopy ==
  ASSUME IInv, pc = "copy", ~ AllCopied
  PROVE  k <= Len(FileCopyList) /\ k \in Nat /\ k > 0 /\ Len(FileCopyList) \in Nat
  BY ListIs DEF IInv, Types, TypeOK, AllCopied

LEMMA WriteArrives ==
  ASSUME IInv, WriteEntry, Ok'
  PROVE  pc' = "copy" /\ k' = k + 1 /\ mounted' = current' /\ Arrived'
  <1>1. /\ pc = "write" /\ Ok /\ k <= Len(FileCopyList) /\ Entry # Mbr /\ mounted = Entry.part
        /\ Onto = Entry /\ (~ Entry.isdir => Entry \in Files)
    BY WriteIs DEF WriteEntry
  <1>2. /\ UNCHANGED <<dex, skip, boots, extra, mounted, current, mbr>> /\ mounted = current /\ Arrived
    BY <1>1 DEF WriteEntry, ofUser, IInv, CopyInv, Copying
  <1>3. /\ pc' = "copy" /\ k' = k + 1
        /\ IF Entry.isdir THEN dirs' = dirs \cup {<<mounted, Entry.name>>} /\ UNCHANGED disk
                          ELSE disk' = [disk EXCEPT ![Onto] = "new"] /\ UNCHANGED dirs
    BY <1>1, Zenon DEF WriteEntry, Goto, Fail, Refuse, Ok
  <1>4. disk \in [Files -> State]
    BY DEF IInv, Types, TypeOK, State
  <1>5. Entry.isdir \in BOOLEAN /\ k \in Nat /\ k > 0 /\ DOMAIN FileCopyList = 1 .. Len(FileCopyList)
        /\ Len(FileCopyList) \in Nat
    BY <1>1, EntryIs, ListIs DEF IsEntry, IInv, Types, TypeOK
  <1>6. \A e \in SeqSet(FileCopyList) : Present(e) => Present(e)'
    <2> SUFFICES ASSUME NEW e \in SeqSet(FileCopyList), Present(e)
                 PROVE  Present(e)'
      OBVIOUS
    <2>1. e.isdir \/ e = Mbr \/ e \in Files
      BY ListIs DEF IInv, Types, TypeOK
    <2>2. CASE Entry.isdir
      BY <1>3, <2>2 DEF Present
    <2>3. CASE ~ Entry.isdir
      BY <1>1, <1>3, <1>4, <2>1, <2>3 DEF Present
    <2> QED BY <1>5, <2>2, <2>3
  <1>7. ASSUME NEW e, e = Entry
        PROVE  Present(e)'
    <2>2. CASE Entry.isdir
      BY <1>1, <1>3, <1>7, <2>2 DEF Present
    <2>3. CASE ~ Entry.isdir
      BY <1>1, <1>3, <1>4, <1>7, <2>3 DEF Present
    <2> QED BY <1>5, <2>2, <2>3
  <1>8. FileCopyList' = FileCopyList
    BY <1>2, SameList
  <1>9. \A n \in 1 .. k' - 1 : Present(FileCopyList[n])'
    <2> TAKE n \in 1 .. k' - 1
    <2>1. n \in DOMAIN FileCopyList /\ (n = k \/ n \in 1 .. k - 1)
      BY <1>1, <1>3, <1>5
    <2>2. PICK e : e = FileCopyList[n]
      OBVIOUS
    <2>3. e \in SeqSet(FileCopyList) /\ (n \in 1 .. k - 1 => Present(e)) /\ (n = k => e = Entry)
      BY <1>2, <2>1, <2>2 DEF Arrived, SeqSet, Entry
    <2>4. Present(e)'
      BY <1>6, <1>7, <2>1, <2>3
    <2> QED BY <1>8, <2>2, <2>4
  <1>10. k > 1
    <2>1. FileCopyList[1] = Mbr
      BY ListIs DEF IInv, Types, TypeOK
    <2> QED BY <1>1, <1>5, <2>1 DEF Entry
  <1>11. MBR_NumSectors' = MBR_NumSectors
    BY DEF MBR_NumSectors
  <1> QED BY <1>2, <1>3, <1>8, <1>9, <1>10, <1>11 DEF Arrived

LEMMA MbrArrives ==
  ASSUME IInv, InstallMBRToHDD, Ok'
  PROVE  pc' = "copy" /\ k' <= Len(FileCopyList) + 1 /\ mounted' = current' /\ Arrived'
  <1>1. pc = "copy" /\ ~ AllCopied /\ Ok /\ Entry = Mbr
    BY DEF InstallMBRToHDD
  <1>2. /\ k <= Len(FileCopyList) /\ k \in Nat /\ k > 0 /\ Len(FileCopyList) \in Nat
        /\ mounted = current /\ Arrived
    BY <1>1, InCopy DEF IInv, CopyInv, Copying
  <1>3. UNCHANGED <<dex, skip, boots, extra, mounted, current, disk, dirs>>
    BY DEF InstallMBRToHDD, ofUser
  <1>4. FileCopyList' = FileCopyList /\ \A e : Present(e)' <=> Present(e)
    BY <1>3, SameList DEF Present
  <1>5. PICK w \in 0 .. MBR_NumSectors : mbr = 0 .. w - 1
    BY <1>2 DEF Arrived
  <1>6. MBR_NumSectors \in Nat /\ Written = w
    BY <1>5, MbrStep, SectorsAre
  <1>7. CASE /\ Written < MBR_NumSectors
             /\ mbr' = mbr \cup Written .. Written + NumSectorsToWrite - 1
             /\ UNCHANGED <<k, pc, result, faults>>
    <2>1. k = 1 \/ mbr = 0 .. MBR_NumSectors - 1
      BY <1>2 DEF Arrived
    <2>2. mbr # 0 .. MBR_NumSectors - 1
      BY <1>5, <1>6, <1>7
    <2>3. /\ NumSectorsToWrite \in Nat /\ w + NumSectorsToWrite \in 0 .. MBR_NumSectors
          /\ mbr' = 0 .. (w + NumSectorsToWrite) - 1
      BY <1>5, <1>6, <1>7, MbrStep
    <2> QED BY <1>1, <1>2, <1>3, <1>4, <1>7, <2>1, <2>2, <2>3 DEF Arrived
  <1>8. CASE Written = MBR_NumSectors /\ k' = k + 1 /\ Goto("copy") /\ UNCHANGED mbr
    <2>1. \A n \in 1 .. k : Present(FileCopyList[n])
      <3>1. Present(FileCopyList[k])
        BY <1>1 DEF Present, Entry
      <3> QED BY <1>2, <3>1 DEF Arrived
    <2>2. mbr' = 0 .. MBR_NumSectors - 1 /\ k' - 1 = k /\ pc' = "copy"
      <3>1. w = MBR_NumSectors /\ mbr' = mbr /\ k' = k + 1 /\ pc' = "copy"
        BY <1>6, <1>8 DEF Goto
      <3> QED BY <1>2, <1>5, <3>1
    <2> QED BY <1>2, <1>3, <1>4, <1>6, <1>8, <2>1, <2>2 DEF Arrived
  <1> QED BY <1>1, <1>7, <1>8 DEF InstallMBRToHDD, Fail, Ok

LEMMA CopyStep ==
  ASSUME IInv, [Next]_vars
  PROVE  CopyInv'
  <1>1. FlowInv /\ CopyInv /\ StartInv /\ MountInv
    BY DEF IInv
  <1> USE DEF CleanUp, Prepare, Copying, Enabling, Mounting
  <1>2. CASE BeginInstall \/ BeginCleanup \/ Format
    BY <1>2 DEF BeginInstall, BeginCleanup, Format, Choose, CopyInv
  <1>3. CASE Stat \/ MountApps \/ AppsSpace \/ CreateAPPSPartition \/ WriteAttributes \/ CleanSystem
             \/ DeleteSystem \/ CleanSysconf \/ DeleteSysconf
             \/ FoldersSystem \/ MakeSystem \/ FoldersSysconf
    BY <1>3 DEF Stat, MountApps, AppsSpace, CreateAPPSPartition, WriteAttributes, CleanSystem,
         DeleteSystem, CleanSysconf, DeleteSysconf, DeleteIn, FoldersSystem, MakeSystem, FoldersSysconf,
         MountFor, Make, Goto, Refuse, Fail, CopyInv
  <1>4. CASE MakeSysconf
    <2>1. CASE pc' = "done"
      BY <2>1 DEF CopyInv
    <2>2. CASE pc' = "copy"
      <3>1. /\ pc = "make_sysconf" /\ mounted' = "none"
            /\ UNCHANGED <<dex, skip, boots, extra, k, current, mbr>>
        BY <1>4 DEF MakeSysconf, Make, ofUser
      <3>2. current = "none" /\ k = 1 /\ mbr = {}
        BY <1>1, <3>1 DEF StartInv
      <3>3. FileCopyList' = FileCopyList /\ Len(FileCopyList) \in Nat
        BY <3>1, SameList, ListIs DEF IInv, Types, TypeOK
      <3>4. Arrived'
        <4>1. mbr' = 0 .. 0 - 1 /\ k' = 1 /\ 0 \in 0 .. MBR_NumSectors
          BY <3>1, <3>2, SectorsAre
        <4> QED BY <4>1 DEF Arrived
      <3> QED BY <2>2, <3>1, <3>2, <3>3, <3>4 DEF CopyInv
    <2> QED BY <1>4, <2>1, <2>2 DEF MakeSysconf, Make, Goto, Fail
  <1>5. CASE CopyMount
    <2>1. /\ pc = "copy" /\ ~ AllCopied /\ Ok /\ Entry # Mbr
          /\ UNCHANGED <<dex, skip, boots, extra, k, disk, dirs, mbr>>
      BY <1>5 DEF CopyMount, ofUser, ofDisk
    <2>2. k <= Len(FileCopyList) /\ k \in Nat /\ Len(FileCopyList) \in Nat
      BY <2>1, InCopy
    <2>3. Arrived' /\ mounted = current
      BY <1>1, <2>1, SameDisk DEF CopyInv
    <2>4. FileCopyList' = FileCopyList /\ Entry' = Entry
      BY <2>1, SameList DEF Entry
    <2>5. pc' \in {"copy", "write"} /\ (pc' = "copy" => ~ Ok')
      BY <1>5 DEF CopyMount, Goto, Refuse, Fail, Ok
    <2>6. pc' = "write" => mounted' = Entry.part /\ current' = Entry.part
      BY <1>5, <2>1, <2>3 DEF CopyMount, Goto, Refuse, Fail, Ok
    <2> QED BY <2>1, <2>2, <2>3, <2>4, <2>5, <2>6 DEF CopyInv
  <1>6. CASE WriteEntry
    <2>1. k <= Len(FileCopyList) /\ k \in Nat /\ Len(FileCopyList) \in Nat
      BY <1>6, WriteIs, ListIs DEF WriteEntry, IInv, Types, TypeOK
    <2>2. pc' = "copy" /\ k' \in {k, k + 1} /\ UNCHANGED <<dex, skip, boots, extra>>
      BY <1>6 DEF WriteEntry, Goto, Fail, Refuse, ofUser
    <2>3. FileCopyList' = FileCopyList
      BY <2>2, SameList
    <2> QED BY <1>6, <2>1, <2>2, <2>3, WriteArrives DEF CopyInv
  <1>7. CASE InstallMBRToHDD
    <2>1. pc = "copy" /\ ~ AllCopied /\ UNCHANGED <<dex, skip, boots, extra>>
      BY <1>7 DEF InstallMBRToHDD, ofUser
    <2>2. k <= Len(FileCopyList) /\ k \in Nat /\ Len(FileCopyList) \in Nat
      BY <2>1, InCopy
    <2>3. pc' = "copy" /\ k' \in {k, k + 1}
      BY <1>7 DEF InstallMBRToHDD, Goto, Fail
    <2>4. FileCopyList' = FileCopyList
      BY <2>1, SameList
    <2> QED BY <1>7, <2>2, <2>3, <2>4, MbrArrives DEF CopyInv
  <1>8. CASE CopyEnd
    <2>1. CASE Ok
      <3>1. pc = "copy" /\ AllCopied /\ UNCHANGED <<dex, skip, boots, extra, disk, dirs, mbr>>
        BY <1>8, <2>1 DEF CopyEnd, ofUser, ofDisk
      <3>2. Arrived
        BY <1>1, <2>1, <3>1 DEF CopyInv
      <3>3. Complete
        BY <3>1, <3>2, CompleteIs DEF AllCopied
      <3> QED BY <1>8, <2>1, <3>1, <3>3, SameDisk DEF CopyEnd, AfterCopy, CopyInv
    <2>2. CASE ~ Ok
      BY <1>8, <2>2 DEF CopyEnd, AfterCopy, CopyInv
    <2> QED BY <2>1, <2>2
  <1>9. CASE Config
    <2>1. pc \in Enabling /\ pc' \in Enabling \cup {"done"} /\ UNCHANGED <<dex, skip, boots, extra, disk, dirs, mbr>>
      BY <1>9 DEF Config, OpenConfig, ReadConfig, WriteConfig, Close, ofUser, ofDisk
    <2> QED BY <1>1, <2>1, SameDisk DEF CopyInv
  <1>10. CASE UNCHANGED vars
    <2>1. /\ UNCHANGED <<dex, skip, boots, extra, disk, dirs, mbr>>
          /\ UNCHANGED <<pc, result, k, current, mounted>>
      BY <1>10 DEF vars
    <2>2. FileCopyList' = FileCopyList /\ Entry' = Entry /\ (Ok' <=> Ok)
      BY <2>1, SameList DEF Entry, Ok
    <2> QED BY <1>1, <2>1, <2>2, SameDisk DEF CopyInv
  <1>11. QED
    BY <1>2, <1>3, <1>4, <1>5, <1>6, <1>7, <1>8, <1>9, <1>10 DEF Next, Work

LEMMA WholeStep ==
  ASSUME IInv, [Next]_vars
  PROVE  WholeInv'
  <1>1. FlowInv /\ CopyInv /\ WholeInv /\ ConfigInv
    BY DEF IInv
  <1> USE DEF WholeInv, Ok
  <1>2. CASE BeginInstall \/ BeginCleanup
    BY <1>2 DEF BeginInstall, BeginCleanup
  <1>3. CASE Format
    BY <1>3 DEF Format
  <1>4. CASE Work
    BY <1>1, <1>4
       DEF Work, Goto, Refuse, Fail,
           Stat, MountApps, AppsSpace, CreateAPPSPartition, WriteAttributes,
           CleanSystem, DeleteSystem, CleanSysconf, DeleteSysconf, DeleteIn, MountFor,
           FoldersSystem, FoldersSysconf, MakeSystem, MakeSysconf, Make,
           CopyMount, WriteEntry, InstallMBRToHDD, CopyEnd, AfterCopy, ofUser
  <1>5. CASE OpenConfig \/ ReadConfig \/ WriteConfig
    BY <1>5 DEF OpenConfig, ReadConfig, WriteConfig
  <1>6. CASE Close
    <2>1. pc = "close" /\ UNCHANGED <<dex, skip, boots, extra, disk, dirs, mbr, boot>>
      BY <1>6 DEF Close, ofUser, ofDisk
    <2>2. Complete'
      BY <1>1, <2>1, SameDisk DEF CopyInv, Enabling
    <2> QED BY <1>1, <1>6, <2>1, <2>2 DEF Close, ConfigInv
  <1>7. CASE UNCHANGED vars
    <2>1. UNCHANGED <<dex, skip, boots, extra, disk, dirs, mbr>>
      BY <1>7 DEF vars
    <2> QED BY <1>1, <1>7, <2>1, SameDisk DEF vars
  <1>8. QED
    BY <1>2, <1>3, <1>4, <1>5, <1>6, <1>7 DEF Next, Config

(***************************************************************************)
(* The theorems.                                                           *)
(***************************************************************************)
LEMMA InitInv == Init => IInv
  <1> SUFFICES ASSUME Init PROVE IInv
    OBVIOUS
  <1>1. pc = "done" /\ result = "error" /\ current = "none" /\ mounted = "none"
        /\ config = "closed" /\ seen = FALSE /\ k = 1 /\ ~ Ok
    BY DEF Init, Ok
  <1>2. disk \in [Files -> {"absent", "old", "part", "new"}]
    BY DEF Init
  <1>3. mbr \subseteq Nat /\ apps \in {"none", "raw", "pfs"} /\ faults \in 0 .. MaxFaults
    BY SizesAssumption DEF Init
  <1>4. boots \in BootHdd /\ extra \in AppsHdd /\ misread = {} /\ dex \in BOOLEAN /\ boot \in BOOLEAN /\ op = "cleanup" /\ skip = FALSE
    BY DEF Init
  <1>5. {current, mounted} \subseteq {"none", "__system", "__sysconf", Apps}
    BY <1>1
  <1>6. TypeOK
    BY <1>1, <1>2, <1>3, <1>4, <1>5 DEF TypeOK
  <1>7. Types
    BY <1>1, <1>6 DEF Types
  <1> QED BY <1>1, <1>7 DEF IInv, FlowInv, MountInv, ConfigInv, StartInv, CopyInv, WholeInv,
             CleanUp, Prepare, Copying, Enabling

(* Where an operation stands, what pfs0: stands for, and what of the list  *)
(* is on the disk, for any list and boot program, whatever fails.          *)
THEOREM DiskInvariant == Spec => []IInv
  <1>1. IInv /\ [Next]_vars => IInv'
    BY TypesStep, FlowStep, MountStep, CopyStep, WholeStep DEF IInv
  <1>2. QED
    BY <1>1, InitInv, PTL DEF Spec

(* An installation announced as complete has every file whole, on its own  *)
(* partition, and every sector of the boot program (system.c:976-1089).    *)
THEOREM AnnouncedIsWhole == Spec => []InstalledWhole
  <1>1. IInv => InstalledWhole
    BY DEF IInv, WholeInv, InstalledWhole, Ok
  <1>2. QED
    BY <1>1, DiskInvariant, PTL

(* However an operation ends, pfs0: is free and the settings are closed    *)
(* (system.c:881-906, 1085, 1103-1153).                                    *)
THEOREM NothingStaysMounted == Spec => []NothingMounted
  <1>1. IInv => NothingMounted
    BY DEF IInv, MountInv, ConfigInv, NothingMounted, Mounting, Copying, Enabling
  <1>2. QED
    BY <1>1, DiskInvariant, PTL

(* The console is told to boot from the disk only when there is all that   *)
(* it boots (system.c:1349-1361).                                          *)
THEOREM BootsWhatIsWhole == Spec => EnabledLast
  <1>1. IInv /\ [Next]_vars => [~ boot /\ boot' => Complete]_vars
    <2> SUFFICES ASSUME IInv, [Next]_vars, ~ boot, boot'
                 PROVE  Complete
      OBVIOUS
    <2>1. boot \in BOOLEAN /\ boot' # boot
      BY DEF IInv, Types, TypeOK
    <2>2. WriteConfig
      BY <2>1 DEF Next, Work, Config, vars, ofBoot, BeginInstall, BeginCleanup, Choose, Format,
           Stat, MountApps, AppsSpace, CreateAPPSPartition, WriteAttributes,
           CleanSystem, DeleteSystem, CleanSysconf, DeleteSysconf, DeleteIn, MountFor,
           FoldersSystem, FoldersSysconf, MakeSystem, MakeSysconf, Make,
           CopyMount, WriteEntry, InstallMBRToHDD, CopyEnd, OpenConfig, ReadConfig, Close
    <2> QED BY <2>2 DEF WriteConfig, IInv, CopyInv, Enabling
  <1>2. QED
    BY <1>1, DiskInvariant, PTL DEF Spec, EnabledLast

(***************************************************************************)
(* What is kept.                                                           *)
(***************************************************************************)
Keep == Foreign \cup {Cnf}

LEMMA KeepIs ==
  /\ Keep \subseteq Files
  /\ \A f \in Keep :
       /\ f.part # Apps
       /\ f.dir # "fsck/lang" => f \notin SystemFiles /\ f \notin SysconfFiles
  <1>1. \A f \in Keep : \/ f.part = "__system" /\ f.name = "other"
                        \/ f.part = "__sysconf" /\ f.name \in {"other", "FREEHDB.CNF"}
    BY DEF Keep, Foreign, Cnf, File
  <1>2. \A f \in SystemFiles : /\ f.part = "__system"
                               /\ f.dir # "fsck/lang" => f.name \in {"osdmain.elf", "fsck.elf"}
    <2>1. \A f \in Inside("__system", "fsck/lang") : f.part = "__system" /\ f.dir = "fsck/lang"
      BY DEF Inside
    <2> QED BY <2>1 DEF SystemFiles, File
  <1>3. \A f \in SysconfFiles : /\ f.part = "__sysconf"
                                /\ f.name \in {"FMCB_CFG.ELF", "USBD.IRX", "USBHDFSD.IRX"}
    BY DEF SysconfFiles, File
  <1>4. Keep \subseteq Files
    BY FilesAre DEF Keep
  <1> QED BY <1>1, <1>2, <1>3, <1>4 DEF Apps

(* What is not doomed stays, unless its folder could not be read: the one  *)
(* that was tested and found empty holds nothing.                          *)
LEMMA DeletionKeeps ==
  ASSUME IInv, NEW p, NEW doomed, NEW tested, DeleteIn(p, doomed, tested),
         NEW f \in Files, f \notin doomed, ~ Exposed(f)'
  PROVE  disk'[f] = disk[f]
  <1>1. PICK gone \in SUBSET doomed, unread \in SUBSET tested :
          LET rest  == Without(gone)
              taken == UNION {Left(p, d, rest) :
                                d \in unread \cup {x \in tested : Empty(p, x, rest)}}
          IN  \E kept \in SUBSET taken :
                /\ disk' = Without(gone \cup (taken \ kept))
                /\ misread' = {<<p, d>> : d \in unread}
    BY Zenon DEF DeleteIn
  <1> DEFINE rest  == Without(gone)
             taken == UNION {Left(p, d, rest) :
                               d \in unread \cup {x \in tested : Empty(p, x, rest)}}
  <1>2. PICK kept \in SUBSET taken : /\ disk' = Without(gone \cup (taken \ kept))
                                     /\ misread' = {<<p, d>> : d \in unread}
    BY <1>1, Zenon
  <1>3. f \notin taken
    <2>1. ASSUME NEW d \in unread, f \in Left(p, d, rest)
          PROVE  FALSE
      <3>1. f.part = p /\ (f.dir = d \/ f.dir = "fsck/lang")
        BY <2>1 DEF Left, Inside
      <3>2. <<p, d>> \in misread'
        BY <1>2, <2>1
      <3> QED BY <3>1, <3>2 DEF Exposed
    <2>2. \A d : Empty(p, d, rest) => f \notin Left(p, d, rest)
      BY DEF Empty
    <2> HIDE DEF rest
    <2> QED BY <2>1, <2>2
  <1>4. f \notin gone \cup (taken \ kept)
    BY <1>3
  <1> HIDE DEF taken
  <1> QED BY <1>2, <1>4 DEF Without

Kept(f) ==
  Exposed(f)' \/
    /\ disk[f] # "absent" => disk'[f] # "absent"
    /\ f = Cnf /\ op = "install" /\ skip /\ disk[f] = "old" => disk'[f] = "old"

LEMMA KeptStep ==
  ASSUME IInv, [Next]_vars, op' # "format", NEW f \in Keep
  PROVE  Kept(f)
  <1>1. f \in Files /\ f.part # Apps
    BY KeepIs
  <1>2. disk \in [Files -> State]
    BY DEF IInv, Types, TypeOK, State
  <1>4. CASE BeginInstall \/ BeginCleanup
    BY <1>1, <1>4 DEF BeginInstall, BeginCleanup, Choose, Aged, Kept
  <1>5. CASE CreateAPPSPartition
    BY <1>1, <1>5 DEF CreateAPPSPartition, AppsGone, Kept
  <1>6. CASE DeleteSystem \/ DeleteSysconf
    <2> SUFFICES ASSUME ~ Exposed(f)' PROVE disk'[f] = disk[f]
      BY DEF Kept
    <2>1. f \notin SystemFiles /\ f \notin SysconfFiles
      <3>1. f.dir # "fsck/lang"
        BY DEF Exposed
      <3> QED BY <3>1, KeepIs
    <2>2. CASE DeleteSystem
      <3>1. DeleteIn("__system", SystemFiles, {"osd", "fsck"})
        BY <2>2 DEF DeleteSystem
      <3> QED BY <1>1, <2>1, <3>1, DeletionKeeps
    <2>3. CASE DeleteSysconf
      <3>1. DeleteIn("__sysconf", SysconfFiles, {"FMCB"})
        BY <2>3 DEF DeleteSysconf
      <3> QED BY <1>1, <2>1, <3>1, DeletionKeeps
    <2> QED BY <1>6, <2>2, <2>3
  <1>8. CASE WriteEntry
    <2>1. pc = "write" /\ k <= Len(FileCopyList) /\ Onto = Entry
      BY <1>8, WriteIs DEF WriteEntry
    <2>2. Entry.isdir \in BOOLEAN /\ (skip => Entry # Cnf)
      BY <2>1, EntryIs DEF IsEntry
    <2>3. \/ disk' = disk
          \/ disk' = [disk EXCEPT ![Onto] = "new"]
          \/ disk' = [disk EXCEPT ![Onto] = "part"]
      BY <1>8, <2>2 DEF WriteEntry
    <2> QED BY <1>1, <1>2, <2>1, <2>2, <2>3 DEF Kept
  <1>9. CASE UNCHANGED disk
    BY <1>9 DEF Kept
  <1>10. QED
    BY <1>4, <1>5, <1>6, <1>8, <1>9
       DEF Next, Work, Config, vars, ofDisk, Format, Stat, MountApps, AppsSpace, WriteAttributes,
           CleanSystem, CleanSysconf, MountFor, FoldersSystem, FoldersSysconf, MakeSystem,
           MakeSysconf,
           Make, CopyMount, InstallMBRToHDD, CopyEnd, OpenConfig, ReadConfig, WriteConfig, Close

(* Whatever fails, clean-up and installation lose no file of others but    *)
(* those in fsck/lang and in a folder that could not be read when it was   *)
(* tested, and so for the settings that the user wants to keep             *)
(* (system.c:735-748, 1135-1149, 1262-1265).                               *)
THEOREM UserFilesAreKept == Spec => UserFilesKept
  <1>1. IInv /\ [Next]_vars =>
          [\A f \in Foreign \cup {Cnf} : op' = "format" \/ Exposed(f)' \/
             /\ disk[f] # "absent" => disk'[f] # "absent"
             /\ f = Cnf /\ op = "install" /\ skip /\ disk[f] = "old" => disk'[f] = "old"]_vars
    BY KeptStep DEF Kept, Keep
  <1>2. QED
    BY <1>1, DiskInvariant, PTL DEF Spec, UserFilesKept
=============================================================================
