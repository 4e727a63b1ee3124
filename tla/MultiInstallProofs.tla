------------------------- MODULE MultiInstallProofs -------------------------
(***************************************************************************)
(* What multi-installations and their clean-up promise (MultiInstall), for *)
(* any set of consoles, any size of a call to MCTOOLS and any number of    *)
(* faults.                                                                 *)
(***************************************************************************)
EXTENDS MultiInstall, FiniteSetTheorems, TLAPS

(***************************************************************************)
(* The table of aliases, and the own file's place in it.                   *)
(***************************************************************************)
LEMMA Upto ==
  ASSUME NEW n \in Nat
  PROVE  IsFiniteSet(1 .. n) /\ Cardinality(1 .. n) = n
  <1>1. 1 \in Int /\ n \in Int
    OBVIOUS
  <1>2. IsFiniteSet(1 .. n) /\ Cardinality(1 .. n) = IF 1 > n THEN 0 ELSE n - 1 + 1
    BY <1>1, FS_Interval, Zenon
  <1> QED BY <1>2

LEMMA TableIs ==
  /\ NumAliases = 8 /\ DOMAIN FileAlias = 1 .. 8
  /\ FileAlias[1] = <<"I", "osd", \h130>> /\ FileAlias[2] = <<"I", "osdmain.elf", 0>>
  /\ FileAlias[3] = <<"E", "osd", \h130>> /\ FileAlias[4] = <<"E", "osdmain.elf", 0>>
  /\ FileAlias[5] = <<"A", "osd", \h120>> /\ FileAlias[6] = <<"A", "osd", \h130>>
  /\ FileAlias[7] = <<"A", "osdmain.elf", 0>> /\ FileAlias[8] = <<"C", "osdmain.elf", 0>>
  BY DEF FileAlias, NumAliases

LEMMA NamesDiffer ==
  ASSUME NEW j \in 1 .. 8, NEW k \in 1 .. 8, FileAlias[j] = FileAlias[k]
  PROVE  j = k
  <1>1. j \in {1, 2, 3, 4, 5, 6, 7, 8} /\ k \in {1, 2, 3, 4, 5, 6, 7, 8}
    OBVIOUS
  <1>2. QED
    BY <1>1, TableIs

LEMMA AliasIs ==
  /\ FileAlias \in Seq(Alias) /\ Alias = {FileAlias[k] : k \in 1 .. 8}
  /\ \A k \in 1 .. 8 : FileAlias[k] \in Alias
  /\ \A a \in Alias : a[1] \in Letter
  /\ IsFiniteSet(Alias)
  <1>1. Alias = {FileAlias[k] : k \in 1 .. 8}
    BY TableIs DEF Alias
  <1>2. FileAlias \in [1 .. 8 -> Alias]
    <2>1. FileAlias = [k \in 1 .. 8 |-> FileAlias[k]]
      BY DEF FileAlias
    <2>2. \A k \in 1 .. 8 : FileAlias[k] \in Alias
      BY <1>1
    <2>3. [k \in 1 .. 8 |-> FileAlias[k]] \in [1 .. 8 -> Alias]
      BY <2>2
    <2> QED BY <2>1, <2>3, Zenon
  <1>3. \A k \in 1 .. 8 : FileAlias[k][1] \in Letter
    BY TableIs DEF Letter
  <1>4. IsFiniteSet(Alias)
    <2>1. FileAlias \in Surjection(1 .. 8, Alias)
      BY <1>1, <1>2 DEF Surjection
    <2>2. IsFiniteSet(1 .. 8)
      BY Upto
    <2> QED BY <2>1, <2>2, FS_Surjection, Zenon
  <1>5. FileAlias \in Seq(Alias)
    <2>1. 8 \in Nat /\ Seq(Alias) = UNION {[1 .. n -> Alias] : n \in Nat}
      OBVIOUS
    <2> QED BY <1>2, <2>1, Zenon
  <1> QED BY <1>1, <1>2, <1>3, <1>4, <1>5

LEMMA BeforeIs ==
  ASSUME NEW c
  PROVE  /\ BeforeOwn(c) \in 0 .. 8
         /\ \A j \in 1 .. 8 : j <= BeforeOwn(c) => FileAlias[j] # Own(c)
         /\ BeforeOwn(c) < 8 => FileAlias[BeforeOwn(c) + 1] = Own(c)
  <1> DEFINE S == {k \in 1 .. 8 : \A j \in 1 .. k : FileAlias[j] # Own(c)}
  <1>0. BeforeOwn(c) = Cardinality(S)
    BY TableIs DEF BeforeOwn
  <1>1. CASE \A j \in 1 .. 8 : FileAlias[j] # Own(c)
    <2>1. S = 1 .. 8
      BY <1>1
    <2>2. Cardinality(1 .. 8) = 8
      BY Upto
    <2> QED BY <1>0, <1>1, <2>1, <2>2
  <1>2. ASSUME NEW p \in 1 .. 8, FileAlias[p] = Own(c)
        PROVE  BeforeOwn(c) = p - 1 /\ \A j \in 1 .. 8 : j <= p - 1 => FileAlias[j] # Own(c)
    <2>1. \A j \in 1 .. 8 : FileAlias[j] = Own(c) => j = p
      BY <1>2, NamesDiffer
    <2>2. S = 1 .. p - 1
      BY <1>2, <2>1
    <2>3. Cardinality(1 .. p - 1) = p - 1
      BY Upto
    <2> HIDE DEF S
    <2> QED BY <1>0, <2>1, <2>2, <2>3
  <1> QED
    <2>1. CASE \E p \in 1 .. 8 : FileAlias[p] = Own(c)
      <3>1. PICK p \in 1 .. 8 : FileAlias[p] = Own(c)
        BY <2>1
      <3> QED BY <1>2, <3>1
    <2> QED BY <1>1, <2>1

(* The own file and the others: each alias once, none of them the own one. *)
LEMMA OthersIs ==
  ASSUME NEW c
  PROVE  LET n == Len(Others(c))
         IN  /\ Others(c) \in Seq(Alias) /\ n \in 7 .. 8 /\ DOMAIN Others(c) = 1 .. n
             /\ \A k \in 1 .. n : Others(c)[k] # Own(c)
             /\ \A a \in Alias : a # Own(c) => \E k \in 1 .. n : Others(c)[k] = a
             /\ \A j, k \in 1 .. n : Others(c)[j] = Others(c)[k] => j = k
  <1> DEFINE b == BeforeOwn(c)
             s == SubSeq(FileAlias, 1, b)
             t == SubSeq(FileAlias, b + 2, 8)
             place(k) == IF k <= b THEN k ELSE k + 1
             n == IF b = 8 THEN 8 ELSE 7
  <1>1. /\ b \in 0 .. 8 /\ \A j \in 1 .. 8 : j <= b => FileAlias[j] # Own(c)
        /\ b < 8 => FileAlias[b + 1] = Own(c)
    BY BeforeIs
  <1>2. \A j \in 1 .. 8 : j # b + 1 => FileAlias[j] # Own(c)
    <2> TAKE j \in 1 .. 8
    <2>1. CASE b < 8
      BY <1>1, <2>1, NamesDiffer
    <2>2. CASE b = 8
      BY <1>1, <2>2
    <2> QED BY <1>1, <2>1, <2>2
  <1> HIDE DEF b
  <1>3. FileAlias \in Seq(Alias) /\ Len(FileAlias) = 8
    BY AliasIs, TableIs DEF NumAliases
  <1>4. s \in Seq(Alias) /\ Len(s) = b /\ \A k \in 1 .. b : s[k] = FileAlias[k]
    <2> HIDE DEF s
    <2>1. s = SubSeq(FileAlias, 1, b)
      BY DEF s
    <2> QED BY <1>1, <1>3, <2>1
  <1>5. /\ t \in Seq(Alias) /\ Len(t) = n - b
        /\ \A k \in 1 .. n - b : t[k] = FileAlias[b + 1 + k]
    <2> HIDE DEF t
    <2>1. t = SubSeq(FileAlias, b + 2, 8)
      BY DEF t
    <2>2. n - b \in 0 .. 7 /\ n - b = IF b + 2 <= 8 THEN 8 - (b + 2) + 1 ELSE 0
      BY <1>1
    <2> HIDE DEF n
    <2>3. t = [k \in 1 .. n - b |-> FileAlias[b + 1 + k]]
      <3>1. CASE b + 2 <= 8
        BY <1>1, <1>3, <2>1, <2>2, <3>1
      <3>2. CASE b + 2 > 8
        BY <1>1, <1>3, <2>1, <2>2, <3>2
      <3> QED BY <1>1, <3>1, <3>2
    <2>4. \A k \in 1 .. n - b : b + 1 + k \in 1 .. 8
      BY <1>1, <2>2 DEF n
    <2>5. \A k \in 1 .. n - b : FileAlias[b + 1 + k] \in Alias
      BY <2>4, AliasIs
    <2>6. PICK m \in 0 .. 7 : m = n - b
      BY <2>2
    <2>7. t = [k \in 1 .. m |-> FileAlias[b + 1 + k]]
      BY <2>3, <2>6
    <2>8. \A k \in 1 .. m : FileAlias[b + 1 + k] \in Alias
      BY <2>5, <2>6
    <2>9. t \in Seq(Alias) /\ Len(t) = m
      BY <2>7, <2>8
    <2>10. \A k \in 1 .. m : t[k] = FileAlias[b + 1 + k]
      BY <2>7
    <2> QED BY <2>6, <2>9, <2>10
  <1> HIDE DEF s, t
  <1>6. Others(c) = s \o t
    BY TableIs DEF Others, s, t, b
  <1>7. /\ Others(c) \in Seq(Alias) /\ Len(Others(c)) = n
        /\ \A k \in 1 .. n : Others(c)[k] = FileAlias[place(k)]
    <2>1. n - b \in 0 .. 8 /\ b + (n - b) = n /\ n \in 0 .. 8
      BY <1>1
    <2> HIDE DEF n, place
    <2>2. Others(c) \in Seq(Alias)
      BY <1>4, <1>5, <1>6
    <2>3. Len(Others(c)) = n
      BY <1>1, <1>4, <1>5, <1>6, <2>1
    <2>4. ASSUME NEW k \in 1 .. n
          PROVE  Others(c)[k] = FileAlias[place(k)]
      <3>1. CASE k <= b
        <4>1. k \in 1 .. b /\ (s \o t)[k] = s[k]
          BY <1>1, <1>4, <1>5, <2>1, <2>4, <3>1
        <4>2. place(k) = k
          BY <3>1 DEF place
        <4> QED BY <1>4, <1>6, <4>1, <4>2
      <3>2. CASE ~ (k <= b)
        <4>1. k - b \in 1 .. n - b /\ b + 1 + (k - b) = k + 1
          BY <1>1, <2>1, <2>4, <3>2
        <4>2. (s \o t)[k] = t[k - b]
          BY <1>1, <1>4, <1>5, <2>1, <2>4, <3>2, <4>1
        <4>3. place(k) = k + 1
          BY <3>2 DEF place
        <4> QED BY <1>5, <1>6, <4>1, <4>2, <4>3
      <3> QED BY <3>1, <3>2
    <2> QED BY <2>2, <2>3, <2>4
  <1>8. n \in 7 .. 8 /\ \A k \in 1 .. n : place(k) \in 1 .. 8 /\ place(k) # b + 1
    BY <1>1
  <1>9. \A k \in 1 .. n : Others(c)[k] # Own(c)
    BY <1>2, <1>7, <1>8
  <1>10. \A a \in Alias : a # Own(c) => \E k \in 1 .. n : Others(c)[k] = a
    <2> TAKE a \in Alias
    <2> HAVE a # Own(c)
    <2>1. PICK j \in 1 .. 8 : FileAlias[j] = a
      BY AliasIs
    <2>2. j # b + 1
      BY <1>1, <2>1
    <2>3. PICK k \in 1 .. n : place(k) = j
      <3>1. CASE j <= b
        BY <1>1, <3>1
      <3>2. CASE j > b
        <4>1. j - 1 \in 1 .. n /\ place(j - 1) = j
          BY <1>1, <2>2, <3>2
        <4> QED BY <4>1
      <3> QED BY <1>1, <3>1, <3>2
    <2> QED BY <1>7, <2>1, <2>3
  <1>11. \A j, k \in 1 .. n : Others(c)[j] = Others(c)[k] => j = k
    <2> TAKE j, k \in 1 .. n
    <2> HAVE Others(c)[j] = Others(c)[k]
    <2>1. place(j) \in 1 .. 8 /\ place(k) \in 1 .. 8 /\ FileAlias[place(j)] = FileAlias[place(k)]
      BY <1>7, <1>8
    <2>2. place(j) = place(k)
      <3> HIDE DEF place
      <3> QED BY <2>1, NamesDiffer
    <2> QED BY <1>1, <2>2
  <1>12. DOMAIN Others(c) = 1 .. n
    <2> HIDE DEF n
    <2> QED BY <1>7
  <1> HIDE DEF n
  <1> QED BY <1>7, <1>8, <1>9, <1>10, <1>11, <1>12

(***************************************************************************)
(* Intervals of the tables, which the calls to MCTOOLS work on.            *)
(***************************************************************************)
LEMMA Window ==
  ASSUME NEW first \in Nat, NEW size \in Nat, NEW last \in Int, first <= last
  PROVE  LET W == {k \in first + 1 .. first + size : k <= last}
             n == IF size <= last - first THEN size ELSE last - first
         IN  /\ n \in 0 .. size /\ first + n <= last /\ (size > 0 /\ first < last => n > 0)
             /\ W = first + 1 .. first + n
             /\ IsFiniteSet(W) /\ Cardinality(W) = n
  <1> DEFINE W == {k \in first + 1 .. first + size : k <= last}
             n == IF size <= last - first THEN size ELSE last - first
  <1>1. n \in 0 .. size /\ first + n <= last /\ (size > 0 /\ first < last => n > 0)
    OBVIOUS
  <1>2. W = first + 1 .. first + n
    OBVIOUS
  <1> HIDE DEF n
  <1>3. first + 1 \in Int /\ first + n \in Int
    BY <1>1
  <1>4. /\ IsFiniteSet(first + 1 .. first + n)
        /\ Cardinality(first + 1 .. first + n)
             = IF first + 1 > first + n THEN 0 ELSE (first + n) - (first + 1) + 1
    BY <1>3, FS_Interval, Zenon
  <1>5. Cardinality(first + 1 .. first + n) = n
    BY <1>1, <1>4
  <1>6. IsFiniteSet(W) /\ Cardinality(W) = n
    BY <1>2, <1>4, <1>5
  <1> HIDE DEF W
  <1> QED BY <1>1, <1>2, <1>6 DEF n, W

LEMMA Part ==
  ASSUME NEW W, IsFiniteSet(W), NEW S \in SUBSET W
  PROVE  /\ IsFiniteSet(S) /\ Cardinality(S) \in 0 .. Cardinality(W)
         /\ IsFiniteSet(W \ S) /\ Cardinality(W \ S) \in 0 .. Cardinality(W)
  <1>1. IsFiniteSet(S) /\ Cardinality(S) <= Cardinality(W)
    BY FS_Subset
  <1>2. W \ S \in SUBSET W
    OBVIOUS
  <1>3. IsFiniteSet(W \ S) /\ Cardinality(W \ S) <= Cardinality(W)
    BY <1>2, FS_Subset
  <1>4. Cardinality(S) \in Nat /\ Cardinality(W) \in Nat /\ Cardinality(W \ S) \in Nat
    BY <1>1, <1>3, FS_CardinalityType
  <1> QED BY <1>1, <1>3, <1>4

LEMMA NothingFails ==
  ASSUME NEW W, IsFiniteSet(W), NEW S \in SUBSET W, Cardinality(S) = 0
  PROVE  S = {}
  <1>1. IsFiniteSet(S)
    BY FS_Subset
  <1> QED BY <1>1, FS_EmptySet

(***************************************************************************)
(* The invariant.                                                          *)
(*   Types       what the state consists of;                               *)
(*   FileInv     there is an uninstall file while an installation goes on, *)
(*               whole unless its writing failed, and it stays until a     *)
(*               clean-up begins to delete;                                *)
(*   TriedInv    what the clean-up has passed by without asking MCTOOLS    *)
(*               to delete it costs a fault each;                          *)
(*   InstallInv  how far an installation is in which nothing has failed.   *)
(***************************************************************************)
Ones(S) == [a \in Alias |-> IF a \in S THEN 1 ELSE 0]

Made(n) ==
  {a \in Alias : a = Own(console) \/ \E k \in 1 .. 8 : k <= n /\ a = FileAlias[k]}

PassedBy == {listed[k] : k \in {j \in DOMAIN listed : j <= i}} \ tried

Types ==
  /\ console \in Console /\ cleaner \in Console
  /\ cache \in [Alias -> Nat] /\ card \in [Alias -> Nat]
  /\ folders \subseteq Letter /\ updates \subseteq Updates
  /\ file.kind \in {"none", "unsupported", "short", "ok"} /\ file.names \in Seq(Alias)
  /\ FileIndex \in Nat /\ NumFiles \in Int
  /\ listed \in Seq(Alias) /\ i \in Nat /\ cleanedUp \in BOOLEAN
  /\ pc \in Installing \cup Cleaning \cup {"ready"}
  /\ result \in {"ok", "error"}
  /\ faults \in 0 .. MaxFaults

FileInv ==
  /\ cleanedUp /\ faults = 0 => file = NoFile
  /\ pc \in {"generate", "init", "before", "after"} => ~ cleanedUp
  /\ pc \in {"delete", "updates", "folders"} => cleanedUp
  /\ ~ cleanedUp /\ file.kind = "none" =>
       /\ pc \in {"generate", "ready"}
       /\ \A a \in Alias \ {Own(console)} : card[a] = 0 /\ cache[a] = 0
  /\ ~ cleanedUp => \/ file.kind = "none" \/ WriteFailed
                    \/ file = [kind |-> "ok", names |-> Others(console)]

TriedInv ==
  /\ pc = "delete" => Cardinality(PassedBy) <= faults
  /\ OneAliasPerFault

InstallInv == faults = 0 /\ ~ cleanedUp =>
  /\ shared /\ folders = Letter /\ updates = Updates /\ result = "ok"
  /\ pc # "generate" => file = [kind |-> "ok", names |-> Others(console)]
  /\ pc \in {"generate", "init"} => cache = Ones(Made(0)) /\ card = Ones(Made(0))
  /\ pc = "before" => /\ FileIndex + NumFiles = BeforeOwn(console) /\ NumFiles >= 0
                      /\ cache = Ones(Made(FileIndex))
  /\ pc = "after" => /\ FileIndex + NumFiles = NumAliases /\ FileIndex > BeforeOwn(console)
                     /\ cache = Ones(Made(FileIndex))
  /\ pc \in {"ready", "read", "unlist"} => cache = Ones(Alias) /\ card = Ones(Alias)
  /\ pc = "unlist" => listed = Others(console)

IInv == Types /\ FileInv /\ TriedInv /\ InstallInv

(***************************************************************************)
(* The types.                                                              *)
(***************************************************************************)
LEMMA InitTypes == Init => Types
  <1> SUFFICES ASSUME Init PROVE Types
    OBVIOUS
  <1> USE DEF Init
  <1>1. \A a \in Alias : (IF a = Own(console) THEN 1 ELSE 0) \in Nat
    OBVIOUS
  <1>2. card \in [Alias -> Nat] /\ cache \in [Alias -> Nat]
    BY <1>1
  <1>3. file.kind = "none" /\ file.names \in Seq(Alias) /\ listed \in Seq(Alias)
    BY DEF NoFile
  <1>4. pc \in Installing /\ faults \in 0 .. MaxFaults
    BY BoundAssumption DEF Installing
  <1>5. /\ console \in Console /\ cleaner \in Console
        /\ folders \subseteq Letter /\ updates \subseteq Updates
        /\ FileIndex \in Nat /\ NumFiles \in Int /\ i \in Nat
        /\ result \in {"ok", "error"}
    OBVIOUS
  <1>6. cleanedUp \in BOOLEAN
    OBVIOUS
  <1> HIDE DEF Init
  <1> QED BY <1>2, <1>3, <1>4, <1>5, <1>6 DEF Types

(* A cache that is lost leaves, of each alias, what was there or what was  *)
(* to be there.                                                            *)
LEMMA Flushed ==
  ASSUME Types, PartlyFlushed
  PROVE  /\ cache' = card' /\ card' \in [Alias -> Nat]
         /\ \A a \in Alias : card'[a] \in {cache[a], card[a]}
  <1>1. PICK flushed \in SUBSET Alias :
          card' = [a \in Alias |-> IF a \in flushed THEN cache[a] ELSE card[a]]
    BY DEF PartlyFlushed
  <1>2. \A a \in Alias : cache[a] \in Nat /\ card[a] \in Nat
    BY DEF Types
  <1>3. card' \in [Alias -> Nat]
    BY <1>1, <1>2
  <1>4. \A a \in Alias : card'[a] \in {cache[a], card[a]}
    BY <1>1
  <1> QED BY <1>3, <1>4 DEF PartlyFlushed

(* A fault counts, and what was spent never comes back.                    *)
LEMMA FaultIs ==
  ASSUME Types
  PROVE  /\ Fault => faults' = faults + 1 /\ faults' \in 0 .. MaxFaults /\ faults' > 0
         /\ faults \in Nat /\ faults <= MaxFaults /\ MaxFaults \in Nat
         /\ \A n \in Nat : faults + n <= MaxFaults /\ faults' = faults + n
              => /\ faults' \in 0 .. MaxFaults
                 /\ faults' = 0 => faults = 0 /\ n = 0
  BY BoundAssumption DEF Types, Fault

(* What a call to create aliases can fail with: the aliases asked for are  *)
(* a finite set, so that the faults of a call are a number.                *)
LEMMA RequestedIs ==
  ASSUME Types, NumFiles > 0
  PROVE  /\ IsFiniteSet(Requested) /\ Cardinality(Requested) \in Nat \ {0}
         /\ Requested = FileIndex + 1 .. FileIndex + Cardinality(Requested)
         /\ Cardinality(Requested) <= NumFiles
  <1>1. FileIndex \in Nat /\ Batch \in Nat /\ Batch > 0
        /\ FileIndex + NumFiles \in Int /\ FileIndex < FileIndex + NumFiles /\ NumFiles \in Int
    BY BoundAssumption DEF Types
  <1> DEFINE last == FileIndex + NumFiles
             W == {k \in FileIndex + 1 .. FileIndex + Batch : k <= last}
             n == IF Batch <= last - FileIndex THEN Batch ELSE last - FileIndex
  <1>2. last \in Int /\ FileIndex <= last
    BY <1>1
  <1> HIDE DEF last
  <1>3. /\ n \in 0 .. Batch /\ FileIndex + n <= last /\ (Batch > 0 /\ FileIndex < last => n > 0)
        /\ W = FileIndex + 1 .. FileIndex + n
        /\ IsFiniteSet(W) /\ Cardinality(W) = n
    BY <1>1, <1>2, Window
  <1>4. W = Requested
    BY DEF Requested, last
  <1> HIDE DEF W, n
  <1> QED BY <1>1, <1>3, <1>4 DEF last

LEMMA ToDeleteIs ==
  ASSUME Types, i < Len(listed)
  PROVE  /\ IsFiniteSet(ToDelete) /\ Cardinality(ToDelete) \in Nat \ {0}
         /\ ToDelete = i + 1 .. i + Cardinality(ToDelete)
         /\ i + Cardinality(ToDelete) <= Len(listed)
  <1>1. i \in Nat /\ Batch \in Nat /\ Batch > 0 /\ Len(listed) \in Nat
    BY BoundAssumption DEF Types
  <1> DEFINE last == Len(listed)
             W == {k \in i + 1 .. i + Batch : k <= last}
             n == IF Batch <= last - i THEN Batch ELSE last - i
  <1>2. last \in Int /\ i < last /\ i <= last
    BY <1>1
  <1> HIDE DEF last
  <1>3. /\ n \in 0 .. Batch /\ i + n <= last /\ (Batch > 0 /\ i < last => n > 0)
        /\ W = i + 1 .. i + n
        /\ IsFiniteSet(W) /\ Cardinality(W) = n
    BY <1>1, <1>2, Window
  <1>4. W = ToDelete
    BY DEF ToDelete, last
  <1> HIDE DEF W, n
  <1> QED BY <1>1, <1>2, <1>3, <1>4 DEF last

LEMMA TruncatedIs ==
  ASSUME NEW names \in Seq(Alias), NEW f \in Truncated(names)
  PROVE  f.kind \in {"unsupported", "short", "ok"} /\ f.names \in Seq(Alias)
  <1>1. CASE f \in {[kind |-> k, names |-> << >>] : k \in {"unsupported", "short"}}
    <2>1. PICK k \in {"unsupported", "short"} : f = [kind |-> k, names |-> << >>]
      BY <1>1
    <2>2. << >> \in Seq(Alias)
      OBVIOUS
    <2> QED BY <2>1, <2>2
  <1>2. CASE f \in {[kind |-> "ok", names |-> SubSeq(names, 1, n)] : n \in 0 .. Len(names) - 1}
    <2>1. PICK n \in 0 .. Len(names) - 1 : f = [kind |-> "ok", names |-> SubSeq(names, 1, n)]
      BY <1>2
    <2> DEFINE s == SubSeq(names, 1, n)
    <2>2. s \in Seq(Alias)
      <3> HIDE DEF s
      <3>1. s = SubSeq(names, 1, n)
        BY DEF s
      <3> QED BY <3>1
    <2>3. f = [kind |-> "ok", names |-> s]
      BY <2>1
    <2> HIDE DEF s
    <2> QED BY <2>2, <2>3
  <1> QED BY <1>1, <1>2 DEF Truncated

LEMMA GenerateTypes == Types /\ GenerateUninstallFile => Types'
  <1> SUFFICES ASSUME Types, GenerateUninstallFile PROVE Types'
    OBVIOUS
  <1>1. Others(console) \in Seq(Alias)
    BY OthersIs
  <1>2. file'.kind \in {"none", "unsupported", "short", "ok"} /\ file'.names \in Seq(Alias)
    <2>1. CASE file' = [kind |-> "ok", names |-> Others(console)]
      BY <1>1, <2>1
    <2>2. CASE file' \in Truncated(Others(console))
      BY <1>1, <2>2, TruncatedIs
    <2>3. CASE UNCHANGED file
      BY <2>3 DEF Types
    <2> QED BY <2>1, <2>2, <2>3 DEF GenerateUninstallFile
  <1>3. faults' \in 0 .. MaxFaults
    BY FaultIs DEF GenerateUninstallFile, NoFault, Types
  <1>4. pc' \in Installing \cup Cleaning \cup {"ready"} /\ result' \in {"ok", "error"}
    BY DEF GenerateUninstallFile, End, Types, Installing
  <1> QED BY <1>2, <1>3, <1>4 DEF GenerateUninstallFile, Types

LEMMA BeginCrossLinkTypes == Types /\ BeginCrossLink => Types'
  <1> SUFFICES ASSUME Types, BeginCrossLink PROVE Types'
    OBVIOUS
  <1>1. BeforeOwn(console) \in Nat
    BY BeforeIs
  <1>2. FileIndex' \in Nat /\ NumFiles' \in Int
    BY <1>1 DEF BeginCrossLink, Types
  <1>3. faults' \in 0 .. MaxFaults
    BY FaultIs DEF BeginCrossLink, NoFault, Types
  <1>4. pc' \in Installing \cup Cleaning \cup {"ready"} /\ result' \in {"ok", "error"}
    BY DEF BeginCrossLink, End, Types, Installing
  <1> QED BY <1>2, <1>3, <1>4 DEF BeginCrossLink, Types, cardVars

LEMMA AdvanceTypes ==
  ASSUME Types, NEW n \in Int, Advance(n)
  PROVE  FileIndex' \in Nat /\ NumFiles' \in Int /\ result' \in {"ok", "error"}
  BY DEF Types, Advance

LEMMA CreateCallTypes == Types /\ CreateCall => Types'
  <1> SUFFICES ASSUME Types, CreateCall PROVE Types'
    OBVIOUS
  <1>1. CASE Fault /\ Advance(-1) /\ UNCHANGED cache
    <2>1. -1 \in Int
      OBVIOUS
    <2>2. FileIndex' \in Nat /\ NumFiles' \in Int /\ result' \in {"ok", "error"}
      BY <1>1, <2>1, AdvanceTypes
    <2>3. faults' \in 0 .. MaxFaults
      BY <1>1, FaultIs
    <2> QED BY <1>1, <2>2, <2>3 DEF CreateCall, Types
  <1>2. ASSUME NEW failed \in SUBSET Requested, NEW written \in SUBSET failed,
               LET new == {FileAlias[k] : k \in (Requested \ failed) \cup written}
               IN  /\ faults + Cardinality(failed) <= MaxFaults
                   /\ faults' = faults + Cardinality(failed)
                   /\ cache' = [a \in Alias |-> cache[a] + IF a \in new THEN 1 ELSE 0]
                   /\ Advance(Cardinality(Requested \ failed))
        PROVE  Types'
    <2> DEFINE new == {FileAlias[k] : k \in (Requested \ failed) \cup written}
    <2>0. IsFiniteSet(Requested)
      BY RequestedIs DEF CreateCall
    <2>1. Cardinality(failed) \in Nat /\ Cardinality(Requested \ failed) \in Int
      <3>1. /\ Cardinality(failed) \in 0 .. Cardinality(Requested)
            /\ Cardinality(Requested \ failed) \in 0 .. Cardinality(Requested)
        BY <2>0, Part
      <3> QED BY <3>1
    <2>2. FileIndex' \in Nat /\ NumFiles' \in Int /\ result' \in {"ok", "error"}
      BY <1>2, <2>1, AdvanceTypes
    <2>3. faults' \in 0 .. MaxFaults
      BY <1>2, <2>1, FaultIs
    <2> HIDE DEF new
    <2>4. cache' \in [Alias -> Nat]
      <3>1. cache' = [a \in Alias |-> cache[a] + IF a \in new THEN 1 ELSE 0]
        BY <1>2 DEF new
      <3>2. \A a \in Alias : cache[a] + (IF a \in new THEN 1 ELSE 0) \in Nat
        BY DEF Types
      <3> QED BY <3>1, <3>2
    <2> QED BY <2>2, <2>3, <2>4 DEF CreateCall, Types
  <1> QED BY <1>1, <1>2 DEF CreateCall

LEMMA SkipTypes == Types /\ Skip => Types'
  <1> SUFFICES ASSUME Types, Skip PROVE Types'
    OBVIOUS
  <1>1. FileIndex' \in Nat /\ NumFiles' \in Int
    BY TableIs DEF Skip, NextIndex, Types
  <1>2. pc' \in Installing
    BY DEF Skip, Installing
  <1> QED BY <1>1, <1>2 DEF Skip, Types, cardVars

LEMMA EndCrossLinkTypes == Types /\ EndCrossLink => Types'
  <1> SUFFICES ASSUME Types, EndCrossLink PROVE Types'
    OBVIOUS
  <1>1. cache' \in [Alias -> Nat] /\ card' \in [Alias -> Nat]
    BY Flushed DEF EndCrossLink, Types
  <1>2. faults' \in 0 .. MaxFaults
    BY FaultIs DEF EndCrossLink, NoFault, Types
  <1>3. pc' = "ready" /\ result' \in {"ok", "error"}
    BY DEF EndCrossLink, End
  <1> QED BY <1>1, <1>2, <1>3 DEF EndCrossLink, Types

LEMMA BeginCleanupTypes == \A c \in Console : Types /\ BeginCleanup(c) => Types'
  <1> TAKE c \in Console
  <1> SUFFICES ASSUME Types, BeginCleanup(c) PROVE Types'
    OBVIOUS
  <1>1. faults' \in 0 .. MaxFaults
    BY FaultIs DEF BeginCleanup, NoFault, Types
  <1>2. pc' \in Cleaning \cup {"ready"} /\ result' \in {"ok", "error"}
    BY DEF BeginCleanup, End, Cleaning, Types
  <1> QED BY <1>1, <1>2 DEF BeginCleanup, Types, cardVars

LEMMA ReadTypes == Types /\ ReadUninstallFile => Types'
  <1> SUFFICES ASSUME Types, ReadUninstallFile PROVE Types'
    OBVIOUS
  <1>1. faults' \in 0 .. MaxFaults
    BY FaultIs DEF ReadUninstallFile, NoFault, Types
  <1>2. listed' \in Seq(Alias)
    <2>1. \A n \in 0 .. Len(file.names) - 1 : SubSeq(file.names, 1, n) \in Seq(Alias)
      BY DEF Types
    <2> QED BY <2>1 DEF ReadUninstallFile, Types
  <1>3. pc' \in Cleaning \cup {"ready"} /\ result' \in {"ok", "error"}
    BY DEF ReadUninstallFile, End, Cleaning, Types
  <1> QED BY <1>1, <1>2, <1>3 DEF ReadUninstallFile, Types, cardVars

LEMMA UnlistTypes == Types /\ DeleteUninstallFile => Types'
  <1> SUFFICES ASSUME Types, DeleteUninstallFile PROVE Types'
    OBVIOUS
  <1>1. NoFile.kind = "none" /\ NoFile.names \in Seq(Alias)
    BY DEF NoFile
  <1>2. file' = NoFile \/ file' = file
    BY DEF DeleteUninstallFile
  <1>3. file'.kind \in {"none", "unsupported", "short", "ok"} /\ file'.names \in Seq(Alias)
    BY <1>1, <1>2 DEF Types
  <1>4. faults' \in 0 .. MaxFaults
    BY FaultIs DEF DeleteUninstallFile, NoFault, Types
  <1>5. pc' \in Cleaning
    BY DEF DeleteUninstallFile, Cleaning
  <1> QED BY <1>3, <1>4, <1>5 DEF DeleteUninstallFile, Types

LEMMA StepIs ==
  ASSUME NEW n \in Int
  PROVE  Step(n) \in Nat /\ (n > 0 => Step(n) = n) /\ (n <= 0 => Step(n) = 1)
  BY DEF Step

LEMMA DeleteCallTypes == Types /\ DeleteCall => Types'
  <1> SUFFICES ASSUME Types, DeleteCall PROVE Types'
    OBVIOUS
  <1>1. CASE Fault /\ i' = i + Step(-1) /\ UNCHANGED <<cache, tried>>
    <2>1. i' \in Nat
      BY <1>1 DEF Step, Types
    <2>2. faults' \in 0 .. MaxFaults
      BY <1>1, FaultIs
    <2> QED BY <1>1, <2>1, <2>2 DEF DeleteCall, Types
  <1> DEFINE found == {k \in ToDelete : OnCard(listed[k])}
  <1>2. ASSUME NEW failed \in SUBSET found, NEW gone \in SUBSET failed,
               /\ faults + Cardinality(failed) <= MaxFaults
               /\ faults' = faults + Cardinality(failed)
               /\ LET less == {listed[k] : k \in (found \ failed) \cup gone}
                  IN  cache' = [a \in Alias |-> cache[a] - IF a \in less THEN 1 ELSE 0]
               /\ i' = i + Step(Cardinality(found \ failed))
        PROVE  Types'
    <2> DEFINE less == {listed[k] : k \in (found \ failed) \cup gone}
    <2>0. IsFiniteSet(found)
      BY ToDeleteIs, Part DEF DeleteCall
    <2>1. Cardinality(failed) \in Nat /\ Cardinality(found \ failed) \in Int
      <3> HIDE DEF found
      <3>1. /\ Cardinality(failed) \in 0 .. Cardinality(found)
            /\ Cardinality(found \ failed) \in 0 .. Cardinality(found)
        BY <2>0, Part
      <3> QED BY <3>1
    <2>2. i' \in Nat
      <3>1. Step(Cardinality(found \ failed)) \in Nat
        BY <2>1, StepIs
      <3> HIDE DEF found
      <3> QED BY <1>2, <3>1 DEF Types
    <2>3. faults' \in 0 .. MaxFaults
      BY <1>2, <2>1, FaultIs
    <2>4. \A a \in less : cache[a] > 0
      BY DEF OnCard
    <2>5. cache' = [a \in Alias |-> cache[a] - IF a \in less THEN 1 ELSE 0]
      BY <1>2
    <2> HIDE DEF found, less
    <2>6. \A a \in Alias : cache[a] - (IF a \in less THEN 1 ELSE 0) \in Nat
      BY <2>4 DEF Types
    <2>7. cache' \in [Alias -> Nat]
      BY <2>5, <2>6
    <2> QED BY <2>2, <2>3, <2>7 DEF DeleteCall, Types
  <1> QED BY <1>1, <1>2 DEF DeleteCall

LEMMA FlushDeletionsTypes == Types /\ FlushDeletions => Types'
  <1> SUFFICES ASSUME Types, FlushDeletions PROVE Types'
    OBVIOUS
  <1>1. cache' \in [Alias -> Nat] /\ card' \in [Alias -> Nat]
    BY Flushed DEF FlushDeletions, Types
  <1>2. faults' \in 0 .. MaxFaults
    BY FaultIs DEF FlushDeletions, NoFault, Types
  <1>3. pc' \in Cleaning
    BY DEF FlushDeletions, Cleaning
  <1> QED BY <1>1, <1>2, <1>3 DEF FlushDeletions, Types

LEMMA DeleteUpdatesTypes == Types /\ DeleteUpdates => Types'
  <1> SUFFICES ASSUME Types, DeleteUpdates PROVE Types'
    OBVIOUS
  <1>1. updates' \subseteq Updates
    BY DEF DeleteUpdates, Types
  <1>2. faults' \in 0 .. MaxFaults
    BY FaultIs DEF DeleteUpdates, NoFault, Types
  <1>3. pc' \in Cleaning
    BY DEF DeleteUpdates, Cleaning
  <1> QED BY <1>1, <1>2, <1>3 DEF DeleteUpdates, Types

LEMMA FiniteLetters == \A S \in SUBSET Letter : IsFiniteSet(S) /\ Cardinality(S) \in Nat
  <1>1. IsFiniteSet(Letter)
    <2>1. IsFiniteSet({}) /\ Letter = ((({} \cup {"I"}) \cup {"E"}) \cup {"A"}) \cup {"C"}
      BY FS_EmptySet DEF Letter
    <2> QED BY <2>1, FS_AddElement
  <1> QED BY <1>1, FS_Subset, FS_CardinalityType

LEMMA FoldersAreLetters == \A f : OtherFolders(f) \in SUBSET Letter
  BY DEF OtherFolders

LEMMA DeleteFoldersTypes == Types /\ DeleteFolders => Types'
  <1> SUFFICES ASSUME Types, DeleteFolders PROVE Types'
    OBVIOUS
  <1>1. PICK rest \in SUBSET OtherFolders(SysExecFolder(console)) : \E full \in SUBSET rest :
          LET goes    == OtherFolders(SysExecFolder(console)) \ rest
              emptied == OtherFolders(SysExecFolder(console)) \ full
          IN  /\ faults + Cardinality(rest) <= MaxFaults
              /\ faults' = faults + Cardinality(rest)
              /\ folders' = folders \ goes
              /\ card' = [a \in Alias |-> IF a[1] \in emptied THEN 0 ELSE card[a]]
              /\ updates' = IF "I" \in emptied THEN {} ELSE updates
    BY DEF DeleteFolders
  <1>2. card' \in [Alias -> Nat]
    BY <1>1 DEF Types
  <1>3. faults' \in 0 .. MaxFaults
    <2>1. Cardinality(rest) \in Nat
      BY FoldersAreLetters, FiniteLetters
    <2> QED BY <1>1, <2>1, FaultIs
  <1>4. folders' \subseteq Letter /\ updates' \subseteq Updates
    BY <1>1 DEF Types
  <1>5. cache' = card' /\ pc' = "ready" /\ result' = "ok"
    BY DEF DeleteFolders, End
  <1> QED BY <1>2, <1>3, <1>4, <1>5 DEF DeleteFolders, Types

LEMMA StopTypes == Types /\ Stop => Types'
  <1> SUFFICES ASSUME Types, Stop PROVE Types'
    OBVIOUS
  <1>1. cache' \in [Alias -> Nat] /\ card' \in [Alias -> Nat]
    BY Flushed DEF Stop
  <1>2. faults' \in 0 .. MaxFaults /\ pc' = "ready" /\ result' = "error"
    BY FaultIs DEF Stop, End
  <1> QED BY <1>1, <1>2 DEF Stop, Types

LEMMA StepTypes == Types /\ [Next]_vars => Types'
  <1> SUFFICES ASSUME Types, [Next]_vars PROVE Types'
    OBVIOUS
  <1>1. CASE Work
    BY <1>1, GenerateTypes, BeginCrossLinkTypes, CreateCallTypes, SkipTypes,
       EndCrossLinkTypes, ReadTypes, UnlistTypes, DeleteCallTypes, FlushDeletionsTypes,
       DeleteUpdatesTypes, DeleteFoldersTypes DEF Work
  <1>2. CASE \E c \in IF SameConsole THEN {console} ELSE Console : BeginCleanup(c)
    <2>1. PICK c \in Console : BeginCleanup(c)
      BY <1>2 DEF Types
    <2> QED BY <2>1, BeginCleanupTypes
  <1>3. CASE Stop
    BY <1>3, StopTypes
  <1>4. CASE UNCHANGED vars
    BY <1>4 DEF vars, cardVars, Types
  <1> QED BY <1>1, <1>2, <1>3, <1>4 DEF Next

(***************************************************************************)
(* There is an uninstall file before there is an alias.                    *)
(***************************************************************************)
LEMMA InitFileInv == Init => FileInv
  <1> SUFFICES ASSUME Init PROVE FileInv
    OBVIOUS
  <1>1. \A a \in Alias \ {Own(console)} : card[a] = 0 /\ cache[a] = 0
    BY DEF Init
  <1> QED BY <1>1 DEF Init, FileInv, NoFile

LEMMA StepFileInv == Types /\ FileInv /\ [Next]_vars => FileInv'
  <1> SUFFICES ASSUME Types, FileInv, [Next]_vars PROVE FileInv'
    OBVIOUS
  <1>0. (Fault => faults' > 0) /\ faults \in Nat
    BY FaultIs
  <1>t. faults' \in Nat
    BY StepTypes DEF Types
  <1>k. ASSUME file' = file, console' = console, faults' = 0 => faults = 0
        PROVE  ~ cleanedUp => \/ file'.kind = "none" \/ WriteFailed'
                              \/ file' = [kind |-> "ok", names |-> Others(console)']
    <2>1. Others(console)' = Others(console) /\ Truncated(Others(console))' = Truncated(Others(console))
      BY <1>k DEF Truncated
    <2>2. faults > 0 => faults' > 0
      BY <1>0, <1>t, <1>k
    <2> QED BY <1>k, <2>1, <2>2 DEF FileInv, WriteFailed
  <1>f. (NoFault \/ Fault) => (faults' = 0 => faults = 0)
    BY <1>0, FaultIs DEF NoFault, Types
  <1>1. CASE GenerateUninstallFile
    <2>1. \A f \in Truncated(Others(console)) : f.kind # "none"
      BY OthersIs, TruncatedIs
    <2>2. ~ cleanedUp /\ ~ cleanedUp'
      BY <1>1 DEF GenerateUninstallFile, FileInv
    <2>3. file' = file \/ file'.kind # "none"
      BY <1>1, <2>1 DEF GenerateUninstallFile
    <2>4. file'.kind = "none" => pc' = "ready" /\ file' = file
      BY <1>1, <2>1 DEF GenerateUninstallFile, End
    <2>5. pc' \in {"init", "ready"}
      BY <1>1 DEF GenerateUninstallFile, End
    <2>6. /\ console' = console /\ Others(console)' = Others(console)
          /\ Truncated(Others(console))' = Truncated(Others(console))
      BY <1>1 DEF GenerateUninstallFile, Truncated
    <2>7. \/ file' = [kind |-> "ok", names |-> Others(console)]
          \/ file' \in Truncated(Others(console)) /\ Fault
          \/ file' = file /\ Fault
      BY <1>1 DEF GenerateUninstallFile
    <2>8. \/ file'.kind = "none" \/ WriteFailed'
          \/ file' = [kind |-> "ok", names |-> Others(console)']
      BY <1>0, <1>f, <1>k, <2>2, <2>6, <2>7 DEF WriteFailed
    <2> QED BY <1>1, <2>2, <2>3, <2>4, <2>5, <2>8 DEF GenerateUninstallFile, FileInv
  <1>2. CASE BeginCrossLink
    <2>1. file' = file /\ console' = console /\ (faults' = 0 => faults = 0)
      BY <1>2, <1>f DEF BeginCrossLink, cardVars
    <2> QED BY <1>2, <1>k, <2>1 DEF BeginCrossLink, End, cardVars, FileInv
  <1>3. CASE CreateCall
    <2>1. file' = file /\ console' = console /\ (faults' = 0 => faults = 0) /\ ~ cleanedUp /\ ~ cleanedUp'
      <3>1. ASSUME NEW failed \in SUBSET Requested,
                   faults + Cardinality(failed) <= MaxFaults, faults' = faults + Cardinality(failed)
            PROVE  faults' = 0 => faults = 0
        <4>1. IsFiniteSet(Requested)
          BY <1>3, RequestedIs DEF CreateCall
        <4>2. Cardinality(failed) \in 0 .. Cardinality(Requested)
          BY <4>1, Part
        <4>3. Cardinality(failed) \in Nat
          BY <4>2
        <4> QED BY <3>1, <4>3, FaultIs
      <3> QED BY <1>3, <1>f, <3>1 DEF CreateCall, FileInv
    <2> QED BY <1>3, <1>k, <2>1 DEF CreateCall, FileInv
  <1>4. CASE Skip
    <2>1. file' = file /\ console' = console /\ (faults' = 0 => faults = 0)
      BY <1>4, <1>0 DEF Skip, cardVars
    <2> QED BY <1>4, <1>k, <2>1 DEF Skip, cardVars, FileInv
  <1>5. CASE EndCrossLink
    <2>1. pc' = "ready" /\ ~ cleanedUp /\ ~ cleanedUp' /\ file' = file /\ file.kind # "none"
      BY <1>5 DEF EndCrossLink, End, FileInv
    <2>2. console' = console /\ (faults' = 0 => faults = 0)
      BY <1>5, <1>f DEF EndCrossLink
    <2> QED BY <1>k, <2>1, <2>2 DEF FileInv
  <1>6. CASE \E c \in Console : BeginCleanup(c)
    <2>1. /\ file' = file /\ console' = console /\ cleanedUp' = cleanedUp
          /\ (faults' = 0 => faults = 0)
      BY <1>6, <1>f DEF BeginCleanup, cardVars
    <2> QED BY <1>6, <1>k, <2>1 DEF BeginCleanup, End, cardVars, FileInv
  <1>7. CASE ReadUninstallFile
    <2>1. /\ file' = file /\ console' = console /\ cleanedUp' = cleanedUp
          /\ (faults' = 0 => faults = 0)
      BY <1>7, <1>f DEF ReadUninstallFile, cardVars
    <2> QED BY <1>7, <1>k, <2>1 DEF ReadUninstallFile, End, cardVars, FileInv
  <1>8. CASE DeleteUninstallFile
    <2>1. cleanedUp' /\ pc' = "delete" /\ (faults' = 0 => file' = NoFile)
      BY <1>0, <1>8 DEF DeleteUninstallFile
    <2> QED BY <2>1 DEF FileInv
  <1>9. CASE DeleteCall
    <2>1. pc' = pc /\ pc = "delete" /\ cleanedUp /\ cleanedUp' /\ file' = file
      BY <1>9 DEF DeleteCall, FileInv
    <2>2. faults' = 0 => faults = 0
      <3> DEFINE found == {k \in ToDelete : OnCard(listed[k])}
      <3>1. ASSUME NEW failed \in SUBSET found,
                   faults + Cardinality(failed) <= MaxFaults, faults' = faults + Cardinality(failed)
            PROVE  faults' = 0 => faults = 0
        <4>1. IsFiniteSet(found)
          BY <1>9, ToDeleteIs, Part DEF DeleteCall
        <4> HIDE DEF found
        <4>2. Cardinality(failed) \in 0 .. Cardinality(found)
          BY <4>1, Part
        <4>3. Cardinality(failed) \in Nat
          BY <4>2
        <4> QED BY <3>1, <4>3, FaultIs
      <3> QED BY <1>9, <1>f, <3>1 DEF DeleteCall
    <2> QED BY <2>1, <2>2 DEF FileInv
  <1>10. CASE FlushDeletions
    <2>1. cleanedUp /\ cleanedUp' /\ file' = file /\ pc' = "updates" /\ (faults' = 0 => faults = 0)
      BY <1>10, <1>f DEF FlushDeletions, FileInv
    <2> QED BY <2>1 DEF FileInv
  <1>11. CASE DeleteUpdates
    <2>1. cleanedUp /\ cleanedUp' /\ file' = file /\ pc' = "folders" /\ (faults' = 0 => faults = 0)
      BY <1>11, <1>f DEF DeleteUpdates, FileInv
    <2> QED BY <2>1 DEF FileInv
  <1>12. CASE DeleteFolders
    <2>1. cleanedUp /\ cleanedUp' /\ file' = file /\ pc' = "ready"
      BY <1>12 DEF DeleteFolders, End, FileInv
    <2>2. faults' = 0 => faults = 0
      <3>1. PICK rest \in SUBSET OtherFolders(SysExecFolder(console)) :
              faults + Cardinality(rest) <= MaxFaults /\ faults' = faults + Cardinality(rest)
        BY <1>12 DEF DeleteFolders
      <3>2. Cardinality(rest) \in Nat
        BY FoldersAreLetters, FiniteLetters
      <3> QED BY <3>1, <3>2, FaultIs
    <2> QED BY <2>1, <2>2 DEF FileInv
  <1>13. CASE Stop
    <2>1. /\ pc' = "ready" /\ cleanedUp' = cleanedUp /\ file' = file
          /\ console' = console /\ (faults' = 0 => faults = 0)
      BY <1>13, <1>f DEF Stop, End
    <2>2. CASE ~ cleanedUp /\ file.kind = "none"
      <3>1. \A a \in Alias : cache'[a] \in {cache[a], card[a]} /\ card'[a] \in {cache[a], card[a]}
        BY <1>13, Flushed DEF Stop
      <3>2. Own(console)' = Own(console)
        BY <2>1 DEF Own
      <3> QED BY <1>k, <2>1, <2>2, <3>1, <3>2 DEF FileInv
    <2> QED BY <1>k, <2>1, <2>2 DEF FileInv
  <1>14. CASE UNCHANGED vars
    <2>1. /\ file' = file /\ console' = console /\ faults' = faults /\ cleanedUp' = cleanedUp
          /\ pc' = pc /\ card' = card /\ cache' = cache
      BY <1>14 DEF vars, cardVars
    <2>2. (faults' = 0 => faults = 0)
      BY <1>0, <2>1
    <2>3. Own(console)' = Own(console)
      BY <2>1 DEF Own
    <2> QED BY <1>k, <2>1, <2>2, <2>3 DEF FileInv
  <1>15. (\E c \in IF SameConsole THEN {console} ELSE Console : BeginCleanup(c))
           => \E c \in Console : BeginCleanup(c)
    BY DEF Types
  <1> QED BY <1>1, <1>2, <1>3, <1>4, <1>5, <1>6, <1>7, <1>8, <1>9, <1>10, <1>11, <1>12,
             <1>13, <1>14, <1>15 DEF Next, Work

LEMMA FileInvShows == Types /\ FileInv => UninstallFileFirst
  <1> SUFFICES ASSUME Types, FileInv, ~ cleanedUp, NEW a \in Alias \ {Own(console)},
                      card[a] + cache[a] > 0
               PROVE  Removable(a) \/ WriteFailed
    BY DEF UninstallFileFirst
  <1>1. file.kind # "none"
    <2>1. file.kind = "none" => card[a] = 0 /\ cache[a] = 0
      BY DEF FileInv
    <2> QED BY <2>1
  <1>2. CASE file = [kind |-> "ok", names |-> Others(console)]
    <2>1. DOMAIN Others(console) = 1 .. Len(Others(console))
          /\ \E k \in 1 .. Len(Others(console)) : Others(console)[k] = a
      BY OthersIs
    <2>2. file.kind = "ok" /\ file.names = Others(console)
      BY <1>2
    <2> QED BY <2>1, <2>2 DEF Removable
  <1> QED BY <1>1, <1>2 DEF FileInv

(***************************************************************************)
(* The clean-up passes by one alias at most for each fault.                *)
(***************************************************************************)
LEMMA PassedByIs ==
  ASSUME Types
  PROVE  IsFiniteSet(PassedBy) /\ Cardinality(PassedBy) \in Nat
  <1>1. PassedBy \in SUBSET Alias
    BY DEF PassedBy, Types
  <1>2. IsFiniteSet(PassedBy)
    BY <1>1, AliasIs, FS_Subset
  <1> QED BY <1>2, FS_CardinalityType

LEMMA InitTriedInv == Init => TriedInv
  BY DEF Init, TriedInv, OneAliasPerFault

LEMMA DeleteCallTried == Types /\ TriedInv /\ DeleteCall => Cardinality(PassedBy)' <= faults'
  <1> SUFFICES ASSUME Types, TriedInv, DeleteCall PROVE Cardinality(PassedBy)' <= faults'
    OBVIOUS
  <1>1. /\ Cardinality(PassedBy) <= faults /\ i < Len(listed)
        /\ pc' = "delete" /\ listed' = listed /\ i \in Nat /\ faults \in Nat
        /\ Len(listed) \in Nat /\ DOMAIN listed = 1 .. Len(listed)
    BY FaultIs DEF DeleteCall, TriedInv, Types
  <1>2. IsFiniteSet(PassedBy) /\ Cardinality(PassedBy) \in Nat
    BY PassedByIs
  <1>3. PassedBy' = {listed[k] : k \in {j \in DOMAIN listed : j <= i'}} \ tried'
    BY <1>1 DEF PassedBy
  <1>4. /\ IsFiniteSet(ToDelete) /\ Cardinality(ToDelete) \in Nat \ {0}
        /\ ToDelete = i + 1 .. i + Cardinality(ToDelete)
        /\ i + Cardinality(ToDelete) <= Len(listed)
    BY <1>1, ToDeleteIs
  <1>5. CASE Fault /\ i' = i + Step(-1) /\ UNCHANGED <<cache, tried>>
    <2>1. i' = i + 1 /\ tried' = tried /\ faults' = faults + 1
      BY <1>5 DEF Step, Fault
    <2>2. PassedBy' \in SUBSET (PassedBy \cup {listed[i + 1]})
      <3>1. \A j \in DOMAIN listed : j <= i + 1 => j <= i \/ j = i + 1
        BY <1>1
      <3> QED BY <1>3, <2>1, <3>1 DEF PassedBy
    <2>3. /\ IsFiniteSet(PassedBy \cup {listed[i + 1]})
          /\ Cardinality(PassedBy \cup {listed[i + 1]}) \in Nat
          /\ Cardinality(PassedBy \cup {listed[i + 1]}) <= Cardinality(PassedBy) + 1
      <3>1. /\ IsFiniteSet(PassedBy \cup {listed[i + 1]})
            /\ \/ Cardinality(PassedBy \cup {listed[i + 1]}) = Cardinality(PassedBy)
               \/ Cardinality(PassedBy \cup {listed[i + 1]}) = Cardinality(PassedBy) + 1
        BY <1>2, FS_AddElement
      <3> QED BY <1>2, <3>1
    <2>4. Cardinality(PassedBy') \in 0 .. Cardinality(PassedBy \cup {listed[i + 1]})
      BY <2>2, <2>3, Part
    <2> QED BY <1>1, <1>2, <2>1, <2>3, <2>4
  <1> DEFINE found == {k \in ToDelete : OnCard(listed[k])}
  <1>6. ASSUME NEW failed \in SUBSET found,
               /\ faults + Cardinality(failed) <= MaxFaults
               /\ faults' = faults + Cardinality(failed)
               /\ tried' = tried \cup {listed[k] : k \in ToDelete}
               /\ i' = i + Step(Cardinality(found \ failed))
        PROVE  Cardinality(PassedBy)' <= faults'
    <2>0. IsFiniteSet(found) /\ Cardinality(found) \in 0 .. Cardinality(ToDelete)
      BY <1>4, Part
    <2> HIDE DEF found
    <2>1. /\ Cardinality(failed) \in 0 .. Cardinality(found)
          /\ Cardinality(found \ failed) \in 0 .. Cardinality(found)
      BY <2>0, Part
    <2>2. Cardinality(found \ failed) \in 0 .. Cardinality(ToDelete) /\ Cardinality(failed) \in Nat
      BY <1>4, <2>0, <2>1
    <2>3. i' \in i + 1 .. i + Cardinality(ToDelete)
      <3>1. Step(Cardinality(found \ failed)) \in 1 .. Cardinality(ToDelete)
        BY <1>4, <2>2 DEF Step
      <3> QED BY <1>1, <1>4, <1>6, <3>1
    <2>4. \A j \in DOMAIN listed : j <= i' => j <= i \/ j \in ToDelete
      BY <1>1, <1>4, <2>3
    <2>5. PassedBy' \in SUBSET PassedBy
      BY <1>3, <1>6, <2>4 DEF PassedBy
    <2>6. Cardinality(PassedBy') \in 0 .. Cardinality(PassedBy)
      BY <1>2, <2>5, Part
    <2> QED BY <1>1, <1>2, <1>6, <2>2, <2>6
  <1> QED BY <1>5, <1>6 DEF DeleteCall

LEMMA StepTriedInv == Types /\ TriedInv /\ [Next]_vars => TriedInv'
  <1> SUFFICES ASSUME Types, TriedInv, [Next]_vars PROVE TriedInv'
    OBVIOUS
  <1> USE DEF TriedInv, OneAliasPerFault
  <1>1. CASE GenerateUninstallFile
    BY <1>1 DEF GenerateUninstallFile, End
  <1>2. CASE BeginCrossLink
    BY <1>2 DEF BeginCrossLink, End
  <1>3. CASE CreateCall
    <2>1. pc' = pc /\ pc \in {"before", "after"}
      BY <1>3 DEF CreateCall
    <2> QED BY <2>1
  <1>4. CASE Skip
    BY <1>4 DEF Skip
  <1>5. CASE EndCrossLink
    <2>1. pc' = "ready"
      BY <1>5 DEF EndCrossLink, End
    <2> QED BY <2>1
  <1>6. CASE \E c \in Console : BeginCleanup(c)
    <2>1. pc' \in {"read", "ready"}
      BY <1>6 DEF BeginCleanup, End
    <2> QED BY <2>1
  <1>7. CASE ReadUninstallFile
    <2>1. pc' \in {"unlist", "ready"}
      BY <1>7 DEF ReadUninstallFile, End
    <2> QED BY <2>1
  <1>15. CASE DeleteUninstallFile
    <2>1. i' = 0 /\ listed' = listed /\ pc' = "delete"
      BY <1>15 DEF DeleteUninstallFile
    <2>2. \A j \in DOMAIN listed : ~ (j <= 0)
      BY DEF Types
    <2>3. PassedBy' = {}
      BY <2>1, <2>2 DEF PassedBy
    <2>4. Cardinality({}) = 0 /\ faults' \in Nat /\ 0 <= faults'
      BY <1>15, FS_EmptySet, FaultIs DEF DeleteUninstallFile, NoFault
    <2>5. Cardinality(PassedBy)' <= faults'
      BY <2>3, <2>4
    <2> QED BY <2>1, <2>5
  <1>8. CASE DeleteCall
    <2>1. pc' = "delete"
      BY <1>8 DEF DeleteCall
    <2> QED BY <1>8, <2>1, DeleteCallTried
  <1>9. CASE FlushDeletions
    <2>1. /\ pc = "delete" /\ pc' = "updates" /\ i >= Len(listed)
          /\ listed' = listed /\ tried' = tried /\ i' = i
      BY <1>9 DEF FlushDeletions
    <2>2. faults' \in Nat /\ faults <= faults'
      BY <1>9, FaultIs DEF FlushDeletions, NoFault
    <2>3. {j \in DOMAIN listed : j <= i} = DOMAIN listed
      <3>1. DOMAIN listed = 1 .. Len(listed) /\ i \in Nat /\ Len(listed) \in Nat
        BY DEF Types
      <3> QED BY <2>1, <3>1
    <2>4. PassedBy = {listed[k] : k \in DOMAIN listed} \ tried
      BY <2>3 DEF PassedBy
    <2>5. Cardinality(PassedBy) <= faults'
      BY <2>1, <2>2, PassedByIs, FaultIs
    <2> QED BY <2>1, <2>4, <2>5
  <1>10. CASE DeleteUpdates
    <2>1. pc = "updates" /\ pc' = "folders" /\ listed' = listed /\ tried' = tried
      BY <1>10 DEF DeleteUpdates
    <2>2. faults' \in Nat /\ faults <= faults'
      BY <1>10, FaultIs DEF DeleteUpdates, NoFault
    <2>3. IsFiniteSet({listed[k] : k \in DOMAIN listed} \ tried)
      <3>1. {listed[k] : k \in DOMAIN listed} \ tried \in SUBSET Alias
        BY DEF Types
      <3> QED BY <3>1, AliasIs, FS_Subset
    <2>4. Cardinality({listed[k] : k \in DOMAIN listed} \ tried) \in Nat
      BY <2>3, FS_CardinalityType
    <2> QED BY <2>1, <2>2, <2>4, FaultIs
  <1>11. CASE DeleteFolders
    BY <1>11 DEF DeleteFolders, End
  <1>12. CASE Stop
    BY <1>12 DEF Stop, End
  <1>13. CASE UNCHANGED vars
    <2>1. /\ pc' = pc /\ listed' = listed /\ i' = i /\ tried' = tried /\ faults' = faults
      BY <1>13 DEF vars
    <2>2. PassedBy' = PassedBy
      BY <2>1 DEF PassedBy
    <2> QED BY <2>1, <2>2
  <1>14. (\E c \in IF SameConsole THEN {console} ELSE Console : BeginCleanup(c))
           => \E c \in Console : BeginCleanup(c)
    BY DEF Types
  <1> HIDE DEF TriedInv, OneAliasPerFault
  <1> QED BY <1>1, <1>2, <1>3, <1>4, <1>5, <1>6, <1>7, <1>8, <1>9, <1>10, <1>11, <1>12,
             <1>13, <1>14, <1>15 DEF Next, Work

(***************************************************************************)
(* An installation in which nothing fails.                                 *)
(***************************************************************************)
LEMMA InitInstallInv == Init => InstallInv
  <1> SUFFICES ASSUME Init PROVE InstallInv
    OBVIOUS
  <1>1. Made(0) = {a \in Alias : a = Own(console)}
    BY DEF Made
  <1>2. Ones(Made(0)) = [a \in Alias |-> IF a = Own(console) THEN 1 ELSE 0]
    BY <1>1 DEF Ones
  <1> QED BY <1>2 DEF Init, InstallInv

(* Aliases that were made are those at the front of the table.             *)
LEMMA MadeAll ==
  ASSUME NEW n \in Nat, n >= 8
  PROVE  Made(n) = Alias
  <1>1. \A a \in Alias : \E k \in 1 .. 8 : a = FileAlias[k]
    BY AliasIs
  <1>2. \A k \in 1 .. 8 : k <= n
    OBVIOUS
  <1> QED BY <1>1, <1>2 DEF Made

LEMMA MadeMore ==
  ASSUME FileIndex \in Nat, NEW n \in Nat, FileIndex + n <= 8,
         \A k \in 1 .. 8 : FileIndex < k /\ k <= FileIndex + n => FileAlias[k] # Own(console),
         cache = Ones(Made(FileIndex)),
         NEW new, new = {FileAlias[k] : k \in FileIndex + 1 .. FileIndex + n}
  PROVE  \A a \in Alias : cache[a] + (IF a \in new THEN 1 ELSE 0)
                            = IF a \in Made(FileIndex + n) THEN 1 ELSE 0
  <1>1. \A a \in Alias :
          a \in new <=> \E k \in 1 .. 8 : FileIndex < k /\ k <= FileIndex + n /\ a = FileAlias[k]
    OBVIOUS
  <1>2. \A a \in Alias : a \in Made(FileIndex) => a \notin new
    <2> SUFFICES ASSUME NEW a \in Alias, a \in Made(FileIndex), a \in new PROVE FALSE
      OBVIOUS
    <2>1. PICK k \in 1 .. 8 : FileIndex < k /\ k <= FileIndex + n /\ a = FileAlias[k]
      BY <1>1
    <2>2. a # Own(console)
      BY <2>1
    <2>3. PICK j \in 1 .. 8 : j <= FileIndex /\ a = FileAlias[j]
      BY <2>2 DEF Made
    <2>4. j = k
      BY <2>1, <2>3, NamesDiffer
    <2> QED BY <2>1, <2>3, <2>4
  <1>3. \A a \in Alias : a \in Made(FileIndex + n) <=> a \in Made(FileIndex) \/ a \in new
    <2> TAKE a \in Alias
    <2>1. \A k \in 1 .. 8 :
            k <= FileIndex + n <=> k <= FileIndex \/ (FileIndex < k /\ k <= FileIndex + n)
      OBVIOUS
    <2> QED BY <1>1, <2>1 DEF Made
  <1>4. \A a \in Alias : cache[a] = IF a \in Made(FileIndex) THEN 1 ELSE 0
    BY DEF Ones
  <1> QED BY <1>2, <1>3, <1>4

LEMMA CreateCallInstalls ==
  Types /\ FileInv /\ InstallInv /\ CreateCall => InstallInv'
  <1> SUFFICES ASSUME Types, FileInv, InstallInv, CreateCall, faults' = 0 PROVE InstallInv'
    BY DEF InstallInv
  <1>1. /\ pc \in {"before", "after"} /\ pc' = pc /\ NumFiles > 0 /\ ~ cleanedUp
        /\ cleanedUp' = cleanedUp
        /\ UNCHANGED <<console, shared, folders, updates, file>>
    BY DEF CreateCall, FileInv
  <1>2. ~ Fault
    BY FaultIs
  <1>3. PICK failed \in SUBSET Requested : \E written \in SUBSET failed :
          LET new == {FileAlias[k] : k \in (Requested \ failed) \cup written}
          IN  /\ faults + Cardinality(failed) <= MaxFaults
              /\ faults' = faults + Cardinality(failed)
              /\ cache' = [a \in Alias |-> cache[a] + IF a \in new THEN 1 ELSE 0]
              /\ Advance(Cardinality(Requested \ failed))
    BY <1>2 DEF CreateCall
  <1> DEFINE n == Cardinality(Requested)
  <1>4. /\ IsFiniteSet(Requested) /\ n \in Nat \ {0} /\ n <= NumFiles
        /\ Requested = FileIndex + 1 .. FileIndex + n
    BY <1>1, RequestedIs
  <1>5. faults = 0 /\ failed = {}
    <2>1. Cardinality(failed) \in 0 .. n
      BY <1>4, Part
    <2>2. faults = 0 /\ Cardinality(failed) = 0
      BY <1>3, <2>1, FaultIs
    <2> QED BY <1>4, <2>2, NothingFails
  <1>6. /\ cache' = [a \in Alias |-> cache[a]
                       + IF a \in {FileAlias[k] : k \in Requested} THEN 1 ELSE 0]
        /\ Advance(n)
    BY <1>3, <1>5
  <1>7. FileIndex' = FileIndex + n /\ NumFiles' = NumFiles - n /\ result' = "ok"
    BY <1>4, <1>6 DEF Advance
  <1> HIDE DEF n
  <1>8. /\ shared /\ folders = Letter /\ updates = Updates
        /\ file = [kind |-> "ok", names |-> Others(console)]
        /\ cache = Ones(Made(FileIndex))
        /\ pc = "before" => FileIndex + NumFiles = BeforeOwn(console)
        /\ pc = "after" => FileIndex + NumFiles = 8 /\ FileIndex > BeforeOwn(console)
    BY <1>1, <1>5, TableIs DEF InstallInv
  <1>9. BeforeOwn(console) \in 0 .. 8 /\ FileIndex \in Nat /\ NumFiles \in Int
    BY BeforeIs DEF Types
  <1>10. FileIndex + n <= 8 /\ n \in Nat
    BY <1>1, <1>4, <1>8, <1>9
  <1>11. \A k \in 1 .. 8 : FileIndex < k /\ k <= FileIndex + n => FileAlias[k] # Own(console)
    <2>1. CASE pc = "before"
      <3>1. FileIndex + n <= BeforeOwn(console)
        BY <1>4, <1>8, <1>9, <2>1
      <3>2. \A k \in 1 .. 8 : k <= BeforeOwn(console) => FileAlias[k] # Own(console)
        BY BeforeIs
      <3> QED BY <1>9, <1>10, <3>1, <3>2
    <2>2. CASE pc = "after"
      <3>1. \A k \in 1 .. 8 : FileIndex < k => k > BeforeOwn(console) + 1 /\ BeforeOwn(console) < 8
        BY <1>8, <1>9, <2>2
      <3>2. BeforeOwn(console) < 8 => FileAlias[BeforeOwn(console) + 1] = Own(console)
        BY BeforeIs
      <3>3. ASSUME NEW k \in 1 .. 8, FileIndex < k, FileAlias[k] = Own(console) PROVE FALSE
        <4>1. BeforeOwn(console) + 1 \in 1 .. 8 /\ k # BeforeOwn(console) + 1
              /\ BeforeOwn(console) < 8
          BY <1>9, <3>1, <3>3
        <4> QED BY <3>2, <3>3, <4>1, NamesDiffer
      <3> QED BY <3>3
    <2> QED BY <1>1, <2>1, <2>2
  <1>12. cache' = Ones(Made(FileIndex + n))
    <2> DEFINE new == {FileAlias[k] : k \in Requested}
    <2>1. new = {FileAlias[k] : k \in FileIndex + 1 .. FileIndex + n}
      BY <1>4
    <2>2. cache' = [a \in Alias |-> cache[a] + IF a \in new THEN 1 ELSE 0]
      BY <1>6
    <2> HIDE DEF new
    <2>3. PICK m \in Nat : m = n
      BY <1>4
    <2> PICK made : made = new
      OBVIOUS
    <2>4. \A a \in Alias : cache[a] + (IF a \in made THEN 1 ELSE 0)
                             = IF a \in Made(FileIndex + m) THEN 1 ELSE 0
      <3>1. FileIndex \in Nat /\ FileIndex + m <= 8 /\ cache = Ones(Made(FileIndex))
        BY <1>8, <1>9, <1>10, <2>3
      <3>2. made = {FileAlias[k] : k \in FileIndex + 1 .. FileIndex + m}
        BY <2>1, <2>3
      <3>3. \A k \in 1 .. 8 : FileIndex < k /\ k <= FileIndex + m => FileAlias[k] # Own(console)
        BY <1>11, <2>3
      <3> QED BY <3>1, <3>2, <3>3, MadeMore
    <2> QED BY <2>2, <2>3, <2>4 DEF Ones
  <1>13. Ones(Made(FileIndex))' = Ones(Made(FileIndex + n))
    BY <1>1, <1>7 DEF Ones, Made, Own
  <1>14. FileIndex' + NumFiles' = FileIndex + NumFiles /\ NumFiles' >= 0 /\ FileIndex' >= FileIndex
         /\ FileIndex' \in Nat
    BY <1>4, <1>7, <1>9, <1>10
  <1>15. pc = "before" => FileIndex' + NumFiles' = BeforeOwn(console)
    BY <1>8, <1>14
  <1>16. pc = "after" => FileIndex' + NumFiles' = NumAliases /\ FileIndex' > BeforeOwn(console)
    BY <1>8, <1>9, <1>14, TableIs
  <1>17. cache' = Ones(Made(FileIndex))'
    BY <1>12, <1>13
  <1>18. BeforeOwn(console)' = BeforeOwn(console) /\ Others(console)' = Others(console)
         /\ NumAliases' = NumAliases
    BY <1>1
  <1> QED BY <1>1, <1>7, <1>8, <1>14, <1>15, <1>16, <1>17, <1>18 DEF InstallInv

LEMMA SkipInstalls == Types /\ FileInv /\ InstallInv /\ Skip => InstallInv'
  <1> SUFFICES ASSUME Types, FileInv, InstallInv, Skip, faults = 0 PROVE InstallInv'
    BY DEF InstallInv, Skip
  <1>1. /\ pc = "before" /\ pc' = "after" /\ NumFiles = 0 /\ ~ cleanedUp /\ ~ cleanedUp'
        /\ FileIndex' = FileIndex + 1 /\ NumFiles' = NumAliases - FileIndex'
        /\ UNCHANGED <<console, cardVars, result>>
    BY DEF Skip, NextIndex, FileInv
  <1>2. /\ shared /\ folders = Letter /\ updates = Updates /\ result = "ok"
        /\ file = [kind |-> "ok", names |-> Others(console)]
        /\ cache = Ones(Made(FileIndex))
        /\ FileIndex = BeforeOwn(console) /\ FileIndex \in 0 .. 8
    BY <1>1, BeforeIs DEF InstallInv, Types
  <1>3. Made(FileIndex + 1) = Made(FileIndex)
    <2>1. \A k \in 1 .. 8 : k <= FileIndex + 1 <=> k <= FileIndex \/ k = FileIndex + 1
      BY <1>2
    <2>2. FileIndex + 1 \in 1 .. 8 => FileAlias[FileIndex + 1] = Own(console)
      <3>1. BeforeOwn(console) < 8 => FileAlias[BeforeOwn(console) + 1] = Own(console)
        BY BeforeIs
      <3> QED BY <1>2, <3>1
    <2> QED BY <2>1, <2>2 DEF Made
  <1>4. Ones(Made(FileIndex))' = Ones(Made(FileIndex + 1))
    BY <1>1 DEF Ones, Made, Own
  <1>5. cache' = Ones(Made(FileIndex))'
    BY <1>1, <1>2, <1>3, <1>4 DEF cardVars
  <1>6. FileIndex' + NumFiles' = NumAliases /\ FileIndex' > BeforeOwn(console)
    BY <1>1, <1>2, TableIs
  <1> QED BY <1>1, <1>2, <1>5, <1>6 DEF InstallInv, cardVars

LEMMA EndCrossLinkInstalls == Types /\ FileInv /\ InstallInv /\ EndCrossLink => InstallInv'
  <1> SUFFICES ASSUME Types, FileInv, InstallInv, EndCrossLink, faults' = 0 PROVE InstallInv'
    BY DEF InstallInv
  <1>1. /\ pc = "after" /\ NumFiles <= 0 /\ ~ cleanedUp /\ ~ cleanedUp'
        /\ UNCHANGED <<console, shared, folders, updates, file>>
    BY DEF EndCrossLink, FileInv
  <1>2. ~ Fault
    BY FaultIs
  <1>3. faults = 0
    BY <1>2 DEF EndCrossLink, NoFault
  <1>4. /\ shared /\ folders = Letter /\ updates = Updates /\ result = "ok"
        /\ file = [kind |-> "ok", names |-> Others(console)]
        /\ cache = Ones(Made(FileIndex)) /\ FileIndex + NumFiles = 8
    BY <1>1, <1>3, TableIs DEF InstallInv
  <1>5. pc' = "ready" /\ result' = "ok" /\ card' = cache /\ cache' = cache
    BY <1>2, <1>4 DEF EndCrossLink, End
  <1>6. Made(FileIndex) = Alias
    BY <1>1, <1>4, MadeAll DEF Types
  <1>7. cache' = Ones(Alias) /\ card' = Ones(Alias)
    BY <1>4, <1>5, <1>6
  <1> QED BY <1>1, <1>4, <1>5, <1>7 DEF InstallInv, Ones

LEMMA StepInstallInv == Types /\ FileInv /\ InstallInv /\ [Next]_vars => InstallInv'
  <1> SUFFICES ASSUME Types, FileInv, InstallInv, [Next]_vars, faults' = 0, ~ cleanedUp'
               PROVE  InstallInv'
    BY DEF InstallInv
  <1>0. ~ Fault
    BY FaultIs
  <1>1. CASE GenerateUninstallFile
    <2>1. /\ faults = 0 /\ ~ cleanedUp /\ pc = "generate" /\ pc' = "init" /\ result' = result
          /\ file' = [kind |-> "ok", names |-> Others(console)]
          /\ UNCHANGED <<console, cache, card, shared, folders, updates>>
      BY <1>0, <1>1 DEF GenerateUninstallFile, NoFault
    <2>2. Ones(Made(0))' = Ones(Made(0))
      BY <2>1 DEF Ones, Made, Own
    <2> QED BY <2>1, <2>2 DEF InstallInv
  <1>2. CASE BeginCrossLink
    <2>1. /\ faults = 0 /\ ~ cleanedUp /\ pc = "init" /\ pc' = "before" /\ result' = "ok"
          /\ FileIndex' = 0 /\ NumFiles' = BeforeOwn(console)
          /\ UNCHANGED <<console, cache, card, shared, folders, updates, file>>
      BY <1>0, <1>2 DEF BeginCrossLink, NoFault, cardVars
    <2>2. Ones(Made(FileIndex))' = Ones(Made(0))
      BY <2>1 DEF Ones, Made, Own
    <2>3. BeforeOwn(console) \in Nat
      BY BeforeIs
    <2> QED BY <2>1, <2>2, <2>3 DEF InstallInv
  <1>3. CASE CreateCall
    BY <1>3, CreateCallInstalls
  <1>4. CASE Skip
    BY <1>4, SkipInstalls
  <1>5. CASE EndCrossLink
    BY <1>5, EndCrossLinkInstalls
  <1>6. CASE \E c \in Console : BeginCleanup(c)
    <2>1. /\ faults = 0 /\ ~ cleanedUp /\ pc = "ready" /\ pc' = "read" /\ result' = result
          /\ UNCHANGED <<console, cache, card, shared, folders, updates, file>>
      BY <1>0, <1>6 DEF BeginCleanup, NoFault, cardVars
    <2> QED BY <2>1 DEF InstallInv, Ones
  <1>7. CASE ReadUninstallFile
    <2>1. faults = 0 /\ ~ cleanedUp /\ pc = "read"
      BY <1>0, <1>7 DEF ReadUninstallFile, NoFault
    <2>2. file = [kind |-> "ok", names |-> Others(console)] /\ result = "ok"
          /\ shared /\ folders = Letter /\ updates = Updates
          /\ cache = Ones(Alias) /\ card = Ones(Alias)
      BY <2>1 DEF InstallInv
    <2>3. /\ pc' = "unlist" /\ listed' = Others(console) /\ result' = result
          /\ UNCHANGED <<console, cache, card, shared, folders, updates, file>>
      BY <1>0, <1>7, <2>2 DEF ReadUninstallFile, cardVars
    <2>4. Others(console)' = Others(console) /\ Ones(Alias)' = Ones(Alias)
      BY <2>3 DEF Ones
    <2> QED BY <2>2, <2>3, <2>4 DEF InstallInv
  <1>15. CASE DeleteUninstallFile
    BY <1>15 DEF DeleteUninstallFile
  <1>8. CASE DeleteCall
    BY <1>8 DEF DeleteCall, FileInv
  <1>9. CASE FlushDeletions
    BY <1>9 DEF FlushDeletions, FileInv
  <1>10. CASE DeleteUpdates
    BY <1>10 DEF DeleteUpdates, FileInv
  <1>11. CASE DeleteFolders
    BY <1>11 DEF DeleteFolders, FileInv
  <1>12. CASE Stop
    BY <1>0, <1>12 DEF Stop
  <1>13. CASE UNCHANGED vars
    <2>1. UNCHANGED <<console, cache, card, shared, folders, updates, file, FileIndex, NumFiles,
                      listed, cleanedUp, pc, result, faults>>
      BY <1>13 DEF vars, cardVars
    <2>2. Ones(Made(0))' = Ones(Made(0)) /\ Ones(Made(FileIndex))' = Ones(Made(FileIndex))
          /\ Ones(Alias)' = Ones(Alias)
      BY <2>1 DEF Ones, Made, Own
    <2> QED BY <2>1, <2>2 DEF InstallInv
  <1>14. (\E c \in IF SameConsole THEN {console} ELSE Console : BeginCleanup(c))
           => \E c \in Console : BeginCleanup(c)
    BY DEF Types
  <1> QED BY <1>1, <1>2, <1>3, <1>4, <1>5, <1>6, <1>7, <1>8, <1>9, <1>10, <1>11, <1>12,
             <1>13, <1>14, <1>15 DEF Next, Work

LEMMA InstallInvShows == Types /\ InstallInv => InstallComplete
  <1> SUFFICES ASSUME Types, InstallInv, pc = "ready", faults = 0, ~ cleanedUp
               PROVE  /\ result = "ok"
                      /\ card = [a \in Alias |-> 1]
                      /\ {file.names[k] : k \in DOMAIN file.names} = Alias \ {Own(console)}
    BY DEF InstallComplete
  <1>1. /\ result = "ok" /\ card = Ones(Alias)
        /\ file = [kind |-> "ok", names |-> Others(console)]
    BY DEF InstallInv
  <1>2. Ones(Alias) = [a \in Alias |-> 1]
    BY DEF Ones
  <1>3. file.names = Others(console)
    BY <1>1
  <1>4. /\ DOMAIN Others(console) = 1 .. Len(Others(console))
        /\ \A k \in DOMAIN Others(console) : Others(console)[k] \in Alias \ {Own(console)}
        /\ \A a \in Alias \ {Own(console)} :
             \E k \in DOMAIN Others(console) : Others(console)[k] = a
    BY OthersIs
  <1>5. {Others(console)[k] : k \in DOMAIN Others(console)} = Alias \ {Own(console)}
    BY <1>4
  <1> QED BY <1>1, <1>2, <1>3, <1>5

(***************************************************************************)
(* A clean-up in which nothing fails, by the console that installed and    *)
(* that is not a European one.                                             *)
(***************************************************************************)
Left(n) ==
  {a \in Alias : a = Own(console) \/ \E k \in DOMAIN listed : k > n /\ a = listed[k]}

CleanupInv == faults = 0 /\ cleanedUp =>
  /\ pc \in {"delete", "updates", "folders", "ready"} /\ listed = Others(console)
  /\ pc = "delete" => i <= Len(listed) /\ cache = Ones(Left(i))
  /\ pc \in {"updates", "folders"} => card = Ones({Own(console)})
  /\ pc \in {"delete", "updates", "folders"} => shared /\ folders = Letter
  /\ pc \in {"delete", "updates"} => updates = Updates
  /\ pc = "folders" => updates = Updates \ Unneeded
  /\ pc = "ready" => DowngradeIsNormal

SameInv == SameConsole => cleaner = console

NoEurope == \A c \in Console : SysExecFolder(c) # "E"

LEMMA FolderIs ==
  ASSUME NoEurope, NEW c \in Console
  PROVE  /\ SysExecFolder(c) \in {"I", "A", "C"}
         /\ OtherFolders(SysExecFolder(c)) = Letter \ {SysExecFolder(c)}
         /\ Own(c)[1] = SysExecFolder(c)
  <1>1. c.region \in {"J", "H", "A", "E", "C"}
    BY ConsoleAssumption DEF Region
  <1>2. SysExecFolder(c) \in {"I", "A", "C"}
    <2>1. SysExecFolder(c) \in {"I", "A", "C", "E"}
      BY <1>1 DEF SysExecFolder, GetMGFolderLetter
    <2> QED BY <2>1 DEF NoEurope
  <1>3. OtherFolders(SysExecFolder(c)) = Letter \ {SysExecFolder(c)}
    BY <1>2 DEF OtherFolders
  <1>4. Own(c)[1] = SysExecFolder(c)
    BY DEF Own, OwnFile, In
  <1> QED BY <1>2, <1>3, <1>4

LEMMA InitCleanupInv == Init => CleanupInv /\ SameInv
  BY DEF Init, CleanupInv, SameInv

LEMMA StepSame == SameInv /\ [Next]_vars => SameInv'
  BY DEF SameInv, Next, Work, vars, cardVars, GenerateUninstallFile, BeginCrossLink, CreateCall,
         Skip, EndCrossLink, BeginCleanup, ReadUninstallFile, DeleteUninstallFile,
         DeleteCall, FlushDeletions, DeleteUpdates, DeleteFolders, Stop

LEMMA UnlistCleansUp ==
  ASSUME Types, FileInv, InstallInv, CleanupInv, DeleteUninstallFile, faults = 0
  PROVE  CleanupInv'
  <1>1. ~ cleanedUp /\ pc = "unlist" /\ UNCHANGED <<console, cache, card, shared, folders, updates>>
    BY DEF DeleteUninstallFile, CleanupInv
  <1>2. /\ listed = Others(console) /\ cache = Ones(Alias)
        /\ shared /\ folders = Letter /\ updates = Updates
    BY <1>1 DEF InstallInv
  <1>3. pc' = "delete" /\ i' = 0 /\ listed' = Others(console)
    BY <1>2 DEF DeleteUninstallFile
  <1> DEFINE n == Len(Others(console))
  <1>4. /\ DOMAIN Others(console) = 1 .. n /\ n \in Nat
        /\ \A a \in Alias : a # Own(console) => \E k \in 1 .. n : Others(console)[k] = a
    BY OthersIs
  <1> HIDE DEF n
  <1>5. Left(i)' = Alias
    <2>1. Left(i)' = {a \in Alias : a = Own(console)
                                      \/ \E k \in 1 .. n : k > 0 /\ a = Others(console)[k]}
      BY <1>1, <1>3, <1>4 DEF Left, Own
    <2>2. \A k \in 1 .. n : k > 0
      OBVIOUS
    <2> QED BY <1>4, <2>1, <2>2
  <1>6. cache' = Ones(Left(i))'
    BY <1>1, <1>2, <1>5 DEF Ones
  <1>7. i' <= Len(listed)' /\ Others(console)' = Others(console)
    BY <1>1, <1>3, <1>4 DEF n
  <1> QED BY <1>1, <1>2, <1>3, <1>6, <1>7 DEF CleanupInv

(* The calls take what is left away from the front of the list.            *)
LEMMA LeftLess ==
  ASSUME listed = Others(console), i \in Nat, NEW n \in Nat, i + n <= Len(listed),
         cache = Ones(Left(i)),
         NEW less, less = {listed[k] : k \in i + 1 .. i + n}
  PROVE  \A a \in Alias : cache[a] - (IF a \in less THEN 1 ELSE 0)
                            = IF a \in Left(i + n) THEN 1 ELSE 0
  <1> DEFINE len == Len(listed)
  <1>1. /\ DOMAIN listed = 1 .. len /\ len \in Nat
        /\ \A k \in 1 .. len : listed[k] # Own(console)
        /\ \A j, k \in 1 .. len : listed[j] = listed[k] => j = k
    BY OthersIs
  <1> HIDE DEF len
  <1>2. i + n <= len
    BY DEF len
  <1>3. \A a : a \in less => a # Own(console)
    BY <1>1, <1>2
  <1>4. \A a \in Alias : a \in less => a \in Left(i)
    <2>1. \A k \in i + 1 .. i + n : k \in DOMAIN listed /\ k > i
      BY <1>1, <1>2
    <2> QED BY <2>1 DEF Left
  <1>5. \A a \in Alias : a \in Left(i + n) <=> a \in Left(i) /\ a \notin less
    <2> TAKE a \in Alias
    <2>1. ASSUME a \in Left(i), a \notin less PROVE a \in Left(i + n)
      <3>1. CASE a = Own(console)
        BY <3>1 DEF Left
      <3>2. CASE a # Own(console)
        <4>1. PICK k \in DOMAIN listed : k > i /\ a = listed[k]
          BY <2>1, <3>2 DEF Left
        <4>2. k > i + n
          BY <1>1, <2>1, <4>1
        <4> QED BY <4>1, <4>2 DEF Left
      <3> QED BY <3>1, <3>2
    <2>2. ASSUME a \in Left(i + n) PROVE a \in Left(i) /\ a \notin less
      <3>1. CASE a = Own(console)
        BY <1>3, <3>1 DEF Left
      <3>2. CASE a # Own(console)
        <4>1. PICK k \in DOMAIN listed : k > i + n /\ a = listed[k]
          BY <2>2, <3>2 DEF Left
        <4>2. k \in 1 .. len /\ k > i
          BY <1>1, <4>1
        <4>3. a \in Left(i)
          BY <4>1, <4>2 DEF Left
        <4>4. \A j \in i + 1 .. i + n : j \in 1 .. len /\ j # k
          BY <1>1, <1>2, <4>1
        <4>5. a \notin less
          BY <1>1, <4>1, <4>2, <4>4
        <4> QED BY <4>3, <4>5
      <3> QED BY <3>1, <3>2
    <2> QED BY <2>1, <2>2
  <1>6. \A a \in Alias : cache[a] = IF a \in Left(i) THEN 1 ELSE 0
    BY DEF Ones
  <1> QED BY <1>4, <1>5, <1>6

LEMMA DeleteCallCleansUp ==
  ASSUME Types, FileInv, CleanupInv, DeleteCall, faults' = 0
  PROVE  CleanupInv'
  <1>1. /\ pc = "delete" /\ pc' = "delete" /\ i < Len(listed) /\ cleanedUp /\ cleanedUp'
        /\ UNCHANGED <<console, shared, folders, updates, file, listed>>
    BY DEF DeleteCall, FileInv
  <1>2. ~ Fault
    BY FaultIs
  <1> DEFINE found == {k \in ToDelete : OnCard(listed[k])}
             n == Cardinality(ToDelete)
  <1>3. PICK failed \in SUBSET found : \E gone \in SUBSET failed :
          /\ faults + Cardinality(failed) <= MaxFaults
          /\ faults' = faults + Cardinality(failed)
          /\ LET less == {listed[k] : k \in (found \ failed) \cup gone}
             IN  cache' = [a \in Alias |-> cache[a] - IF a \in less THEN 1 ELSE 0]
          /\ i' = i + Step(Cardinality(found \ failed))
    BY <1>2 DEF DeleteCall
  <1>4. /\ IsFiniteSet(ToDelete) /\ n \in Nat \ {0}
        /\ ToDelete = i + 1 .. i + n /\ i + n <= Len(listed)
    BY <1>1, ToDeleteIs
  <1>5. faults = 0 /\ failed = {}
    <2>1. IsFiniteSet(found)
      BY <1>4, Part
    <2> HIDE DEF found
    <2>2. Cardinality(failed) \in 0 .. Cardinality(found)
      BY <2>1, Part
    <2>3. Cardinality(failed) \in Nat
      BY <2>1, FS_Subset, FS_CardinalityType
    <2>4. faults = 0 /\ Cardinality(failed) = 0
      BY <1>3, <2>3, FaultIs
    <2> QED BY <2>1, <2>4, NothingFails
  <1>6. /\ shared /\ folders = Letter /\ updates = Updates /\ listed = Others(console)
        /\ cache = Ones(Left(i)) /\ i \in Nat /\ DOMAIN listed = 1 .. Len(listed)
        /\ Len(listed) \in Nat
    BY <1>1, <1>5 DEF CleanupInv, Types
  <1>7. found = ToDelete
    <2> HIDE DEF n
    <2>1. \A k \in ToDelete : k \in DOMAIN listed /\ k > i
      BY <1>4, <1>6
    <2>2. \A k \in DOMAIN listed : listed[k] \in Alias
      BY DEF Types
    <2>3. \A k \in ToDelete : listed[k] \in Left(i)
      BY <2>1, <2>2 DEF Left
    <2>4. \A k \in ToDelete : cache[listed[k]] > 0
      BY <1>6, <2>1, <2>2, <2>3 DEF Ones
    <2> QED BY <2>4 DEF OnCard
  <1>8. /\ cache' = [a \in Alias |-> cache[a]
                       - IF a \in {listed[k] : k \in ToDelete} THEN 1 ELSE 0]
        /\ i' = i + Step(n)
    <2>1. /\ found \ failed = ToDelete
          /\ \A gone \in SUBSET failed : (found \ failed) \cup gone = ToDelete
      BY <1>5, <1>7
    <2> HIDE DEF found
    <2> QED BY <1>3, <2>1
  <1> HIDE DEF found, n
  <1>9. PICK m \in Nat : m = n
    BY <1>4
  <1>10. i' = i + m
    BY <1>4, <1>8, <1>9 DEF Step
  <1>11. cache' = Ones(Left(i + m))
    <2> DEFINE now == {listed[k] : k \in ToDelete}
    <2>1. now = {listed[k] : k \in i + 1 .. i + m}
      BY <1>4, <1>9
    <2>2. cache' = [a \in Alias |-> cache[a] - IF a \in now THEN 1 ELSE 0]
      BY <1>8
    <2> HIDE DEF now
    <2> PICK less : less = now
      OBVIOUS
    <2>3. \A a \in Alias : cache[a] - (IF a \in less THEN 1 ELSE 0)
                             = IF a \in Left(i + m) THEN 1 ELSE 0
      <3>1. i + m <= Len(listed) /\ less = {listed[k] : k \in i + 1 .. i + m}
        BY <1>4, <1>9, <2>1
      <3> QED BY <1>6, <3>1, LeftLess
    <2> QED BY <2>2, <2>3 DEF Ones
  <1>12. Ones(Left(i))' = Ones(Left(i + m))
    BY <1>1, <1>10 DEF Ones, Left, Own
  <1>13. i' <= Len(listed)' /\ Others(console)' = Others(console)
    BY <1>1, <1>4, <1>9, <1>10
  <1> QED BY <1>1, <1>6, <1>11, <1>12, <1>13 DEF CleanupInv

LEMMA FlushCleansUp ==
  ASSUME Types, FileInv, CleanupInv, FlushDeletions, faults' = 0
  PROVE  CleanupInv'
  <1>1. /\ pc = "delete" /\ pc' = "updates" /\ i >= Len(listed) /\ cleanedUp /\ cleanedUp'
        /\ UNCHANGED <<console, shared, folders, updates, file, listed>>
    BY DEF FlushDeletions, FileInv
  <1>2. card' = cache /\ faults = 0
    BY FaultIs DEF FlushDeletions, NoFault
  <1>3. /\ shared /\ folders = Letter /\ updates = Updates /\ listed = Others(console)
        /\ cache = Ones(Left(i))
    BY <1>1, <1>2 DEF CleanupInv
  <1>4. \A k \in DOMAIN listed : ~ (k > i)
    BY <1>1 DEF Types
  <1>5. Ones(Left(i)) = Ones({Own(console)})
    BY <1>4 DEF Ones, Left
  <1>6. Ones({Own(console)})' = Ones({Own(console)}) /\ Others(console)' = Others(console)
    BY <1>1 DEF Ones, Own
  <1> QED BY <1>1, <1>2, <1>3, <1>5, <1>6 DEF CleanupInv

LEMMA UpdatesCleanUp ==
  ASSUME Types, FileInv, CleanupInv, DeleteUpdates, faults' = 0
  PROVE  CleanupInv'
  <1>1. /\ pc = "updates" /\ pc' = "folders" /\ cleanedUp /\ cleanedUp'
        /\ UNCHANGED <<console, cleaner, cache, card, shared, folders, file, listed>>
    BY DEF DeleteUpdates, FileInv
  <1>2. updates' = updates \ Unneeded /\ faults = 0
    BY FaultIs DEF DeleteUpdates, NoFault
  <1>3. /\ shared /\ folders = Letter /\ updates = Updates /\ listed = Others(console)
        /\ card = Ones({Own(console)})
    BY <1>1, <1>2 DEF CleanupInv
  <1>4. /\ Ones({Own(console)})' = Ones({Own(console)}) /\ Others(console)' = Others(console)
        /\ Unneeded' = Unneeded
    BY <1>1 DEF Ones, Own, Unneeded
  <1> QED BY <1>1, <1>2, <1>3, <1>4 DEF CleanupInv

LEMMA NormalIs ==
  ASSUME console \in Console, cleaner = console, SysExecFolder(console) = "I"
  PROVE  Updates \ Unneeded = NormalUpdates
  <1>1. console.rom \in Nat
    BY ConsoleAssumption
  <1> DEFINE rom == console.rom
             older == IF rom # \h100 THEN {"100J"} ELSE {}
             old == IF rom # \h101 THEN {"101J"} ELSE {}
             newer == IF rom > \h120 THEN {"HDDLOAD"} ELSE {}
  <1>2. Unneeded = (older \cup old) \cup newer
    BY DEF Unneeded
  <1>3. NormalUpdates = ((IF rom = \h100 THEN {"100J"} ELSE {})
                           \cup (IF rom = \h101 THEN {"101J"} ELSE {}))
                             \cup (IF rom <= \h120 THEN {"HDDLOAD"} ELSE {})
    BY DEF NormalUpdates
  <1>4. rom \in Nat
    BY <1>1
  <1> HIDE DEF rom
  <1>5. CASE rom = \h100
    BY <1>2, <1>3, <1>5 DEF Updates
  <1>6. CASE rom = \h101
    BY <1>2, <1>3, <1>6 DEF Updates
  <1>7. CASE rom # \h100 /\ rom # \h101 /\ rom <= \h120
    BY <1>2, <1>3, <1>4, <1>7 DEF Updates
  <1>8. CASE rom # \h100 /\ rom # \h101 /\ rom > \h120
    BY <1>2, <1>3, <1>4, <1>8 DEF Updates
  <1> QED BY <1>4, <1>5, <1>6, <1>7, <1>8

LEMMA FoldersCleanUp ==
  ASSUME Types, FileInv, CleanupInv, SameInv, SameConsole, NoEurope, DeleteFolders, faults' = 0
  PROVE  CleanupInv'
  <1> DEFINE f == SysExecFolder(console)
  <1>1. /\ pc = "folders" /\ pc' = "ready" /\ cleanedUp /\ cleanedUp' /\ file' = NoFile
        /\ UNCHANGED <<console, cleaner, file, listed>> /\ cleaner = console /\ console \in Console
    <2>1. /\ pc = "folders" /\ pc' = "ready" /\ cleanedUp /\ cleanedUp'
          /\ UNCHANGED <<console, cleaner, file, listed>> /\ cleaner = console /\ console \in Console
      BY DEF DeleteFolders, End, FileInv, SameInv, Types
    <2>2. FileInv'
      BY StepFileInv DEF Next, Work
    <2> QED BY <2>1, <2>2 DEF FileInv
  <1>2. f \in {"I", "A", "C"} /\ OtherFolders(f) = Letter \ {f} /\ Own(console)[1] = f
    BY <1>1, FolderIs
  <1>3. PICK rest \in SUBSET OtherFolders(f) : \E full \in SUBSET rest :
       LET goes    == OtherFolders(f) \ rest
           emptied == OtherFolders(f) \ full
       IN  /\ faults + Cardinality(rest) <= MaxFaults
           /\ faults' = faults + Cardinality(rest)
           /\ folders' = folders \ goes
           /\ card' = [a \in Alias |-> IF a[1] \in emptied THEN 0 ELSE card[a]]
           /\ shared' = (shared /\ \A a \in Alias : a[1] \in emptied => card[a] = 0)
           /\ updates' = IF "I" \in emptied THEN {} ELSE updates
    BY DEF DeleteFolders
  <1>4. rest = {} /\ faults = 0
    <2>1. IsFiniteSet(rest) /\ Cardinality(rest) \in Nat
      BY FoldersAreLetters, FiniteLetters
    <2>2. faults = 0 /\ Cardinality(rest) = 0
      BY <1>3, <2>1, FaultIs
    <2>3. rest \in SUBSET rest
      OBVIOUS
    <2> QED BY <2>1, <2>2, <2>3, NothingFails
  <1> DEFINE others == Letter \ {f}
  <1>5. /\ folders' = folders \ others
        /\ card' = [a \in Alias |-> IF a[1] \in others THEN 0 ELSE card[a]]
        /\ shared' = (shared /\ \A a \in Alias : a[1] \in others => card[a] = 0)
        /\ updates' = IF "I" \in others THEN {} ELSE updates
    <2>1. OtherFolders(f) \ rest = others
          /\ \A full \in SUBSET rest : OtherFolders(f) \ full = others
      BY <1>2, <1>4
    <2> HIDE DEF f, others
    <2> QED BY <1>3, <2>1
  <1>6. /\ shared /\ folders = Letter /\ updates = Updates \ Unneeded
        /\ listed = Others(console) /\ card = Ones({Own(console)})
    BY <1>1, <1>4 DEF CleanupInv
  <1>7. \A a \in Alias : a[1] \in others => a # Own(console)
    BY <1>2
  <1>8. \A a \in Alias : card[a] = IF a = Own(console) THEN 1 ELSE 0
    BY <1>6 DEF Ones
  <1>9. card' = [a \in Alias |-> IF a = Own(console) THEN 1 ELSE 0]
    <2>1. \A a \in Alias : (IF a[1] \in others THEN 0 ELSE card[a])
                             = IF a = Own(console) THEN 1 ELSE 0
      BY <1>7, <1>8
    <2> QED BY <1>5, <2>1
  <1>10. shared'
    <2>1. \A a \in Alias : a[1] \in others => card[a] = 0
      BY <1>7, <1>8
    <2> QED BY <1>5, <1>6, <2>1
  <1>11. folders' = {f}
    BY <1>2, <1>5, <1>6 DEF Letter
  <1>12. updates' = NormalUpdates
    <2>1. CASE f = "I"
      <3>1. Updates \ Unneeded = NormalUpdates
        BY <1>1, <2>1, NormalIs
      <3> QED BY <1>5, <1>6, <2>1, <3>1
    <2>2. CASE f # "I"
      <3>1. NormalUpdates = {} /\ "I" \in others
        BY <2>2 DEF NormalUpdates, Letter
      <3> QED BY <1>5, <3>1
    <2> QED BY <2>1, <2>2
  <1>13. /\ NormalUpdates' = NormalUpdates /\ Own(console)' = Own(console)
         /\ Others(console)' = Others(console) /\ SysExecFolder(console)' = f
    BY <1>1 DEF NormalUpdates, Own
  <1>14. DowngradeIsNormal'
    <2> HIDE DEF f, others
    <2> QED BY <1>1, <1>9, <1>10, <1>11, <1>12, <1>13 DEF DowngradeIsNormal
  <1> QED BY <1>1, <1>6, <1>13, <1>14 DEF CleanupInv

LEMMA StepCleanupInv ==
  ASSUME SameConsole, NoEurope, Types, FileInv, InstallInv, CleanupInv, SameInv, [Next]_vars
  PROVE  CleanupInv'
  <1> SUFFICES ASSUME faults' = 0, cleanedUp' PROVE CleanupInv'
    BY DEF CleanupInv
  <1>0. ~ Fault
    BY FaultIs
  <1>1. CASE GenerateUninstallFile
    BY <1>1 DEF GenerateUninstallFile, FileInv
  <1>2. CASE BeginCrossLink
    BY <1>2 DEF BeginCrossLink, FileInv
  <1>3. CASE CreateCall
    BY <1>3 DEF CreateCall, FileInv
  <1>4. CASE Skip
    BY <1>4 DEF Skip, FileInv
  <1>5. CASE EndCrossLink
    BY <1>5 DEF EndCrossLink, FileInv
  <1>6. CASE \E c \in Console : BeginCleanup(c)
    <2>1. faults = 0 /\ cleanedUp /\ file.kind # "none"
      BY <1>0, <1>6 DEF BeginCleanup, NoFault
    <2> QED BY <2>1 DEF FileInv, NoFile
  <1>7. CASE ReadUninstallFile
    <2>1. faults = 0 /\ cleanedUp /\ pc = "read"
      BY <1>0, <1>7 DEF ReadUninstallFile, NoFault
    <2> QED BY <2>1 DEF CleanupInv
  <1>15. CASE DeleteUninstallFile
    <2>1. faults = 0
      BY <1>0, <1>15 DEF DeleteUninstallFile, NoFault
    <2> QED BY <1>15, <2>1, UnlistCleansUp
  <1>8. CASE DeleteCall
    BY <1>8, DeleteCallCleansUp
  <1>9. CASE FlushDeletions
    BY <1>9, FlushCleansUp
  <1>10. CASE DeleteUpdates
    BY <1>10, UpdatesCleanUp
  <1>11. CASE DeleteFolders
    BY <1>11, FoldersCleanUp
  <1>12. CASE Stop
    BY <1>0, <1>12 DEF Stop
  <1>13. CASE UNCHANGED vars
    <2>1. UNCHANGED <<console, cleaner, cache, card, shared, folders, updates, file, listed, i,
                      cleanedUp, pc, faults>>
      BY <1>13 DEF vars, cardVars
    <2>2. /\ Ones(Left(i))' = Ones(Left(i)) /\ Ones({Own(console)})' = Ones({Own(console)})
          /\ Unneeded' = Unneeded /\ Others(console)' = Others(console)
      BY <2>1 DEF Ones, Left, Own, Unneeded
    <2>3. DowngradeIsNormal' = DowngradeIsNormal
      BY <2>1 DEF DowngradeIsNormal, Own, NormalUpdates
    <2> QED BY <2>1, <2>2, <2>3 DEF CleanupInv
  <1>14. (\E c \in IF SameConsole THEN {console} ELSE Console : BeginCleanup(c))
           => \E c \in Console : BeginCleanup(c)
    BY DEF Types
  <1> QED BY <1>1, <1>2, <1>3, <1>4, <1>5, <1>6, <1>7, <1>8, <1>9, <1>10, <1>11, <1>12,
             <1>13, <1>14, <1>15 DEF Next, Work

(***************************************************************************)
(* The theorems.                                                           *)
(***************************************************************************)
(* The invariant that the theorems on installations rest on: the uninstall *)
(* file is there before the first alias, an installation without a fault   *)
(* has made the aliases at the front of the table once each, and the loop  *)
(* of a clean-up passes by one alias at most for each fault                *)
(* (system.c:2085-2132, 2226-2327).                                        *)
THEOREM MultiInvariant == Spec => []IInv
  <1>1. Init => IInv
    BY InitTypes, InitFileInv, InitTriedInv, InitInstallInv DEF IInv
  <1>2. IInv /\ [Next]_vars => IInv'
    BY StepTypes, StepFileInv, StepTriedInv, StepInstallInv DEF IInv
  <1> QED BY <1>1, <1>2, PTL DEF Spec

(* For any consoles, any size of a call and any number of faults: until a  *)
(* clean-up begins, an alias that is on the card, or about to be, is       *)
(* listed in an uninstall file that the clean-up accepts, or the writing   *)
(* of that file has failed, unnoticed (system.c:1733-1736, 2304-2329).     *)
THEOREM AliasesAreListed == Spec => []UninstallFileFirst
  <1>1. IInv => UninstallFileFirst
    BY FileInvShows DEF IInv
  <1> QED BY <1>1, MultiInvariant, PTL

(* An installation without a fault leaves one file for every console, and  *)
(* lists all but its own, however many aliases go into a call              *)
(* (system.c:2260-2274, 2309-2320).                                        *)
THEOREM EveryAliasIsMade == Spec => []InstallComplete
  <1>1. IInv => InstallComplete
    BY InstallInvShows DEF IInv
  <1> QED BY <1>1, MultiInvariant, PTL

(* The loop of a clean-up moves on by what MCTOOLS has deleted, not by     *)
(* what it was asked to; each fault costs one alias at most all the same   *)
(* (system.c:2117-2122).                                                   *)
THEOREM FaultCostsOneAlias == Spec => []OneAliasPerFault
  <1>1. IInv => OneAliasPerFault
    BY DEF IInv, TriedInv
  <1> QED BY <1>1, MultiInvariant, PTL

(* A clean-up by the console that installed, unless it is a European one,  *)
(* leaves a normal installation when nothing fails.  A European console    *)
(* loses its own folder (the run multi_europe), and another console may    *)
(* judge the files for early Japanese ones by itself (system.c:2134-2197). *)
THEOREM CleanupLeavesNormal ==
  ASSUME SameConsole, NoEurope
  PROVE  Spec => []DowngradeIsNormal
  <1> DEFINE CInv == IInv /\ CleanupInv /\ SameInv
  <1>1. Init => CInv
    BY InitTypes, InitFileInv, InitTriedInv, InitInstallInv, InitCleanupInv DEF IInv
  <1>2. CInv /\ [Next]_vars => CInv'
    BY StepTypes, StepFileInv, StepTriedInv, StepInstallInv, StepCleanupInv, StepSame DEF IInv
  <1>3. CInv => DowngradeIsNormal
    BY DEF CleanupInv, DowngradeIsNormal
  <1> HIDE DEF CInv
  <1> QED BY <1>1, <1>2, <1>3, PTL DEF Spec
=============================================================================
