------------------------- MODULE CardDirectoryProofs -------------------------
(***************************************************************************)
(* The directories of a card (CardDirectory), for any number of clusters,  *)
(* folders and names, and however many accesses to the card fail, until    *)
(* AddFATRecord returns an error.                                          *)
(***************************************************************************)
EXTENDS CardDirectory, FiniteSetTheorems, WellFoundedInduction, TLAPS

(***************************************************************************)
(* The least of a set of numbers.                                          *)
(***************************************************************************)
LEMMA Least ==
  ASSUME NEW T \in SUBSET Nat, T # {}
  PROVE  \E n \in T : \A m \in T : n <= m
  <1>1. PICK n \in T : \A m \in T : <<m, n>> \notin OpToRel(<, Nat)
    BY NatLessThanWellFounded, WFMin, Zenon
  <1>2. \A m \in T : ~ (m < n)
    BY <1>1 DEF OpToRel
  <1> QED BY <1>2

(***************************************************************************)
(* The recursive function in Chain is what its definition says.            *)
(***************************************************************************)
LinkFrom(f, g, k) ==
  IF k = 0 THEN Start[f] ELSE IF g[k - 1] \in used THEN next[g[k - 1]] ELSE End

LEMMA ChainExists ==
  ASSUME NEW f, NEW n \in Nat
  PROVE  \E g : g = [k \in 0 .. n |-> LinkFrom(f, g, k)]
  <1> DEFINE Defined(m) == \E g : g = [k \in 0 .. m |-> LinkFrom(f, g, k)]
             T == {m \in Nat : ~ Defined(m)}
  <1> SUFFICES ASSUME ~ Defined(n) PROVE FALSE
    OBVIOUS
  <1>1. T \in SUBSET Nat /\ T # {}
    OBVIOUS
  <1>2. PICK m \in T : \A i \in T : m <= i
    <2> HIDE DEF T
    <2> QED BY <1>1, Least
  <1>3. CASE m = 0
    <2> DEFINE g == [k \in 0 .. 0 |-> Start[f]]
    <2>1. \A k \in 0 .. 0 : k = 0
      OBVIOUS
    <2>2. g = [k \in 0 .. 0 |-> LinkFrom(f, g, k)]
      BY <2>1 DEF LinkFrom
    <2> HIDE DEF g
    <2> QED BY <1>2, <1>3, <2>2
  <1>4. CASE m # 0
    <2>1. m - 1 \in Nat /\ Defined(m - 1)
      BY <1>2, <1>4
    <2>2. PICK g : g = [k \in 0 .. m - 1 |-> LinkFrom(f, g, k)]
      BY <2>1
    <2> DEFINE h == [k \in 0 .. m |-> IF k < m THEN g[k] ELSE LinkFrom(f, g, m)]
    <2>3. \A k \in 0 .. m : h[k] = LinkFrom(f, h, k)
      <3> TAKE k \in 0 .. m
      <3>1. CASE k < m
        <4>1. k \in 0 .. m - 1 /\ h[k] = LinkFrom(f, g, k)
          BY <1>2, <2>2, <3>1
        <4>2. k # 0 => h[k - 1] = g[k - 1]
          BY <1>2, <3>1
        <4> HIDE DEF h
        <4> QED BY <4>1, <4>2 DEF LinkFrom
      <3>2. CASE k = m
        <4>1. h[m] = LinkFrom(f, g, m)
          BY <1>2
        <4>2. h[m - 1] = g[m - 1]
          BY <1>2, <1>4
        <4> HIDE DEF h
        <4> QED BY <1>4, <3>2, <4>1, <4>2 DEF LinkFrom
      <3> QED BY <1>2, <3>1, <3>2
    <2>4. h = [k \in 0 .. m |-> h[k]]
      OBVIOUS
    <2>5. h = [k \in 0 .. m |-> LinkFrom(f, h, k)]
      <3> HIDE DEF h
      <3> QED BY <2>3, <2>4
    <2> HIDE DEF h
    <2> QED BY <1>2, <2>5
  <1> QED BY <1>3, <1>4

LEMMA ChainIs ==
  ASSUME NEW f
  PROVE  Chain(f) = [k \in 0 .. NumClusters |-> LinkFrom(f, Chain(f), k)]
  <1>1. NumClusters \in Nat
    BY SizeAssumption
  <1>2. \E g : g = [k \in 0 .. NumClusters |-> LinkFrom(f, g, k)]
    BY <1>1, ChainExists
  <1>3. Chain(f) = CHOOSE g : g = [k \in 0 .. NumClusters |-> LinkFrom(f, g, k)]
    BY DEF Chain, LinkFrom
  <1> QED BY <1>2, <1>3, Zenon

(***************************************************************************)
(* The invariant.  It speaks of the clusters of each folder, ch[f], in the *)
(* order of its chain, and of how many there are, len[f].                  *)
(***************************************************************************)
(* The links of the FAT are those of the chains, and the chains are apart. *)
(* The record of a new cluster is the last to be written: until then it    *)
(* may lead anywhere.                                                      *)
Linked(ch, len) ==
  \A f \in Folder :
    /\ ch[f][0] = Start[f]
    /\ \A k \in 0 .. len[f] - 1 :
         /\ k + 1 < len[f] => ch[f][k] \in used /\ next[ch[f][k]] = ch[f][k + 1]
         /\ k + 1 = len[f] /\ ch[f][k] \in used => next[ch[f][k]] = End

Apart(ch, len) ==
  \A f, g \in Folder : \A j \in 0 .. len[f] - 1, k \in 0 .. len[g] - 1 :
    ch[f][j] = ch[g][k] => f = g /\ j = k

(* Clusters of chains are in use, but for a new one whose own record has   *)
(* not been written: while this lasts, no other cluster is looked for.     *)
Taken(ch, len) ==
  \A f \in Folder : \A k \in 0 .. len[f] - 1 :
    ch[f][k] \in used \/ (ch[f][k] = fresh /\ pc = "terminate")

Lengths(len) == \A f \in Folder : 2 <= length[f] /\ length[f] <= 2 * len[f]

(* What a call knows where it stands. *)
Places(ch, len) ==
  LET f == op.folder IN
  /\ pc \in {"alloc", "walk", "link", "terminate", "entry", "grow"} => op.kind = "create"
  /\ pc = "check" => op.kind = "delete"
  /\ pc \notin {"idle", "check"} /\ op.kind = "create" => parent = length[f]
  /\ pc \in {"scan", "write"} =>
       at = ch[f][rec \div 2] /\ rec \div 2 < len[f] /\ rec <= length[f]
  /\ pc = "write" =>
       \/ op.kind = "delete" /\ rec < length[f] /\ page[Here] = op.name
       \/ op.kind = "create" /\ rec < length[f] /\ page[Here] = Gone
       \/ op.kind = "create" /\ rec = length[f] /\ rec % 2 # 0
  /\ pc = "walk" => \E k \in 0 .. len[f] - 1 : at = ch[f][k]
  /\ pc = "link" => at = ch[f][len[f] - 1]
  /\ pc \in {"walk", "link"} => fresh \notin used
  /\ pc \in {"terminate", "entry"} => fresh = ch[f][len[f] - 1] /\ length[f] <= 2 * (len[f] - 1)
  /\ pc = "grow" => length[f] + 1 <= 2 * len[f]

CardInv(ch, len) ==
  /\ TypeOK /\ ~ Lost
  /\ Linked(ch, len) /\ Apart(ch, len) /\ Taken(ch, len) /\ Lengths(len) /\ Places(ch, len)

(* What is true besides on a card that works and has room: no cluster more *)
(* than the entries need, and what the call has found and written.         *)
Holds(ch, f, r) == page[<<ch[f][r \div 2], r % 2>>]

Working(ch, len) ==
  LET f == op.folder IN
  SpaceChecked /\ faults = 0 =>
    /\ \A g \in Folder :
         \/ len[g] = (length[g] + 1) \div 2
         \/ g = f /\ pc \in {"terminate", "entry", "grow"} /\ len[g] = length[g] \div 2 + 1
    /\ pc = "scan" /\ op.kind = "delete" => \A r \in 0 .. rec - 1 : Holds(ch, f, r) # op.name
    /\ pc \in {"scan", "write", "alloc"} /\ op.kind = "create" => FreeClusters # {}
    /\ pc \in {"alloc", "walk", "link"} => length[f] = 2 * len[f]
    /\ pc = "grow" => len[f] = length[f] \div 2 + 1 /\ Holds(ch, f, length[f]) = op.name

(***************************************************************************)
(* The chains that the invariant speaks of are those of the model.         *)
(***************************************************************************)
LEMMA ChainValues ==
  ASSUME NEW ch \in [Folder -> [Nat -> Cluster]], NEW len \in [Folder -> Nat \ {0}],
         used \subseteq Cluster, Linked(ch, len), NEW f \in Folder
  PROVE  \A k \in 0 .. NumClusters : Chain(f)[k] = IF k < len[f] THEN ch[f][k] ELSE End
  <1> DEFINE c == Chain(f)
             V(k) == c[k] = IF k < len[f] THEN ch[f][k] ELSE End
             T == {k \in 0 .. NumClusters : ~ V(k)}
  <1> SUFFICES ASSUME T # {} PROVE FALSE
    OBVIOUS
  <1>1. NumClusters \in Nat /\ End \notin Cluster
    BY SizeAssumption DEF End, Cluster
  <1>2. PICK m \in T : \A i \in T : m <= i
    <2>1. T \in SUBSET Nat
      BY <1>1
    <2> HIDE DEF T
    <2> QED BY <2>1, Least
  <1>3. \A k \in 0 .. NumClusters : c[k] = LinkFrom(f, c, k)
    BY ChainIs
  <1>4. /\ m \in 0 .. NumClusters /\ ~ V(m) /\ m \in Nat
        /\ m # 0 => m - 1 \in 0 .. NumClusters /\ V(m - 1)
    BY <1>1, <1>2
  <1>5. /\ len[f] \in Nat \ {0} /\ ch[f] \in [Nat -> Cluster] /\ ch[f][0] = Start[f]
        /\ \A k \in 0 .. len[f] - 1 :
             /\ k + 1 < len[f] => ch[f][k] \in used /\ next[ch[f][k]] = ch[f][k + 1]
             /\ k + 1 = len[f] /\ ch[f][k] \in used => next[ch[f][k]] = End
    BY DEF Linked
  <1> HIDE DEF c, T
  <1>6. CASE m = 0
    BY <1>3, <1>4, <1>5, <1>6 DEF LinkFrom
  <1>7. CASE m # 0 /\ m - 1 < len[f]
    <2>1. c[m - 1] = ch[f][m - 1] /\ m - 1 \in 0 .. len[f] - 1 /\ m - 1 + 1 = m
      BY <1>4, <1>5, <1>7
    <2>2. c[m] = IF ch[f][m - 1] \in used THEN next[ch[f][m - 1]] ELSE End
      BY <1>3, <1>4, <1>7, <2>1 DEF LinkFrom
    <2>3. /\ m < len[f] => ch[f][m - 1] \in used /\ next[ch[f][m - 1]] = ch[f][m]
          /\ m = len[f] /\ ch[f][m - 1] \in used => next[ch[f][m - 1]] = End
      BY <1>5, <2>1
    <2>4. m < len[f] \/ m = len[f]
      BY <1>4, <1>5, <1>7
    <2>5. m = len[f] => ~ (m < len[f])
      BY <1>5
    <2> QED BY <1>4, <2>2, <2>3, <2>4, <2>5
  <1>8. CASE m # 0 /\ ~ (m - 1 < len[f])
    <2>1. c[m - 1] = End /\ ~ (m < len[f])
      BY <1>4, <1>5, <1>8
    <2>2. c[m] = End
      BY <1>1, <1>3, <1>4, <1>8, <2>1 DEF LinkFrom
    <2> QED BY <1>4, <2>1, <2>2
  <1> QED BY <1>6, <1>7, <1>8

(* A chain has no more clusters than there are. *)
LEMMA LenFits ==
  ASSUME NEW ch \in [Folder -> [Nat -> Cluster]], NEW len \in [Folder -> Nat \ {0}],
         Apart(ch, len), NEW f \in Folder
  PROVE  len[f] <= NumClusters
  <1> DEFINE n == len[f] - 1
             m == NumClusters - 1
             g == [k \in 0 .. n |-> ch[f][k]]
  <1>1. n \in Nat /\ m \in Nat /\ 0 \in Int /\ n \in Int /\ m \in Int
    BY SizeAssumption
  <1>2. g \in Injection(0 .. n, 0 .. m)
    <2>1. \A j, k \in 0 .. n : ch[f][j] = ch[f][k] => j = k
      BY DEF Apart
    <2>2. \A k \in 0 .. n : ch[f][k] \in 0 .. m
      BY DEF Cluster
    <2> HIDE DEF n, m
    <2> QED BY <2>1, <2>2 DEF Injection, IsInjective
  <1> HIDE DEF n, m, g
  <1>3. /\ IsFiniteSet(0 .. m) /\ Cardinality(0 .. m) = IF 0 > m THEN 0 ELSE m - 0 + 1
        /\ Cardinality(0 .. n) = IF 0 > n THEN 0 ELSE n - 0 + 1
    BY <1>1, FS_Interval, Zenon
  <1>4. Cardinality(0 .. n) <= Cardinality(0 .. m)
    BY <1>2, <1>3, FS_Injection
  <1>5. n <= m
    BY <1>1, <1>3, <1>4
  <1> QED BY <1>5, SizeAssumption DEF n, m

LEMMA AreApart ==
  ASSUME NEW ch \in [Folder -> [Nat -> Cluster]], NEW len \in [Folder -> Nat \ {0}],
         used \subseteq Cluster, Linked(ch, len), Apart(ch, len)
  PROVE  ChainsApart
  <1> DEFINE V(f, k) == IF k < len[f] THEN ch[f][k] ELSE End
  <1>1. /\ NumClusters \in Nat /\ End \notin Cluster
        /\ \A f \in Folder : len[f] \in Nat /\ len[f] <= NumClusters
        /\ \A f \in Folder : \A k \in Nat : ch[f][k] \in Cluster
    <2>1. NumClusters \in Nat /\ End \notin Cluster
      BY SizeAssumption DEF End, Cluster
    <2>2. \A f \in Folder : len[f] \in Nat /\ \A k \in Nat : ch[f][k] \in Cluster
      OBVIOUS
    <2>3. \A f \in Folder : len[f] <= NumClusters
      BY LenFits
    <2> QED BY <2>1, <2>2, <2>3
  <1>2. \A f \in Folder : \A k \in 0 .. NumClusters : Chain(f)[k] = V(f, k)
    BY ChainValues
  <1>3. ASSUME NEW f \in Folder PROVE Chain(f)[NumClusters] = End
    BY <1>1, <1>2
  <1>4. ASSUME NEW f \in Folder, NEW g \in Folder, NEW j \in 0 .. NumClusters, NEW k \in 0 .. NumClusters,
               Chain(f)[j] = Chain(g)[k], Chain(f)[j] # End
        PROVE  f = g /\ j = k
    <2>1. Chain(f)[j] = V(f, j) /\ Chain(g)[k] = V(g, k)
      BY <1>2
    <2>2. j < len[f] /\ k < len[g]
      BY <1>4, <2>1
    <2>3. j \in 0 .. len[f] - 1 /\ k \in 0 .. len[g] - 1
      BY <1>1, <2>2
    <2>4. ch[f][j] = ch[g][k]
      BY <1>4, <2>1, <2>2
    <2> QED BY <2>3, <2>4 DEF Apart
  <1>5. ASSUME NEW f \in Folder, NEW g \in Folder, f # g
        PROVE  ClustersOf(f) \cap ClustersOf(g) = {}
    BY <1>4, <1>5 DEF ClustersOf
  <1> QED BY <1>3, <1>4, <1>5 DEF ChainsApart

(***************************************************************************)
(* The steps.                                                              *)
(***************************************************************************)
Chains(ch, len) == ch \in [Folder -> [Nat -> Cluster]] /\ len \in [Folder -> Nat \ {0}]

LEMMA Halves ==
  ASSUME NEW r \in Nat
  PROVE  /\ r \div 2 \in Nat /\ r % 2 \in 0 .. 1 /\ r = 2 * (r \div 2) + (r % 2)
         /\ (r + 1) \div 2 = IF (r + 1) % 2 = 0 THEN r \div 2 + 1 ELSE r \div 2
         /\ (r + 1) % 2 = IF r % 2 = 0 THEN 1 ELSE 0
  <1>1. r \div 2 \in Nat /\ r % 2 \in 0 .. 1 /\ r = 2 * (r \div 2) + (r % 2)
    OBVIOUS
  <1>2. (r + 1) \div 2 = IF (r + 1) % 2 = 0 THEN r \div 2 + 1 ELSE r \div 2
    OBVIOUS
  <1>3. (r + 1) % 2 = IF r % 2 = 0 THEN 1 ELSE 0
    OBVIOUS
  <1> QED BY <1>1, <1>2, <1>3

LEMMA ValuesAre ==
  ASSUME NEW ch, NEW len, Chains(ch, len), TypeOK
  PROVE  /\ op.folder \in Folder /\ op.name \in Name /\ op.kind \in {"create", "delete"}
         /\ \A f \in Folder : /\ len[f] \in Nat /\ len[f] >= 1 /\ length[f] \in Nat
                             /\ Start[f] \in Cluster /\ \A k \in Nat : ch[f][k] \in Cluster
         /\ rec \in Nat /\ parent \in Nat /\ faults \in Nat /\ 0 \in Cluster
         /\ End \notin Cluster /\ Nowhere \notin Cluster /\ PagesPerCluster = 2
         /\ Here = <<at, rec % 2>>
  <1>1. /\ NumClusters \in Nat \ {0} /\ PagesPerCluster = 2 /\ MaxFaults \in Nat
        /\ \A f \in Folder : Start[f] \in Cluster
    BY SizeAssumption, StartAssumption
  <1>2. 0 \in Cluster /\ End \notin Cluster /\ Nowhere \notin Cluster
    BY <1>1 DEF Cluster, End, Nowhere
  <1>3. op.folder \in Folder /\ op.name \in Name /\ op.kind \in {"create", "delete"}
    BY DEF TypeOK
  <1>4. \A f \in Folder : /\ len[f] \in Nat /\ len[f] >= 1 /\ length[f] \in Nat
                         /\ \A k \in Nat : ch[f][k] \in Cluster
    BY DEF TypeOK, Chains
  <1>5. rec \in Nat /\ parent \in Nat /\ faults \in Nat
    BY <1>1 DEF TypeOK
  <1> QED BY <1>1, <1>2, <1>3, <1>4, <1>5 DEF Here

(* Every cluster of a chain is in use while no new one is half linked.     *)
LEMMA AllTaken ==
  ASSUME NEW ch, NEW len, CardInv(ch, len), pc # "terminate"
  PROVE  \A f \in Folder : \A k \in 0 .. len[f] - 1 : ch[f][k] \in used
  BY DEF CardInv, Taken

LEMMA CallStep ==
  ASSUME NEW ch, NEW len, Chains(ch, len), CardInv(ch, len), TypeOK', ~ Lost',
         NEW f \in Folder, NEW n \in Name, CreateAlias(f, n) \/ DeleteAlias(f, n)
  PROVE  CardInv(ch, len)'
  <1>1. pc = "idle" /\ TypeOK
    BY DEF CardInv, CreateAlias, DeleteAlias
  <1>2. UNCHANGED <<dirVars, fresh, wild>> /\ pc' \in {"scan", "idle"}
    BY DEF CreateAlias, DeleteAlias, Goto, Return
  <1>3. Linked(ch, len)' /\ Lengths(len)'
    BY <1>2 DEF CardInv, Linked, Lengths, dirVars
  <1>4. Taken(ch, len)'
    BY <1>1, <1>2, AllTaken DEF CardInv, Taken, dirVars
  <1>5. /\ op'.folder = f /\ rec' = 0 /\ at' = ch[f][0]
        /\ pc' = "scan" /\ op'.kind = "create" => parent' = length[f]
    BY DEF CreateAlias, DeleteAlias, StartScan, CardInv, Linked, Goto, Return
  <1>6. 0 \div 2 = 0 /\ 0 < len[f] /\ 0 <= length'[f]
    BY <1>1, <1>2, ValuesAre DEF dirVars
  <1>7. Places(ch, len)'
    BY <1>1, <1>2, <1>5, <1>6 DEF Places, dirVars
  <1> QED BY <1>3, <1>4, <1>7 DEF CardInv, Apart

(* A folder that has its chain never leads to the FAT. *)
LEMMA ScanHere ==
  ASSUME NEW ch, NEW len, Chains(ch, len), CardInv(ch, len), Scan
  PROVE  /\ pc = "scan" /\ UNCHANGED <<dirVars, op, parent, fresh, wild, faults>>
         /\ \/ /\ Wanted(page[Here])
               /\ pc' = "write" /\ UNCHANGED <<rec, at, result>>
            \/ /\ ~ Wanted(page[Here]) /\ ~ PastEnd /\ ~ (LastOfCluster /\ IsEnd(at))
               /\ pc' = "scan" /\ rec' = rec + 1 /\ UNCHANGED result
               /\ at' = IF LastOfCluster THEN LinkOf(at) ELSE at
            \/ /\ ~ Wanted(page[Here]) /\ (PastEnd \/ (LastOfCluster /\ IsEnd(at)))
               /\ ScanFails /\ UNCHANGED <<rec, at>>
  <1>1. at # Nowhere
    <2>1. TypeOK /\ pc = "scan" /\ rec \in Nat /\ op.folder \in Folder
      BY ValuesAre DEF CardInv, Scan
    <2>2. at = ch[op.folder][rec \div 2] /\ rec \div 2 \in Nat
      BY <2>1, Halves DEF CardInv, Places
    <2> QED BY <2>1, <2>2, ValuesAre
  <1>2. Seen = {page[Here]} /\ (ChainStops <=> LastOfCluster /\ IsEnd(at))
    BY <1>1 DEF Seen, ChainStops
  <1>3. CASE Found
    BY <1>2, <1>3 DEF Scan, Found, Goto
  <1>4. CASE NotFound
    BY <1>2, <1>4 DEF Scan, NotFound, CanGoOn, Goto
  <1> QED BY <1>3, <1>4 DEF Scan

LEMMA ScanStep ==
  ASSUME NEW ch, NEW len, Chains(ch, len), CardInv(ch, len), TypeOK', ~ Lost', Scan \/ ScanFault
  PROVE  CardInv(ch, len)'
  <1> DEFINE f == op.folder
             k == rec \div 2
  <1>0. \/ /\ Wanted(page[Here])
           /\ pc' = "write" /\ UNCHANGED <<rec, at>>
        \/ /\ ~ PastEnd /\ ~ (LastOfCluster /\ IsEnd(at))
           /\ pc' = "scan" /\ rec' = rec + 1
           /\ at' = IF LastOfCluster THEN LinkOf(at) ELSE at
        \/ ScanFails /\ UNCHANGED <<rec, at>>
    BY ScanHere DEF ScanFault
  <1>1. pc = "scan" /\ TypeOK
    BY DEF CardInv, Scan, ScanFault
  <1>2. UNCHANGED <<dirVars, op, parent, fresh, wild>> /\ pc' \in {"scan", "write", "alloc", "idle"}
    BY <1>0, ScanHere DEF ScanFault, ScanFails, Goto, Return
  <1>3. Linked(ch, len)' /\ Lengths(len)'
    BY <1>2 DEF CardInv, Linked, Lengths, dirVars
  <1>4. Taken(ch, len)'
    BY <1>1, <1>2, AllTaken DEF CardInv, Taken, dirVars
  <1>5. /\ at = ch[f][k] /\ k < len[f] /\ rec <= length[f] /\ k \in 0 .. len[f] - 1
        /\ op.kind = "create" => parent = length[f]
    <2>1. k \in Nat /\ len[f] \in Nat
      BY <1>1, ValuesAre, Halves
    <2> QED BY <1>1, <2>1 DEF CardInv, Places
  <1>6. /\ rec \in Nat /\ PagesPerCluster = 2 /\ f \in Folder /\ len[f] \in Nat /\ length[f] \in Nat
        /\ op.kind \in {"create", "delete"}
    BY <1>1, ValuesAre
  <1>7. pc' = "alloc" => op.kind = "create"
    BY <1>0 DEF ScanFails, Goto, Return
  <1>8. CASE pc' = "alloc" \/ pc' = "idle"
    <2>1. Places(ch, len)'
      BY <1>1, <1>2, <1>5, <1>7, <1>8 DEF Places, dirVars
    <2> QED BY <1>3, <1>4, <2>1 DEF CardInv, Apart
  <1>9. CASE pc' = "write"
    <2>1. rec' = rec /\ at' = at /\ Wanted(page[Here])
      BY <1>0, <1>9 DEF ScanFails, Goto, Return
    <2>2. \/ op.kind = "delete" /\ rec < length[f] /\ page[Here] = op.name
          \/ op.kind = "create" /\ rec < length[f] /\ page[Here] = Gone
          \/ op.kind = "create" /\ rec = length[f] /\ rec % 2 # 0
      BY <1>5, <1>6, <2>1 DEF Wanted, Reusable, Unused, PastEnd
    <2>3. Here' = Here /\ page' = page /\ length' = length
      BY <1>2, <2>1 DEF Here, dirVars
    <2>4. Places(ch, len)'
      BY <1>1, <1>2, <1>5, <1>9, <2>1, <2>2, <2>3 DEF Places
    <2> QED BY <1>3, <1>4, <2>4 DEF CardInv, Apart
  <1>10. CASE pc' = "scan"
    <2>1. /\ rec' = rec + 1 /\ ~ PastEnd /\ ~ (LastOfCluster /\ IsEnd(at))
          /\ at' = IF LastOfCluster THEN LinkOf(at) ELSE at
      BY <1>0, <1>10 DEF ScanFails, Goto, Return
    <2>2. rec + 1 <= length[f]
      BY <1>5, <1>6, <2>1 DEF PastEnd
    <2>3. at' = ch[f][(rec + 1) \div 2] /\ (rec + 1) \div 2 < len[f]
      <3>1. CASE (rec + 1) % 2 = 0
        <4>1. ~ IsEnd(at) /\ at' = LinkOf(at)
          BY <1>6, <2>1, <3>1 DEF LastOfCluster
        <4>2. at \in used /\ at \in Cluster
          BY <1>1, <1>5, <1>6, AllTaken DEF TypeOK
        <4>3. next[at] # End /\ at' = next[at]
          BY <4>1, <4>2 DEF IsEnd, LinkOf
        <4>4. /\ k + 1 < len[f] => next[at] = ch[f][k + 1]
              /\ k + 1 = len[f] => next[at] = End
          BY <1>5, <1>6, <4>2 DEF CardInv, Linked
        <4>5. k + 1 < len[f]
          BY <1>5, <1>6, <4>3, <4>4
        <4> QED BY <1>6, <3>1, <4>3, <4>4, <4>5, Halves
      <3>2. CASE (rec + 1) % 2 # 0
        <4>1. at' = at
          BY <1>6, <2>1, <3>2 DEF LastOfCluster
        <4> QED BY <1>5, <1>6, <3>2, <4>1, Halves
      <3> QED BY <3>1, <3>2
    <2>4. Places(ch, len)'
      BY <1>1, <1>2, <1>5, <1>10, <2>1, <2>2, <2>3 DEF Places, dirVars
    <2> QED BY <1>3, <1>4, <2>4 DEF CardInv, Apart
  <1> QED BY <1>2, <1>8, <1>9, <1>10

LEMMA PutHere ==
  ASSUME NEW ch, NEW len, Chains(ch, len), CardInv(ch, len), pc = "write"
  PROVE  /\ at \in Cluster
         /\ Put(NewEntry) => UNCHANGED <<used, next>> /\ page' = [page EXCEPT ![Here] = NewEntry]
  <1>1. TypeOK /\ rec \in Nat /\ op.folder \in Folder
    BY ValuesAre DEF CardInv
  <1>2. at = ch[op.folder][rec \div 2] /\ rec \div 2 \in Nat
    BY <1>1, Halves DEF CardInv, Places
  <1>3. at \in Cluster /\ at # Nowhere
    BY <1>1, <1>2, ValuesAre
  <1> QED BY <1>3 DEF Put, SetEntry

(* Steps that write to a page or to the length of a folder, or fail to.    *)
LEMMA WriteStep ==
  ASSUME NEW ch, NEW len, Chains(ch, len), CardInv(ch, len), TypeOK', ~ Lost', WriteEntry \/ WriteFault \/ Check
  PROVE  CardInv(ch, len)'
  <1> DEFINE f == op.folder
  <1>1. TypeOK /\ pc \in {"write", "check"}
    BY DEF CardInv, WriteEntry, WriteFault, Check
  <1>2. /\ UNCHANGED <<used, next, length, op, parent, fresh, wild>>
        /\ pc' \in {"check", "grow", "idle", "alloc"}
    <2>1. CASE WriteEntry
      BY <2>1, PutHere DEF WriteEntry, Goto, Return
    <2>2. CASE WriteFault
      BY <2>2, PutHere DEF WriteFault, ScanFails, Goto, Return
    <2>3. CASE Check
      BY <2>3 DEF Check, Return, dirVars
    <2> QED BY <2>1, <2>2, <2>3
  <1>3. Linked(ch, len)' /\ Lengths(len)'
    BY <1>2 DEF CardInv, Linked, Lengths
  <1>4. Taken(ch, len)'
    BY <1>1, <1>2, AllTaken DEF CardInv, Taken
  <1>5. /\ op.kind \in {"create", "delete"} /\ rec \in Nat /\ len[f] \in Nat /\ length[f] \in Nat
        /\ PagesPerCluster = 2
    BY <1>1, ValuesAre
  <1>6. /\ pc' \in {"grow", "alloc"} => op.kind = "create" /\ parent = length[f]
        /\ pc' = "check" => op.kind = "delete"
    BY <1>1, <1>5 DEF WriteEntry, WriteFault, Check, ScanFails, Goto, Return, CardInv, Places
  <1>7. pc' = "grow" => length[f] + 1 <= 2 * len[f]
    <2> SUFFICES ASSUME pc' = "grow" PROVE length[f] + 1 <= 2 * len[f]
      OBVIOUS
    <2>1. Unused /\ pc = "write"
      BY DEF WriteEntry, WriteFault, Check, ScanFails, Goto, Return, GrowsNext
    <2>2. rec >= length[f] /\ rec % 2 # 0 /\ rec \div 2 < len[f] /\ rec <= length[f]
      BY <1>5, <2>1 DEF Unused, PastEnd, CardInv, Places
    <2>3. rec = length[f] /\ rec = 2 * (rec \div 2) + (rec % 2) /\ rec % 2 \in 0 .. 1 /\ rec \div 2 \in Nat
      BY <1>5, <2>2, Halves
    <2> QED BY <1>5, <2>2, <2>3
  <1>8. Places(ch, len)'
    BY <1>1, <1>2, <1>6, <1>7 DEF Places
  <1> QED BY <1>3, <1>4, <1>8 DEF CardInv, Apart

LEMMA SearchStep ==
  ASSUME NEW ch, NEW len, Chains(ch, len), CardInv(ch, len), TypeOK', ~ Lost', Allocate \/ Walk
  PROVE  CardInv(ch, len)'
  <1> DEFINE f == op.folder
  <1>1. TypeOK /\ pc \in {"alloc", "walk"} /\ faults' = faults
    BY DEF CardInv, Allocate, Walk
  <1>2. UNCHANGED <<dirVars, op, parent, rec, wild>> /\ pc' \in {"walk", "link"}
    BY DEF Allocate, Walk, Goto, Lost
  <1>3. Linked(ch, len)' /\ Lengths(len)'
    BY <1>2 DEF CardInv, Linked, Lengths, dirVars
  <1>4. Taken(ch, len)'
    BY <1>1, <1>2, AllTaken DEF CardInv, Taken, dirVars
  <1>5. /\ op.kind = "create" /\ parent = length[f] /\ len[f] \in Nat /\ len[f] >= 1
        /\ f \in Folder
    BY <1>1, ValuesAre DEF CardInv, Places
  <1>6. CASE Allocate
    <2>1. pc' = "walk" => fresh' \notin used
      BY <1>6 DEF Allocate, Goto, FreeClusters
    <2>2. pc' = "walk" /\ at' = ch[f][0] /\ 0 \in 0 .. len[f] - 1
      BY <1>5, <1>6 DEF Allocate, Goto, CardInv, Linked, Lost
    <2>3. Places(ch, len)'
      BY <1>1, <1>2, <1>5, <2>1, <2>2 DEF Places, dirVars
    <2> QED BY <1>3, <1>4, <2>3 DEF CardInv, Apart
  <1>7. CASE Walk
    <2>1. PICK k \in 0 .. len[f] - 1 : at = ch[f][k]
      BY <1>7 DEF Walk, CardInv, Places
    <2>2. at \in used /\ at \in Cluster /\ fresh \notin used /\ fresh' = fresh
      BY <1>1, <1>5, <1>7, <2>1, AllTaken DEF TypeOK, Walk, CardInv, Places
    <2>3. /\ k + 1 < len[f] => next[at] = ch[f][k + 1]
          /\ k + 1 = len[f] => next[at] = End
      BY <1>5, <2>1, <2>2 DEF CardInv, Linked
    <2>4. at # Nowhere
      BY <1>1, <2>2, ValuesAre
    <2>5. CASE pc' = "link"
      <3>1. next[at] = End /\ at' = at
        BY <1>7, <2>4, <2>5 DEF Walk, IsEnd, Goto
      <3>2. k = len[f] - 1
        <4>1. k + 1 \in 0 .. len[f] - 1 => ch[f][k + 1] \in Cluster
          BY <1>1, <1>5, ValuesAre
        <4>2. k + 1 < len[f] \/ k + 1 = len[f]
          BY <1>5, <2>1
        <4> QED BY <1>1, <1>5, <2>1, <2>3, <3>1, <4>1, <4>2, ValuesAre
      <3>3. Places(ch, len)'
        BY <1>1, <1>2, <1>5, <2>1, <2>2, <2>5, <3>1, <3>2 DEF Places, dirVars
      <3> QED BY <1>3, <1>4, <3>3 DEF CardInv, Apart
    <2>6. CASE pc' # "link"
      <3>1. pc' = "walk" /\ at' = LinkOf(at) /\ next[at] # End
        BY <1>7, <2>2, <2>4, <2>6 DEF Walk, IsEnd, Goto
      <3>2. at' = ch[f][k + 1] /\ k + 1 \in 0 .. len[f] - 1
        <4>1. k + 1 < len[f] \/ k + 1 = len[f]
          BY <1>5, <2>1
        <4> QED BY <1>5, <2>1, <2>2, <2>3, <3>1, <4>1 DEF LinkOf
      <3>3. Places(ch, len)'
        BY <1>1, <1>2, <1>5, <2>2, <3>1, <3>2 DEF Places, dirVars
      <3> QED BY <1>3, <1>4, <3>3 DEF CardInv, Apart
    <2> QED BY <2>5, <2>6
  <1> QED BY <1>6, <1>7

(* A chain gets longer: the new cluster goes to its end.                   *)
Extends(ch, len, h, m) ==
  \A f \in Folder : len[f] <= m[f] /\ \A k \in 0 .. len[f] - 1 : h[f][k] = ch[f][k]

LEMMA Longer ==
  ASSUME NEW ch, NEW len, Chains(ch, len), CardInv(ch, len), pc = "link",
         SetLink(at, fresh), fresh' = fresh, length' = length,
         pc' = "terminate"
  PROVE  \E h, m : /\ Chains(h, m) /\ Extends(ch, len, h, m)
                   /\ Linked(h, m)' /\ Apart(h, m)' /\ Taken(h, m)' /\ Lengths(m)'
                   /\ h[op.folder][m[op.folder] - 1] = fresh
                   /\ m = [len EXCEPT ![op.folder] = @ + 1]
  <1> DEFINE f == op.folder
             n == len[f]
  <1>1. TypeOK
    BY DEF CardInv
  <1>2. /\ f \in Folder /\ n \in Nat /\ n >= 1 /\ fresh \in Cluster /\ fresh \notin used
        /\ at = ch[f][n - 1] /\ n - 1 \in 0 .. n - 1 /\ at \in Cluster
    BY <1>1, ValuesAre DEF TypeOK, CardInv, Places
  <1>3. \A g \in Folder : \A k \in 0 .. len[g] - 1 : ch[g][k] \in used
    BY <1>1, AllTaken
  <1>4. PICK h, m : /\ h = [ch EXCEPT ![f] = [@ EXCEPT ![n] = fresh]]
                    /\ m = [len EXCEPT ![f] = n + 1]
    OBVIOUS
  <1>5. /\ \A g \in Folder : m[g] = IF g = f THEN n + 1 ELSE len[g]
        /\ \A g \in Folder : \A k \in Nat : h[g][k] = IF g = f /\ k = n THEN fresh ELSE ch[g][k]
        /\ \A g \in Folder : len[g] \in Nat /\ len[g] >= 1
    BY <1>1, <1>2, <1>4, ValuesAre DEF Chains
  <1>6. Chains(h, m)
    <2>1. m \in [Folder -> Nat \ {0}]
      BY <1>2, <1>4 DEF Chains
    <2>2. [ch[f] EXCEPT ![n] = fresh] \in [Nat -> Cluster]
      BY <1>2 DEF Chains
    <2> QED BY <1>2, <1>4, <2>1, <2>2 DEF Chains
  <1>7. Extends(ch, len, h, m)
    BY <1>2, <1>5 DEF Extends
  <1>8. /\ next' = [next EXCEPT ![at] = fresh] /\ used' = used \cup {at} /\ at \in used
        /\ next \in [Cluster -> Cluster \cup {End}] /\ at # fresh /\ used' = used
    <2>1. at \in used
      BY <1>2, <1>3
    <2> QED BY <1>1, <1>2, <2>1 DEF SetLink, TypeOK
  <1>9. Linked(h, m)'
    <2> SUFFICES ASSUME NEW g \in Folder
                 PROVE  /\ h[g][0] = Start[g]
                        /\ \A k \in 0 .. m[g] - 1 :
                             /\ k + 1 < m[g] => h[g][k] \in used' /\ next'[h[g][k]] = h[g][k + 1]
                             /\ k + 1 = m[g] /\ h[g][k] \in used' => next'[h[g][k]] = End
      BY DEF Linked
    <2>1. h[g][0] = Start[g]
      BY <1>2, <1>5 DEF CardInv, Linked
    <2>2. ASSUME NEW k \in 0 .. len[g] - 1
          PROVE  /\ k + 1 < len[g] => ch[g][k] \in used /\ next[ch[g][k]] = ch[g][k + 1]
                 /\ k + 1 = len[g] /\ ch[g][k] \in used => next[ch[g][k]] = End
      BY DEF CardInv, Linked
    <2>3. ASSUME NEW k \in 0 .. m[g] - 1
          PROVE  /\ k + 1 < m[g] => h[g][k] \in used' /\ next'[h[g][k]] = h[g][k + 1]
                 /\ k + 1 = m[g] /\ h[g][k] \in used' => next'[h[g][k]] = End
      <3>1. CASE g = f /\ k = n
        <4>1. h[g][k] = fresh /\ ~ (k + 1 < m[g])
          BY <1>2, <1>5, <3>1
        <4> QED BY <1>2, <1>8, <4>1
      <3>2. CASE g = f /\ k = n - 1
        <4>1. h[g][k] = at /\ k + 1 # m[g] /\ h[g][k + 1] = fresh
          BY <1>2, <1>5, <3>2
        <4> QED BY <1>2, <1>8, <4>1
      <3>3. CASE ~ (g = f /\ k \in {n - 1, n})
        <4>1. k \in 0 .. len[g] - 1 /\ h[g][k] = ch[g][k]
          BY <1>2, <1>5, <3>3
        <4>2. ch[g][k] # at /\ ch[g][k] \in Cluster
          BY <1>1, <1>2, <3>3, <4>1, ValuesAre DEF CardInv, Apart
        <4>3. (k + 1 = m[g] <=> k + 1 = len[g]) /\ (k + 1 < m[g] <=> k + 1 < len[g])
          BY <1>2, <1>5, <3>3, <4>1
        <4>4. k + 1 # m[g] => h[g][k + 1] = ch[g][k + 1]
          BY <1>2, <1>5, <3>3, <4>1
        <4>5. next'[ch[g][k]] = next[ch[g][k]]
          BY <1>8, <4>2
        <4>6. k + 1 < m[g] => k + 1 # m[g]
          BY <1>2, <1>5
        <4> QED BY <1>8, <2>2, <4>1, <4>3, <4>4, <4>5, <4>6
      <3> QED BY <3>1, <3>2, <3>3
    <2> QED BY <2>1, <2>3
  <1>10. Apart(h, m)'
    <2> SUFFICES ASSUME NEW g \in Folder, NEW e \in Folder, NEW j \in 0 .. m[g] - 1,
                        NEW k \in 0 .. m[e] - 1, h[g][j] = h[e][k]
                 PROVE  g = e /\ j = k
      BY DEF Apart
    <2>1. \/ g = f /\ j = n /\ h[g][j] = fresh
          \/ j \in 0 .. len[g] - 1 /\ h[g][j] = ch[g][j]
      BY <1>2, <1>5
    <2>2. \/ e = f /\ k = n /\ h[e][k] = fresh
          \/ k \in 0 .. len[e] - 1 /\ h[e][k] = ch[e][k]
      BY <1>2, <1>5
    <2> QED BY <1>2, <1>3, <2>1, <2>2 DEF CardInv, Apart
  <1>11. Taken(h, m)'
    <2> SUFFICES ASSUME NEW g \in Folder, NEW k \in 0 .. m[g] - 1
                 PROVE  h[g][k] \in used' \/ h[g][k] = fresh
      BY DEF Taken
    <2>1. \/ h[g][k] = fresh
          \/ k \in 0 .. len[g] - 1 /\ h[g][k] = ch[g][k]
      BY <1>2, <1>5
    <2> QED BY <1>3, <1>8, <2>1
  <1>12. Lengths(m)'
    <2> SUFFICES ASSUME NEW g \in Folder PROVE 2 <= length[g] /\ length[g] <= 2 * m[g]
      BY DEF Lengths
    <2>1. 2 <= length[g] /\ length[g] <= 2 * len[g] /\ length[g] \in Nat
      BY <1>1, ValuesAre DEF CardInv, Lengths
    <2> QED BY <1>2, <1>5, <2>1
  <1>13. h[f][m[f] - 1] = fresh /\ m = [len EXCEPT ![f] = @ + 1]
    BY <1>2, <1>4, <1>5 DEF Chains
  <1> QED BY <1>6, <1>7, <1>9, <1>10, <1>11, <1>12, <1>13

LEMMA LinkStep ==
  ASSUME NEW ch, NEW len, Chains(ch, len), CardInv(ch, len), TypeOK', ~ Lost', Link
  PROVE  \E h, m : Chains(h, m) /\ Extends(ch, len, h, m) /\ CardInv(h, m)'
                   /\ h[op.folder][m[op.folder] - 1] = fresh
                   /\ m = [len EXCEPT ![op.folder] = @ + 1]
  <1> DEFINE f == op.folder
  <1>1. /\ pc = "link" /\ pc' = "terminate" /\ SetLink(at, fresh)
        /\ UNCHANGED <<page, length, op, parent, rec, at, fresh, wild, faults>>
    BY DEF Link, Goto
  <1>2. PICK h, m : /\ Chains(h, m) /\ Extends(ch, len, h, m)
                    /\ Linked(h, m)' /\ Apart(h, m)' /\ Taken(h, m)' /\ Lengths(m)'
                    /\ h[f][m[f] - 1] = fresh /\ m = [len EXCEPT ![f] = @ + 1]
    BY <1>1, Longer
  <1>3. TypeOK /\ op.kind = "create" /\ parent = length[f]
    BY <1>1 DEF CardInv, Places
  <1>4. f \in Folder /\ len[f] \in Nat /\ length[f] \in Nat /\ length[f] <= 2 * len[f]
    BY <1>3, ValuesAre DEF CardInv, Lengths
  <1>5. length[f] <= 2 * (m[f] - 1)
    <2>1. m[f] = len[f] + 1
      BY <1>2, <1>4 DEF Chains
    <2> QED BY <1>4, <2>1
  <1>6. Places(h, m)'
    BY <1>1, <1>2, <1>3, <1>5 DEF Places
  <1> QED BY <1>2, <1>6 DEF CardInv

(* The record of the new cluster: it is the last of its chain.             *)
LEMMA TerminateStep ==
  ASSUME NEW ch, NEW len, Chains(ch, len), CardInv(ch, len), TypeOK', ~ Lost', Terminate
  PROVE  CardInv(ch, len)'
  <1> DEFINE f == op.folder
  <1>1. /\ pc = "terminate" /\ pc' = "entry"
        /\ used' = used \cup {fresh} /\ next' = [next EXCEPT ![fresh] = End]
        /\ UNCHANGED <<page, length, op, parent, rec, at, fresh, wild, faults>>
    BY DEF Terminate, Goto, SetLink
  <1>2. /\ TypeOK /\ f \in Folder /\ len[f] \in Nat /\ len[f] >= 1
        /\ \A g \in Folder : len[g] \in Nat /\ \A k \in Nat : ch[g][k] \in Cluster
    BY ValuesAre DEF CardInv
  <1>3. fresh = ch[f][len[f] - 1] /\ len[f] - 1 \in 0 .. len[f] - 1
    BY <1>1, <1>2 DEF CardInv, Places
  <1>4. Linked(ch, len)'
    <2> SUFFICES ASSUME NEW g \in Folder, NEW k \in 0 .. len[g] - 1
                 PROVE  /\ k + 1 < len[g] => ch[g][k] \in used' /\ next'[ch[g][k]] = ch[g][k + 1]
                        /\ k + 1 = len[g] /\ ch[g][k] \in used' => next'[ch[g][k]] = End
      BY DEF CardInv, Linked
    <2>1. /\ k + 1 < len[g] => ch[g][k] \in used /\ next[ch[g][k]] = ch[g][k + 1]
          /\ k + 1 = len[g] /\ ch[g][k] \in used => next[ch[g][k]] = End
      BY DEF CardInv, Linked
    <2>2. ch[g][k] \in Cluster /\ next \in [Cluster -> Cluster \cup {End}]
      BY <1>2 DEF TypeOK
    <2>3. CASE ch[g][k] = fresh
      <3>1. g = f /\ k = len[f] - 1
        BY <1>2, <1>3, <2>3 DEF CardInv, Apart
      <3> QED BY <1>1, <1>2, <2>2, <2>3, <3>1
    <2>4. CASE ch[g][k] # fresh
      BY <1>1, <2>1, <2>2, <2>4
    <2> QED BY <2>3, <2>4
  <1>5. Taken(ch, len)' /\ Lengths(len)'
    BY <1>1 DEF CardInv, Taken, Lengths
  <1>6. Places(ch, len)'
    BY <1>1 DEF CardInv, Places
  <1> QED BY <1>4, <1>5, <1>6 DEF CardInv, Apart

LEMMA EntryStep ==
  ASSUME NEW ch, NEW len, Chains(ch, len), CardInv(ch, len), TypeOK', ~ Lost', FirstEntry \/ FirstEntryFault
  PROVE  CardInv(ch, len)'
  <1> DEFINE f == op.folder
  <1>1. /\ pc = "entry" /\ pc' \in {"grow", "idle"}
        /\ UNCHANGED <<used, next, length, op, parent, rec, at, fresh, wild>>
    BY DEF FirstEntry, FirstEntryFault, Goto, Return
  <1>2. TypeOK /\ op.kind = "create" /\ parent = length[f]
        /\ length[f] <= 2 * (len[f] - 1)
    BY <1>1 DEF CardInv, Places
  <1>3. length[f] + 1 <= 2 * len[f]
    BY <1>2, ValuesAre
  <1>4. Linked(ch, len)' /\ Lengths(len)'
    BY <1>1 DEF CardInv, Linked, Lengths
  <1>5. Taken(ch, len)'
    BY <1>1, <1>2, AllTaken DEF CardInv, Taken
  <1>6. Places(ch, len)'
    BY <1>1, <1>2, <1>3 DEF Places
  <1> QED BY <1>4, <1>5, <1>6 DEF CardInv, Apart

LEMMA GrowStep ==
  ASSUME NEW ch, NEW len, Chains(ch, len), CardInv(ch, len), TypeOK', ~ Lost', Grow \/ GrowFault
  PROVE  CardInv(ch, len)'
  <1> DEFINE f == op.folder
  <1>1. /\ pc = "grow" /\ pc' = "idle"
        /\ UNCHANGED <<used, next, page, op, parent, rec, at, fresh, wild>>
        /\ length' = [length EXCEPT ![f] = parent + 1] \/ length' = length
    BY DEF Grow, GrowFault, Return
  <1>2. TypeOK /\ parent = length[f] /\ length[f] + 1 <= 2 * len[f]
    BY <1>1 DEF CardInv, Places
  <1>3. Linked(ch, len)'
    BY <1>1 DEF CardInv, Linked
  <1>4. Taken(ch, len)'
    BY <1>1, <1>2, AllTaken DEF CardInv, Taken
  <1>5. Lengths(len)'
    <2> SUFFICES ASSUME NEW g \in Folder PROVE 2 <= length'[g] /\ length'[g] <= 2 * len[g]
      BY DEF Lengths
    <2>1. 2 <= length[g] /\ length[g] <= 2 * len[g] /\ length[g] \in Nat
      BY <1>2, ValuesAre DEF CardInv, Lengths
    <2>2. length'[g] = length[g] \/ (g = f /\ length'[g] = length[f] + 1)
      BY <1>1, <1>2 DEF TypeOK
    <2> QED BY <1>2, <2>1, <2>2
  <1>6. Places(ch, len)'
    BY <1>1, <1>2 DEF Places
  <1> QED BY <1>3, <1>4, <1>5, <1>6 DEF CardInv, Apart

(***************************************************************************)
(* Types.                                                                  *)
(***************************************************************************)
LEMMA InitTypes == Init => TypeOK
  <1> SUFFICES ASSUME Init PROVE TypeOK
    OBVIOUS
  <1>1. NumClusters \in Nat \ {0} /\ PagesPerCluster = 2 /\ MaxFaults \in Nat
        /\ \A f \in Folder : Start[f] \in Cluster
    BY SizeAssumption, StartAssumption
  <1>2. used \subseteq Cluster /\ 0 \in Cluster
    BY <1>1 DEF Init, Cluster
  <1>3. next \in [Cluster -> Cluster \cup {End}] /\ length \in [Folder -> Nat]
    BY FatAssumption DEF Init, End
  <1>4. page \in [Page -> Entry]
    <2>1. PICK old \in Name \cup {Gone} :
            page = [p \in Page |-> IF p[1] \in used /\ p[2] < 2 THEN Dot ELSE old]
      BY DEF Init
    <2> QED BY <2>1 DEF Entry
  <1>5. op \in [kind : {"create", "delete"}, folder : Folder, name : Name]
    BY DEF Init
  <1>6. /\ pc \in Pc /\ parent \in Nat /\ rec \in Nat /\ at \in Cluster \cup {Nowhere}
        /\ fresh \in Cluster /\ result \in {"ok", "error"} /\ wild \in BOOLEAN
    BY <1>2 DEF Init, Pc
  <1>7. faults \in 0 .. MaxFaults
    BY <1>1 DEF Init
  <1> QED BY <1>2, <1>3, <1>4, <1>5, <1>6, <1>7 DEF TypeOK

(* Types hold of a damaged card too. *)
TypeInv == TypeOK /\ (pc = "link" => at \in Cluster)

LEMMA FatTypes ==
  ASSUME TypeInv, OverwriteFat
  PROVE  used' \subseteq Cluster /\ next' \in [Cluster -> Cluster \cup {End}]
  <1>1. PICK lost \in FatPages : \E u \in SUBSET lost, l \in [lost -> Stale] :
          /\ used' = (used \ lost) \cup u
          /\ next' = [c \in Cluster |-> IF c \in lost THEN l[c] ELSE next[c]]
    BY DEF OverwriteFat
  <1>2. PICK u \in SUBSET lost, l \in [lost -> Stale] :
          /\ used' = (used \ lost) \cup u
          /\ next' = [c \in Cluster |-> IF c \in lost THEN l[c] ELSE next[c]]
    BY <1>1
  <1>3. lost \subseteq Cluster /\ Stale \subseteq Cluster \cup {End}
    BY FatAssumption DEF End
  <1>4. used' \subseteq Cluster
    BY <1>2, <1>3 DEF TypeInv, TypeOK
  <1>5. next' \in [Cluster -> Cluster \cup {End}]
    BY <1>2, <1>3 DEF TypeInv, TypeOK
  <1> QED BY <1>4, <1>5

LEMMA TypeStep ==
  ASSUME TypeInv, [Next]_vars
  PROVE  TypeInv'
  <1>1. TypeOK
    BY DEF TypeInv
  <1>2. /\ op.folder \in Folder /\ op.name \in Name /\ MaxFaults \in Nat /\ faults \in Nat
        /\ \A f \in Folder : Start[f] \in Cluster
        /\ fresh \in Cluster /\ at \in Cluster \cup {Nowhere} /\ rec \in Nat /\ parent \in Nat
        /\ \A f \in Folder : length[f] \in Nat
    <2>1. op.folder \in Folder /\ op.name \in Name /\ \A f \in Folder : length[f] \in Nat
      BY <1>1 DEF TypeOK
    <2>2. MaxFaults \in Nat /\ \A f \in Folder : Start[f] \in Cluster
      BY SizeAssumption, StartAssumption
    <2> QED BY <1>1, <2>1, <2>2 DEF TypeOK
  <1>3. /\ \A e \in Entry : \A p : [page EXCEPT ![p] = e] \in [Page -> Entry]
        /\ op.name \in Entry /\ NewEntry \in Entry
    BY <1>1, <1>2 DEF TypeOK, Entry, NewEntry
  <1>4. \A c : LinkOf(c) \in Cluster \cup {Nowhere}
    BY <1>1 DEF TypeOK, LinkOf
  <1>5. [length EXCEPT ![op.folder] = parent + 1] \in [Folder -> Nat]
    BY <1>1 DEF TypeOK
  <1>6. ASSUME NEW c \in Cluster, NEW d \in Cluster \cup {End}, SetLink(c, d)
        PROVE  used' \subseteq Cluster /\ next' \in [Cluster -> Cluster \cup {End}]
    BY <1>1, <1>6 DEF SetLink, TypeOK
  <1>7. Fault => faults' \in 0 .. MaxFaults
    BY <1>1, <1>2 DEF Fault, TypeOK
  <1>8. ASSUME NEW f \in Folder, NEW n \in Name, CreateAlias(f, n) \/ DeleteAlias(f, n) PROVE TypeInv'
    <2>1. op' \in [kind : {"create", "delete"}, folder : Folder, name : Name] /\ at' \in Cluster /\ rec' = 0
      BY <1>2, <1>8 DEF CreateAlias, DeleteAlias, StartScan
    <2>2. /\ pc' \in Pc /\ parent' \in Nat /\ result' \in {"ok", "error"} /\ faults' \in 0 .. MaxFaults
          /\ UNCHANGED <<dirVars, fresh, wild>>
      BY <1>1, <1>2, <1>7, <1>8 DEF CreateAlias, DeleteAlias, Goto, Return, NoFault, Pc, TypeOK
    <2> QED BY <1>1, <2>1, <2>2 DEF TypeInv, TypeOK, dirVars
  <1>9. CASE Scan \/ ScanFault
    <2>1. UNCHANGED <<dirVars, op, parent, fresh, wild>>
      BY <1>9 DEF Scan, ScanFault
    <2>2. pc' \in Pc \ {"link"} /\ result' \in {"ok", "error"} /\ faults' \in 0 .. MaxFaults
      <3>1. CASE Scan
        BY <1>1, <3>1 DEF Scan, Found, NotFound, ScanFails, Goto, Return, Pc, TypeOK
      <3>2. CASE ScanFault
        BY <1>1, <1>7, <3>2 DEF ScanFault, ScanFails, Goto, Return, Pc, TypeOK
      <3> QED BY <1>9, <3>1, <3>2
    <2>3. rec' \in Nat /\ at' \in Cluster \cup {Nowhere}
      BY <1>2, <1>4, <1>9 DEF Scan, Found, NotFound, ScanFault
    <2> QED BY <1>1, <2>1, <2>2, <2>3 DEF TypeInv, TypeOK, dirVars
  <1>10. CASE WriteEntry \/ WriteFault \/ Check
    <2>1. pc' \in Pc \ {"link"} /\ result' \in {"ok", "error"} /\ faults' \in 0 .. MaxFaults
      <3>1. CASE WriteEntry
        BY <1>1, <3>1 DEF WriteEntry, Goto, Return, Pc, TypeOK
      <3>2. CASE WriteFault
        BY <1>1, <1>7, <3>2 DEF WriteFault, ScanFails, Goto, Return, Pc, TypeOK
      <3>3. CASE Check
        BY <1>1, <1>7, <3>3 DEF Check, Return, Pc, TypeOK, NoFault
      <3> QED BY <1>10, <3>1, <3>2, <3>3
    <2>2. UNCHANGED <<length, op, parent, rec, at, fresh, wild>>
      BY <1>10 DEF WriteEntry, WriteFault, Check, dirVars
    <2>3. Put(NewEntry) \/ UNCHANGED <<used, next, page>>
      BY <1>10 DEF WriteEntry, WriteFault, Check, dirVars
    <2>4. used' \subseteq Cluster /\ next' \in [Cluster -> Cluster \cup {End}] /\ page' \in [Page -> Entry]
      <3>1. CASE OverwriteFat /\ UNCHANGED page
        BY <1>1, <3>1, FatTypes DEF TypeOK
      <3>2. CASE SetEntry(Here, NewEntry) /\ UNCHANGED <<used, next>>
        BY <1>1, <1>3, <3>2 DEF SetEntry, TypeOK
      <3>3. CASE UNCHANGED <<used, next, page>>
        BY <1>1, <3>3 DEF TypeOK
      <3> QED BY <2>3, <3>1, <3>2, <3>3 DEF Put
    <2> QED BY <1>1, <2>1, <2>2, <2>4 DEF TypeInv, TypeOK
  <1>11. CASE Allocate \/ Walk
    <2>1. /\ pc' \in Pc /\ result' = result /\ UNCHANGED <<dirVars, op, parent, rec, wild, faults>>
      BY <1>11 DEF Allocate, Walk, Goto, Pc
    <2>2. at' \in Cluster \cup {Nowhere} /\ fresh' \in Cluster
      BY <1>2, <1>4, <1>11 DEF Allocate, Walk, FreeClusters
    <2>3. pc' = "link" => at' \in Cluster
      BY <1>1, <1>11 DEF Allocate, Walk, Goto, IsEnd, TypeOK
    <2> QED BY <1>1, <2>1, <2>2, <2>3 DEF TypeInv, TypeOK, dirVars
  <1>12. CASE Link \/ Terminate \/ AddFault
    <2>1. /\ pc' \in Pc \ {"link"} /\ result' = result /\ faults' \in 0 .. MaxFaults
          /\ UNCHANGED <<page, length, op, parent, rec, at, fresh, wild>>
      BY <1>1, <1>7, <1>12 DEF Link, Terminate, AddFault, Goto, Pc, TypeOK
    <2>2. \/ UNCHANGED <<used, next>> \/ SetLink(fresh, End)
          \/ pc = "link" /\ SetLink(at, fresh)
      BY <1>12 DEF Link, Terminate, AddFault
    <2>3. pc = "link" => at \in Cluster
      BY DEF TypeInv
    <2>4. used' \subseteq Cluster /\ next' \in [Cluster -> Cluster \cup {End}]
      BY <1>1, <1>2, <1>6, <2>2, <2>3 DEF TypeOK
    <2> QED BY <1>1, <2>1, <2>4 DEF TypeInv, TypeOK
  <1>13. CASE FirstEntry \/ FirstEntryFault
    <2>1. /\ pc' \in Pc \ {"link"} /\ result' \in {"ok", "error"} /\ faults' \in 0 .. MaxFaults
          /\ UNCHANGED <<used, next, length, op, parent, rec, at, fresh, wild>>
      BY <1>1, <1>7, <1>13 DEF FirstEntry, FirstEntryFault, Goto, Return, Pc, TypeOK
    <2>2. page' \in [Page -> Entry]
      BY <1>1, <1>3, <1>13 DEF FirstEntry, FirstEntryFault, SetEntry, TypeOK
    <2> QED BY <1>1, <2>1, <2>2 DEF TypeInv, TypeOK
  <1>14. CASE WildEntry \/ WildFault
    <2>1. /\ pc' \in Pc \ {"link"} /\ result' \in {"ok", "error"} /\ wild' = TRUE /\ faults' \in 0 .. MaxFaults
          /\ UNCHANGED <<page, length, op, parent, rec, at, fresh>>
      BY <1>1, <1>7, <1>14 DEF WildEntry, WildFault, Goto, Return, Pc, TypeOK
    <2>2. used' \subseteq Cluster /\ next' \in [Cluster -> Cluster \cup {End}]
      BY <1>1, <1>14, FatTypes DEF WildEntry, WildFault, TypeOK
    <2> QED BY <1>1, <2>1, <2>2 DEF TypeInv, TypeOK
  <1>15. CASE Grow \/ GrowFault
    <2>1. /\ pc' \in Pc \ {"link"} /\ result' \in {"ok", "error"} /\ faults' \in 0 .. MaxFaults
          /\ UNCHANGED <<used, next, page, op, parent, rec, at, fresh, wild>>
      BY <1>1, <1>7, <1>15 DEF Grow, GrowFault, Return, Pc, TypeOK
    <2>2. length' \in [Folder -> Nat]
      BY <1>1, <1>5, <1>15 DEF Grow, GrowFault, TypeOK
    <2> QED BY <1>1, <2>1, <2>2 DEF TypeInv, TypeOK
  <1>16. CASE UNCHANGED vars
    BY <1>16 DEF TypeInv, TypeOK, vars
  <1> QED BY <1>8, <1>9, <1>10, <1>11, <1>12, <1>13, <1>14, <1>15, <1>16 DEF Next, Step, StepFault

(***************************************************************************)
(* A card that works and has room.                                         *)
(***************************************************************************)
LEMMA CallWorks ==
  ASSUME NEW ch, NEW len, Chains(ch, len), CardInv(ch, len), Working(ch, len),
         NEW f \in Folder, NEW n \in Name, CreateAlias(f, n) \/ DeleteAlias(f, n)
  PROVE  Working(ch, len)'
  <1> SUFFICES ASSUME SpaceChecked, faults' = 0 PROVE Working(ch, len)'
    BY DEF Working
  <1>1. /\ TypeOK /\ pc = "idle" /\ pc' \in {"scan", "idle"} /\ rec' = 0
        /\ UNCHANGED dirVars /\ FreeClusters' = FreeClusters
    BY DEF CreateAlias, DeleteAlias, Goto, Return, StartScan, CardInv, FreeClusters, dirVars
  <1>2. faults = 0
    BY <1>1, ValuesAre DEF CreateAlias, DeleteAlias, Fault, NoFault
  <1>3. op'.kind = "create" => FreeClusters # {}
    BY DEF CreateAlias, DeleteAlias, Room
  <1>4. \A g \in Folder : len[g] = (length[g] + 1) \div 2
    BY <1>1, <1>2 DEF Working
  <1>5. \A r \in 0 .. 0 - 1 : FALSE
    OBVIOUS
  <1> QED BY <1>1, <1>3, <1>4, <1>5 DEF Working, dirVars

LEMMA ScanWorks ==
  ASSUME NEW ch, NEW len, Chains(ch, len), CardInv(ch, len), Working(ch, len), Scan \/ ScanFault
  PROVE  Working(ch, len)'
  <1> DEFINE f == op.folder
             k == rec \div 2
  <1> SUFFICES ASSUME SpaceChecked, faults' = 0 PROVE Working(ch, len)'
    BY DEF Working
  <1>1. TypeOK /\ faults \in Nat /\ rec \in Nat /\ f \in Folder /\ len[f] \in Nat /\ length[f] \in Nat
        /\ PagesPerCluster = 2 /\ Here = <<at, rec % 2>> /\ End \notin Cluster
    BY ValuesAre DEF CardInv
  <1>2. Scan /\ faults = 0 /\ pc = "scan"
    BY <1>1 DEF Scan, ScanFault, Fault
  <1>3. UNCHANGED <<dirVars, op>> /\ pc' \in {"scan", "write", "alloc", "idle"}
        /\ FreeClusters' = FreeClusters
    BY <1>2, ScanHere DEF ScanFails, Goto, Return, FreeClusters, dirVars
  <1>4. /\ \A g \in Folder : len[g] = (length[g] + 1) \div 2
        /\ op.kind = "create" => FreeClusters # {}
        /\ op.kind = "delete" => \A r \in 0 .. rec - 1 : Holds(ch, f, r) # op.name
    BY <1>2 DEF Working
  <1>5. at = ch[f][k] /\ k < len[f] /\ rec <= length[f] /\ length[f] <= 2 * len[f]
    BY <1>1, <1>2 DEF CardInv, Places, Lengths
  <1>6. k \in Nat /\ rec % 2 \in 0 .. 1 /\ rec = 2 * k + (rec % 2)
    BY <1>1, Halves
  <1>7. pc' = "scan" /\ op.kind = "delete" => \A r \in 0 .. rec' - 1 : Holds(ch, f, r) # op.name
    <2> SUFFICES ASSUME pc' = "scan", op.kind = "delete", NEW r \in 0 .. rec' - 1
                 PROVE  Holds(ch, f, r) # op.name
      OBVIOUS
    <2>1. rec' = rec + 1 /\ ~ Wanted(page[Here]) /\ ~ PastEnd
      BY <1>2, ScanHere DEF ScanFails, Goto, Return
    <2>2. page[Here] # op.name
      BY <2>1 DEF Wanted
    <2>3. r = rec \/ r \in 0 .. rec - 1
      BY <1>1, <2>1
    <2> QED BY <1>1, <1>4, <1>5, <2>2, <2>3 DEF Holds
  <1>8. pc' = "alloc" => length[f] = 2 * len[f]
    <2> SUFFICES ASSUME pc' = "alloc" PROVE length[f] = 2 * len[f]
      OBVIOUS
    <2>1. op.kind = "create" /\ ~ Wanted(page[Here]) /\ (PastEnd \/ (LastOfCluster /\ IsEnd(at)))
      BY <1>2, ScanHere DEF ScanFails, Goto, Return
    <2>2. CASE rec >= length[f]
      <3>1. rec = length[f] /\ rec % 2 = 0
        BY <1>1, <1>5, <2>1, <2>2 DEF Wanted, Unused, PastEnd
      <3>2. len[f] = (length[f] + 1) \div 2
        BY <1>1, <1>4
      <3>3. (rec + 1) \div 2 = k
        BY <1>1, <3>1, Halves
      <3> QED BY <1>1, <1>5, <1>6, <3>1, <3>2, <3>3
    <2>3. CASE ~ (rec >= length[f])
      <3>1. (rec + 1) % 2 = 0 /\ next[at] = End
        BY <1>1, <2>1, <2>3 DEF PastEnd, LastOfCluster, IsEnd
      <3>2. k + 1 < len[f] => next[at] = ch[f][k + 1] /\ ch[f][k + 1] \in Cluster
        <4>1. k \in 0 .. len[f] - 1 /\ k + 1 \in Nat
          BY <1>1, <1>5, <1>6
        <4> QED BY <1>1, <1>5, <4>1, ValuesAre DEF CardInv, Linked
      <3>3. k + 1 = len[f]
        BY <1>1, <1>5, <1>6, <3>1, <3>2
      <3>4. (rec + 1) \div 2 = k + 1 /\ rec % 2 = 1
        BY <1>1, <1>6, <3>1, Halves
      <3> QED BY <1>1, <1>5, <1>6, <2>3, <3>3, <3>4
    <2> QED BY <2>2, <2>3
  <1>9. \A r : Holds(ch, f, r)' = Holds(ch, f, r)
    BY <1>3 DEF Holds, dirVars
  <1> QED BY <1>3, <1>4, <1>7, <1>8, <1>9 DEF Working, dirVars

LEMMA WriteWorks ==
  ASSUME NEW ch, NEW len, Chains(ch, len), CardInv(ch, len), Working(ch, len),
         WriteEntry \/ WriteFault \/ Check
  PROVE  Working(ch, len)'
  <1> DEFINE f == op.folder
             k == rec \div 2
  <1> SUFFICES ASSUME SpaceChecked, faults' = 0 PROVE Working(ch, len)'
    BY DEF Working
  <1>1. TypeOK /\ faults \in Nat /\ rec \in Nat /\ f \in Folder /\ len[f] \in Nat /\ length[f] \in Nat
        /\ PagesPerCluster = 2 /\ Here = <<at, rec % 2>>
    BY ValuesAre DEF CardInv
  <1>2. WriteEntry \/ Check
    BY <1>1 DEF WriteFault, Fault
  <1>3. /\ UNCHANGED <<used, next, length, op, rec, at>> /\ pc \in {"write", "check"}
        /\ pc' \in {"check", "grow", "idle"} /\ faults = 0
    <2>1. CASE WriteEntry
      BY <2>1, PutHere DEF WriteEntry, Goto, Return
    <2>2. CASE Check
      BY <1>1, <2>2 DEF Check, Return, dirVars, NoFault, Fault
    <2> QED BY <1>2, <2>1, <2>2
  <1>4. \A g \in Folder : len[g] = (length[g] + 1) \div 2
    BY <1>3 DEF Working
  <1>5. pc' = "grow" => len[f] = length[f] \div 2 + 1 /\ Holds(ch, f, length[f])' = op.name
    <2> SUFFICES ASSUME pc' = "grow"
                 PROVE  len[f] = length[f] \div 2 + 1 /\ Holds(ch, f, length[f])' = op.name
      OBVIOUS
    <2>1. WriteEntry /\ GrowsNext /\ op.kind # "delete" /\ pc = "write"
      BY <1>2 DEF WriteEntry, Check, Goto, Return
    <2>2. at = ch[f][k] /\ rec <= length[f] /\ rec >= length[f] /\ rec % 2 # 0
      BY <1>1, <2>1 DEF GrowsNext, Unused, PastEnd, CardInv, Places
    <2>3. rec = length[f]
      BY <1>1, <2>2
    <2>4. len[f] = length[f] \div 2 + 1
      BY <1>1, <1>4, <2>2, <2>3, Halves
    <2>5. page' = [page EXCEPT ![Here] = op.name]
      BY <2>1, <1>1, PutHere, ValuesAre DEF WriteEntry, NewEntry
    <2>6. Here \in Page
      <3>1. at \in Cluster /\ rec % 2 \in 0 .. 1
        BY <1>1, <2>2, ValuesAre, Halves
      <3> QED BY <1>1, <3>1 DEF Page, Offset
    <2>7. page'[Here] = op.name
      BY <1>1, <2>5, <2>6 DEF TypeOK
    <2> QED BY <1>1, <1>3, <2>2, <2>3, <2>4, <2>7 DEF Holds
  <1> QED BY <1>3, <1>4, <1>5 DEF Working

LEMMA SearchWorks ==
  ASSUME NEW ch, NEW len, Chains(ch, len), CardInv(ch, len), Working(ch, len), Allocate \/ Walk
  PROVE  Working(ch, len)'
  <1> DEFINE f == op.folder
  <1> SUFFICES ASSUME SpaceChecked, faults' = 0 PROVE Working(ch, len)'
    BY DEF Working
  <1>1. /\ UNCHANGED <<dirVars, op>> /\ pc \in {"alloc", "walk"} /\ faults = 0 /\ TypeOK
    BY DEF Allocate, Walk, Goto, CardInv
  <1>2. /\ \A g \in Folder : len[g] = (length[g] + 1) \div 2
        /\ length[f] = 2 * len[f]
        /\ pc = "alloc" => FreeClusters # {}
    BY <1>1 DEF Working, CardInv, Places
  <1>3. pc' \in {"walk", "link"}
    <2>1. CASE Allocate
      BY <1>2, <2>1 DEF Allocate, Goto
    <2>2. CASE Walk
      <3>1. at \in Cluster
        BY <1>1, <2>2, ValuesAre DEF Walk, CardInv, Places
      <3>2. at # Nowhere
        BY <1>1, <3>1, ValuesAre
      <3> QED BY <2>2, <3>2 DEF Walk, Goto
    <2> QED BY <2>1, <2>2
  <1> QED BY <1>1, <1>2, <1>3 DEF Working, dirVars

LEMMA LinkWorks ==
  ASSUME NEW ch, NEW len, Chains(ch, len), CardInv(ch, len), Working(ch, len), Link,
         NEW h, NEW m, m = [len EXCEPT ![op.folder] = @ + 1]
  PROVE  Working(h, m)'
  <1> DEFINE f == op.folder
  <1> SUFFICES ASSUME SpaceChecked, faults' = 0 PROVE Working(h, m)'
    BY DEF Working
  <1>1. /\ UNCHANGED <<length, op>> /\ pc = "link" /\ pc' = "terminate" /\ faults = 0 /\ TypeOK
    BY DEF Link, Goto, CardInv
  <1>2. /\ \A g \in Folder : len[g] = (length[g] + 1) \div 2
        /\ length[f] = 2 * len[f]
    BY <1>1 DEF Working
  <1>3. \A g \in Folder : m[g] = IF g = f THEN len[f] + 1 ELSE len[g]
    BY DEF Chains
  <1>4. m[f] = length[f] \div 2 + 1
    <2>1. f \in Folder /\ len[f] \in Nat
      BY <1>1, ValuesAre
    <2>2. length[f] \div 2 = len[f]
      BY <1>2, <2>1
    <2> QED BY <1>3, <2>1, <2>2
  <1> QED BY <1>1, <1>2, <1>3, <1>4 DEF Working

LEMMA TerminateWorks ==
  ASSUME NEW ch, NEW len, Chains(ch, len), CardInv(ch, len), Working(ch, len), Terminate
  PROVE  Working(ch, len)'
  <1>1. UNCHANGED <<length, op, faults>> /\ pc = "terminate" /\ pc' = "entry"
    BY DEF Terminate, Goto
  <1> QED BY <1>1 DEF Working

LEMMA NewCluster ==
  ASSUME NEW n \in Nat, NEW l \in Nat, n <= 2 * (l - 1), l = (n + 1) \div 2 \/ l = n \div 2 + 1
  PROVE  n % 2 = 0 /\ l = n \div 2 + 1
  <1>1. /\ n \div 2 \in Nat /\ n % 2 \in 0 .. 1 /\ n = 2 * (n \div 2) + (n % 2)
        /\ (n + 1) \div 2 = IF (n + 1) % 2 = 0 THEN n \div 2 + 1 ELSE n \div 2
        /\ (n + 1) % 2 = IF n % 2 = 0 THEN 1 ELSE 0
    BY Halves
  <1> DEFINE q == n \div 2
             e == n % 2
  <1>2. /\ q \in Nat /\ e \in 0 .. 1 /\ n = 2 * q + e
        /\ (n + 1) \div 2 = IF e = 0 THEN q ELSE q + 1
    BY <1>1
  <1>3. l = (IF e = 0 THEN q ELSE q + 1) \/ l = q + 1
    BY <1>2
  <1> HIDE DEF q, e
  <1>4. e = 0 /\ l = q + 1
    BY <1>2, <1>3
  <1> QED BY <1>4 DEF q, e

LEMMA EntryWorks ==
  ASSUME NEW ch, NEW len, Chains(ch, len), CardInv(ch, len), Working(ch, len),
         FirstEntry \/ FirstEntryFault
  PROVE  Working(ch, len)'
  <1> DEFINE f == op.folder
             n == length[f]
  <1> SUFFICES ASSUME SpaceChecked, faults' = 0 PROVE Working(ch, len)'
    BY DEF Working
  <1>1. /\ TypeOK /\ faults \in Nat /\ f \in Folder /\ len[f] \in Nat /\ n \in Nat
        /\ PagesPerCluster = 2
    BY ValuesAre DEF CardInv
  <1>2. FirstEntry /\ pc = "entry" /\ pc' = "grow" /\ faults = 0 /\ UNCHANGED <<length, op>>
    BY <1>1 DEF FirstEntry, FirstEntryFault, Fault, Goto
  <1>3. \A g \in Folder : len[g] = (length[g] + 1) \div 2 \/ (g = f /\ len[g] = length[g] \div 2 + 1)
    BY <1>2 DEF Working
  <1>4. fresh = ch[f][len[f] - 1] /\ n <= 2 * (len[f] - 1)
    BY <1>2 DEF CardInv, Places
  <1>5. len[f] = (n + 1) \div 2 \/ len[f] = n \div 2 + 1
    BY <1>1, <1>3
  <1>6. n % 2 = 0 /\ len[f] = n \div 2 + 1
    <2> HIDE DEF n, f
    <2> QED BY <1>1, <1>4, <1>5, NewCluster
  <1>7. n \div 2 = len[f] - 1
    <2> HIDE DEF n, f
    <2>1. n \div 2 \in Nat
      BY <1>1, Halves
    <2> QED BY <1>6, <2>1
  <1>8. <<ch[f][n \div 2], n % 2>> = <<fresh, 0>>
    <2> HIDE DEF n, f
    <2> QED BY <1>4, <1>6, <1>7
  <1>9. page'[<<fresh, 0>>] = op.name
    <2>1. <<fresh, 0>> \in Page
      BY <1>1 DEF Page, Offset, TypeOK
    <2> QED BY <1>1, <1>2, <2>1 DEF FirstEntry, SetEntry, TypeOK
  <1>10. Holds(ch, f, n)' = op.name
    BY <1>2, <1>8, <1>9 DEF Holds
  <1> QED BY <1>2, <1>3, <1>6, <1>10 DEF Working

LEMMA GrowWorks ==
  ASSUME NEW ch, NEW len, Chains(ch, len), CardInv(ch, len), Working(ch, len), Grow \/ GrowFault
  PROVE  Working(ch, len)'
  <1> DEFINE f == op.folder
             n == length[f]
  <1> SUFFICES ASSUME SpaceChecked, faults' = 0 PROVE Working(ch, len)'
    BY DEF Working
  <1>1. TypeOK /\ faults \in Nat /\ f \in Folder /\ len[f] \in Nat /\ n \in Nat
    BY ValuesAre DEF CardInv
  <1>2. Grow /\ pc = "grow" /\ pc' = "idle" /\ faults = 0 /\ UNCHANGED op
    BY <1>1 DEF Grow, GrowFault, Fault, Return
  <1>3. /\ \A g \in Folder : g # f => len[g] = (length[g] + 1) \div 2
        /\ len[f] = n \div 2 + 1
    BY <1>1, <1>2 DEF Working
  <1>4. length' = [length EXCEPT ![f] = n + 1]
    BY <1>2 DEF Grow, CardInv, Places
  <1>5. len[f] = (length'[f] + 1) \div 2
    <2>1. length'[f] = n + 1
      BY <1>1, <1>4 DEF TypeOK
    <2> HIDE DEF n
    <2>2. (n + 1 + 1) \div 2 = n \div 2 + 1
      BY <1>1
    <2> QED BY <1>3, <2>1, <2>2
  <1>6. \A g \in Folder : len[g] = (length'[g] + 1) \div 2
    BY <1>1, <1>3, <1>4, <1>5 DEF TypeOK
  <1> QED BY <1>2, <1>3, <1>6 DEF Working

(***************************************************************************)
(* Every step.                                                             *)
(***************************************************************************)
LEMMA SameChains ==
  ASSUME NEW ch, NEW len, Chains(ch, len), CardInv(ch, len)
  PROVE  Extends(ch, len, ch, len)
  BY ValuesAre DEF Extends, CardInv

(* Once AddFATRecord has returned an error, nothing is promised any more.  *)
LEMMA LostStays ==
  ASSUME [Next]_vars, ~ Lost'
  PROVE  ~ Lost /\ ~ AddFault /\ ~ WildEntry /\ ~ WildFault
  <1>1. ~ AddFault /\ ~ WildEntry /\ ~ WildFault
    BY DEF AddFault, WildEntry, WildFault, Goto, Lost
  <1> SUFFICES ~ Lost
    BY <1>1
  <1>2. CASE \E f \in Folder, n \in Name : CreateAlias(f, n) \/ DeleteAlias(f, n)
    BY <1>2 DEF CreateAlias, DeleteAlias, Lost
  <1>3. CASE Scan \/ WriteEntry \/ Check \/ Allocate \/ Walk
    BY <1>3 DEF Scan, WriteEntry, Check, Allocate, Walk, Lost
  <1>4. CASE Link \/ Terminate \/ FirstEntry \/ Grow
    BY <1>4 DEF Link, Terminate, FirstEntry, Grow, Lost
  <1>5. CASE ScanFault \/ WriteFault \/ FirstEntryFault \/ GrowFault
    BY <1>5 DEF ScanFault, WriteFault, FirstEntryFault, GrowFault, Lost
  <1>6. CASE UNCHANGED vars
    BY <1>6 DEF vars, Lost
  <1> QED BY <1>1, <1>2, <1>3, <1>4, <1>5, <1>6 DEF Next, Step, StepFault

LEMMA EveryStep ==
  ASSUME NEW ch, NEW len, Chains(ch, len), CardInv(ch, len), Working(ch, len), [Next]_vars,
         TypeOK', ~ Lost'
  PROVE  \E h, m : /\ Chains(h, m) /\ Extends(ch, len, h, m)
                   /\ CardInv(h, m)' /\ Working(h, m)'
  <1>1. TypeOK' /\ ~ Lost' /\ Extends(ch, len, ch, len)
    BY SameChains
  <1> SUFFICES ASSUME ~ (CardInv(ch, len)' /\ Working(ch, len)')
               PROVE  \E h, m : /\ Chains(h, m) /\ Extends(ch, len, h, m)
                                /\ CardInv(h, m)' /\ Working(h, m)'
    BY <1>1, Zenon
  <1>2. ASSUME NEW f \in Folder, NEW n \in Name, CreateAlias(f, n) \/ DeleteAlias(f, n) PROVE FALSE
    BY <1>1, <1>2, CallStep, CallWorks
  <1>3. ASSUME Scan \/ ScanFault PROVE FALSE
    BY <1>1, <1>3, ScanStep, ScanWorks
  <1>4. ASSUME WriteEntry \/ WriteFault \/ Check PROVE FALSE
    BY <1>1, <1>4, WriteStep, WriteWorks
  <1>5. ASSUME Allocate \/ Walk PROVE FALSE
    BY <1>1, <1>5, SearchStep, SearchWorks
  <1>6. CASE Link
    <2>1. PICK h, m : /\ Chains(h, m) /\ Extends(ch, len, h, m) /\ CardInv(h, m)'
                      /\ m = [len EXCEPT ![op.folder] = @ + 1]
      BY <1>1, <1>6, LinkStep, Zenon
    <2>2. Working(h, m)'
      BY <1>6, <2>1, LinkWorks
    <2> QED BY <2>1, <2>2
  <1>7. ASSUME Terminate PROVE FALSE
    BY <1>1, <1>7, TerminateStep, TerminateWorks
  <1>8. ASSUME FirstEntry \/ FirstEntryFault PROVE FALSE
    BY <1>1, <1>8, EntryStep, EntryWorks
  <1>9. ASSUME Grow \/ GrowFault PROVE FALSE
    BY <1>1, <1>9, GrowStep, GrowWorks
  <1>10. ASSUME UNCHANGED vars PROVE FALSE
    <2>1. CardInv(ch, len)'
      BY <1>1, <1>10 DEF vars, CardInv, Linked, Apart, Taken, Lengths, Places, Here
    <2>2. Working(ch, len)'
      BY <1>10 DEF vars, Working, Holds, FreeClusters
    <2> QED BY <2>1, <2>2
  <1> QED BY <1>2, <1>3, <1>4, <1>5, <1>6, <1>7, <1>8, <1>9, <1>10, LostStays
          DEF Next, Step, StepFault

LEMMA InitChains ==
  ASSUME Init
  PROVE  \E ch, len : Chains(ch, len) /\ CardInv(ch, len) /\ Working(ch, len)
  <1>1. TypeOK /\ ~ Lost
    BY InitTypes DEF Init, Lost
  <1>2. PICK ch, len : ch = [f \in Folder |-> [k \in Nat |-> Start[f]]] /\ len = [f \in Folder |-> 1]
    OBVIOUS
  <1>3. /\ \A f \in Folder : Start[f] \in Cluster /\ Start[f] \in used /\ next[Start[f]] = End
        /\ \A f, g \in Folder : Start[f] = Start[g] => f = g
    BY StartAssumption DEF Init
  <1>4. /\ Chains(ch, len)
        /\ \A f \in Folder : len[f] = 1 /\ \A k \in Nat : ch[f][k] = Start[f]
    BY <1>2, <1>3 DEF Chains
  <1>5. \A k \in 0 .. 1 - 1 : k = 0
    OBVIOUS
  <1>6. Linked(ch, len)
    BY <1>3, <1>4, <1>5 DEF Linked
  <1>7. Apart(ch, len)
    BY <1>3, <1>4, <1>5 DEF Apart
  <1>8. Taken(ch, len)
    BY <1>3, <1>4, <1>5 DEF Taken
  <1>9. Lengths(len)
    BY <1>4 DEF Lengths, Init
  <1>10. Places(ch, len) /\ Working(ch, len)
    <2>1. \A f \in Folder : length[f] = 2 /\ len[f] = (length[f] + 1) \div 2
      BY <1>4 DEF Init
    <2> QED BY <2>1 DEF Init, Places, Working
  <1> QED BY <1>1, <1>4, <1>6, <1>7, <1>8, <1>9, <1>10 DEF CardInv

(* A card that works and has room never gets there.                        *)
LEMMA KeepsRoom ==
  ASSUME NEW ch, NEW len, Chains(ch, len), CardInv(ch, len), Working(ch, len), [Next]_vars,
         SpaceChecked, faults' = 0
  PROVE  ~ Lost'
  <1>1. faults \in Nat /\ ~ Lost /\ TypeOK
    BY ValuesAre DEF CardInv
  <1>2. ~ Fault
    BY <1>1 DEF Fault
  <1>3. CASE \E f \in Folder, n \in Name : CreateAlias(f, n) \/ DeleteAlias(f, n)
    BY <1>1, <1>3 DEF CreateAlias, DeleteAlias, Goto, Return, Lost
  <1>4. CASE Scan \/ WriteEntry \/ Check
    BY <1>1, <1>4 DEF Scan, Found, NotFound, ScanFails, WriteEntry, Check, Goto, Return, Lost
  <1>5. CASE Allocate \/ Walk
    <2>1. faults = 0 /\ pc \in {"alloc", "walk"} /\ wild' = wild
      BY <1>5 DEF Allocate, Walk
    <2>2. pc' # "wild"
      <3>1. CASE Allocate
        BY <2>1, <3>1 DEF Allocate, Goto, Working, CardInv, Places
      <3>2. CASE Walk
        <4>1. at \in Cluster
          BY <1>1, <3>2, ValuesAre DEF Walk, CardInv, Places
        <4>2. at # Nowhere
          BY <1>1, <4>1, ValuesAre
        <4> QED BY <3>2, <4>2 DEF Walk, Goto
      <3> QED BY <1>5, <3>1, <3>2
    <2> QED BY <1>1, <2>1, <2>2 DEF Lost
  <1>6. CASE Link \/ Terminate \/ FirstEntry \/ Grow
    BY <1>1, <1>6 DEF Link, Terminate, FirstEntry, Grow, Goto, Return, Lost
  <1>7. CASE WildEntry
    BY <1>1, <1>7 DEF WildEntry, Lost
  <1>8. CASE StepFault
    BY <1>2, <1>8 DEF StepFault, ScanFault, WriteFault, AddFault, FirstEntryFault, WildFault, GrowFault
  <1>9. CASE UNCHANGED vars
    BY <1>1, <1>9 DEF vars, Lost
  <1> QED BY <1>3, <1>4, <1>5, <1>6, <1>7, <1>8, <1>9 DEF Next, Step

LEMMA FaultsGrow ==
  ASSUME TypeOK, [Next]_vars
  PROVE  faults' = 0 => faults = 0
  <1>1. faults \in Nat
    BY SizeAssumption DEF TypeOK
  <1> SUFFICES faults' = faults \/ Fault
    BY <1>1 DEF Fault
  <1>2. CASE \E f \in Folder, n \in Name : CreateAlias(f, n) \/ DeleteAlias(f, n)
    BY <1>2 DEF CreateAlias, DeleteAlias, NoFault
  <1>3. CASE Step
    BY <1>3 DEF Step, Scan, WriteEntry, Check, Allocate, Walk, Link, Terminate, FirstEntry, WildEntry,
                Grow, NoFault
  <1>4. CASE StepFault
    BY <1>4 DEF StepFault, ScanFault, WriteFault, AddFault, FirstEntryFault, WildFault, GrowFault
  <1>5. CASE UNCHANGED vars
    BY <1>5 DEF vars
  <1> QED BY <1>2, <1>3, <1>4, <1>5 DEF Next

(* Until AddFATRecord returns an error, each folder has a chain of its     *)
(* own: what the functions of MCTOOLS know of it at each of their steps,   *)
(* for any number of clusters, folders and failing accesses.  While there  *)
(* is room and nothing fails, AddFATRecord returns none.                   *)
DirectoryInv ==
  /\ TypeInv
  /\ SpaceChecked /\ faults = 0 => ~ Lost
  /\ ~ Lost => \E ch, len : Chains(ch, len) /\ CardInv(ch, len) /\ Working(ch, len)

THEOREM DirectoryInvariant == Spec => []DirectoryInv
  <1>1. Init => DirectoryInv
    <2> SUFFICES ASSUME Init PROVE DirectoryInv
      OBVIOUS
    <2>1. TypeInv /\ ~ Lost
      BY InitTypes DEF Init, Lost, TypeInv
    <2> QED BY <2>1, InitChains DEF DirectoryInv
  <1>2. DirectoryInv /\ [Next]_vars => DirectoryInv'
    <2> SUFFICES ASSUME DirectoryInv, [Next]_vars PROVE DirectoryInv'
      OBVIOUS
    <2>1. TypeInv /\ TypeOK /\ TypeInv' /\ TypeOK'
      BY TypeStep DEF DirectoryInv, TypeInv
    <2>2. SpaceChecked /\ faults' = 0 => ~ Lost'
      <3> SUFFICES ASSUME SpaceChecked, faults' = 0 PROVE ~ Lost'
        OBVIOUS
      <3>1. ~ Lost
        BY <2>1, FaultsGrow DEF DirectoryInv
      <3>2. PICK ch, len : Chains(ch, len) /\ CardInv(ch, len) /\ Working(ch, len)
        BY <3>1 DEF DirectoryInv
      <3> QED BY <3>2, KeepsRoom
    <2>3. ASSUME ~ Lost'
          PROVE  (\E ch, len : Chains(ch, len) /\ CardInv(ch, len) /\ Working(ch, len))'
      <3>1. ~ Lost
        BY <2>3, LostStays
      <3>2. PICK ch, len : Chains(ch, len) /\ CardInv(ch, len) /\ Working(ch, len)
        BY <3>1 DEF DirectoryInv
      <3>3. PICK h, m : Chains(h, m) /\ CardInv(h, m)' /\ Working(h, m)'
        BY <2>1, <2>3, <3>2, EveryStep, Zenon
      <3>4. Chains(h, m)'
        BY <3>3 DEF Chains
      <3> QED BY <3>3, <3>4
    <2> QED BY <2>1, <2>2, <2>3 DEF DirectoryInv
  <1> QED BY <1>1, <1>2, PTL DEF Spec

(* Cross-linking by any calls in any order, and accesses that fail         *)
(* anywhere: until AddFATRecord returns an error, every chain of a folder  *)
(* ends, and no two have a cluster in common.                              *)
THEOREM ChainsStayApart == Spec => []ChainsApart
  <1>1. DirectoryInv => ChainsApart
    <2> SUFFICES ASSUME DirectoryInv, ~ Lost PROVE ChainsApart
      BY DEF ChainsApart
    <2>1. PICK ch, len : Chains(ch, len) /\ CardInv(ch, len)
      BY DEF DirectoryInv
    <2> QED BY <2>1, AreApart DEF CardInv, Chains, TypeOK
  <1> QED BY <1>1, DirectoryInvariant, PTL

(***************************************************************************)
(* Where an entry is, by its number, in this state and in the next.        *)
(***************************************************************************)
Placed(ch, len, f, r) ==
  /\ Chains(ch, len) /\ used \subseteq Cluster
  /\ Linked(ch, len) /\ Apart(ch, len) /\ f \in Folder /\ r \in Nat /\ r \div 2 < len[f]

LEMMA PageIs ==
  ASSUME NEW ch, NEW len, NEW f, NEW r
  PROVE  Placed(ch, len, f, r) => PageOf(f, r) = <<ch[f][r \div 2], r % 2>>
  <1> SUFFICES ASSUME Placed(ch, len, f, r) PROVE PageOf(f, r) = <<ch[f][r \div 2], r % 2>>
    OBVIOUS
  <1>1. /\ ch \in [Folder -> [Nat -> Cluster]] /\ len \in [Folder -> Nat \ {0}] /\ f \in Folder
        /\ used \subseteq Cluster /\ Linked(ch, len) /\ Apart(ch, len) /\ r \in Nat /\ r \div 2 < len[f]
    BY DEF Placed, Chains
  <1>2. len[f] <= NumClusters /\ NumClusters \in Nat /\ PagesPerCluster = 2
    BY <1>1, LenFits, SizeAssumption
  <1>3. r \div 2 \in 0 .. NumClusters
    BY <1>1, <1>2, Halves
  <1>4. Chain(f)[r \div 2] = ch[f][r \div 2]
    BY <1>1, <1>3, ChainValues
  <1> QED BY <1>2, <1>4 DEF PageOf

LEMMA NextPageIs ==
  ASSUME NEW ch, NEW len, NEW f, NEW r
  PROVE  (Placed(ch, len, f, r) => PageOf(f, r) = <<ch[f][r \div 2], r % 2>>)'
  <1>1. Placed(ch, len, f, r) => PageOf(f, r) = <<ch[f][r \div 2], r % 2>>
    BY PageIs
  <1> QED BY <1>1, PTL

(***************************************************************************)
(* No step harms an entry.                                                 *)
(***************************************************************************)
LEMMA SamePlace ==
  ASSUME NEW ch, NEW len, Chains(ch, len), CardInv(ch, len),
         NEW f \in Folder, NEW g \in Folder, NEW r \in Nat, NEW s \in Nat,
         r \div 2 < len[f], s \div 2 < len[g],
         <<ch[f][r \div 2], r % 2>> = <<ch[g][s \div 2], s % 2>>
  PROVE  f = g /\ r = s
  <1>1. r \div 2 \in Nat /\ s \div 2 \in Nat /\ len[f] \in Nat /\ len[g] \in Nat
    BY Halves DEF Chains
  <1>2. r \div 2 \in 0 .. len[f] - 1 /\ s \div 2 \in 0 .. len[g] - 1
    BY <1>1
  <1>3. f = g /\ r \div 2 = s \div 2 /\ r % 2 = s % 2
    BY <1>2 DEF CardInv, Apart
  <1> QED BY <1>3, Halves

LEMMA InChain ==
  ASSUME NEW ch, NEW len, Chains(ch, len), CardInv(ch, len), NEW f \in Folder, NEW r \in Records(f)
  PROVE  /\ r \in Nat /\ r < length[f] /\ r \div 2 \in 0 .. len[f] - 1
         /\ Placed(ch, len, f, r) /\ PageOf(f, r) = <<ch[f][r \div 2], r % 2>>
         /\ <<ch[f][r \div 2], r % 2>> \in Page
  <1>1. length[f] \in Nat /\ len[f] \in Nat /\ length[f] <= 2 * len[f] /\ PagesPerCluster = 2
    BY ValuesAre DEF CardInv, Lengths
  <1>2. r \in Nat /\ r < length[f]
    BY <1>1 DEF Records
  <1>3. r \div 2 \in Nat /\ r % 2 \in 0 .. 1 /\ r = 2 * (r \div 2) + (r % 2)
    BY <1>2, Halves
  <1>4. r \div 2 < len[f]
    BY <1>1, <1>2, <1>3
  <1>5. Placed(ch, len, f, r)
    BY <1>2, <1>4 DEF Placed, CardInv, TypeOK
  <1>6. ch[f][r \div 2] \in Cluster
    BY <1>3 DEF Chains
  <1> QED BY <1>1, <1>2, <1>3, <1>4, <1>5, <1>6, PageIs DEF Page, Offset

LEMMA PageKept ==
  ASSUME NEW ch, NEW len, Chains(ch, len), CardInv(ch, len), [Next]_vars,
         NEW f \in Folder, NEW r \in Records(f), NEW p, p = <<ch[f][r \div 2], r % 2>>,
         page[p] \in Name \cup {Dot}
  PROVE  page'[p] = page[p] \/ Deleting(f, page[p])
  <1>0. PICK o : o = op.folder
    OBVIOUS
  <1>1. /\ r \in Nat /\ r < length[f] /\ r \div 2 < len[f] /\ p \in Page /\ r = 2 * (r \div 2) + (r % 2)
        /\ r \div 2 \in Nat
    <2>1. /\ r \in Nat /\ r < length[f] /\ r \div 2 \in 0 .. len[f] - 1 /\ p \in Page
      BY InChain
    <2>2. len[f] \in Nat
      BY DEF Chains
    <2>3. r \div 2 \in Nat /\ r = 2 * (r \div 2) + (r % 2)
      BY <2>1, Halves
    <2> QED BY <2>1, <2>2, <2>3
  <1>2. /\ TypeOK /\ o \in Folder /\ rec \in Nat /\ len[o] \in Nat /\ length[o] \in Nat
        /\ Here = <<at, rec % 2>> /\ len[o] >= 1
    BY <1>0, ValuesAre DEF CardInv
  <1>3. page \in [Page -> Entry] /\ page[p] # Gone
    BY <1>2, EntryAssumption DEF TypeOK
  <1>4. ASSUME pc = "write", page' = [page EXCEPT ![Here] = NewEntry]
        PROVE  page'[p] = page[p] \/ Deleting(f, page[p])
    <2>1. CASE p # Here
      BY <1>1, <1>3, <1>4, <2>1
    <2>2. CASE p = Here
      <3>1. at = ch[o][rec \div 2] /\ rec \div 2 < len[o]
        BY <1>0, <1>4 DEF CardInv, Places
      <3>2. f = o /\ r = rec
        <4>1. <<ch[f][r \div 2], r % 2>> = <<ch[o][rec \div 2], rec % 2>>
          BY <1>2, <2>2, <3>1
        <4>2. PICK s : s = rec
          OBVIOUS
        <4>3. f \in Folder /\ o \in Folder /\ s \in Nat /\ s \div 2 < len[o]
              /\ <<ch[f][r \div 2], r % 2>> = <<ch[o][s \div 2], s % 2>>
          BY <1>2, <3>1, <4>1, <4>2
        <4>4. f = o /\ r = s
          BY <1>1, <4>3, SamePlace
        <4> QED BY <4>2, <4>4
      <3>3. op.kind = "delete" /\ page[Here] = op.name
        BY <1>0, <1>1, <1>2, <1>3, <1>4, <2>2, <3>2 DEF CardInv, Places
      <3> QED BY <1>0, <1>4, <2>2, <3>2, <3>3 DEF Deleting
    <2> QED BY <2>1, <2>2
  <1>5. ASSUME pc = "entry", page' = [page EXCEPT ![<<fresh, 0>>] = op.name]
        PROVE  page'[p] = page[p]
    <2>1. CASE p # <<fresh, 0>>
      BY <1>1, <1>3, <1>5, <2>1
    <2>2. CASE p = <<fresh, 0>>
      <3>1. fresh = ch[o][len[o] - 1] /\ length[o] <= 2 * (len[o] - 1)
        BY <1>0, <1>5 DEF CardInv, Places
      <3>2. 2 * (len[o] - 1) \in Nat /\ (2 * (len[o] - 1)) \div 2 = len[o] - 1
            /\ (2 * (len[o] - 1)) % 2 = 0 /\ len[o] - 1 < len[o]
        BY <1>2
      <3>3. f = o /\ r = 2 * (len[o] - 1)
        <4>1. PICK s : s = 2 * (len[o] - 1)
          OBVIOUS
        <4>2. f \in Folder /\ o \in Folder /\ s \in Nat /\ s \div 2 < len[o]
              /\ <<ch[f][r \div 2], r % 2>> = <<ch[o][s \div 2], s % 2>>
          BY <1>2, <2>2, <3>1, <3>2, <4>1
        <4>3. f = o /\ r = s
          BY <1>1, <4>2, SamePlace
        <4> QED BY <4>1, <4>3
      <3> QED BY <1>1, <1>2, <3>1, <3>3
    <2> QED BY <2>1, <2>2
  <1>6. CASE WriteEntry \/ WriteFault
    <2>1. pc = "write" /\ (page' = page \/ page' = [page EXCEPT ![Here] = NewEntry])
      BY <1>6, PutHere DEF WriteEntry, WriteFault
    <2> QED BY <1>4, <2>1
  <1>7. CASE FirstEntry \/ FirstEntryFault
    <2>1. pc = "entry" /\ (page' = page \/ page' = [page EXCEPT ![<<fresh, 0>>] = op.name])
      BY <1>7 DEF FirstEntry, FirstEntryFault, SetEntry
    <2> QED BY <1>5, <2>1
  <1>8. CASE Scan \/ ScanFault \/ Check \/ Allocate \/ Walk \/ Link \/ Terminate \/ AddFault
              \/ WildEntry \/ WildFault \/ Grow \/ GrowFault \/ UNCHANGED vars
    BY <1>8 DEF Scan, ScanFault, Check, Allocate, Walk, Link, Terminate, AddFault, WildEntry, WildFault,
                Grow, GrowFault, vars, dirVars
  <1>9. CASE \E g \in Folder, n \in Name : CreateAlias(g, n) \/ DeleteAlias(g, n)
    BY <1>9 DEF CreateAlias, DeleteAlias, dirVars
  <1> QED BY <1>6, <1>7, <1>8, <1>9 DEF Next, Step, StepFault

LEMMA NoShorter ==
  ASSUME NEW ch, NEW len, Chains(ch, len), CardInv(ch, len), [Next]_vars, NEW f \in Folder
  PROVE  length'[f] \in Nat /\ length'[f] >= length[f]
  <1>1. TypeOK /\ length[f] \in Nat /\ op.folder \in Folder
    BY ValuesAre DEF CardInv
  <1>2. CASE Grow \/ GrowFault
    <2>1. parent = length[op.folder]
      BY <1>2 DEF Grow, GrowFault, CardInv, Places
    <2>2. length' = [length EXCEPT ![op.folder] = length[op.folder] + 1] \/ length' = length
      BY <1>2, <2>1 DEF Grow, GrowFault
    <2>3. length'[f] = length[f] \/ length'[f] = length[f] + 1
      BY <1>1, <2>2 DEF TypeOK
    <2> QED BY <1>1, <2>3
  <1>3. CASE \E g \in Folder, n \in Name : CreateAlias(g, n) \/ DeleteAlias(g, n)
    BY <1>1, <1>3 DEF CreateAlias, DeleteAlias, dirVars
  <1>4. CASE Scan \/ ScanFault \/ WriteEntry \/ WriteFault \/ Check \/ Allocate \/ Walk \/ Link
              \/ Terminate \/ AddFault \/ FirstEntry \/ FirstEntryFault \/ WildEntry \/ WildFault
              \/ UNCHANGED vars
    BY <1>1, <1>4 DEF Scan, ScanFault, WriteEntry, WriteFault, Check, Allocate, Walk, Link, Terminate,
                AddFault, FirstEntry, FirstEntryFault, WildEntry, WildFault, vars, dirVars
  <1> QED BY <1>2, <1>3, <1>4 DEF Next, Step, StepFault

(* The page of a record of a folder is the same page after a step.         *)
LEMMA SamePage ==
  ASSUME NEW ch, NEW len, Chains(ch, len), CardInv(ch, len), NEW h, NEW m, Chains(h, m),
         Extends(ch, len, h, m), CardInv(h, m)', NEW f \in Folder, NEW r \in Records(f)
  PROVE  PageOf(f, r)' = PageOf(f, r)
  <1>1. /\ r \div 2 \in 0 .. len[f] - 1 /\ r \in Nat /\ PageOf(f, r) = <<ch[f][r \div 2], r % 2>>
        /\ len[f] \in Nat /\ m[f] \in Nat
    BY InChain DEF Chains
  <1>2. h[f][r \div 2] = ch[f][r \div 2] /\ r \div 2 < m[f]
    BY <1>1 DEF Extends
  <1>3. Placed(h, m, f, r)'
    BY <1>1, <1>2 DEF Placed, CardInv, Chains, TypeOK
  <1>4. PageOf(f, r)' = <<h[f][r \div 2], r % 2>>
    BY <1>3, NextPageIs
  <1> QED BY <1>1, <1>2, <1>4

(* Until AddFATRecord returns an error, no step, whether its access fails  *)
(* or not, takes away or moves an entry other than the one that the call   *)
(* is to delete.                                                           *)
THEOREM EntriesStay == Spec => EntriesKept
  <1> DEFINE Kept ==
        ~ Lost' =>
          \A f \in Folder : \A r \in Records(f) :
            page[PageOf(f, r)] \in Name \cup {Dot} =>
              \/ page'[PageOf(f, r)] = page[PageOf(f, r)] /\ PageOf(f, r)' = PageOf(f, r) /\ r \in Records(f)'
              \/ Deleting(f, page[PageOf(f, r)])
  <1>1. DirectoryInv /\ [Next]_vars => Kept
    <2> SUFFICES ASSUME DirectoryInv, [Next]_vars, ~ Lost', NEW f \in Folder, NEW r \in Records(f),
                        page[PageOf(f, r)] \in Name \cup {Dot}
                 PROVE  \/ /\ page'[PageOf(f, r)] = page[PageOf(f, r)]
                           /\ PageOf(f, r)' = PageOf(f, r) /\ r \in Records(f)'
                        \/ Deleting(f, page[PageOf(f, r)])
      OBVIOUS
    <2>0. ~ Lost /\ TypeOK'
      BY LostStays, TypeStep DEF DirectoryInv, TypeInv
    <2>1. PICK ch, len : Chains(ch, len) /\ CardInv(ch, len) /\ Working(ch, len)
      BY <2>0 DEF DirectoryInv
    <2>2. PICK h, m : Chains(h, m) /\ Extends(ch, len, h, m) /\ CardInv(h, m)'
      BY <2>0, <2>1, EveryStep, Zenon
    <2>3. PageOf(f, r)' = PageOf(f, r) /\ PageOf(f, r) = <<ch[f][r \div 2], r % 2>>
      BY <2>1, <2>2, SamePage, InChain
    <2>4. r \in Records(f)'
      <3>1. length'[f] \in Nat /\ length'[f] >= length[f] /\ length[f] \in Nat
        BY <2>1, NoShorter, ValuesAre DEF CardInv
      <3> QED BY <3>1 DEF Records
    <2>5. page'[PageOf(f, r)] = page[PageOf(f, r)] \/ Deleting(f, page[PageOf(f, r)])
      BY <2>1, <2>3, PageKept
    <2> QED BY <2>3, <2>4, <2>5
  <1>2. [](DirectoryInv) /\ [][Next]_vars => [][Kept]_vars
    BY <1>1, PTL
  <1> QED BY <1>2, DirectoryInvariant, PTL DEF Spec, EntriesKept

(***************************************************************************)
(* Folders as bags of names.  What is counted are the records of a folder  *)
(* that hold a name.                                                       *)
(***************************************************************************)
Cell(ch, f, r)  == <<ch[f][r \div 2], r % 2>>
Shown(ch, f, n) == {r \in Records(f) : page[Cell(ch, f, r)] = n}
Answer          == IF pc = "check" THEN "ok" ELSE result

LEMMA CountsAre ==
  ASSUME NEW ch, NEW len, NEW f, NEW n
  PROVE  Chains(ch, len) /\ CardInv(ch, len) /\ f \in Folder =>
           CountOf(f, n) = Cardinality(Shown(ch, f, n)) /\ IsFiniteSet(Shown(ch, f, n))
  <1> SUFFICES ASSUME Chains(ch, len), CardInv(ch, len), f \in Folder
               PROVE  CountOf(f, n) = Cardinality(Shown(ch, f, n)) /\ IsFiniteSet(Shown(ch, f, n))
    OBVIOUS
  <1>1. {r \in Records(f) : page[PageOf(f, r)] = n} = Shown(ch, f, n)
    BY InChain DEF Shown, Cell
  <1>2. IsFiniteSet(Records(f))
    <2>1. 0 \in Int /\ length[f] - 1 \in Int
      BY ValuesAre DEF CardInv
    <2> QED BY <2>1, FS_Interval, Zenon DEF Records
  <1>3. Shown(ch, f, n) \in SUBSET Records(f)
    BY DEF Shown
  <1>4. IsFiniteSet(Shown(ch, f, n))
    BY <1>2, <1>3, FS_Subset
  <1> QED BY <1>1, <1>4 DEF CountOf

LEMMA NextCountsAre ==
  ASSUME NEW ch, NEW len, NEW f, NEW n
  PROVE  (Chains(ch, len) /\ CardInv(ch, len) /\ f \in Folder =>
            CountOf(f, n) = Cardinality(Shown(ch, f, n)) /\ IsFiniteSet(Shown(ch, f, n)))'
  <1>1. Chains(ch, len) /\ CardInv(ch, len) /\ f \in Folder =>
          CountOf(f, n) = Cardinality(Shown(ch, f, n)) /\ IsFiniteSet(Shown(ch, f, n))
    BY CountsAre
  <1> QED BY <1>1, PTL

(* What is counted after a step, where no folder gets longer than the      *)
(* chains were.                                                            *)
LEMMA NextShown ==
  ASSUME NEW ch, NEW len, Chains(ch, len), NEW h, NEW m, Extends(ch, len, h, m),
         NEW f \in Folder, NEW n, length'[f] \in Nat, length'[f] <= 2 * len[f]
  PROVE  Shown(h, f, n)' = {r \in 0 .. length'[f] - 1 : page'[Cell(ch, f, r)] = n}
  <1>1. len[f] \in Nat
    BY DEF Chains
  <1>2. ASSUME NEW r \in 0 .. length'[f] - 1 PROVE Cell(h, f, r) = Cell(ch, f, r)
    <2>1. r \in Nat /\ r < 2 * len[f]
      BY <1>1
    <2>2. r \div 2 \in 0 .. len[f] - 1
      <3>1. r \div 2 \in Nat /\ r % 2 \in 0 .. 1 /\ r = 2 * (r \div 2) + (r % 2)
        BY <2>1, Halves
      <3> QED BY <1>1, <2>1, <3>1
    <2> QED BY <2>2 DEF Extends, Cell
  <1>3. Cell(h, f, 0)' = Cell(h, f, 0)
    BY DEF Cell
  <1>4. Shown(h, f, n)' = {r \in 0 .. length'[f] - 1 : page'[Cell(h, f, r)] = n}
    BY DEF Shown, Records, Cell
  <1> QED BY <1>2, <1>4

LEMMA SetsSame ==
  ASSUME NEW ch, NEW len, Chains(ch, len), CardInv(ch, len), NEW h, NEW m, Chains(h, m),
         Extends(ch, len, h, m), CardInv(h, m)', NEW f \in Folder, NEW n,
         length'[f] \in Nat, length'[f] <= 2 * len[f]
  PROVE  LET s == Shown(ch, f, n)
             t == {r \in 0 .. length'[f] - 1 : page'[Cell(ch, f, r)] = n}
         IN  /\ CountOf(f, n) \in Nat
             /\ t = s => CountOf(f, n)' = CountOf(f, n)
             /\ \A x : x \in s /\ t = s \ {x} =>
                  CountOf(f, n) > 0 /\ CountOf(f, n)' = CountOf(f, n) - 1
             /\ \A x : x \notin s /\ t = s \cup {x} => CountOf(f, n)' = CountOf(f, n) + 1
             /\ s = {} => CountOf(f, n) = 0
  <1> DEFINE s == Shown(ch, f, n)
             t == {r \in 0 .. length'[f] - 1 : page'[Cell(ch, f, r)] = n}
  <1>1. CountOf(f, n) = Cardinality(s) /\ IsFiniteSet(s)
    BY CountsAre
  <1>2. CountOf(f, n)' = Cardinality(t)
    <2>1. Chains(h, m)' /\ (f \in Folder)'
      BY DEF Chains
    <2>2. CountOf(f, n)' = Cardinality(Shown(h, f, n)')
      BY <2>1, NextCountsAre
    <2>3. Shown(h, f, n)' = t
      BY NextShown
    <2> HIDE DEF t
    <2> QED BY <2>2, <2>3
  <1> HIDE DEF s, t
  <1>3. Cardinality(s) \in Nat
    BY <1>1, FS_CardinalityType
  <1>4. ASSUME NEW x, x \in s, t = s \ {x}
        PROVE  CountOf(f, n) > 0 /\ CountOf(f, n)' = CountOf(f, n) - 1
    <2>1. Cardinality(t) = Cardinality(s) - 1
      BY <1>1, <1>4, FS_RemoveElement
    <2>2. Cardinality(t) \in Nat
      <3>1. IsFiniteSet(t)
        BY <1>1, <1>4, FS_RemoveElement
      <3> QED BY <3>1, FS_CardinalityType
    <2> QED BY <1>1, <1>2, <1>3, <2>1, <2>2
  <1>5. ASSUME NEW x, x \notin s, t = s \cup {x} PROVE CountOf(f, n)' = CountOf(f, n) + 1
    BY <1>1, <1>2, <1>5, FS_AddElement
  <1>6. s = {} => CountOf(f, n) = 0
    BY <1>1, FS_EmptySet
  <1> QED BY <1>1, <1>2, <1>3, <1>4, <1>5, <1>6 DEF s, t

(***************************************************************************)
(* The steps of the bag.                                                   *)
(***************************************************************************)
LEMMA Stutters ==
  ASSUME \A f \in Folder, n \in Name : CountOf(f, n)' = CountOf(f, n), Answer' = Answer
  PROVE  UNCHANGED List!vars
  BY DEF List!vars, Answer

LEMMA Creates ==
  ASSUME NEW f \in Folder, NEW n \in Name, CountOf(f, n)' = CountOf(f, n) + 1,
         \A g \in Folder, k \in Name : <<g, k>> # <<f, n>> => CountOf(g, k)' = CountOf(g, k),
         Answer' = "ok"
  PROVE  List!Next
  <1>1. List!Create(f, n)
    BY DEF List!Create, Answer
  <1> QED BY <1>1 DEF List!Next

LEMMA Deletes ==
  ASSUME NEW f \in Folder, NEW n \in Name, CountOf(f, n) > 0, CountOf(f, n)' = CountOf(f, n) - 1,
         \A g \in Folder, k \in Name : <<g, k>> # <<f, n>> => CountOf(g, k)' = CountOf(g, k),
         Answer' = "ok"
  PROVE  List!Next
  <1> DEFINE c == [e \in Folder \X Name |-> CountOf(e[1], e[2])]
  <1>1. c[<<f, n>>] > 0
    OBVIOUS
  <1>2. c' = [c EXCEPT ![<<f, n>>] = @ - 1]
    <2> DEFINE v == CountOf(f, n) - 1
    <2>1. c[<<f, n>>] - 1 = v
      OBVIOUS
    <2>2. c' = [e \in Folder \X Name |-> CountOf(e[1], e[2])']
      OBVIOUS
    <2>3. CountOf(f, n)' = v
      OBVIOUS
    <2> HIDE DEF v
    <2>4. \A e \in Folder \X Name : CountOf(e[1], e[2])' = IF e = <<f, n>> THEN v ELSE CountOf(e[1], e[2])
      <3> TAKE e \in Folder \X Name
      <3>1. e[1] \in Folder /\ e[2] \in Name /\ e = <<e[1], e[2]>>
        OBVIOUS
      <3>2. CASE e = <<f, n>>
        BY <2>3, <3>2
      <3>3. CASE e # <<f, n>>
        BY <3>1, <3>3
      <3> QED BY <3>2, <3>3
    <2>5. c' = [e \in Folder \X Name |-> IF e = <<f, n>> THEN v ELSE CountOf(e[1], e[2])]
      BY <2>2, <2>4
    <2>6. c' = [c EXCEPT ![<<f, n>>] = v]
      BY <2>5
    <2> QED BY <2>1, <2>6
  <1>3. List!Delete(f, n)
    BY <1>1, <1>2 DEF List!Delete, Answer
  <1> QED BY <1>3 DEF List!Next

LEMMA FindsNot ==
  ASSUME NEW f \in Folder, NEW n \in Name, CountOf(f, n) = 0,
         \A g \in Folder, k \in Name : CountOf(g, k)' = CountOf(g, k), Answer' = "error"
  PROVE  List!Next
  <1>1. List!NotFound(f, n)
    BY DEF List!NotFound, Answer
  <1> QED BY <1>1 DEF List!Next

(* A step of a card that works, with the chains before and after it.       *)
Works(ch, len, h, m) ==
  /\ Chains(ch, len) /\ CardInv(ch, len) /\ Working(ch, len)
  /\ Chains(h, m) /\ Extends(ch, len, h, m) /\ CardInv(h, m)'
  /\ SpaceChecked /\ faults' = 0

Puts(p, e) == page' = [page EXCEPT ![p] = e]

LEMMA WriteAt ==
  ASSUME NEW ch, NEW len, Chains(ch, len), CardInv(ch, len),
         NEW f \in Folder, NEW s \in Nat, s \div 2 < len[f],
         NEW e, Puts(Cell(ch, f, s), e),
         NEW g \in Folder, NEW r \in Nat, r \div 2 < len[g]
  PROVE  /\ g = f /\ r = s => page'[Cell(ch, g, r)] = e
         /\ ~ (g = f /\ r = s) => page'[Cell(ch, g, r)] = page[Cell(ch, g, r)]
  <1>1. page \in [Page -> Entry] /\ PagesPerCluster = 2
    BY ValuesAre DEF CardInv, TypeOK
  <1>2. Cell(ch, g, r) \in Page
    <2>1. r \div 2 \in Nat /\ r % 2 \in 0 .. 1
      BY Halves
    <2>2. ch[g][r \div 2] \in Cluster
      BY <2>1 DEF Chains
    <2> QED BY <1>1, <2>1, <2>2 DEF Cell, Page, Offset
  <1>3. CASE g = f /\ r = s
    BY <1>1, <1>2, <1>3 DEF Puts
  <1>4. CASE ~ (g = f /\ r = s)
    <2>1. Cell(ch, g, r) # Cell(ch, f, s)
      BY <1>4, SamePlace DEF Cell
    <2> QED BY <1>1, <1>2, <1>4, <2>1 DEF Puts
  <1> QED BY <1>3, <1>4

LEMMA SameLengths ==
  ASSUME NEW ch, NEW len, NEW h, NEW m, Works(ch, len, h, m), length' = length, NEW f \in Folder
  PROVE  /\ length'[f] \in Nat /\ length'[f] <= 2 * len[f] /\ 0 .. length'[f] - 1 = Records(f)
         /\ length[f] \in Nat /\ \A r \in Records(f) : r \in Nat /\ r \div 2 < len[f]
  <1>1. length[f] \in Nat /\ length[f] <= 2 * len[f] /\ len[f] \in Nat
    BY ValuesAre DEF Works, CardInv, Lengths
  <1>2. \A r \in Records(f) : r \in Nat /\ r \div 2 \in 0 .. len[f] - 1
    BY InChain DEF Works
  <1> QED BY <1>1, <1>2 DEF Records

LEMMA SameCounts ==
  ASSUME NEW ch, NEW len, NEW h, NEW m, Works(ch, len, h, m), length' = length,
         NEW f \in Folder, NEW n,
         \A r \in Records(f) : page'[Cell(ch, f, r)] = n <=> page[Cell(ch, f, r)] = n
  PROVE  CountOf(f, n)' = CountOf(f, n)
  <1>1. {r \in 0 .. length'[f] - 1 : page'[Cell(ch, f, r)] = n} = Shown(ch, f, n)
    BY SameLengths DEF Shown
  <1> QED BY <1>1, SameLengths, SetsSame DEF Works

LEMMA OneLess ==
  ASSUME NEW ch, NEW len, NEW h, NEW m, Works(ch, len, h, m), length' = length,
         NEW f \in Folder, NEW n, NEW x, x \in Shown(ch, f, n),
         {r \in 0 .. length'[f] - 1 : page'[Cell(ch, f, r)] = n} = Shown(ch, f, n) \ {x}
  PROVE  CountOf(f, n) > 0 /\ CountOf(f, n)' = CountOf(f, n) - 1
  <1>1. length'[f] \in Nat /\ length'[f] <= 2 * len[f]
    BY SameLengths
  <1> QED BY <1>1, SetsSame DEF Works

LEMMA OneMore ==
  ASSUME NEW ch, NEW len, NEW h, NEW m, Works(ch, len, h, m),
         NEW f \in Folder, NEW n, NEW x, x \notin Shown(ch, f, n),
         length'[f] \in Nat, length'[f] <= 2 * len[f],
         {r \in 0 .. length'[f] - 1 : page'[Cell(ch, f, r)] = n} = Shown(ch, f, n) \cup {x}
  PROVE  CountOf(f, n)' = CountOf(f, n) + 1
  BY SetsSame DEF Works

LEMMA SamePages ==
  ASSUME NEW ch, NEW len, NEW h, NEW m, Works(ch, len, h, m), length' = length, page' = page
  PROVE  \A f \in Folder, n \in Name : CountOf(f, n)' = CountOf(f, n)
  BY SameCounts

LEMMA ScanLists ==
  ASSUME NEW ch, NEW len, NEW h, NEW m, Works(ch, len, h, m), Scan
  PROVE  List!Next \/ UNCHANGED List!vars
  <1> DEFINE f == op.folder
             n == op.name
             k == rec \div 2
  <1>0. Chains(ch, len) /\ CardInv(ch, len)
    BY DEF Works
  <1>1. /\ pc = "scan" /\ faults = 0 /\ UNCHANGED <<page, length>>
        /\ \A g \in Folder, e \in Name : CountOf(g, e)' = CountOf(g, e)
    BY SamePages DEF Scan, Works, dirVars
  <1>2. CASE pc' # "idle"
    <2>1. Answer' = Answer
      <3>1. pc' # "check" /\ result' = result
        BY <1>0, <1>2, ScanHere DEF ScanFails, Goto, Return
      <3> QED BY <1>1, <3>1 DEF Answer
    <2> QED BY <1>1, <2>1, Stutters
  <1>3. CASE pc' = "idle"
    <2>1. /\ op.kind # "create" /\ ~ Wanted(page[Here]) /\ Answer' = "error"
          /\ PastEnd \/ (LastOfCluster /\ IsEnd(at))
      BY <1>0, <1>3, ScanHere DEF ScanFails, Goto, Return, Answer
    <2>2. /\ TypeOK /\ f \in Folder /\ n \in Name /\ rec \in Nat /\ len[f] \in Nat /\ length[f] \in Nat
          /\ PagesPerCluster = 2 /\ Here = <<at, rec % 2>> /\ op.kind = "delete" /\ End \notin Cluster
      BY <2>1, ValuesAre DEF Works, CardInv
    <2>3. at = ch[f][k] /\ k < len[f] /\ rec <= length[f] /\ length[f] <= 2 * len[f]
      BY <1>1, <2>2 DEF Works, CardInv, Places, Lengths
    <2>4. \A r \in 0 .. rec - 1 : Holds(ch, f, r) # n
      BY <1>1, <2>2 DEF Works, Working
    <2>5. rec < length[f] => Holds(ch, f, rec) # n /\ rec + 1 = length[f]
      <3> SUFFICES ASSUME rec < length[f] PROVE Holds(ch, f, rec) # n /\ rec + 1 = length[f]
        OBVIOUS
      <3>1. ~ PastEnd /\ page[Here] # n /\ (rec + 1) % 2 = 0 /\ IsEnd(at)
        BY <2>1, <2>2 DEF Wanted, PastEnd, LastOfCluster
      <3>2. k \in Nat /\ k \in 0 .. len[f] - 1
        BY <2>2, <2>3, Halves
      <3>3. next[at] = End /\ (k + 1 < len[f] => next[at] = ch[f][k + 1] /\ ch[f][k + 1] \in Cluster)
        <4>1. k + 1 \in Nat
          BY <3>2
        <4> QED BY <1>0, <2>2, <2>3, <3>1, <3>2, <4>1, ValuesAre DEF CardInv, Linked, IsEnd
      <3>4. k + 1 = len[f]
        BY <2>2, <3>2, <3>3
      <3>5. rec % 2 = 1 /\ rec = 2 * k + (rec % 2)
        BY <2>2, <3>1, Halves
      <3>6. rec + 1 = length[f]
        BY <2>2, <2>3, <3>4, <3>5
      <3> QED BY <2>2, <2>3, <3>1, <3>6 DEF Holds
    <2>6. Shown(ch, f, n) = {}
      <3> SUFFICES ASSUME NEW r \in 0 .. length[f] - 1, Holds(ch, f, r) = n PROVE FALSE
        BY DEF Shown, Records, Holds, Cell
      <3>1. r \in 0 .. rec - 1 \/ (r = rec /\ rec < length[f])
        BY <2>2, <2>3, <2>5
      <3> QED BY <2>4, <2>5, <3>1
    <2>7. CountOf(f, n) = 0
      <3>1. length'[f] \in Nat /\ length'[f] <= 2 * len[f]
        BY <1>1, <2>2, <2>3
      <3> QED BY <2>2, <2>6, <3>1, SetsSame DEF Works
    <2> QED BY <1>1, <2>1, <2>2, <2>7, FindsNot
  <1> QED BY <1>2, <1>3

LEMMA WriteLists ==
  ASSUME NEW ch, NEW len, NEW h, NEW m, Works(ch, len, h, m), WriteEntry,
         NEW f, f = op.folder, NEW n, n = op.name
  PROVE  List!Next \/ UNCHANGED List!vars
  <1>1. /\ TypeOK /\ f \in Folder /\ n \in Name /\ rec \in Nat /\ len[f] \in Nat /\ length[f] \in Nat
        /\ PagesPerCluster = 2 /\ Here = <<at, rec % 2>> /\ n # Gone
    BY ValuesAre, EntryAssumption DEF Works, CardInv
  <1>2. /\ pc = "write" /\ length' = length /\ page' = [page EXCEPT ![Here] = NewEntry]
        /\ at = ch[f][rec \div 2] /\ rec \div 2 < len[f]
    <2>1. pc = "write" /\ Chains(ch, len) /\ CardInv(ch, len)
      BY DEF WriteEntry, Works
    <2> QED BY <2>1, PutHere DEF WriteEntry, CardInv, Places
  <1>3. Here = Cell(ch, f, rec)
    BY <1>1, <1>2 DEF Cell
  <1>4. ASSUME NEW g \in Folder, NEW r \in Records(g)
        PROVE  page'[Cell(ch, g, r)] = IF g = f /\ r = rec THEN NewEntry ELSE page[Cell(ch, g, r)]
    <2>1. r \in Nat /\ r \div 2 < len[g]
      BY <1>2, SameLengths
    <2>2. PICK s, e : s = rec /\ e = NewEntry
      OBVIOUS
    <2>3. s \in Nat /\ s \div 2 < len[f] /\ Puts(Cell(ch, f, s), e)
      BY <1>1, <1>2, <1>3, <2>2 DEF Puts
    <2>4. Chains(ch, len) /\ CardInv(ch, len)
      BY DEF Works
    <2>5. f \in Folder /\ g \in Folder /\ r \in Nat /\ s \in Nat
      BY <1>1, <2>1, <2>3
    <2>6. /\ g = f /\ r = s => page'[Cell(ch, g, r)] = e
          /\ ~ (g = f /\ r = s) => page'[Cell(ch, g, r)] = page[Cell(ch, g, r)]
      BY <2>1, <2>3, <2>4, <2>5, WriteAt
    <2> QED BY <2>2, <2>6
  <1>5. ASSUME NEW g \in Folder, NEW e \in Name, <<g, e>> # <<f, n>>,
               rec \in Records(f) => page[Here] \in {n, Gone}
        PROVE  CountOf(g, e)' = CountOf(g, e)
    <2>1. e # Gone /\ NewEntry \in {n, Gone}
      BY EntryAssumption DEF NewEntry
    <2>2. \A r \in Records(g) : page'[Cell(ch, g, r)] = e <=> page[Cell(ch, g, r)] = e
      <3> TAKE r \in Records(g)
      <3>1. CASE g = f /\ r = rec
        BY <1>3, <1>4, <1>5, <2>1, <3>1
      <3>2. CASE ~ (g = f /\ r = rec)
        BY <1>4, <3>2
      <3> QED BY <3>1, <3>2
    <2> QED BY <1>2, <2>2, SameCounts
  <1>6. rec \in Records(f) <=> rec < length[f]
    BY <1>1 DEF Records
  <1>7. CASE op.kind = "delete"
    <2>1. page[Here] = n /\ rec \in Records(f) /\ NewEntry = Gone
      BY <1>1, <1>2, <1>6, <1>7 DEF Works, CardInv, Places, NewEntry
    <2>2. Answer' = "ok"
      BY <1>7 DEF WriteEntry, Goto, Answer
    <2>3. {r \in 0 .. length'[f] - 1 : page'[Cell(ch, f, r)] = n} = Shown(ch, f, n) \ {rec}
      BY <1>1, <1>2, <1>4, <2>1, SameLengths DEF Shown
    <2>4. rec \in Shown(ch, f, n)
      BY <1>3, <2>1 DEF Shown
    <2>5. CountOf(f, n) > 0 /\ CountOf(f, n)' = CountOf(f, n) - 1
      <3> QED BY <1>1, <1>2, <2>3, <2>4, OneLess
    <2>6. \A g \in Folder, e \in Name : <<g, e>> # <<f, n>> => CountOf(g, e)' = CountOf(g, e)
      BY <1>5, <2>1
    <2> QED BY <1>1, <2>2, <2>5, <2>6, Deletes
  <1>8. CASE op.kind = "create" /\ rec < length[f]
    <2>1. page[Here] = Gone /\ rec \in Records(f) /\ NewEntry = n
      BY <1>1, <1>2, <1>6, <1>8 DEF Works, CardInv, Places, NewEntry
    <2>2. Answer' = "ok"
      BY <1>1, <1>8 DEF WriteEntry, Goto, Return, Answer, GrowsNext, Unused, PastEnd
    <2>3. {r \in 0 .. length'[f] - 1 : page'[Cell(ch, f, r)] = n} = Shown(ch, f, n) \cup {rec}
      BY <1>1, <1>2, <1>4, <2>1, SameLengths DEF Shown
    <2>4. rec \notin Shown(ch, f, n)
      BY <1>1, <1>3, <2>1 DEF Shown
    <2>5. CountOf(f, n)' = CountOf(f, n) + 1
      <3> QED BY <1>1, <1>2, <2>3, <2>4, OneMore, SameLengths
    <2>6. \A g \in Folder, e \in Name : <<g, e>> # <<f, n>> => CountOf(g, e)' = CountOf(g, e)
      BY <1>5, <2>1
    <2> QED BY <1>1, <2>2, <2>5, <2>6, Creates
  <1>9. CASE op.kind = "create" /\ ~ (rec < length[f])
    <2>1. rec >= length[f] /\ rec % 2 # 0
      BY <1>1, <1>2, <1>9 DEF Works, CardInv, Places
    <2>2. Answer' = Answer
      BY <1>1, <1>2, <1>9, <2>1 DEF WriteEntry, Goto, Return, Answer, GrowsNext, Unused, PastEnd
    <2>3. \A g \in Folder, e \in Name : CountOf(g, e)' = CountOf(g, e)
      <3> TAKE g \in Folder, e \in Name
      <3>1. \A r \in Records(g) : page'[Cell(ch, g, r)] = page[Cell(ch, g, r)]
        BY <1>4, <1>6, <1>9
      <3> QED BY <1>2, <3>1, SameCounts
    <2> QED BY <2>2, <2>3, Stutters
  <1> QED BY <1>1, <1>7, <1>8, <1>9, ValuesAre DEF Works, CardInv

(* The new entry of a new cluster does not count before the length does.   *)
LEMMA EntryLists ==
  ASSUME NEW ch, NEW len, NEW h, NEW m, Works(ch, len, h, m), FirstEntry,
         NEW f, f = op.folder
  PROVE  List!Next \/ UNCHANGED List!vars
  <1>1. /\ TypeOK /\ f \in Folder /\ len[f] \in Nat /\ len[f] >= 1 /\ length[f] \in Nat
    BY ValuesAre DEF Works, CardInv
  <1>2. /\ pc = "entry" /\ length' = length /\ page' = [page EXCEPT ![<<fresh, 0>>] = op.name]
        /\ fresh = ch[f][len[f] - 1] /\ length[f] <= 2 * (len[f] - 1)
    BY DEF FirstEntry, SetEntry, Works, CardInv, Places
  <1>3. PICK s, e : s = 2 * (len[f] - 1) /\ e = op.name
    OBVIOUS
  <1>4. s \in Nat /\ s \div 2 = len[f] - 1 /\ s % 2 = 0 /\ s \div 2 < len[f]
    BY <1>1, <1>3
  <1>5. Puts(Cell(ch, f, s), e)
    BY <1>2, <1>3, <1>4 DEF Puts, Cell
  <1>6. \A g \in Folder : \A r \in Records(g) : page'[Cell(ch, g, r)] = page[Cell(ch, g, r)]
    <2> TAKE g \in Folder
    <2> TAKE r \in Records(g)
    <2>1. r \in Nat /\ r \div 2 < len[g]
      BY <1>2, SameLengths
    <2>2. ~ (g = f /\ r = s)
      BY <1>1, <1>2, <1>3 DEF Records
    <2>3. Chains(ch, len) /\ CardInv(ch, len)
      BY DEF Works
    <2> QED BY <1>1, <1>4, <1>5, <2>1, <2>2, <2>3, WriteAt
  <1>7. \A g \in Folder, n \in Name : CountOf(g, n)' = CountOf(g, n)
    BY <1>2, <1>6, SameCounts
  <1>8. Answer' = Answer
    BY <1>2 DEF FirstEntry, Goto, Answer
  <1> QED BY <1>7, <1>8, Stutters

(* The entry past the end becomes one of the folder's.                     *)
LEMMA GrowLists ==
  ASSUME NEW ch, NEW len, NEW h, NEW m, Works(ch, len, h, m), Grow,
         NEW f, f = op.folder, NEW n, n = op.name
  PROVE  List!Next \/ UNCHANGED List!vars
  <1>1. /\ TypeOK /\ f \in Folder /\ n \in Name /\ faults = 0
        /\ \A g \in Folder : len[g] \in Nat /\ length[g] \in Nat /\ length[g] <= 2 * len[g]
    BY ValuesAre DEF Works, CardInv, Grow, Lengths
  <1>2. /\ pc = "grow" /\ page' = page /\ parent = length[f] /\ length[f] + 1 <= 2 * len[f]
        /\ length' = [length EXCEPT ![f] = length[f] + 1]
    BY DEF Grow, Works, CardInv, Places
  <1>3. page[Cell(ch, f, length[f])] = n
    BY <1>1, <1>2 DEF Works, Working, Holds, Cell
  <1>4. PICK x : x = length[f]
    OBVIOUS
  <1>5. /\ length'[f] = x + 1 /\ x \in Nat
        /\ \A g \in Folder : g # f => length'[g] = length[g]
    BY <1>1, <1>2, <1>4 DEF TypeOK
  <1>6. x \notin Records(f) /\ 0 .. length'[f] - 1 = Records(f) \cup {x}
    BY <1>1, <1>4, <1>5 DEF Records
  <1>7. CountOf(f, n)' = CountOf(f, n) + 1
    <2>1. {r \in 0 .. length'[f] - 1 : page'[Cell(ch, f, r)] = n} = Shown(ch, f, n) \cup {x}
      BY <1>2, <1>3, <1>4, <1>6 DEF Shown
    <2>2. x \notin Shown(ch, f, n)
      BY <1>6 DEF Shown
    <2>3. length'[f] \in Nat /\ length'[f] <= 2 * len[f]
      BY <1>1, <1>2, <1>4, <1>5
    <2> QED BY <1>1, <2>1, <2>2, <2>3, OneMore
  <1>8. \A g \in Folder, e \in Name : <<g, e>> # <<f, n>> => CountOf(g, e)' = CountOf(g, e)
    <2> SUFFICES ASSUME NEW g \in Folder, NEW e \in Name, <<g, e>> # <<f, n>>
                 PROVE  CountOf(g, e)' = CountOf(g, e)
      OBVIOUS
    <2>1. length'[g] \in Nat /\ length'[g] <= 2 * len[g]
      BY <1>1, <1>2, <1>4, <1>5
    <2>2. {r \in 0 .. length'[g] - 1 : page'[Cell(ch, g, r)] = e} = Shown(ch, g, e)
      <3>1. CASE g = f
        <4>1. page[Cell(ch, g, x)] # e
          BY <1>3, <1>4, <3>1
        <4> QED BY <1>2, <1>6, <3>1, <4>1 DEF Shown
      <3>2. CASE g # f
        BY <1>2, <1>5, <3>2 DEF Shown, Records
      <3> QED BY <3>1, <3>2
    <2> QED BY <2>1, <2>2, SetsSame DEF Works
  <1>9. Answer' = "ok"
    BY DEF Grow, Return, Answer
  <1> QED BY <1>1, <1>7, <1>8, <1>9, Creates

(* The steps that change neither an entry nor a length.                    *)
LEMMA QuietLists ==
  ASSUME NEW ch, NEW len, NEW h, NEW m, Works(ch, len, h, m),
         \/ \E f \in Folder, n \in Name : CreateAlias(f, n) \/ DeleteAlias(f, n)
         \/ Check \/ Allocate \/ Walk \/ Link \/ Terminate
  PROVE  List!Next \/ UNCHANGED List!vars
  <1>1. ~ Fault
    BY ValuesAre DEF Works, CardInv, Fault
  <1>2. /\ length' = length /\ page' = page
        /\ Answer' = Answer
    <2>1. CASE \E f \in Folder, n \in Name : CreateAlias(f, n) \/ DeleteAlias(f, n)
      BY <1>1, <2>1 DEF CreateAlias, DeleteAlias, Goto, dirVars, Answer
    <2>2. CASE Check
      BY <1>1, <2>2 DEF Check, Return, dirVars, Answer
    <2>3. CASE Allocate \/ Walk
      BY <2>3 DEF Allocate, Walk, Goto, dirVars, Answer
    <2>4. CASE Link \/ Terminate
      BY <2>4 DEF Link, Terminate, Goto, Answer
    <2> QED BY <2>1, <2>2, <2>3, <2>4
  <1>3. \A f \in Folder, n \in Name : CountOf(f, n)' = CountOf(f, n)
    BY <1>2, SamePages
  <1> QED BY <1>2, <1>3, Stutters

LEMMA ListSteps ==
  ASSUME NEW ch, NEW len, NEW h, NEW m, Works(ch, len, h, m), [Next]_vars
  PROVE  List!Next \/ UNCHANGED List!vars
  <1>1. PICK f, n : f = op.folder /\ n = op.name
    OBVIOUS
  <1>2. ~ Fault
    BY ValuesAre DEF Works, CardInv, Fault
  <1>3. CASE Scan \/ WriteEntry \/ FirstEntry \/ Grow
    BY <1>1, <1>3, ScanLists, WriteLists, EntryLists, GrowLists
  <1>4. CASE \/ \E g \in Folder, e \in Name : CreateAlias(g, e) \/ DeleteAlias(g, e)
             \/ Check \/ Allocate \/ Walk \/ Link \/ Terminate
    BY <1>4, QuietLists
  <1>5. CASE WildEntry
    BY <1>5 DEF WildEntry, Works, CardInv, Lost
  <1>6. CASE StepFault
    BY <1>2, <1>6 DEF StepFault, ScanFault, WriteFault, AddFault, FirstEntryFault, WildFault, GrowFault
  <1>7. CASE UNCHANGED vars
    <2>1. length' = length /\ page' = page /\ Answer' = Answer
      BY <1>7 DEF vars, Answer
    <2> QED BY <2>1, SamePages, Stutters
  <1> QED BY <1>3, <1>4, <1>5, <1>6, <1>7 DEF Next, Step

LEMMA ListStarts ==
  ASSUME Init
  PROVE  List!Init
  <1>1. PICK ch, len : Chains(ch, len) /\ CardInv(ch, len)
    BY InitChains
  <1>2. \A f \in Folder : length[f] = 2 /\ ch[f][0] = Start[f]
    BY <1>1 DEF Init, CardInv, Linked
  <1>3. \A f \in Folder : page[<<Start[f], 0>>] = Dot /\ page[<<Start[f], 1>>] = Dot
    <2> TAKE f \in Folder
    <2>1. <<Start[f], 0>> \in Page /\ <<Start[f], 1>> \in Page /\ Start[f] \in used
      BY StartAssumption, SizeAssumption DEF Init, Page, Offset
    <2> QED BY <2>1 DEF Init
  <1>4. ASSUME NEW f \in Folder, NEW n \in Name PROVE CountOf(f, n) = 0
    <2>1. Shown(ch, f, n) = {}
      <3> SUFFICES ASSUME NEW r \in Records(f), page[Cell(ch, f, r)] = n PROVE FALSE
        BY DEF Shown
      <3>1. r \in {0, 1}
        BY <1>2 DEF Records
      <3>2. r \div 2 = 0 /\ r % 2 \in {0, 1}
        BY <3>1
      <3> QED BY <1>2, <1>3, <3>2, EntryAssumption DEF Cell
    <2>2. CountOf(f, n) = Cardinality(Shown(ch, f, n))
      BY <1>1, CountsAre
    <2> QED BY <2>1, <2>2, FS_EmptySet
  <1>5. [e \in Folder \X Name |-> CountOf(e[1], e[2])] = [e \in Folder \X Name |-> 0]
    BY <1>4
  <1>6. (IF pc = "check" THEN "ok" ELSE result) = "ok"
    BY DEF Init
  <1> QED BY <1>5, <1>6 DEF List!Init

(* While there is room and no access fails, the calls, with all the pages, *)
(* links and lengths they read and write, make and remove one name each.   *)
THEOREM ListingImplemented == SpaceChecked => (Spec => ListingSpec)
  <1> SUFFICES ASSUME SpaceChecked PROVE Spec => ListingSpec
    OBVIOUS
  <1>1. Init => List!Init
    BY ListStarts
  <1>2. DirectoryInv /\ [Next]_vars => [faults' = 0 => List!Next]_(List!vars)
    <2> SUFFICES ASSUME DirectoryInv, [Next]_vars, faults' = 0
                 PROVE  List!Next \/ UNCHANGED List!vars
      OBVIOUS
    <2>0. ~ Lost /\ ~ Lost' /\ TypeOK'
      <3>1. TypeOK /\ TypeInv' /\ TypeOK'
        BY TypeStep DEF DirectoryInv, TypeInv
      <3>2. ~ Lost
        BY <3>1, FaultsGrow DEF DirectoryInv
      <3>3. PICK ch, len : Chains(ch, len) /\ CardInv(ch, len) /\ Working(ch, len)
        BY <3>2 DEF DirectoryInv
      <3> QED BY <3>1, <3>2, <3>3, KeepsRoom
    <2>1. PICK ch, len : Chains(ch, len) /\ CardInv(ch, len) /\ Working(ch, len)
      BY <2>0 DEF DirectoryInv
    <2>2. PICK h, m : Chains(h, m) /\ Extends(ch, len, h, m) /\ CardInv(h, m)'
      BY <2>0, <2>1, EveryStep, Zenon
    <2>3. Works(ch, len, h, m)
      BY <2>1, <2>2 DEF Works
    <2> QED BY <2>3, ListSteps
  <1> QED BY <1>1, <1>2, DirectoryInvariant, PTL DEF Spec, ListingSpec
=============================================================================
