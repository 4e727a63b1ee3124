--------------------------- MODULE CardDirectory ---------------------------
(***************************************************************************)
(* How MCTOOLS.IRX adds entries to the directories of a Memory Card, and   *)
(* removes them.                                                           *)
(*   irx/source/mctools/src/mctools.c   CreateNewVirtualDirent,            *)
(*                                      DeleteVirtualDirent and the        *)
(*                                      functions they are made of         *)
(*                                                                         *)
(* An entry fills a page, a cluster holds PagesPerCluster of them, and the *)
(* FAT chains the clusters of a directory.  The number of its entries is   *)
(* kept in the directory's own entry, in the root directory.  All of it is *)
(* read and written through the page cache, as the array of pages that     *)
(* CardStore describes; any of these accesses may fail.                    *)
(*                                                                         *)
(* An error of AddFATRecord is taken for the number of a cluster: the call *)
(* writes its entry below the clusters for files, where the FAT is,        *)
(* reports success, and the calls after it work on what is left.           *)
(*                                                                         *)
(* Folders are directories of the root directory, "B?EXEC-SYSTEM".  Their  *)
(* first clusters never change; only their lengths do.                     *)
(***************************************************************************)
EXTENDS Naturals, FiniteSets

CONSTANTS
  NumClusters,       \* the clusters that files may use; 0 is the root directory
  PagesPerCluster,   \* pages_per_cluster
  Folder,
  Start,             \* the first cluster of each folder
  Name,              \* the names of entries
  Dot,               \* the name "." or ".."
  Gone,              \* an entry without the "exists" bit, 0x8000
  Stale,             \* what a FAT record that is no link of a chain may say
  FatPages,          \* which clusters' records a page of the FAT holds
  MaxFaults,         \* how many accesses to the card may fail
  MaxLength,         \* bound on the length of a folder
  SpaceChecked       \* whether aliases are only created while there is room

Cluster == 0 .. NumClusters - 1
Offset  == 0 .. PagesPerCluster - 1
Page    == Cluster \X Offset
Entry   == Name \cup {Dot, Gone}

(* GetSetFileData takes an entry in cluster 0 for the root directory       *)
(* itself (mctools.c:563, 581): this is right while "." and ".." fill it.  *)
ASSUME SizeAssumption ==
  /\ NumClusters \in Nat \ {0}
  /\ PagesPerCluster = 2
  /\ MaxFaults \in Nat
  /\ MaxLength \in Nat
  /\ SpaceChecked \in BOOLEAN

ASSUME StartAssumption ==
  /\ Start \in [Folder -> Cluster \ {0}]
  /\ \A f, g \in Folder : Start[f] = Start[g] => f = g

(* The root directory's own clusters are in the first page of the FAT,     *)
(* which no error code leads to.                                           *)
ASSUME FatAssumption ==
  /\ Stale \subseteq Cluster \cup {NumClusters}
  /\ Stale # {}
  /\ FatPages \subseteq SUBSET (Cluster \ {0}) /\ FatPages # {}

ASSUME EntryAssumption == Dot \notin Name /\ Gone \notin Name /\ Dot # Gone

End     == NumClusters        \* the last link of a chain, 0xFFFFFFFF
Nowhere == NumClusters + 1    \* what 0x7FFFFFFF in the FAT leads to

VARIABLES
  used,       \* the clusters whose FAT record has its top bit set
  next,       \* the links of the FAT
  page,       \* the entry in each page
  length,     \* the length in the directory entry of each folder
  pc,         \* where the call in progress stands
  op,         \* the call: create or delete, folder and name
  parent,     \* ParentDirEnt.length
  rec,        \* recordID of ScanThroughDirEnt
  at,         \* *ClusterNum of ScanThroughDirEnt, ClusterNum of AddFATRecord
  fresh,      \* NewRecClusterNum
  result,     \* the result of the last call
  wild,       \* history: an error of AddFATRecord was taken for a cluster
  faults      \* how many accesses have failed

vars == <<used, next, page, length, pc, op, parent, rec, at, fresh, result, wild, faults>>

dirVars == <<used, next, page, length>>

(* The folders are empty.  A free cluster may still hold old entries, and  *)
(* its FAT record an old link; End stands there for 0x7FFFFFFF.            *)
Init ==
  /\ used = {0} \cup {Start[f] : f \in Folder}
  /\ \E old \in [Cluster -> Stale] :
       next = [c \in Cluster |-> IF c \in used THEN End ELSE old[c]]
  /\ \E old \in Name \cup {Gone} :
       page = [p \in Page |-> IF p[1] \in used /\ p[2] < 2 THEN Dot ELSE old]
  /\ length = [f \in Folder |-> 2]
  /\ pc = "idle"
  /\ op \in [kind : {"delete"}, folder : Folder, name : Name]
  /\ parent = 2
  /\ rec = 0
  /\ at = 0
  /\ fresh = 0
  /\ result = "ok"
  /\ wild = FALSE
  /\ faults = 0

(* An access fails; or none does. *)
Fault   == faults < MaxFaults /\ faults' = faults + 1
NoFault == UNCHANGED faults

Return(r) == pc' = "idle" /\ result' = r
Goto(l)   == pc' = l /\ UNCHANGED result

(***************************************************************************)
(* The FAT.                                                                *)
(***************************************************************************)
FreeClusters_Any == Cluster \ {0}                \* mutant: the top bit is not tested

(* The clusters the search of AddFATRecord would accept. *)
FreeClusters == Cluster \ used

IsEnd(c)  == c \in used /\ next[c] = End
LinkOf(c) == IF c \in Cluster /\ next[c] # End THEN next[c] ELSE Nowhere

(* UpdateFatTableIndexData *)
SetLink(c, d) ==
  /\ used' = used \cup {c}
  /\ next' = [next EXCEPT ![c] = d]

SetEntry(p, e) == page' = [page EXCEPT ![p] = e]

(* An entry is written over a page of the FAT.  Which, and what the bytes  *)
(* of the entry say as FAT records, is not known.                          *)
OverwriteFat ==
  \E lost \in FatPages : \E u \in SUBSET lost, l \in [lost -> Stale] :
    /\ used' = (used \ lost) \cup u
    /\ next' = [c \in Cluster |-> IF c \in lost THEN l[c] ELSE next[c]]

(***************************************************************************)
(* Calls.  CreateNewVirtualDirent first reads the folder's own entry.      *)
(***************************************************************************)
Room == SpaceChecked => FreeClusters # {}

StartScan(f) == rec' = 0 /\ at' = Start[f]

CreateAlias(f, n) ==
  /\ pc = "idle" /\ Room /\ length[f] < MaxLength
  /\ op' = [kind |-> "create", folder |-> f, name |-> n]
  /\ StartScan(f)
  /\ \/ parent' = length[f] /\ Goto("scan") /\ NoFault
     \/ Fault /\ Return("error") /\ UNCHANGED parent
  /\ UNCHANGED <<dirVars, fresh, wild>>

DeleteAlias(f, n) ==
  /\ pc = "idle"
  /\ op' = [kind |-> "delete", folder |-> f, name |-> n]
  /\ StartScan(f)
  /\ Goto("scan")
  /\ UNCHANGED <<dirVars, parent, fresh, wild, faults>>

(***************************************************************************)
(* ScanThroughDirEnt.  To create (mode 1), it looks for a page that holds  *)
(* no entry; to delete (mode 0), for the entry of that name.               *)
(***************************************************************************)
Here      == <<at, rec % PagesPerCluster>>
PastEnd   == rec >= length[op.folder]

(* A link of 0x7FFFFFFF leads to the last page numbers below alloc_start,  *)
(* in 32 bits: a page of the FAT is taken for an entry, in use or not.     *)
Seen == IF at = Nowhere THEN {Dot, Gone} ELSE {page[Here]}

(* Mutant: a page is taken whatever is in it. *)
Reusable_Always(e) == ~ PastEnd

Reusable(e) == ~ PastEnd /\ e = Gone

Unused      == PastEnd /\ rec % PagesPerCluster # 0

Wanted(e) ==
  IF op.kind = "create" THEN Reusable(e) \/ Unused
                        ELSE ~ PastEnd /\ e = op.name

LastOfCluster == (rec + 1) % PagesPerCluster = 0
ChainStops    == LastOfCluster /\ (IsEnd(at) \/ at = Nowhere)
CanGoOn       == ~ PastEnd /\ ~ ChainStops

ScanFails == IF op.kind = "create" THEN Goto("alloc") ELSE Return("error")

Found ==
  /\ \E e \in Seen : Wanted(e)
  /\ Goto("write")
  /\ UNCHANGED <<rec, at>>

NotFound ==
  /\ \E e \in Seen : ~ Wanted(e)
  /\ IF CanGoOn
       THEN /\ rec' = rec + 1
            /\ at' = IF LastOfCluster THEN LinkOf(at) ELSE at
            /\ Goto("scan")
       ELSE ScanFails /\ UNCHANGED <<rec, at>>

Scan ==
  /\ pc = "scan"
  /\ Found \/ NotFound
  /\ UNCHANGED <<dirVars, op, parent, fresh, wild, faults>>

(* A page or a FAT record cannot be read.  To create, any failure of this  *)
(* search is taken to mean that there is no page.                          *)
ScanFault ==
  /\ pc = "scan" /\ Fault
  /\ ScanFails
  /\ UNCHANGED <<dirVars, op, parent, rec, at, fresh, wild>>

NewEntry == IF op.kind = "create" THEN op.name ELSE Gone

(* Mutant: the length grows for a reused page too. *)
GrowsNext_Always == TRUE

GrowsNext == Unused

(* UpdateDirEntInformation, on the page that was found.                    *)
Put(e) == IF at = Nowhere THEN OverwriteFat /\ UNCHANGED page
                          ELSE SetEntry(Here, e) /\ UNCHANGED <<used, next>>

(* To delete, the folder's entry is then read again, for nothing. *)
WriteEntry ==
  /\ pc = "write"
  /\ Put(NewEntry)
  /\ IF op.kind = "delete" THEN Goto("check")
     ELSE IF GrowsNext THEN Goto("grow") ELSE Return("ok")
  /\ UNCHANGED <<length, op, parent, rec, at, fresh, wild, faults>>

WriteFault ==
  /\ pc = "write" /\ Fault
  /\ Put(NewEntry) \/ UNCHANGED <<used, next, page>>
  /\ ScanFails
  /\ UNCHANGED <<length, op, parent, rec, at, fresh, wild>>

Check ==
  /\ pc = "check"
  /\ \/ Return("ok") /\ NoFault
     \/ Return("error") /\ Fault
  /\ UNCHANGED <<dirVars, op, parent, rec, at, fresh, wild>>

(***************************************************************************)
(* AddFATRecord: a free cluster is found, the end of the chain is found,   *)
(* the one is linked to the other.  On an error it returns the error code, *)
(* which its caller takes for a cluster number.                            *)
(***************************************************************************)
Allocate ==
  /\ pc = "alloc"
  /\ IF FreeClusters # {}
       THEN /\ fresh' \in {c \in FreeClusters : \A d \in FreeClusters : c <= d}
            /\ Goto("walk")
       ELSE Goto("wild") /\ UNCHANGED fresh
  /\ at' = Start[op.folder]
  /\ UNCHANGED <<dirVars, op, parent, rec, wild, faults>>

Walk ==
  /\ pc = "walk"
  /\ IF at = Nowhere
       THEN Goto("wild") /\ UNCHANGED at
       ELSE IF IsEnd(at)
              THEN Goto("link") /\ UNCHANGED at
              ELSE at' = LinkOf(at) /\ Goto("walk")
  /\ UNCHANGED <<dirVars, op, parent, rec, fresh, wild, faults>>

Link ==
  /\ pc = "link"
  /\ SetLink(at, fresh)
  /\ Goto("terminate")
  /\ UNCHANGED <<page, length, op, parent, rec, at, fresh, wild, faults>>

Terminate ==
  /\ pc = "terminate"
  /\ SetLink(fresh, End)
  /\ Goto("entry")
  /\ UNCHANGED <<page, length, op, parent, rec, at, fresh, wild, faults>>

(* A read fails, or a write: then it may have had its effect all the same. *)
AddFault ==
  /\ pc \in {"alloc", "walk", "link", "terminate"} /\ Fault
  /\ \/ UNCHANGED <<used, next>>
     \/ pc = "link" /\ SetLink(at, fresh)
     \/ pc = "terminate" /\ SetLink(fresh, End)
  /\ Goto("wild")
  /\ UNCHANGED <<page, length, op, parent, rec, at, fresh, wild>>

(* The new entry goes to the first page of the new cluster. *)
FirstEntry ==
  /\ pc = "entry"
  /\ SetEntry(<<fresh, 0>>, op.name)
  /\ Goto("grow")
  /\ UNCHANGED <<used, next, length, op, parent, rec, at, fresh, wild, faults>>

FirstEntryFault ==
  /\ pc = "entry" /\ Fault
  /\ SetEntry(<<fresh, 0>>, op.name) \/ UNCHANGED page
  /\ Return("error")
  /\ UNCHANGED <<used, next, length, op, parent, rec, at, fresh, wild>>

(* alloc_start plus a negative error code is a cluster of the FAT, and     *)
(* there the entry goes.  The call then goes on as if it had its cluster.  *)
WildEntry ==
  /\ pc = "wild"
  /\ wild' = TRUE
  /\ OverwriteFat
  /\ Goto("grow")
  /\ UNCHANGED <<page, length, op, parent, rec, at, fresh, faults>>

WildFault ==
  /\ pc = "wild" /\ Fault
  /\ wild' = TRUE
  /\ OverwriteFat \/ UNCHANGED <<used, next>>
  /\ Return("error")
  /\ UNCHANGED <<page, length, op, parent, rec, at, fresh>>

(* The folder's own entry is written back with its length plus one. *)
Grow ==
  /\ pc = "grow"
  /\ length' = [length EXCEPT ![op.folder] = parent + 1]
  /\ Return("ok")
  /\ UNCHANGED <<used, next, page, op, parent, rec, at, fresh, wild, faults>>

GrowFault ==
  /\ pc = "grow" /\ Fault
  /\ length' = [length EXCEPT ![op.folder] = parent + 1] \/ UNCHANGED length
  /\ Return("error")
  /\ UNCHANGED <<used, next, page, op, parent, rec, at, fresh, wild>>

Step ==
  \/ Scan \/ WriteEntry \/ Check
  \/ Allocate \/ Walk \/ Link \/ Terminate \/ FirstEntry \/ WildEntry
  \/ Grow

StepFault ==
  ScanFault \/ WriteFault \/ AddFault \/ FirstEntryFault \/ WildFault \/ GrowFault

Next ==
  \/ \E f \in Folder, n \in Name : CreateAlias(f, n) \/ DeleteAlias(f, n)
  \/ Step
  \/ StepFault

Spec == Init /\ [][Next]_vars

(***************************************************************************)
(* Properties.                                                             *)
(***************************************************************************)
Pc == {"idle", "scan", "write", "check", "alloc", "walk", "link", "terminate",
       "entry", "wild", "grow"}

TypeOK ==
  /\ used \subseteq Cluster
  /\ next \in [Cluster -> Cluster \cup {End}]
  /\ page \in [Page -> Entry]
  /\ length \in [Folder -> Nat]
  /\ pc \in Pc
  /\ op \in [kind : {"create", "delete"}, folder : Folder, name : Name]
  /\ parent \in Nat
  /\ rec \in Nat
  /\ at \in Cluster \cup {Nowhere}
  /\ fresh \in Cluster
  /\ result \in {"ok", "error"}
  /\ wild \in BOOLEAN
  /\ faults \in 0 .. MaxFaults

(* AddFATRecord has returned an error, in this call or in an earlier one.  *)
Lost == wild \/ pc = "wild"

(* The k-th cluster of a folder, End past the last one.  A new cluster     *)
(* whose own record is still to be written is the last.                    *)
Chain(f) ==
  LET chain[k \in 0 .. NumClusters] ==
        IF k = 0 THEN Start[f]
        ELSE IF chain[k - 1] \in used THEN next[chain[k - 1]] ELSE End
  IN  chain

ClustersOf(f) == {Chain(f)[k] : k \in 0 .. NumClusters} \ {End}

PageOf(f, r) == <<Chain(f)[r \div PagesPerCluster], r % PagesPerCluster>>

Records(f)   == 0 .. length[f] - 1

(* Whatever else fails, until AddFATRecord does: a folder's chain ends,    *)
(* visits no cluster twice, and has no cluster in common with another      *)
(* folder; aliases that share a cluster with other files would overwrite   *)
(* them (mctools.c:257-299).                                               *)
ChainsApart ==
  ~ Lost =>
    /\ \A f \in Folder :
         /\ Chain(f)[NumClusters] = End
         /\ \A j, k \in 0 .. NumClusters :
              Chain(f)[j] = Chain(f)[k] /\ Chain(f)[j] # End => j = k
    /\ \A f, g \in Folder : f # g => ClustersOf(f) \cap ClustersOf(g) = {}

(* Whatever else fails, until AddFATRecord does: an entry that is there    *)
(* stays, in its place, until the call that deletes its name               *)
(* (mctools.c:460-530, 631-720).                                           *)
Deleting(f, n) == pc = "write" /\ op.kind = "delete" /\ op.folder = f /\ op.name = n

EntriesKept ==
  [][~ Lost' => \A f \in Folder : \A r \in Records(f) :
       page[PageOf(f, r)] \in Name \cup {Dot} =>
         \/ page'[PageOf(f, r)] = page[PageOf(f, r)] /\ PageOf(f, r)' = PageOf(f, r) /\ r \in Records(f)'
         \/ Deleting(f, page[PageOf(f, r)])]_vars

(* With room, and until an access fails, folders are bags of names.        *)
CountOf(f, n) == Cardinality({r \in Records(f) : page[PageOf(f, r)] = n})

List == INSTANCE Listing
          WITH count  <- [e \in Folder \X Name |-> CountOf(e[1], e[2])],
               result <- IF pc = "check" THEN "ok" ELSE result
ListingSpec == List!Init /\ [][faults' = 0 => List!Next]_(List!vars)

(* An error of AddFATRecord is not taken for a cluster.                    *)
(* mctools.c:255 "Returns the cluster number of the new allocated cluster. *)
(* Returns 0 on error."                                                    *)
ErrorIsNoCluster == ~ wild
=============================================================================
