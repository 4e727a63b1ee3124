---------------------------- MODULE MultiInstall ----------------------------
(***************************************************************************)
(* Multi-installations: a file that boots the console it was installed on  *)
(* gets aliases, entries of the same data under the names that other       *)
(* consoles look for; a clean-up takes them away again.                    *)
(*   system.c        GenerateUninstallFile, CreateCrossLinkedFiles,        *)
(*                   CleanupMultiInstallation, DeleteFolder                *)
(*   mctools_rpc.c   MCToolsCreateCrossLinkedFiles, ...Delete...           *)
(*   irx/source/mctools/src/mctools.c                                      *)
(*                   CreateCrossLinkedFiles, DeleteCrossLinkedFiles        *)
(*                                                                         *)
(* The model starts when the files of a multi-installation were copied.    *)
(* MCTOOLS works on the card through its page cache (PageCache), whose     *)
(* pages are lost when it is not flushed; the single entries are           *)
(* CardDirectory's matter.  A fault is an access to the card that fails,   *)
(* or the end of the program, by a reset or a card that is pulled.         *)
(***************************************************************************)
EXTENDS InstallFiles, Integers, FiniteSets

CONSTANTS
  Console,       \* the consoles that multi-installations are made on
  Batch,         \* MAX_RPC_FILE_ENTRIES
  MaxFaults,
  SameConsole    \* whether the console that installed cleans up

ASSUME ConsoleAssumption ==
  Console \subseteq [region : Region \ {"X"}, rom : Nat, type : {"PS2"}]

ASSUME BoundAssumption ==
  Batch \in Nat \ {0} /\ MaxFaults \in Nat /\ SameConsole \in BOOLEAN

NumAliases == Len(FileAlias)        \* NUM_CROSSLINKED_FILES
Alias      == {FileAlias[k] : k \in 1 .. NumAliases}
Letter     == {"I", "E", "A", "C"}

VARIABLES
  console,     \* the console that installs
  cleaner,     \* the console that cleans up
  cache,       \* how many entries of each alias MCTOOLS sees
  card,        \* how many are on the card
  shared,      \* whether the data of the aliases is still allocated
  folders,     \* the system folders
  updates,     \* the files for early Japanese consoles
  file,        \* FMCBUINST.dat
  FileIndex, NumFiles,
  listed,      \* LocalMcFileAlias
  i,
  tried,       \* history: the aliases that MCTOOLS was asked to delete
  cleanedUp,   \* history: whether a clean-up has begun to delete
  pc, result, faults

cardVars == <<cache, card, shared, folders, updates, file>>
vars == <<console, cleaner, cardVars, FileIndex, NumFiles, listed, i, tried, cleanedUp,
          pc, result, faults>>

Own(c) == OwnFile(c)

(* The aliases in front of the own file.  The names of the table differ,   *)
(* so those that are not the own one are these and the ones behind it.     *)
BeforeOwn(c) ==
  Cardinality({k \in 1 .. NumAliases : \A j \in 1 .. k : FileAlias[j] # Own(c)})

Others_UntilOwn(c) == SubSeq(FileAlias, 1, BeforeOwn(c))   \* mutant: ends at the own file
Others(c) ==
  SubSeq(FileAlias, 1, BeforeOwn(c)) \o SubSeq(FileAlias, BeforeOwn(c) + 2, NumAliases)

Updates   == {"100J", "101J", "HDDLOAD"}
NoFile    == [kind |-> "none", names |-> << >>]

Fault   == faults < MaxFaults /\ faults' = faults + 1
NoFault == UNCHANGED faults

Init ==
  /\ console \in Console
  /\ cleaner = console
  /\ card = [a \in Alias |-> IF a = Own(console) THEN 1 ELSE 0]
  /\ cache = card
  /\ shared = TRUE
  /\ folders = Letter
  /\ updates = Updates
  /\ file = NoFile
  /\ FileIndex = 0 /\ NumFiles = 0
  /\ listed = << >> /\ i = 0 /\ tried = {} /\ cleanedUp = FALSE
  /\ pc = "generate" /\ result = "ok" /\ faults = 0

End(r) == pc' = "ready" /\ result' = r

(* What is on the card when the cache goes without having been flushed     *)
(* (or not whole): it may have been flushed to make room before.           *)
PartlyFlushed ==
  /\ \E flushed \in SUBSET Alias :
       card' = [a \in Alias |-> IF a \in flushed THEN cache[a] ELSE card[a]]
  /\ cache' = card'

(***************************************************************************)
(* The installation.                                                       *)
(***************************************************************************)
(* fwrite and fclose are not checked: the file may be cut off in its       *)
(* header ("unsupported"), behind it ("short") or among the names.         *)
Truncated(names) ==
  {[kind |-> k, names |-> << >>] : k \in {"unsupported", "short"}}
    \cup {[kind |-> "ok", names |-> SubSeq(names, 1, n)] : n \in 0 .. Len(names) - 1}

GenerateUninstallFile ==
  /\ pc = "generate"
  /\ LET names == Others(console)
     IN  \/ /\ file' = [kind |-> "ok", names |-> names] /\ NoFault
            /\ pc' = "init" /\ UNCHANGED result
         \/ /\ file' \in Truncated(names) /\ Fault
            /\ pc' = "init" /\ UNCHANGED result
         \/ /\ Fault
            /\ End("error") /\ UNCHANGED file
  /\ UNCHANGED <<console, cleaner, cache, card, shared, folders, updates,
                 FileIndex, NumFiles, listed, i, tried, cleanedUp>>

(* The IOP has been rebooted, and the cache is empty. *)
BeginCrossLink ==
  /\ pc = "init"
  /\ \/ /\ pc' = "before" /\ result' = "ok" /\ NoFault
        /\ FileIndex' = 0 /\ NumFiles' = BeforeOwn(console)
     \/ Fault /\ End("error") /\ UNCHANGED <<FileIndex, NumFiles>>
  /\ UNCHANGED <<console, cleaner, cardVars, listed, i, tried, cleanedUp>>

(* The loops move on by the number of aliases that were created, whichever *)
(* these were; they end when there were none.                              *)
Advance(n) ==
  IF n > 0
    THEN FileIndex' = FileIndex + n /\ NumFiles' = NumFiles - n /\ result' = "ok"
    ELSE NumFiles' = 0 /\ result' = "error" /\ UNCHANGED FileIndex

Requested == {k \in FileIndex + 1 .. FileIndex + Batch : k <= FileIndex + NumFiles}

(* One call of MCTOOLS.  It goes on with the next alias when one fails,    *)
(* which may have been created all the same.                               *)
CreateCall ==
  /\ pc \in {"before", "after"} /\ NumFiles > 0
  /\ \/ \E failed \in SUBSET Requested : \E written \in SUBSET failed :
          LET new == {FileAlias[k] : k \in (Requested \ failed) \cup written}
          IN  /\ faults + Cardinality(failed) <= MaxFaults
              /\ faults' = faults + Cardinality(failed)
              /\ cache' = [a \in Alias |-> cache[a] + IF a \in new THEN 1 ELSE 0]
              /\ Advance(Cardinality(Requested \ failed))
     \/ Fault /\ Advance(-1) /\ UNCHANGED cache
  /\ UNCHANGED <<console, cleaner, card, shared, folders, updates, file, listed, i, tried, cleanedUp, pc>>

NextIndex_Own == FileIndex     \* mutant: the own file is not skipped
NextIndex == FileIndex + 1

Skip ==
  /\ pc = "before" /\ NumFiles = 0
  /\ FileIndex' = NextIndex
  /\ NumFiles' = NumAliases - FileIndex'
  /\ pc' = "after"
  /\ UNCHANGED <<console, cleaner, cardVars, listed, i, tried, cleanedUp, result, faults>>

(* The cache is flushed, unless the last call failed; then the IOP is      *)
(* rebooted.  FlushPageCache returns how its last block went.              *)
EndCrossLink ==
  /\ pc = "after" /\ NumFiles <= 0
  /\ IF result = "ok"
       THEN \/ card' = cache /\ End("ok") /\ NoFault /\ UNCHANGED cache
            \/ PartlyFlushed /\ Fault /\ (End("ok") \/ End("error"))
       ELSE PartlyFlushed /\ End("error") /\ NoFault
  /\ UNCHANGED <<console, cleaner, shared, folders, updates, file,
                 FileIndex, NumFiles, listed, i, tried, cleanedUp>>

(***************************************************************************)
(* The clean-up, which the menu offers while there is an uninstall file.   *)
(***************************************************************************)
BeginCleanup(c) ==
  /\ pc = "ready" /\ file.kind # "none"
  /\ cleaner' = c
  /\ \/ pc' = "read" /\ UNCHANGED result /\ NoFault
     \/ Fault /\ End("error")        \* InitMCInfo fails ...
     \/ Fault /\ End("ok")           \* ... the cache cannot be set up: a positive code
  /\ UNCHANGED <<console, cardVars, FileIndex, NumFiles, listed, i, tried, cleanedUp>>

(* A file that cannot be opened ends the clean-up as a success; a header   *)
(* or a count that cannot be read ends it as an error.  When a name cannot *)
(* be read, the list ends there, and the clean-up goes on with it.         *)
ReadUninstallFile ==
  /\ pc = "read"
  /\ \/ /\ file.kind = "ok" /\ NoFault
        /\ listed' = file.names /\ pc' = "unlist" /\ UNCHANGED result
     \/ /\ file.kind = "ok" /\ Fault
        /\ \E n \in 0 .. Len(file.names) - 1 : listed' = SubSeq(file.names, 1, n)
        /\ pc' = "unlist" /\ UNCHANGED result
     \/ file.kind # "ok" /\ End("error") /\ NoFault /\ UNCHANGED listed
     \/ Fault /\ (End("ok") \/ End("error")) /\ UNCHANGED listed
  /\ UNCHANGED <<console, cleaner, cardVars, FileIndex, NumFiles, i, tried, cleanedUp>>

(* The uninstall file goes before anything else does.  What mcDelete has   *)
(* returned is not read, and the file may stay.                            *)
DeleteUninstallFile ==
  /\ pc = "unlist"
  /\ \/ file' = NoFile /\ NoFault
     \/ file' \in {NoFile, file} /\ Fault
  /\ i' = 0 /\ tried' = {} /\ cleanedUp' = TRUE
  /\ pc' = "delete"
  /\ UNCHANGED <<console, cleaner, cache, card, shared, folders, updates,
                 FileIndex, NumFiles, listed, result>>

(* The loop moves on by the number of aliases that were deleted, and by    *)
(* one when there were none, or an error.                                  *)
Step_ErrorsOnly(n) == IF n < 0 THEN 1 ELSE n     \* mutant: by none, too
Step_All(n)        == Len(listed)                \* mutant: by all of them

Step(n) == IF n <= 0 THEN 1 ELSE n

OnCard(a) == cache[a] > 0

ToDelete == {k \in i + 1 .. i + Batch : k <= Len(listed)}

(* One call of MCTOOLS: every alias of it is tried.  One that is not on    *)
(* the card counts as not deleted.                                         *)
DeleteCall ==
  /\ pc = "delete" /\ i < Len(listed)
  /\ \/ LET found == {k \in ToDelete : OnCard(listed[k])}
        IN  \E failed \in SUBSET found : \E gone \in SUBSET failed :
              /\ faults + Cardinality(failed) <= MaxFaults
              /\ faults' = faults + Cardinality(failed)
              /\ LET less == {listed[k] : k \in (found \ failed) \cup gone}
                 IN  cache' = [a \in Alias |-> cache[a] - IF a \in less THEN 1 ELSE 0]
              /\ tried' = tried \cup {listed[k] : k \in ToDelete}
              /\ i' = i + Step(Cardinality(found \ failed))
     \/ Fault /\ i' = i + Step(-1) /\ UNCHANGED <<cache, tried>>
  /\ UNCHANGED <<console, cleaner, card, shared, folders, updates, file,
                 FileIndex, NumFiles, listed, cleanedUp, pc, result>>

FlushDeletions ==
  /\ pc = "delete" /\ i >= Len(listed)
  /\ \/ card' = cache /\ NoFault /\ UNCHANGED cache
     \/ PartlyFlushed /\ Fault
  /\ pc' = "updates"
  /\ UNCHANGED <<console, cleaner, shared, folders, updates, file,
                 FileIndex, NumFiles, listed, i, tried, cleanedUp, result>>

(* The files for early Japanese consoles go, but those of this console.    *)
(* The last condition looks at the console that cleans up.                 *)
Unneeded ==
  LET japan == SysExecFolder(console) = "I"
  IN  (IF ~ japan \/ console.rom # \h100 THEN {"100J"} ELSE {})
        \cup (IF ~ japan \/ console.rom # \h101 THEN {"101J"} ELSE {})
        \cup (IF SysExecFolder(cleaner) # "I" \/ cleaner.rom > \h120 THEN {"HDDLOAD"} ELSE {})

DeleteUpdates ==
  /\ pc = "updates"
  /\ \/ updates' = updates \ Unneeded /\ NoFault
     \/ Fault /\ \E u \in Unneeded : updates' = updates \ (Unneeded \ {u})
  /\ pc' = "folders"
  /\ UNCHANGED <<console, cleaner, cache, card, shared, folders, file,
                 FileIndex, NumFiles, listed, i, tried, cleanedUp, result>>

(* case 'E' has no break, and goes on with what case 'C' deletes.          *)
OtherFolders_Mixed(f) == Letter \ {"I"}     \* mutant: always the folders of case 'I'
OtherFolders(f) == IF f = "E" THEN Letter ELSE Letter \ {f}

(* DeleteFolder, on each of them.  Deleting an alias through MCMAN frees   *)
(* the data that it shares with the others.  A folder that stays may have  *)
(* lost its files.                                                         *)
DeleteFolders ==
  /\ pc = "folders"
  /\ \E rest \in SUBSET OtherFolders(SysExecFolder(console)) : \E full \in SUBSET rest :
       LET goes    == OtherFolders(SysExecFolder(console)) \ rest
           emptied == OtherFolders(SysExecFolder(console)) \ full
       IN  /\ faults + Cardinality(rest) <= MaxFaults
           /\ faults' = faults + Cardinality(rest)
           /\ folders' = folders \ goes
           /\ card' = [a \in Alias |-> IF a[1] \in emptied THEN 0 ELSE card[a]]
           /\ shared' = (shared /\ \A a \in Alias : a[1] \in emptied => card[a] = 0)
           /\ updates' = IF "I" \in emptied THEN {} ELSE updates
  /\ cache' = card'
  /\ End("ok")
  /\ UNCHANGED <<console, cleaner, file, FileIndex, NumFiles, listed, i, tried, cleanedUp>>

(* A reset, or the card is pulled. *)
Stop ==
  /\ pc # "ready" /\ Fault
  /\ PartlyFlushed
  /\ End("error")
  /\ UNCHANGED <<console, cleaner, shared, folders, updates, file,
                 FileIndex, NumFiles, listed, i, tried, cleanedUp>>

Work ==
  \/ GenerateUninstallFile \/ BeginCrossLink \/ CreateCall \/ Skip \/ EndCrossLink
  \/ ReadUninstallFile \/ DeleteUninstallFile
  \/ DeleteCall \/ FlushDeletions \/ DeleteUpdates \/ DeleteFolders

Next ==
  \/ Work
  \/ \E c \in IF SameConsole THEN {console} ELSE Console : BeginCleanup(c)
  \/ Stop

Spec == Init /\ [][Next]_vars

(* The program runs on by itself once an operation was chosen.             *)
FairSpec == Spec /\ WF_vars(Work)

(***************************************************************************)
(* Properties.                                                             *)
(***************************************************************************)
Installing == {"generate", "init", "before", "after"}
Cleaning   == {"read", "unlist", "delete", "updates", "folders"}
Count      == 0 .. NumAliases + MaxFaults

TypeOK ==
  /\ console \in Console /\ cleaner \in Console
  /\ cache \in [Alias -> Count] /\ card \in [Alias -> Count]
  /\ shared \in BOOLEAN
  /\ folders \subseteq Letter /\ updates \subseteq Updates
  /\ file.kind \in {"none", "unsupported", "short", "ok"}
  /\ FileIndex \in 0 .. NumAliases + 1
  /\ NumFiles \in -1 .. NumAliases
  /\ i \in Nat /\ tried \subseteq Alias /\ cleanedUp \in BOOLEAN
  /\ pc \in Installing \cup Cleaning \cup {"ready"}
  /\ result \in {"ok", "error"}
  /\ faults \in 0 .. MaxFaults

(* When nothing fails, every console finds exactly one file of its name,   *)
(* and the uninstall file lists all but the one that was copied            *)
(* (system.c:2260-2274, 2309-2320).                                        *)
InstallComplete ==
  pc = "ready" /\ faults = 0 /\ ~ cleanedUp =>
    /\ result = "ok"
    /\ card = [a \in Alias |-> 1]
    /\ {file.names[k] : k \in DOMAIN file.names} = Alias \ {Own(console)}

(* Until a clean-up begins, whatever fails and whenever the program ends:  *)
(* for an alias that was made there is a file that the clean-up accepts    *)
(* and that lists it, or one whose writing failed (system.c:1733-1736,     *)
(* 2329).  That failure is not noticed (system.c:2304-2323): the aliases   *)
(* are made all the same, and a file that was cut off in front of the      *)
(* names keeps the clean-up from all of them.                              *)
Removable(a) == file.kind = "ok" /\ \E k \in DOMAIN file.names : file.names[k] = a
WriteFailed  == faults > 0 /\ file \in Truncated(Others(console))

UninstallFileFirst ==
  ~ cleanedUp => \A a \in Alias \ {Own(console)} :
                   card[a] + cache[a] > 0 => Removable(a) \/ WriteFailed

(* A clean-up after an installation, when nothing fails, leaves what a     *)
(* normal installation would have left.                                    *)
(* lang.c:54 "Downgrade a multi-installation to a normal installation."    *)
NormalUpdates ==
  IF SysExecFolder(console) # "I" THEN {}
  ELSE (IF console.rom = \h100 THEN {"100J"} ELSE {})
         \cup (IF console.rom = \h101 THEN {"101J"} ELSE {})
         \cup (IF console.rom <= \h120 THEN {"HDDLOAD"} ELSE {})

DowngradeIsNormal ==
  pc = "ready" /\ faults = 0 /\ cleanedUp =>
    /\ card = [a \in Alias |-> IF a = Own(console) THEN 1 ELSE 0]
    /\ shared
    /\ folders = {SysExecFolder(console)}
    /\ updates = NormalUpdates
    /\ file = NoFile

(* A clean-up asks MCTOOLS to delete every alias that it has read from the *)
(* file, but one for each call that failed: the loop does not lose count,  *)
(* though the number it moves on by is not that of the aliases it has      *)
(* tried (system.c:2117-2122).                                             *)
OneAliasPerFault ==
  pc \in {"updates", "folders"} =>
    Cardinality({listed[k] : k \in DOMAIN listed} \ tried) <= faults

(* Creating and deleting aliases ends, whatever the calls of MCTOOLS       *)
(* return (system.c:2117, 2260, 2269).                                     *)
OperationEnds == pc # "ready" ~> pc = "ready"

(* The clean-up keeps the folder that the console itself boots from.       *)
(* system.c:2176 "Now, delete the 3 other system folders"                  *)
OwnFolderKept == SysExecFolder(console) \in folders
=============================================================================
