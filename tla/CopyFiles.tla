------------------------------ MODULE CopyFiles ------------------------------
(***************************************************************************)
(* How an installation copies its files to a Memory Card.                  *)
(*   system.c   CopyFiles, SyncMCFileWrite                                 *)
(*                                                                         *)
(* The card is accessed through libmc, which has one command at a time     *)
(* carried out by the IOP while the program goes on; mcSync waits for it.  *)
(* So a file is read, while the one before is written from its own buffer. *)
(* The list has files, files to be signed ("kelf"), directories and empty  *)
(* files.  Entry k of the list goes to target k of the card; the contents  *)
(* of file k are written k, and so is a directory k that has been made.    *)
(***************************************************************************)
EXTENDS Integers, Sequences, FiniteSets

CONSTANTS
  Lists,      \* the lists there may be
  NumFds      \* how many files MCMAN opens at once

Kind == {"file", "kelf", "dir", "empty"}

ASSUME ListsAssumption == Lists \subseteq Seq(Kind)
ASSUME FdsAssumption == NumFds \in Nat \ {0}

Absent  == 0       \* nothing on the card
Partial == -1      \* a file that is not complete
NoFd    == -1      \* an error code
Fd      == 0 .. NumFds - 1

VARIABLES
  list,         \* the kinds of FileCopyList
  i,            \* the entry, from 1
  PrevFileSize, \* whether it is more than 0
  McFileFD,
  buffer,       \* the file that buffer was allocated for, 0 for NULL
  NextFileBuf,
  live,         \* the buffers that are allocated
  freedTwice,   \* history: a buffer was freed that was not allocated
  pc, after,    \* where the program stands, and goes after SyncMCFileWrite
  result,
  cmd,          \* the command of libmc
  answer,       \* its result, once the IOP has carried it out
  open,         \* the target of each open file, 0 when free
  card          \* what each target holds

libmc  == <<cmd, answer, open, card>>
vars   == <<list, i, PrevFileSize, McFileFD, buffer, NextFileBuf, live, freedTwice,
            pc, after, result, libmc>>

None    == [op |-> "none", arg |-> 0, buf |-> 0]
Pending == -2      \* not carried out yet

Init ==
  /\ list \in Lists
  /\ i = 1
  /\ PrevFileSize = 0 /\ McFileFD = NoFd
  /\ buffer = 0 /\ NextFileBuf = 0 /\ live = {} /\ freedTwice = FALSE
  /\ pc = "loop" /\ after = "loop" /\ result = "ok"
  /\ cmd = None /\ answer = Pending
  /\ open = [f \in Fd |-> 0]
  /\ card = [k \in DOMAIN list |-> Absent]

(***************************************************************************)
(* libmc and the IOP.  A call made while there is a command does nothing.  *)
(***************************************************************************)
Call(op, arg, buf) ==
  IF cmd = None
    THEN cmd' = [op |-> op, arg |-> arg, buf |-> buf] /\ answer' = Pending
    ELSE UNCHANGED <<cmd, answer>>

(* mcSync returns at once when there is no command, and no result then. *)
Synced == cmd = None \/ answer # Pending
Taken  == cmd' = None /\ answer' = Pending

Size(k) == IF list[k] \in {"file", "kelf"} THEN 1 ELSE 0
Contents(b) == IF b \in live THEN b ELSE Partial

ServeOpen ==
  /\ cmd.op = "open"
  /\ \/ \E f \in Fd :
          /\ open[f] = 0 /\ \A g \in 0 .. f - 1 : open[g] # 0
          /\ open' = [open EXCEPT ![f] = cmd.arg]
          /\ card' = [card EXCEPT ![cmd.arg] = IF Size(cmd.arg) = 0 THEN cmd.arg ELSE Partial]
          /\ answer' = f
     \/ answer' = NoFd /\ UNCHANGED <<open, card>>
  /\ UNCHANGED cmd

ServeWrite ==
  /\ cmd.op = "write"
  /\ \/ /\ cmd.arg \in Fd /\ open[cmd.arg] # 0
        /\ card' = IF Size(cmd.buf) = 0 THEN card
                   ELSE [card EXCEPT ![open[cmd.arg]] = Contents(cmd.buf)]
        /\ answer' = Size(cmd.buf)
     \/ answer' \in {NoFd, 0} /\ UNCHANGED card
  /\ UNCHANGED <<cmd, open>>

ServeClose ==
  /\ cmd.op = "close"
  /\ open' = IF cmd.arg \in Fd THEN [open EXCEPT ![cmd.arg] = 0] ELSE open
  /\ answer' \in {0, NoFd}
  /\ UNCHANGED <<cmd, card>>

ServeMkDir ==
  /\ cmd.op = "mkdir"
  /\ \/ card' = [card EXCEPT ![cmd.arg] = cmd.arg] /\ answer' = 0
     \/ answer' = NoFd /\ UNCHANGED card
  /\ UNCHANGED <<cmd, open>>

Serve ==
  /\ answer = Pending
  /\ ServeOpen \/ ServeWrite \/ ServeClose \/ ServeMkDir
  /\ UNCHANGED <<list, i, PrevFileSize, McFileFD, buffer, NextFileBuf, live,
                 freedTwice, pc, after, result>>

(***************************************************************************)
(* SyncMCFileWrite(McFileFD, PrevFileSize, buffer)                         *)
(***************************************************************************)
Free_Leaks(b) == UNCHANGED <<live, freedTwice>>     \* mutant: free is forgotten
Free(b) == live' = live \ {b} /\ freedTwice' = (freedTwice \/ (b # 0 /\ b \notin live))

WriteDone_Any(n) == TRUE     \* mutant: the result of the write is not looked at
WriteDone(n) == n = PrevFileSize

WaitsFor_Nothing == TRUE     \* mutant: mcSync that does not wait
WaitsFor == Synced

Closed == McFileFD

(* mcSync, mcClose and free. *)
SyncWrite ==
  /\ pc = "sync" /\ WaitsFor
  /\ LET n == IF cmd = None THEN 0 ELSE answer
     IN  result' = IF WriteDone(n) THEN "ok" ELSE "error"
  /\ IF Synced THEN cmd' = [op |-> "close", arg |-> Closed, buf |-> 0] /\ answer' = Pending
              ELSE UNCHANGED <<cmd, answer>>
  /\ Free(buffer)
  /\ pc' = "close"
  /\ UNCHANGED <<list, i, PrevFileSize, McFileFD, buffer, NextFileBuf, after, open, card>>

SyncClose ==
  /\ pc = "close" /\ Synced
  /\ Taken
  /\ pc' = IF result = "ok" THEN after ELSE "done"
  /\ PrevFileSize' = IF after = "mkdir" /\ result = "ok" THEN 0 ELSE PrevFileSize
  /\ UNCHANGED <<list, i, McFileFD, buffer, NextFileBuf, live, freedTwice, after,
                 result, open, card>>

(***************************************************************************)
(* CopyFiles.                                                              *)
(***************************************************************************)
SyncFirst_Never == FALSE     \* mutant: the write before is not waited for
SyncFirst == i > 1 /\ PrevFileSize > 0

(* On to `there`, by way of SyncMCFileWrite if a file is being written. *)
SyncThen(there) ==
  IF SyncFirst THEN pc' = "sync" /\ after' = there
               ELSE pc' = there /\ UNCHANGED after

NextEntry == i + 1

Loop ==
  /\ pc = "loop"
  /\ IF i <= Len(list) /\ result = "ok"
       THEN IF list[i] = "dir" THEN SyncThen("mkdir") ELSE pc' = "read" /\ UNCHANGED after
       ELSE IF result = "ok" THEN pc' = "sync" /\ after' = "done"
                             ELSE pc' = "done" /\ UNCHANGED after
  /\ UNCHANGED <<list, i, PrevFileSize, McFileFD, buffer, NextFileBuf, live, freedTwice,
                 result, libmc>>

(* mcMkDir says so, when there is a command already: with a positive       *)
(* number, which is no error.                                              *)
MkDir ==
  /\ pc = "mkdir"
  /\ Call("mkdir", i, 0)
  /\ IF cmd = None THEN pc' = "made" /\ UNCHANGED i
                   ELSE pc' = "loop" /\ i' = NextEntry
  /\ UNCHANGED <<list, PrevFileSize, McFileFD, buffer, NextFileBuf, live, freedTwice,
                 after, result, open, card>>

(* -4, a directory that exists already, is no error. *)
MkDirDone ==
  /\ pc = "made" /\ Synced
  /\ Taken
  /\ result' = IF answer = NoFd THEN "error" ELSE "ok"
  /\ i' = NextEntry /\ pc' = "loop"
  /\ UNCHANGED <<list, PrevFileSize, McFileFD, buffer, NextFileBuf, live, freedTwice,
                 after, open, card>>

(* The file is opened, a buffer allocated, and the file read.              *)
ReadFile ==
  /\ pc = "read"
  /\ \/ NextFileBuf' = i /\ live' = live \cup {i} /\ SyncThen("sign") /\ UNCHANGED result
     \/ /\ result' = "error" /\ pc' = "done"       \* fopen or memalign fails
        /\ UNCHANGED <<NextFileBuf, live, after>>
     \/ /\ result' = "error" /\ pc' = "done"       \* fread fails
        /\ NextFileBuf' = i /\ live' = live \cup {i} /\ UNCHANGED after
  /\ UNCHANGED <<list, i, PrevFileSize, McFileFD, buffer, freedTwice, libmc>>

(* SignKELF, which needs the card; then mcOpen. *)
SignFile ==
  /\ pc = "sign"
  /\ \/ /\ buffer' = NextFileBuf
        /\ Call("open", i, 0)
        /\ pc' = "opened"
        /\ UNCHANGED <<result, live, freedTwice>>
     \/ /\ list[i] = "kelf"
        /\ Free(NextFileBuf)
        /\ result' = "error" /\ pc' = "done"
        /\ UNCHANGED <<buffer, cmd, answer>>
  /\ UNCHANGED <<list, i, PrevFileSize, McFileFD, NextFileBuf, after, open, card>>

WriteFile ==
  /\ pc = "opened" /\ Synced
  /\ McFileFD' = answer
  /\ IF answer = NoFd
       THEN Taken /\ result' = "error" /\ UNCHANGED PrevFileSize
       ELSE /\ cmd' = [op |-> "write", arg |-> answer, buf |-> buffer]
            /\ answer' = Pending
            /\ PrevFileSize' = Size(i)
            /\ UNCHANGED result
  /\ i' = NextEntry /\ pc' = "loop"
  /\ UNCHANGED <<list, buffer, NextFileBuf, live, freedTwice, after, open, card>>

Program ==
  \/ SyncWrite \/ SyncClose \/ Loop \/ MkDir \/ MkDirDone \/ ReadFile \/ SignFile \/ WriteFile

Next == Program \/ Serve

Spec == Init /\ [][Next]_vars

(***************************************************************************)
(* Properties.                                                             *)
(***************************************************************************)
Op == {"none", "open", "write", "close", "mkdir"}

TypeOK ==
  /\ list \in Lists
  /\ i \in 1 .. Len(list) + 1
  /\ PrevFileSize \in {0, 1} /\ McFileFD \in Fd \cup {NoFd}
  /\ {buffer, NextFileBuf} \subseteq 0 .. Len(list)
  /\ live \subseteq DOMAIN list /\ freedTwice \in BOOLEAN
  /\ pc \in {"loop", "mkdir", "made", "read", "sign", "opened", "sync", "close", "done"}
  /\ after \in {"loop", "mkdir", "sign", "done"}
  /\ result \in {"ok", "error"}
  /\ cmd \in [op : Op, arg : NoFd .. Len(list), buf : 0 .. Len(list)]
  /\ answer \in Pending .. NumFds \cup {1}
  /\ open \in [Fd -> 0 .. Len(list)]
  /\ \A k \in DOMAIN list : card[k] \in {Absent, Partial, k}

(* An installation is only complete when each target has the contents of   *)
(* its own file, written to the end (system.c:1751-1775, 1833-1868).       *)
CopiesArrive ==
  pc = "done" /\ result = "ok" => \A k \in DOMAIN list : card[k] = k

(* The buffer of a file is not freed or used for another while the IOP     *)
(* writes it (system.c:1760, 1857).                                        *)
BufferHeld ==
  cmd.op = "write" /\ answer = Pending => cmd.buf \in live /\ cmd.buf = buffer

(* A file is signed, which takes commands to the same card, only when no   *)
(* other command is on its way (system.c:1834-1842).                       *)
SignsAlone == pc = "sign" /\ list[i] = "kelf" => cmd = None

(* At the end of a copy that succeeded no command is left for somebody     *)
(* else's mcSync, no file is open, and all buffers are freed, once         *)
(* (system.c:1878-1880).                                                   *)
NothingLeft ==
  pc = "done" /\ result = "ok" =>
    cmd = None /\ (\A f \in Fd : open[f] = 0) /\ live = {} /\ ~ freedTwice
=============================================================================
