--------------------------- MODULE CardMaintenance ---------------------------
(***************************************************************************)
(* Dump and restore of a Memory Card, from the choice in the menu to the   *)
(* return to it.                                                           *)
(*   installer/system.c   WorkerThread, DumpMemoryCard, RestoreMemoryCard, *)
(*                        PerformMemoryCardDump/Restore                    *)
(*                                                                         *)
(* WorkerThread has the hand-over between main and the worker, with a      *)
(* transfer as so many uses of the file; McDump and McRestore have the     *)
(* transfers, with STOP as something that happens.  Here each step of a    *)
(* transfer is the step of the worker that WorkerThread takes it for, and  *)
(* STOP is the command that main sends.  A request at the IOP goes on by   *)
(* itself, until the reboot of the IOP with which an operation begins.     *)
(***************************************************************************)
EXTENDS WorkerThread, Integers

ASSUME UnitsAssumption == NumSteps # 0    \* a card has clusters, an image has blocks

VARIABLES
  chosen,             \* history: the transfer that main asked for last
  dPc, cluster, dBank, dBuffer, dAllocated, image, dResult, dStop, dRpc, dSema, dError,
  rPc, block, rBank, rBuffer, rAllocated, card, rResult, rStop, iopBuffer, rRpc, rSema, rError

dVars == <<dPc, cluster, dBank, dBuffer, dAllocated, image, dResult, dStop, dRpc, dSema, dError>>
rVars == <<rPc, block, rBank, rBuffer, rAllocated, card, rResult, rStop,
           iopBuffer, rRpc, rSema, rError>>
allVars == <<vars, chosen, dVars, rVars>>

Dump == INSTANCE McDump
          WITH NumClusters <- NumSteps, pc <- dPc, bank <- dBank, buffer <- dBuffer,
               allocated <- dAllocated, file <- image, result <- dResult, stop <- dStop,
               rpc <- dRpc, endSema <- dSema, lastError <- dError

Restore == INSTANCE McRestore
             WITH NumBlocks <- NumSteps, pc <- rPc, bank <- rBank, buffer <- rBuffer,
                  allocated <- rAllocated, result <- rResult, stop <- rStop,
                  rpc <- rRpc, endSema <- rSema, lastError <- rError

MaintInit == Init /\ chosen = "none" /\ Dump!Init /\ Restore!Init

(* WorkerThread does not tell the side of an error. *)
EndsAs(r) == IF r = "ok" THEN "ok" ELSE "failed"

Reported(r) == result' = EndsAs(r)

(* The steps of DumpMemoryCard.  What lies between two tests of the loop   *)
(* is one use of the file to WorkerThread; it ends with Sync, or with the  *)
(* error that leaves the loop.                                             *)
DumpStep ==
  \/ Dump!Allocate /\ Begin /\ Reported(dResult')
  \/ Dump!Loop /\ Check
  \/ /\ Dump!ReadCluster \/ Dump!WriteFile \/ Dump!Sync
     /\ IF dPc' \in {"write", "sync"} THEN UNCHANGED vars ELSE Use /\ Reported(dResult')
  \/ Dump!WriteLast /\ UseLast /\ Reported(dResult')
  \/ Dump!Free /\ UNCHANGED vars

(* The steps of RestoreMemoryCard, in the same way. *)
RestoreStep ==
  \/ Restore!Allocate /\ Begin /\ Reported(rResult')
  \/ Restore!Loop /\ Check
  \/ /\ Restore!ReadFile \/ Restore!Sync \/ Restore!WriteBlock
     /\ IF rPc' \in {"sync", "write"} THEN UNCHANGED vars ELSE Use /\ Reported(rResult')
  \/ Restore!SyncLast /\ UseLast /\ Reported(rResult')
  \/ Restore!Free /\ UNCHANGED vars

InTransfer(c) == command = c /\ workerPc \in Using \cup {"stop_check"}
Freed(c)    == IF c = "dump" THEN dPc = "done" ELSE rPc = "done"

RunDump    == InTransfer("dump") /\ DumpStep /\ UNCHANGED <<chosen, rVars>>
RunRestore == InTransfer("restore") /\ RestoreStep /\ UNCHANGED <<chosen, dVars>>

(* The worker outside of its transfers; it has freed the buffers when it   *)
(* looks for a STOP.                                                       *)
HandOver ==
  /\ \/ ReadArgument \/ ReadCommand \/ IdleSleep
     \/ Accept \/ Acknowledge \/ WaitForMain
     \/ Freed(command) /\ StopCheck
     \/ StopAcknowledge \/ StopCode \/ Report
     \/ Reject \/ RejectAcknowledge
  /\ UNCHANGED <<chosen, dVars, rVars>>

(* SetWorkerThreadCommand(STOP), which a transfer that is not over sees at *)
(* its next test.                                                          *)
Stopping(c) == sending.cmd = "stop" /\ command = c /\ ~ Freed(c)

PostCommand ==
  /\ SetCommand
  /\ IF Stopping("dump") THEN Dump!PostStop ELSE UNCHANGED dVars
  /\ IF Stopping("restore") THEN Restore!PostStop ELSE UNCHANGED rVars
  /\ UNCHANGED chosen

MainRest ==
  /\ \/ SetArgument \/ WakeWorker \/ MainSleep \/ WakeWorkerAgain
     \/ Poll \/ GoOn \/ Close \/ Terminate
  /\ UNCHANGED <<chosen, dVars, rVars>>

(* An operation begins with the IOP rebooted, and a transfer with buffers  *)
(* and a file of its own.                                                  *)
User ==
  \/ \E c \in Transfer : BeginOperation(c) /\ chosen' = c /\ Dump!Again /\ Restore!Again
  \/ (Cancel \/ Quit) /\ UNCHANGED <<chosen, dVars, rVars>>

DumpRpcEnd    == Dump!RpcEnd /\ UNCHANGED <<vars, chosen, rVars>>
RestoreRpcEnd == Restore!RpcEnd /\ UNCHANGED <<vars, chosen, dVars>>

MaintNext ==
  \/ User
  \/ PostCommand \/ MainRest
  \/ HandOver \/ RunDump \/ RunRestore
  \/ DumpRpcEnd \/ RestoreRpcEnd

MaintSpec == MaintInit /\ [][MaintNext]_allVars

(* Both threads run, and the IOP answers. *)
FairMaint ==
  /\ MaintSpec
  /\ WF_allVars(PostCommand \/ MainRest)
  /\ WF_allVars(HandOver \/ RunDump \/ RunRestore)
  /\ WF_allVars(DumpRpcEnd) /\ WF_allVars(RestoreRpcEnd)

(***************************************************************************)
(* Properties.  FileOutlivesTransfer, OneAnswerPerCommand and              *)
(* OperationEnds are WorkerThread's, and hold of the whole.                *)
(***************************************************************************)
(* Every variable keeps its type (system.c:2618-2842). *)
MaintTypeOK == TypeOK /\ chosen \in Transfer \cup {"none"} /\ Dump!TypeOK /\ Restore!TypeOK

(* The IOP has no request on a freed buffer, but after a failed fwrite     *)
(* (system.c:2648-2652, 2674).                                             *)
BuffersHeld == Dump!BuffersHeld

(* A dump and a restore copy the units of the card or the image once each  *)
(* and in order, do nothing after a unit that failed, and succeed only     *)
(* with all of them (system.c:2618-2797).                                  *)
DumpCopies    == Dump!CopySpec
RestoreCopies == Restore!CopySpec

(* Main announces a dump or a restore as complete only when every unit     *)
(* has been copied, unless the user stopped it: what crosses from the      *)
(* transfer to the screen is one shared variable (system.c:2485-2489,      *)
(* 2784, 2793).                                                            *)
AnnouncedIsCopied ==
  mainPc = "close" /\ state = "ok" =>
    \/ chosen = "dump" /\ (dStop \/ image = [c \in 1 .. NumSteps |-> c - 1])
    \/ chosen = "restore" /\ (rStop \/ card = [b \in 0 .. NumSteps - 1 |-> b])
=============================================================================
