---------------------------- MODULE WorkerThread ----------------------------
(***************************************************************************)
(* How the main thread of the installer drives its worker thread.          *)
(*   installer/system.c   SendWorkerThreadCommand, WorkerThread, and the   *)
(*                        parts of PerformMemoryCardDump/Restore and of    *)
(*                        DumpMemoryCard/RestoreMemoryCard that talk to    *)
(*                        each other                                       *)
(*                                                                         *)
(* The two threads share WorkerThreadCmd, WorkerThreadArg and              *)
(* WorkerThreadResultCode, with no lock: they hand over with SleepThread   *)
(* and WakeupThread, which counts the wake-ups of a thread that is awake.  *)
(* Every access to the shared variables is a step of its own, and the      *)
(* threads interleave in any order, whatever their priorities.             *)
(*                                                                         *)
(* McDump and McRestore model what the worker does inside a transfer.      *)
(***************************************************************************)
EXTENDS Naturals

CONSTANT NumSteps    \* the clusters or blocks of a transfer

ASSUME StepsAssumption == NumSteps \in Nat

Thread == {"main", "worker"}

Transfer == {"dump", "restore"}            \* WORKER_THREAD_CMD_DUMP_MC, _RESTORE_MC
Command  == Transfer \cup {"none", "stop"}
Argument == {"null", "params"}
Running  == {"cmd_ok", "busy"}             \* the result codes that keep main waiting
Final    == {"ok", "failed"}
Code     == Running \cup Final \cup {"abort", "rejected"}

VARIABLES
  cmd,        \* WorkerThreadCmd
  arg,        \* WorkerThreadArg
  code,       \* WorkerThreadResultCode
  wakeups,    \* wake-ups each thread has not used yet
  mainPc,     \* where the main thread stands
  sending,    \* the command in SendWorkerThreadCommand, and what follows it
  state,      \* WorkerThreadState, main's copy of the result code
  file,       \* whether file, and the parameters on main's stack, are alive
  workerPc,   \* where the worker stands
  command,    \* command, the worker's copy
  args,       \* CommandArgs, the worker's copy
  step,       \* cluster or block
  result,     \* result of the transfer
  outcome     \* history: how the transfer of this operation ended

mainVars   == <<mainPc, sending, state, file>>
workerVars == <<workerPc, command, args, step, result, outcome>>
vars == <<cmd, arg, code, wakeups, mainVars, workerVars>>

NoSend == [cmd |-> "none", arg |-> "null", next |-> "menu"]
Send ==
  {NoSend}
    \cup [cmd : Transfer, arg : {"params"}, next : {"poll"}]
    \cup [cmd : {"stop"}, arg : {"null"}, next : {"close", "terminate"}]

MainPc == {"menu", "set_cmd", "set_arg", "wake", "sleep", "wake_again",
           "poll", "pad", "close", "terminate", "exit"}
WorkerPc == {"read_arg", "read_cmd", "idle", "accept", "ack", "wait", "begin",
             "check", "use", "last", "stop_check", "stop_ack", "stop_code",
             "report", "reject", "reject_ack", "dead"}

(* Where the worker may touch the parameters, or the file they name. *)
Using == {"begin", "check", "use", "last"}

(* StartWorkerThread: the worker has just been created. *)
Init ==
  /\ cmd = "none" /\ arg = "null"
  /\ code = "ok"
  /\ wakeups = [t \in Thread |-> 0]
  /\ mainPc = "menu"
  /\ sending = NoSend
  /\ state = "ok"
  /\ file = "closed"
  /\ workerPc = "read_arg"
  /\ command = "none" /\ args = "null"
  /\ step = 0
  /\ result = "ok"
  /\ outcome = "none"

Wakeup(t) == wakeups' = [wakeups EXCEPT ![t] = @ + 1]

Sleep(t) ==
  /\ wakeups[t] > 0
  /\ wakeups' = [wakeups EXCEPT ![t] = @ - 1]

(***************************************************************************)
(* The main thread.  It enters SendWorkerThreadCommand from three places.  *)
(***************************************************************************)
StartSend(c, a, after) ==
  /\ sending' = [cmd |-> c, arg |-> a, next |-> after]
  /\ mainPc' = "set_cmd"

(* Nothing in the code makes the worker ready for a command; what does is  *)
(* time.  An operation begins by rebooting the IOP, and main sleeps for    *)
(* seconds while modules load; leaving the menu takes a button press, with *)
(* main asleep between frames.  The worker, of a lower priority, uses up   *)
(* its wake-ups meanwhile and is asleep.                                   *)
WorkerAsleep == workerPc = "idle" /\ wakeups["worker"] = 0

(* PerformMemoryCardDump, PerformMemoryCardRestore: the file could be      *)
(* opened.  If it could not, the worker never hears of the operation.      *)
BeginOperation(c) ==
  /\ mainPc = "menu" /\ WorkerAsleep
  /\ file' = "open"
  /\ outcome' = "none"
  /\ StartSend(c, "params", "poll")
  /\ UNCHANGED <<cmd, arg, code, wakeups, state, workerPc, command, args, step, result>>

SetCommand ==
  /\ mainPc = "set_cmd"
  /\ cmd' = sending.cmd
  /\ mainPc' = "set_arg"
  /\ UNCHANGED <<arg, code, wakeups, sending, state, file, workerVars>>

SetArgument ==
  /\ mainPc = "set_arg"
  /\ arg' = sending.arg
  /\ mainPc' = "wake"
  /\ UNCHANGED <<cmd, code, wakeups, sending, state, file, workerVars>>

WakeWorker ==
  /\ mainPc = "wake"
  /\ Wakeup("worker")
  /\ mainPc' = "sleep"
  /\ UNCHANGED <<cmd, arg, code, sending, state, file, workerVars>>

(* No caller uses the state that is read here, so it is not kept. *)
MainSleep ==
  /\ mainPc = "sleep"
  /\ Sleep("main")
  /\ mainPc' = "wake_again"
  /\ UNCHANGED <<cmd, arg, code, sending, state, file, workerVars>>

(* Mutant: SendWorkerThreadCommand without its second WakeupThread. *)
WakeWorkerAgain_Missing ==
  /\ mainPc = "wake_again"
  /\ mainPc' = sending.next
  /\ sending' = NoSend
  /\ UNCHANGED <<cmd, arg, code, wakeups, state, file, workerVars>>

WakeWorkerAgain ==
  /\ mainPc = "wake_again"
  /\ Wakeup("worker")
  /\ mainPc' = sending.next
  /\ sending' = NoSend
  /\ UNCHANGED <<cmd, arg, code, state, file, workerVars>>

Poll ==
  /\ mainPc = "poll"
  /\ state' = code
  /\ mainPc' = "pad"
  /\ UNCHANGED <<cmd, arg, code, wakeups, sending, file, workerVars>>

(* The user presses cancel, and confirms. *)
Cancel ==
  /\ mainPc = "pad"
  /\ StartSend("stop", "null", "close")
  /\ UNCHANGED <<cmd, arg, code, wakeups, state, file, workerVars>>

(* Mutant: main waits only while the code is WORKER_THREAD_RES_BSY. *)
KeepsWaiting_Busy == state = "busy"

KeepsWaiting == state \in Running

GoOn ==
  /\ mainPc = "pad"
  /\ mainPc' = IF KeepsWaiting THEN "poll" ELSE "close"
  /\ UNCHANGED <<cmd, arg, code, wakeups, sending, state, file, workerVars>>

(* fclose; the function returns, and the parameters with it. *)
Close ==
  /\ mainPc = "close"
  /\ file' = "closed"
  /\ mainPc' = "menu"
  /\ UNCHANGED <<cmd, arg, code, wakeups, sending, state, workerVars>>

(* StopWorkerThread, when the program exits. *)
Quit ==
  /\ mainPc = "menu" /\ WorkerAsleep
  /\ StartSend("stop", "null", "terminate")
  /\ UNCHANGED <<cmd, arg, code, wakeups, state, file, workerVars>>

Terminate ==
  /\ mainPc = "terminate"
  /\ workerPc' = "dead"
  /\ mainPc' = "exit"
  /\ UNCHANGED <<cmd, arg, code, wakeups, sending, state, file,
                 command, args, step, result, outcome>>

MainStep ==
  \/ SetCommand \/ SetArgument \/ WakeWorker \/ MainSleep \/ WakeWorkerAgain
  \/ Poll \/ GoOn \/ Close \/ Terminate

(***************************************************************************)
(* The worker: GetWorkerThreadCommand reads the argument, then the command.*)
(***************************************************************************)
ReadArgument ==
  /\ workerPc = "read_arg"
  /\ args' = arg
  /\ workerPc' = "read_cmd"
  /\ UNCHANGED <<cmd, arg, code, wakeups, mainVars, command, step, result, outcome>>

ReadCommand ==
  /\ workerPc = "read_cmd"
  /\ command' = cmd
  /\ workerPc' = CASE cmd = "none"        -> "idle"
                   [] cmd \in Transfer    -> "accept"
                   [] OTHER               -> "reject"
  /\ UNCHANGED <<cmd, arg, code, wakeups, mainVars, args, step, result, outcome>>

IdleSleep ==
  /\ workerPc = "idle"
  /\ Sleep("worker")
  /\ workerPc' = "read_arg"
  /\ UNCHANGED <<cmd, arg, code, mainVars, command, args, step, result, outcome>>

(* Mutant: the command stays in WorkerThreadCmd. *)
ClearCommand_ArgOnly == arg' = "null" /\ UNCHANGED cmd

ClearCommand == cmd' = "none" /\ arg' = "null"

(* Mutant: the old result code stays until the transfer begins. *)
CommandOk_Late == UNCHANGED code

CommandOk == code' = "cmd_ok"

Accept ==
  /\ workerPc = "accept"
  /\ ClearCommand
  /\ CommandOk
  /\ workerPc' = "ack"
  /\ UNCHANGED <<wakeups, mainVars, command, args, step, result, outcome>>

Acknowledge ==
  /\ workerPc = "ack"
  /\ Wakeup("main")
  /\ workerPc' = "wait"
  /\ UNCHANGED <<cmd, arg, code, mainVars, command, args, step, result, outcome>>

WaitForMain ==
  /\ workerPc = "wait"
  /\ Sleep("worker")
  /\ workerPc' = "begin"
  /\ UNCHANGED <<cmd, arg, code, mainVars, command, args, step, result, outcome>>

(* The buffers are allocated, or there is no memory for them. *)
Begin ==
  /\ workerPc = "begin"
  /\ code' = "busy"
  /\ step' = 0
  /\ \/ result' = "ok" /\ workerPc' = "check"
     \/ result' = "failed" /\ workerPc' = "stop_check"
  /\ UNCHANGED <<cmd, arg, wakeups, mainVars, command, args, outcome>>

MoreSteps == step < NumSteps

(* The loop condition, and the test for WORKER_THREAD_CMD_STOP. *)
Check ==
  /\ workerPc = "check"
  /\ workerPc' = IF MoreSteps /\ cmd # "stop" THEN "use" ELSE "last"
  /\ UNCHANGED <<cmd, arg, code, wakeups, mainVars, command, args, step, result, outcome>>

(* One cluster or block is transferred, or the loop is left on an error. *)
Use ==
  /\ workerPc = "use"
  /\ \/ step' = step + 1 /\ workerPc' = "check" /\ UNCHANGED result
     \/ result' = "failed" /\ workerPc' = "last" /\ UNCHANGED step
  /\ UNCHANGED <<cmd, arg, code, wakeups, mainVars, command, args, outcome>>

(* After the loop: the cluster that is not written yet, or the last Sync. *)
UseLast ==
  /\ workerPc = "last"
  /\ result' \in IF result = "ok" THEN Final ELSE {result}
  /\ workerPc' = "stop_check"
  /\ UNCHANGED <<cmd, arg, code, wakeups, mainVars, command, args, step, outcome>>

StopCheck ==
  /\ workerPc = "stop_check"
  /\ IF cmd = "stop"
       THEN ClearCommand /\ workerPc' = "stop_ack"
       ELSE workerPc' = "report" /\ UNCHANGED <<cmd, arg>>
  /\ UNCHANGED <<code, wakeups, mainVars, command, args, step, result, outcome>>

StopAcknowledge ==
  /\ workerPc = "stop_ack"
  /\ Wakeup("main")
  /\ workerPc' = "stop_code"
  /\ UNCHANGED <<cmd, arg, code, mainVars, command, args, step, result, outcome>>

StopCode ==
  /\ workerPc = "stop_code"
  /\ code' = "abort"
  /\ workerPc' = "report"
  /\ UNCHANGED <<cmd, arg, wakeups, mainVars, command, args, step, result, outcome>>

(* Overwrites the "abort" of StopCode. *)
Report ==
  /\ workerPc = "report"
  /\ code' = result
  /\ outcome' = result
  /\ workerPc' = "read_arg"
  /\ UNCHANGED <<cmd, arg, wakeups, mainVars, command, args, step, result>>

(* default: a STOP that arrives when nothing is running. *)
Reject ==
  /\ workerPc = "reject"
  /\ ClearCommand
  /\ code' = "rejected"
  /\ workerPc' = "reject_ack"
  /\ UNCHANGED <<wakeups, mainVars, command, args, step, result, outcome>>

RejectAcknowledge ==
  /\ workerPc = "reject_ack"
  /\ Wakeup("main")
  /\ workerPc' = "idle"
  /\ UNCHANGED <<cmd, arg, code, mainVars, command, args, step, result, outcome>>

WorkerStep ==
  \/ ReadArgument \/ ReadCommand \/ IdleSleep
  \/ Accept \/ Acknowledge \/ WaitForMain
  \/ Begin \/ Check \/ Use \/ UseLast
  \/ StopCheck \/ StopAcknowledge \/ StopCode \/ Report
  \/ Reject \/ RejectAcknowledge

Next ==
  \/ \E c \in Transfer : BeginOperation(c)
  \/ Cancel
  \/ Quit
  \/ MainStep
  \/ WorkerStep

Spec == Init /\ [][Next]_vars

(* Both threads run: main never hogs the processor, because it waits for a *)
(* vertical blank in every frame it draws, and accesses to files and cards *)
(* return.  The user need not start, cancel or quit anything.              *)
FairSpec == Spec /\ WF_vars(MainStep) /\ WF_vars(WorkerStep)

(***************************************************************************)
(* Properties.                                                             *)
(***************************************************************************)
TypeOK ==
  /\ cmd \in Command /\ arg \in Argument
  /\ code \in Code
  /\ wakeups \in [Thread -> Nat]
  /\ mainPc \in MainPc
  /\ sending \in Send
  /\ state \in Code
  /\ file \in {"open", "closed"}
  /\ workerPc \in WorkerPc
  /\ command \in Command /\ args \in Argument
  /\ step \in 0 .. NumSteps
  /\ result \in Final
  /\ outcome \in Final \cup {"none"}

(* WorkerThreadParam is on the stack of PerformMemoryCardDump/Restore, and *)
(* the file is closed before they return: the worker is done with both by  *)
(* then, also when the user cancels (system.c:2471, 2489).                 *)
FileOutlivesTransfer == workerPc \in Using => file = "open" /\ args = "params"

(* Each command is answered with one WakeupThread(MainThreadID).  A second *)
(* one would be kept, and make a later SendWorkerThreadCommand return      *)
(* before the worker has seen its command (system.c:2687, 2787, 2806).     *)
Answering == {"ack", "stop_ack", "reject_ack"}
Awaiting  == {"set_arg", "wake", "sleep"}
One(b)    == IF b THEN 1 ELSE 0

OneAnswerPerCommand ==
  wakeups["main"] + One(cmd # "none") + One(workerPc \in Answering)
    = One(mainPc \in Awaiting)

(* main stops polling on the code that this operation's transfer ended     *)
(* with, never on one left over from an earlier command (system.c:2485).   *)
StateIsOfThisOperation ==
  mainPc \in {"pad", "close"} => state \in Running \cup {outcome}

(* A dump or a restore ends, cancelled or not (system.c:2464-2489).        *)
OperationEnds == file = "open" ~> file = "closed"
=============================================================================
