----------------------- MODULE CardMaintenanceProofs ------------------------
(***************************************************************************)
(* Dump and restore as a whole, for a card of any size.  First the safety  *)
(* of the hand-over between the main thread and the worker: the inductive  *)
(* invariant says, for each phase of the one thread, where the other can   *)
(* stand.  Then each of the two transfers by itself.  The proof of the     *)
(* whole is put together from these: a step of the whole is a step of the  *)
(* hand-over, of the dump and of the restore, or none of theirs, and what  *)
(* links the parts is where the worker stands in each.                     *)
(***************************************************************************)
EXTENDS CardMaintenance, Sequences, SequenceTheorems, TLAPS

Sending == {"set_cmd", "set_arg", "wake", "sleep", "wake_again"}

(* A command in WorkerThreadCmd is the one main is sending; the worker     *)
(* only rejects what is there.                                             *)
SendInv ==
  /\ mainPc \in Sending => sending # NoSend
  /\ cmd # "none" => cmd = sending.cmd
  /\ workerPc = "reject" => cmd # "none"

(* From the moment the worker takes a transfer until it has answered a     *)
(* STOP, or ended, main is in the operation and has not left it.           *)
Busy == {"accept", "ack", "wait", "begin", "check", "use", "last", "stop_check"}

MainInOperation ==
  \/ mainPc = "sleep" /\ sending.cmd \in Transfer
  \/ mainPc = "wake_again" /\ sending.next = "poll"
  \/ mainPc = "poll"
  \/ mainPc = "pad" /\ state \in Running
  \/ /\ mainPc \in Awaiting \cup {"set_cmd"}
     /\ sending.next = "close"
     /\ wakeups["main"] = 0

BusyInv ==
  /\ workerPc \in Busy => args = "params" /\ file = "open" /\ MainInOperation
  /\ workerPc \in {"accept", "ack"} => mainPc = "sleep" /\ sending.cmd \in Transfer
  /\ workerPc = "ack" => code \in Running

(* Once main knows that its transfer was taken, the result code is of this *)
(* transfer.                                                               *)
Polling ==
  \/ mainPc \in {"poll", "pad"}
  \/ mainPc = "wake_again" /\ sending.next = "poll"
  \/ mainPc = "sleep" /\ sending.cmd \in Transfer /\ wakeups["main"] = 1

PollInv ==
  Polling =>
    \/ workerPc \in (Busy \ {"accept", "ack"}) \cup {"report"} /\ code \in Running
    \/ workerPc \in {"read_arg", "read_cmd", "idle"} /\ code = outcome

(* A transfer that has not been taken finds the worker asleep, or on its   *)
(* way to the command.                                                     *)
StartInv ==
  /\ mainPc \in {"set_cmd", "set_arg", "wake"} /\ sending.cmd \in Transfer =>
       /\ WorkerAsleep
       /\ outcome = "none" /\ file = "open"
       /\ mainPc # "set_cmd" => cmd # "none"
       /\ mainPc = "wake" => arg = "params"
  /\ mainPc = "sleep" /\ sending.cmd \in Transfer /\ wakeups["main"] = 0 =>
       /\ outcome = "none" /\ file = "open"
       /\ \/ workerPc \in {"idle", "read_arg"} /\ arg = "params"
          \/ workerPc \in {"read_cmd", "accept", "ack"} /\ args = "params"

(* The transfer has no outcome before the worker reports one. *)
OutcomeInv ==
  workerPc \in Busy \cup {"stop_ack", "stop_code", "report"} => outcome = "none"

StateInv ==
  mainPc \in {"pad", "close"} \/ sending.next = "close" =>
    state \in Running \cup {outcome}

(* The loop condition held when the loop was entered. *)
StepInv == workerPc = "use" => step < NumSteps

IInv ==
  /\ TypeOK
  /\ StepInv
  /\ OneAnswerPerCommand
  /\ SendInv
  /\ BusyInv
  /\ PollInv
  /\ StartInv
  /\ OutcomeInv
  /\ StateInv

(* What the type of sending says about its fields. *)
LEMMA SendFields ==
  ASSUME sending \in Send
  PROVE  /\ sending.cmd \in Command /\ sending.arg \in Argument
         /\ sending.next \in {"menu", "poll", "close", "terminate"}
         /\ sending.cmd \in Transfer <=> sending.next = "poll"
         /\ sending.cmd = "stop" <=> sending.next \in {"close", "terminate"}
         /\ sending.cmd \in Transfer => sending.arg = "params"
         /\ sending # NoSend => sending.cmd # "none"
         /\ sending = NoSend => sending.cmd = "none" /\ sending.next = "menu"
  BY DEF Send, NoSend, Command, Argument, Transfer

LEMMA InitIInv == Init => IInv
  BY StepsAssumption
     DEF Init, IInv, TypeOK, OneAnswerPerCommand, SendInv, BusyInv, PollInv,
         StartInv, OutcomeInv, StateInv, Command, Argument, Code, Running, Final,
         MainPc, WorkerPc, Send, NoSend, Thread, Transfer, Sending, Busy, Polling,
         One, Answering, Awaiting, StepInv

(***************************************************************************)
(* Types.                                                                  *)
(***************************************************************************)
LEMMA TypeStep ==
  ASSUME TypeOK, StepInv, [Next]_vars
  PROVE  TypeOK'
  <1> USE StepsAssumption
      DEF TypeOK, Command, Argument, Code, Running, Final, MainPc, WorkerPc,
          Transfer, Thread
  <1>1. ASSUME wakeups' = wakeups \/ (\E t \in Thread : Wakeup(t) \/ Sleep(t))
        PROVE  wakeups' \in [Thread -> Nat]
    BY <1>1 DEF Wakeup, Sleep
  <1>2. ASSUME NEW c \in Transfer, BeginOperation(c) PROVE TypeOK'
    BY <1>2, <1>1 DEF BeginOperation, StartSend, Send, mainVars, workerVars
  <1>3. ASSUME Cancel PROVE TypeOK'
    BY <1>3, <1>1 DEF Cancel, StartSend, Send, NoSend, mainVars, workerVars
  <1>4. ASSUME Quit PROVE TypeOK'
    BY <1>4, <1>1 DEF Quit, StartSend, Send, NoSend, mainVars, workerVars
  <1>5. ASSUME SetCommand PROVE TypeOK'
    BY <1>5, <1>1, SendFields DEF SetCommand, mainVars, workerVars
  <1>6. ASSUME SetArgument PROVE TypeOK'
    BY <1>6, <1>1, SendFields DEF SetArgument, mainVars, workerVars
  <1>7. ASSUME WakeWorker PROVE TypeOK'
    BY <1>7, <1>1 DEF WakeWorker, Wakeup, mainVars, workerVars
  <1>8. ASSUME MainSleep PROVE TypeOK'
    BY <1>8, <1>1 DEF MainSleep, Sleep, mainVars, workerVars
  <1>9. ASSUME WakeWorkerAgain PROVE TypeOK'
    BY <1>9, <1>1, SendFields DEF WakeWorkerAgain, Wakeup, Send, NoSend, mainVars, workerVars
  <1>10. ASSUME Poll PROVE TypeOK'
    BY <1>10, <1>1 DEF Poll, mainVars, workerVars
  <1>11. ASSUME GoOn PROVE TypeOK'
    BY <1>11, <1>1 DEF GoOn, KeepsWaiting, mainVars, workerVars
  <1>12. ASSUME Close PROVE TypeOK'
    BY <1>12, <1>1 DEF Close, mainVars, workerVars
  <1>13. ASSUME Terminate PROVE TypeOK'
    BY <1>13, <1>1 DEF Terminate, mainVars, workerVars
  <1>14. ASSUME ReadArgument PROVE TypeOK'
    BY <1>14, <1>1 DEF ReadArgument, mainVars, workerVars
  <1>15. ASSUME ReadCommand PROVE TypeOK'
    BY <1>15, <1>1 DEF ReadCommand, mainVars, workerVars
  <1>16. ASSUME IdleSleep PROVE TypeOK'
    BY <1>16, <1>1 DEF IdleSleep, Sleep, mainVars, workerVars
  <1>17. ASSUME Accept PROVE TypeOK'
    BY <1>17, <1>1 DEF Accept, ClearCommand, CommandOk, mainVars, workerVars
  <1>18. ASSUME Acknowledge PROVE TypeOK'
    BY <1>18, <1>1 DEF Acknowledge, Wakeup, mainVars, workerVars
  <1>19. ASSUME WaitForMain PROVE TypeOK'
    BY <1>19, <1>1 DEF WaitForMain, Sleep, mainVars, workerVars
  <1>20. ASSUME Begin PROVE TypeOK'
    BY <1>20, <1>1 DEF Begin, mainVars, workerVars
  <1>21. ASSUME Check PROVE TypeOK'
    BY <1>21, <1>1 DEF Check, MoreSteps, mainVars, workerVars
  <1>22. ASSUME Use PROVE TypeOK'
    BY <1>22, <1>1 DEF Use, StepInv, mainVars, workerVars
  <1>23. ASSUME UseLast PROVE TypeOK'
    BY <1>23, <1>1 DEF UseLast, mainVars, workerVars
  <1>24. ASSUME StopCheck PROVE TypeOK'
    BY <1>24, <1>1 DEF StopCheck, ClearCommand, mainVars, workerVars
  <1>25. ASSUME StopAcknowledge PROVE TypeOK'
    BY <1>25, <1>1 DEF StopAcknowledge, Wakeup, mainVars, workerVars
  <1>26. ASSUME StopCode PROVE TypeOK'
    BY <1>26, <1>1 DEF StopCode, mainVars, workerVars
  <1>27. ASSUME Report PROVE TypeOK'
    BY <1>27, <1>1 DEF Report, mainVars, workerVars
  <1>28. ASSUME Reject PROVE TypeOK'
    BY <1>28, <1>1 DEF Reject, ClearCommand, mainVars, workerVars
  <1>29. ASSUME RejectAcknowledge PROVE TypeOK'
    BY <1>29, <1>1 DEF RejectAcknowledge, Wakeup, mainVars, workerVars
  <1>30. CASE UNCHANGED vars
    BY <1>30 DEF vars, mainVars, workerVars
  <1>31. QED
    BY <1>2, <1>3, <1>4, <1>5, <1>6, <1>7, <1>8, <1>9, <1>10, <1>11, <1>12, <1>13, <1>14, <1>15, <1>16, <1>17, <1>18, <1>19, <1>20, <1>21, <1>22, <1>23, <1>24, <1>25, <1>26, <1>27, <1>28, <1>29, <1>30 DEF Next, MainStep, WorkerStep

(***************************************************************************)
(* The other conjuncts, action by action.                                  *)
(***************************************************************************)
Rest ==
  /\ StepInv /\ OneAnswerPerCommand /\ SendInv /\ BusyInv
  /\ PollInv /\ StartInv /\ OutcomeInv /\ StateInv

LEMMA RestStep ==
  ASSUME IInv, [Next]_vars
  PROVE  Rest'
  <1>0. TypeOK'
    BY TypeStep DEF IInv
  <1> USE <1>0, SendFields, StepsAssumption
      DEF IInv, Rest, TypeOK, StepInv, OneAnswerPerCommand, SendInv, BusyInv, PollInv,
          StartInv, OutcomeInv, StateInv, Busy, Polling, MainInOperation, Sending,
          One, Answering, Awaiting, WorkerAsleep, Running, Final, Code, Thread, Transfer
  <1>1. ASSUME NEW c \in Transfer, BeginOperation(c) PROVE Rest'
    BY <1>1 DEF BeginOperation, StartSend, NoSend, mainVars, workerVars
  <1>2. ASSUME Cancel PROVE Rest'
    BY <1>2 DEF Cancel, StartSend, NoSend, mainVars, workerVars
  <1>3. ASSUME Quit PROVE Rest'
    BY <1>3 DEF Quit, StartSend, NoSend, mainVars, workerVars
  <1>4. ASSUME SetCommand PROVE Rest'
    BY <1>4 DEF SetCommand, mainVars, workerVars
  <1>5. ASSUME SetArgument PROVE Rest'
    BY <1>5 DEF SetArgument, mainVars, workerVars
  <1>6. ASSUME WakeWorker PROVE Rest'
    <2>1. /\ wakeups'["main"] = wakeups["main"]
          /\ mainPc = "wake" /\ mainPc' = "sleep"
          /\ UNCHANGED <<cmd, arg, code, sending, state, file, workerVars>>
      BY <1>6 DEF WakeWorker, Wakeup
    <2>2. sending.cmd \in Transfer => cmd # "none" /\ wakeups["main"] = 0
      BY <2>1
    <2>3. StepInv' /\ OneAnswerPerCommand' /\ SendInv' /\ OutcomeInv' /\ StateInv'
      BY <2>1 DEF workerVars
    <2>4. BusyInv'
      BY <2>1, <2>2 DEF workerVars
    <2>5. PollInv'
      BY <2>1, <2>2 DEF workerVars
    <2>6. StartInv'
      BY <2>1, <2>2 DEF workerVars
    <2>7. QED
      BY <2>3, <2>4, <2>5, <2>6
  <1>7. ASSUME MainSleep PROVE Rest'
    BY <1>7 DEF MainSleep, Sleep, mainVars, workerVars
  <1>8. ASSUME WakeWorkerAgain PROVE Rest'
    BY <1>8 DEF WakeWorkerAgain, Wakeup, NoSend, mainVars, workerVars
  <1>9. ASSUME Poll PROVE Rest'
    BY <1>9 DEF Poll, mainVars, workerVars
  <1>10. ASSUME GoOn PROVE Rest'
    BY <1>10 DEF GoOn, KeepsWaiting, mainVars, workerVars
  <1>11. ASSUME Close PROVE Rest'
    BY <1>11 DEF Close, mainVars, workerVars
  <1>12. ASSUME Terminate PROVE Rest'
    BY <1>12 DEF Terminate, mainVars, workerVars
  <1>13. ASSUME ReadArgument PROVE Rest'
    BY <1>13 DEF ReadArgument, mainVars, workerVars
  <1>14. ASSUME ReadCommand PROVE Rest'
    BY <1>14 DEF ReadCommand, mainVars, workerVars
  <1>15. ASSUME IdleSleep PROVE Rest'
    BY <1>15 DEF IdleSleep, Sleep, mainVars, workerVars
  <1>16. ASSUME Accept PROVE Rest'
    BY <1>16 DEF Accept, ClearCommand, CommandOk, mainVars, workerVars
  <1>17. ASSUME Acknowledge PROVE Rest'
    BY <1>17 DEF Acknowledge, Wakeup, mainVars, workerVars
  <1>18. ASSUME WaitForMain PROVE Rest'
    BY <1>18 DEF WaitForMain, Sleep, mainVars, workerVars
  <1>19. ASSUME Begin PROVE Rest'
    BY <1>19 DEF Begin, mainVars, workerVars
  <1>20. ASSUME Check PROVE Rest'
    BY <1>20 DEF Check, MoreSteps, mainVars, workerVars
  <1>21. ASSUME Use PROVE Rest'
    BY <1>21 DEF Use, mainVars, workerVars
  <1>22. ASSUME UseLast PROVE Rest'
    BY <1>22 DEF UseLast, mainVars, workerVars
  <1>23. ASSUME StopCheck PROVE Rest'
    BY <1>23 DEF StopCheck, ClearCommand, mainVars, workerVars
  <1>24. ASSUME StopAcknowledge PROVE Rest'
    BY <1>24 DEF StopAcknowledge, Wakeup, mainVars, workerVars
  <1>25. ASSUME StopCode PROVE Rest'
    BY <1>25 DEF StopCode, mainVars, workerVars
  <1>26. ASSUME Report PROVE Rest'
    BY <1>26 DEF Report, mainVars, workerVars
  <1>27. ASSUME Reject PROVE Rest'
    BY <1>27 DEF Reject, ClearCommand, mainVars, workerVars
  <1>28. ASSUME RejectAcknowledge PROVE Rest'
    BY <1>28 DEF RejectAcknowledge, Wakeup, mainVars, workerVars
  <1>29. CASE UNCHANGED vars
    BY <1>29 DEF vars, mainVars, workerVars
  <1>30. QED
    BY <1>1, <1>2, <1>3, <1>4, <1>5, <1>6, <1>7, <1>8, <1>9, <1>10, <1>11, <1>12, <1>13, <1>14, <1>15, <1>16, <1>17, <1>18, <1>19, <1>20, <1>21, <1>22, <1>23, <1>24, <1>25, <1>26, <1>27, <1>28, <1>29 DEF Next, MainStep, WorkerStep

(* The invariant holds in every state that the two threads can reach. *)
THEOREM Invariant == Spec => []IInv
  <1>1. IInv /\ [Next]_vars => IInv'
    BY TypeStep, RestStep DEF IInv, Rest
  <1>2. QED
    BY InitIInv, <1>1, PTL DEF Spec

(* The variables have the types their declarations give them: in           *)
(* particular no transfer counts past its last cluster (system.c:2633).    *)
THEOREM TypeCorrect == Spec => []TypeOK
  BY Invariant, PTL DEF IInv

(* The worker never uses the parameters, which are on main's stack, or the *)
(* dump file after main has closed it (system.c:2471, 2489).               *)
THEOREM FileOutlives == Spec => []FileOutlivesTransfer
  <1>1. IInv => FileOutlivesTransfer
    BY DEF IInv, BusyInv, Busy, FileOutlivesTransfer, Using
  <1>2. QED
    BY Invariant, <1>1, PTL

(* Commands and answers pair up, so that no wake-up of main is left over   *)
(* (system.c:2687, 2787, 2806).                                            *)
THEOREM AnswersPairUp == Spec => []OneAnswerPerCommand
  BY Invariant, PTL DEF IInv

(* main ends an operation on that operation's own result (system.c:2485). *)
THEOREM StateIsCurrent == Spec => []StateIsOfThisOperation
  <1>1. IInv => StateIsOfThisOperation
    BY DEF IInv, StateInv, StateIsOfThisOperation
  <1>2. QED
    BY Invariant, <1>1, PTL

(***************************************************************************)
(* A dump: the buffers, and the order in which the clusters reach the      *)
(* file.                                                                   *)
(***************************************************************************)
(* A card has clusters. *)
SomeUnits == NumSteps \in Nat \ {0}

LEMMA UnitsAre == SomeUnits
  BY StepsAssumption, UnitsAssumption DEF SomeUnits

(* The first n clusters. *)
FirstOf(n) == [c \in 1 .. n |-> c - 1]

DumpTypes ==
  /\ dPc \in {"alloc", "loop", "read", "write", "sync", "last", "free", "done"}
  /\ cluster \in 0 .. NumSteps
  /\ dBank \in Dump!Bank
  /\ dBuffer \in [Dump!Bank -> Dump!Data]
  /\ dAllocated \in BOOLEAN
  /\ image \in Seq(Dump!Data)
  /\ dResult \in {"ok", "src", "dst", "no_memory"}
  /\ dStop \in BOOLEAN
  /\ dRpc \in Dump!Rpc
  /\ dSema \in {0, 1}
  /\ dError \in Dump!Outcome

DumpInside == {"loop", "read", "write", "sync", "last", "free"}

(* A request is on its way between ReadCluster and Sync, or was left       *)
(* behind by a failed fwrite.                                              *)
DumpRequestInv ==
  /\ dRpc # Dump!NoRpc <=> dSema = 0
  /\ dRpc # Dump!NoRpc => dPc \in {"write", "sync"} \/ dResult = "dst"
  /\ dPc \in {"alloc", "loop", "read", "write", "sync"} => dResult = "ok"
  /\ dAllocated <=> dPc \in DumpInside

(* Where in the loop the file stands. *)
Before == IF cluster = 0 THEN 0 ELSE cluster - 1

DumpLoopInv ==
  /\ dPc \in {"read", "write", "sync"} => cluster < NumSteps
  /\ dPc = "alloc" => cluster = 0
  /\ dPc \in {"alloc", "loop", "read", "write"} => Len(image) = Before
  /\ dPc = "sync" => Len(image) = cluster
  /\ dPc = "last" => IF dResult = "ok" THEN Len(image) = Before ELSE Len(image) <= cluster
  /\ dPc \in {"free", "done"} /\ ~ Dump!StoppedAtOnce =>
       IF dResult = "ok" THEN Len(image) = cluster ELSE Len(image) <= cluster
  /\ dPc \in {"last", "free", "done"} /\ dResult = "ok" /\ ~ dStop => cluster = NumSteps

(* The buffer that is not being filled has the cluster before, and the     *)
(* other one what the request has brought.                                 *)
DumpBufferInv ==
  /\ dPc \in {"loop", "read", "write"} \/ (dPc = "last" /\ dResult = "ok") =>
       (cluster > 0 => dBuffer[Dump!Other(dBank)] = cluster - 1)
  /\ dPc \in {"write", "sync"} =>
       IF dRpc # Dump!NoRpc THEN dRpc = [cluster |-> cluster, bank |-> dBank]
       ELSE dError = "ok" => dBuffer[dBank] = cluster

DumpFileInv == ~ Dump!StoppedAtOnce => image = FirstOf(Len(image))

DumpInv == SomeUnits /\ DumpTypes /\ DumpRequestInv /\ DumpLoopInv /\ DumpBufferInv /\ DumpFileInv

LEMMA DumpNextOne ==
  ASSUME NEW n \in Nat
  PROVE  /\ Append(FirstOf(n), n) = FirstOf(n + 1)
         /\ FirstOf(n) \in Seq(Nat) /\ Len(FirstOf(n)) = n
  BY DEF FirstOf

LEMMA DumpInitInv == SomeUnits /\ Dump!Init => DumpInv
  BY DEF SomeUnits, Dump!Init, DumpInv, DumpTypes, DumpRequestInv, DumpLoopInv, DumpBufferInv,
         DumpFileInv, DumpInside, Before,
         FirstOf, Dump!StoppedAtOnce, Dump!Bank, Dump!Data, Dump!Junk, Dump!Cluster, Dump!Rpc,
         Dump!NoRpc, Dump!Outcome

(* One lemma per conjunct; the actions are the cases of each.              *)
LEMMA DumpTypesStep ==
  ASSUME DumpInv, [Dump!Next]_(Dump!vars)
  PROVE  DumpTypes'
  <1> USE DEF SomeUnits, DumpInv, DumpTypes, Dump!Bank, Dump!Other, Dump!Data, Dump!Junk,
              Dump!Cluster, Dump!Rpc, Dump!NoRpc, Dump!Outcome
  <1>0. ASSUME Dump!WriteBuffer(Dump!Other(dBank))
        PROVE  image' \in Seq(Dump!Data) /\ dResult' \in {dResult, "dst"}
    <2>1. dBuffer[Dump!Other(dBank)] \in Dump!Data
      OBVIOUS
    <2>2. Append(image, dBuffer[Dump!Other(dBank)]) \in Seq(Dump!Data)
      BY <2>1
    <2>3. QED
      BY <1>0, <2>2 DEF Dump!WriteBuffer
  <1>1. CASE Dump!Allocate BY <1>1 DEF Dump!Allocate
  <1>2. CASE Dump!Loop BY <1>2 DEF Dump!Loop
  <1>3. CASE Dump!ReadCluster
    BY <1>3 DEF Dump!ReadCluster, DumpLoopInv
  <1>4. CASE Dump!WriteFile
    BY <1>4, <1>0 DEF Dump!WriteFile
  <1>5. CASE Dump!Sync
    BY <1>5 DEF Dump!Sync, DumpLoopInv
  <1>6. CASE Dump!WriteLast BY <1>6, <1>0 DEF Dump!WriteLast
  <1>7. CASE Dump!Free BY <1>7 DEF Dump!Free
  <1>8. CASE Dump!RpcEnd BY <1>8 DEF Dump!RpcEnd, Dump!EndFunction
  <1>9. CASE Dump!PostStop BY <1>9 DEF Dump!PostStop
  <1>10. CASE UNCHANGED Dump!vars BY <1>10 DEF Dump!vars
  <1>11. QED
    BY <1>1, <1>2, <1>3, <1>4, <1>5, <1>6, <1>7, <1>8, <1>9, <1>10 DEF Dump!Next, Dump!WorkerStep

LEMMA DumpRequestStep ==
  ASSUME DumpInv, [Dump!Next]_(Dump!vars)
  PROVE  DumpRequestInv'
  <1> USE DEF DumpInv, DumpTypes, DumpRequestInv, DumpInside
  <1>1. CASE Dump!Allocate BY <1>1 DEF Dump!Allocate
  <1>2. CASE Dump!Loop BY <1>2 DEF Dump!Loop
  <1>3. CASE Dump!ReadCluster
    BY <1>3 DEF Dump!ReadCluster, Dump!NoRpc, Dump!Bank
  <1>4. CASE Dump!WriteFile BY <1>4 DEF Dump!WriteFile, Dump!WriteBuffer
  <1>5. CASE Dump!Sync BY <1>5 DEF Dump!Sync, Dump!RequestDone
  <1>6. CASE Dump!WriteLast BY <1>6 DEF Dump!WriteLast, Dump!WriteBuffer
  <1>7. CASE Dump!Free BY <1>7 DEF Dump!Free
  <1>8. CASE Dump!RpcEnd BY <1>8 DEF Dump!RpcEnd, Dump!EndFunction
  <1>9. CASE Dump!PostStop BY <1>9 DEF Dump!PostStop
  <1>10. CASE UNCHANGED Dump!vars BY <1>10 DEF Dump!vars
  <1>11. QED
    BY <1>1, <1>2, <1>3, <1>4, <1>5, <1>6, <1>7, <1>8, <1>9, <1>10 DEF Dump!Next, Dump!WorkerStep

LEMMA DumpLoopStep ==
  ASSUME DumpInv, [Dump!Next]_(Dump!vars)
  PROVE  DumpLoopInv'
  <1> USE DEF SomeUnits, DumpInv, DumpTypes, DumpRequestInv, DumpLoopInv, Before,
              Dump!StoppedAtOnce, DumpInside
  <1>0. ASSUME NEW b \in Dump!Bank, Dump!WriteBuffer(b)
        PROVE  \/ dResult' = dResult /\ Len(image') = Len(image) + 1
               \/ dResult' = "dst" /\ image' = image
    BY <1>0 DEF Dump!WriteBuffer
  <1>1. CASE Dump!Allocate BY <1>1 DEF Dump!Allocate
  <1>2. CASE Dump!Loop BY <1>2 DEF Dump!Loop, Dump!MoreClusters
  <1>3. CASE Dump!ReadCluster BY <1>3 DEF Dump!ReadCluster
  <1>4. CASE Dump!WriteFile
    BY <1>4, <1>0 DEF Dump!WriteFile, Dump!BothFilled, Dump!Other, Dump!Bank
  <1>5. CASE Dump!Sync BY <1>5 DEF Dump!Sync
  <1>6. CASE Dump!WriteLast
    BY <1>6, <1>0 DEF Dump!WriteLast, Dump!Other, Dump!Bank
  <1>7. CASE Dump!Free BY <1>7 DEF Dump!Free
  <1>8. CASE Dump!RpcEnd BY <1>8 DEF Dump!RpcEnd
  <1>9. CASE Dump!PostStop BY <1>9 DEF Dump!PostStop
  <1>10. CASE UNCHANGED Dump!vars BY <1>10 DEF Dump!vars
  <1>11. QED
    BY <1>1, <1>2, <1>3, <1>4, <1>5, <1>6, <1>7, <1>8, <1>9, <1>10 DEF Dump!Next, Dump!WorkerStep

LEMMA DumpBufferStep ==
  ASSUME DumpInv, [Dump!Next]_(Dump!vars)
  PROVE  DumpBufferInv'
  <1> USE DEF SomeUnits, DumpInv, DumpTypes, DumpRequestInv, DumpLoopInv, DumpBufferInv,
              Dump!Bank, Dump!Other
  <1>1. CASE Dump!Allocate BY <1>1 DEF Dump!Allocate
  <1>2. CASE Dump!Loop BY <1>2 DEF Dump!Loop
  <1>3. CASE Dump!ReadCluster BY <1>3 DEF Dump!ReadCluster, Dump!NoRpc
  <1>4. CASE Dump!WriteFile BY <1>4 DEF Dump!WriteFile, Dump!WriteBuffer
  <1>5. CASE Dump!Sync BY <1>5 DEF Dump!Sync, Dump!RequestDone, Dump!Outcome
  <1>6. CASE Dump!WriteLast BY <1>6 DEF Dump!WriteLast, Dump!WriteBuffer
  <1>7. CASE Dump!Free BY <1>7 DEF Dump!Free
  <1>8. CASE Dump!RpcEnd BY <1>8 DEF Dump!RpcEnd, Dump!EndFunction, Dump!Rpc, Dump!NoRpc
  <1>9. CASE Dump!PostStop BY <1>9 DEF Dump!PostStop
  <1>10. CASE UNCHANGED Dump!vars BY <1>10 DEF Dump!vars
  <1>11. QED
    BY <1>1, <1>2, <1>3, <1>4, <1>5, <1>6, <1>7, <1>8, <1>9, <1>10 DEF Dump!Next, Dump!WorkerStep

LEMMA DumpFileStep ==
  ASSUME DumpInv, [Dump!Next]_(Dump!vars)
  PROVE  DumpFileInv'
  <1> USE DEF SomeUnits, DumpInv, DumpTypes, DumpRequestInv, DumpLoopInv, DumpFileInv,
              Dump!StoppedAtOnce, DumpInside
  <1>1. CASE Dump!Allocate BY <1>1 DEF Dump!Allocate
  <1>2. CASE Dump!Loop BY <1>2 DEF Dump!Loop
  <1>3. CASE Dump!ReadCluster BY <1>3 DEF Dump!ReadCluster
  <1>0. ASSUME cluster > 0, dPc = "write" \/ (dPc = "last" /\ dResult = "ok"),
               Dump!WriteBuffer(Dump!Other(dBank))
        PROVE  image' = FirstOf(Len(image'))
    <2>1. image = FirstOf(cluster - 1) /\ dBuffer[Dump!Other(dBank)] = cluster - 1
      BY <1>0 DEF DumpBufferInv, Before
    <2>2. Append(FirstOf(cluster - 1), cluster - 1) = FirstOf(cluster)
          /\ Len(FirstOf(cluster)) = cluster
      <3>1. cluster - 1 \in Nat /\ cluster \in Nat /\ (cluster - 1) + 1 = cluster
        BY <1>0
      <3>2. QED
        BY <3>1, DumpNextOne
    <2>3. QED
      BY <1>0, <2>1, <2>2 DEF Dump!WriteBuffer
  <1>4. CASE Dump!WriteFile
    BY <1>4, <1>0 DEF Dump!WriteFile, Dump!BothFilled
  <1>5. CASE Dump!Sync BY <1>5 DEF Dump!Sync
  <1>6. CASE Dump!WriteLast
    BY <1>6, <1>0 DEF Dump!WriteLast
  <1>7. CASE Dump!Free BY <1>7 DEF Dump!Free
  <1>8. CASE Dump!RpcEnd BY <1>8 DEF Dump!RpcEnd
  <1>9. CASE Dump!PostStop BY <1>9 DEF Dump!PostStop
  <1>10. CASE UNCHANGED Dump!vars BY <1>10 DEF Dump!vars
  <1>11. QED
    BY <1>1, <1>2, <1>3, <1>4, <1>5, <1>6, <1>7, <1>8, <1>9, <1>10 DEF Dump!Next, Dump!WorkerStep

LEMMA DumpInvKept ==
  ASSUME DumpInv, [Dump!Next]_(Dump!vars)
  PROVE  DumpInv'
  BY DumpTypesStep, DumpRequestStep, DumpLoopStep, DumpBufferStep, DumpFileStep
     DEF DumpInv, SomeUnits

(* The invariant holds in every state of a dump. *)
THEOREM DumpInvariant == Dump!Spec => []DumpInv
  <1>1. Dump!Init => DumpInv
    BY DumpInitInv, UnitsAre
  <1>2. QED
    BY <1>1, DumpInvKept, PTL DEF Dump!Spec

(* No request is on a freed buffer, but after a failed fwrite              *)
(* (system.c:2648-2652, 2674), for a card of any size.                     *)
THEOREM DumpHoldsBuffers == Dump!Spec => []Dump!BuffersHeld
  <1>1. DumpInv => Dump!BuffersHeld
    BY DEF DumpInv, DumpRequestInv, DumpInside, Dump!BuffersHeld
  <1>2. QED
    BY DumpInvariant, <1>1, PTL

(***************************************************************************)
(* A dump is a copy of the card: each step is a step of CardCopy, or none. *)
(***************************************************************************)
Filled == IF Dump!StoppedAtOnce THEN 0 ELSE Len(image)

TargetFilled ==
  /\ Filled \in 0 .. NumSteps
  /\ Dump!Target = [c \in Dump!Cluster |-> IF c < Filled THEN c ELSE Dump!Junk]

LEMMA DumpTargetIs == DumpInv => TargetFilled
  <1> SUFFICES ASSUME DumpInv PROVE TargetFilled
    OBVIOUS
  <1> USE DEF SomeUnits, DumpInv, TargetFilled
  <1>1. Len(image) \in Nat
    BY DEF DumpInv, DumpTypes
  <1>2. ~ Dump!StoppedAtOnce => Len(image) <= NumSteps
    BY <1>1 DEF DumpInv, DumpTypes, DumpLoopInv, Before
  <1>3. ASSUME NEW c \in Dump!Cluster, c < Len(image), ~ Dump!StoppedAtOnce
        PROVE  image[c + 1] = c
    BY <1>1, <1>3 DEF DumpInv, DumpFileInv, FirstOf, Dump!Cluster
  <1>4. QED
    BY <1>1, <1>2, <1>3 DEF Dump!Target, Filled, Dump!Cluster

LEMMA DumpTargetStays == (DumpInv => TargetFilled)'
  BY DumpTargetIs, PTL

LEMMA DumpStutters ==
  ASSUME DumpInv, DumpInv', Filled' = Filled,
         dPc = "done" <=> dPc' = "done", dResult' = dResult, dStop' = dStop
  PROVE  UNCHANGED Dump!Copy!vars
  <1>1. Dump!Target' = Dump!Target
    BY DumpTargetIs, DumpTargetStays DEF TargetFilled
  <1>2. QED
    BY <1>1 DEF Dump!Copy!vars, Dump!Status

LEMMA DumpRuns ==
  ASSUME DumpInv, DumpInv', Filled' = Filled, dPc # "done", dPc' # "done"
  PROVE  UNCHANGED Dump!Copy!vars
  <1>1. Dump!Target' = Dump!Target
    BY DumpTargetIs, DumpTargetStays DEF TargetFilled
  <1>2. QED
    BY <1>1 DEF Dump!Copy!vars, Dump!Status

LEMMA DumpWrites ==
  ASSUME DumpInv, DumpInv', Filled' = Filled + 1, dPc # "done", dPc' # "done"
  PROVE  Dump!Copy!Next
  <1> USE DEF SomeUnits, DumpInv, TargetFilled
  <1>1. Filled \in Dump!Copy!Unit /\ Filled \in Nat
    BY DumpTargetIs, DumpTargetStays DEF Dump!Copy!Unit
  <1>2. Dump!Target[Filled] = Dump!Copy!None /\ \A v \in 0 .. Filled - 1 : Dump!Target[v] = v
    BY <1>1, DumpTargetIs DEF Dump!Copy!Unit, Dump!Copy!None, Dump!Cluster, Dump!Junk
  <1>3. Dump!Target' = [Dump!Target EXCEPT ![Filled] = Filled]
    BY <1>1, DumpTargetIs, DumpTargetStays DEF Dump!Cluster
  <1>4. Dump!Status = "running" /\ Dump!Status' = "running"
    BY DEF Dump!Status
  <1>5. Dump!Copy!Copy(Filled)
    BY <1>1, <1>2, <1>3, <1>4 DEF Dump!Copy!Copy
  <1>6. QED
    BY <1>1, <1>5 DEF Dump!Copy!Next

(* The dump ends; without an error or a STOP, everything has been copied.  *)
LEMMA DumpEnds ==
  ASSUME DumpInv, DumpInv', Filled' = Filled, dPc # "done", dPc' = "done"
  PROVE  Dump!Copy!Next
  <1> USE DEF SomeUnits, DumpInv, TargetFilled
  <1>1. Dump!Target' = Dump!Target
    BY DumpTargetIs, DumpTargetStays
  <1>2. Dump!Status = "running"
    BY DEF Dump!Status
  <1>3. CASE Dump!Status' = "ok"
    <2>1. dResult' = "ok" /\ (dStop' => \A c \in Dump!Cluster : Dump!Target'[c] = c)
      BY <1>3 DEF Dump!Status
    <2>2. CASE ~ dStop'
      <3>1. ~ Dump!StoppedAtOnce' /\ Filled' = NumSteps
        BY <2>1, <2>2 DEF DumpInv, DumpTypes, DumpLoopInv, Dump!StoppedAtOnce, Filled
      <3>2. QED
        BY <3>1, <1>1, <1>2, <1>3, DumpTargetStays
           DEF Dump!Copy!Next, Dump!Copy!Complete, Dump!Copy!Unit, Dump!Cluster
    <2>3. CASE dStop'
      BY <2>1, <2>3, <1>1, <1>2, <1>3, DumpTargetIs
         DEF Dump!Copy!Next, Dump!Copy!Complete, Dump!Copy!Unit, Dump!Cluster
    <2>4. QED
      BY <2>2, <2>3
  <1>4. CASE Dump!Status' # "ok"
    BY <1>1, <1>2, <1>4 DEF Dump!Status, Dump!Copy!Next, Dump!Copy!GiveUp
  <1>5. QED
    BY <1>3, <1>4

LEMMA DumpCopyStep ==
  ASSUME DumpInv, DumpInv', [Dump!Next]_(Dump!vars)
  PROVE  [Dump!Copy!Next]_(Dump!Copy!vars)
  <1>0. ASSUME NEW b \in Dump!Bank, Dump!WriteBuffer(b)
        PROVE  \/ dResult' = dResult /\ Len(image') = Len(image) + 1
               \/ dResult' = "dst" /\ image' = image
    BY <1>0 DEF Dump!WriteBuffer, DumpInv, DumpTypes
  <1>1. CASE Dump!Allocate
    <2>1. Filled' = Filled
      BY <1>1 DEF Dump!Allocate, Filled, Dump!StoppedAtOnce, DumpInv, DumpLoopInv, Before
    <2>2. QED
      BY <2>1, <1>1, DumpStutters, DumpEnds DEF Dump!Allocate
  <1>2. CASE Dump!Loop
    BY <1>2, DumpStutters DEF Dump!Loop, Filled, Dump!StoppedAtOnce
  <1>3. CASE Dump!ReadCluster
    <2>1. Filled' = Filled
      BY <1>3 DEF Dump!ReadCluster, Filled, Dump!StoppedAtOnce
    <2>2. CASE dResult' = dResult
      BY <2>1, <2>2, <1>3, DumpStutters DEF Dump!ReadCluster
    <2>3. CASE dPc' = "last" /\ dStop' = dStop
      BY <2>1, <2>3, <1>3, DumpRuns DEF Dump!ReadCluster
    <2>4. QED
      BY <2>2, <2>3, <1>3 DEF Dump!ReadCluster
  <1>4. CASE Dump!WriteFile
    <2>1. Filled' = Filled \/ Filled' = Filled + 1
      BY <1>4, <1>0
         DEF Dump!WriteFile, Filled, Dump!StoppedAtOnce, DumpInv, DumpTypes, Dump!Bank, Dump!Other
    <2>2. QED
      BY <2>1, <1>4, DumpRuns, DumpWrites DEF Dump!WriteFile
  <1>5. CASE Dump!Sync
    <2>1. Filled' = Filled
      BY <1>5 DEF Dump!Sync, Filled, Dump!StoppedAtOnce
    <2>2. QED
      BY <2>1, <1>5, DumpRuns DEF Dump!Sync
  <1>6. CASE Dump!WriteLast
    <2>1. Filled' = Filled \/ Filled' = Filled + 1
      BY <1>6, <1>0
         DEF Dump!WriteLast, Filled, Dump!StoppedAtOnce, DumpInv, DumpTypes, Dump!Bank,
             Dump!Other, DumpLoopInv, Before
    <2>2. QED
      BY <2>1, <1>6, DumpRuns, DumpWrites DEF Dump!WriteLast
  <1>7. CASE Dump!Free
    <2>1. Filled' = Filled
      BY <1>7 DEF Dump!Free, Filled, Dump!StoppedAtOnce
    <2>2. QED
      BY <2>1, <1>7, DumpEnds DEF Dump!Free
  <1>8. CASE Dump!RpcEnd
    BY <1>8, DumpStutters DEF Dump!RpcEnd, Filled, Dump!StoppedAtOnce
  <1>9. CASE Dump!PostStop
    <2>1. Filled' = Filled
      BY <1>9 DEF Dump!PostStop, Filled, Dump!StoppedAtOnce, DumpInv, DumpTypes, DumpLoopInv
    <2>2. QED
      BY <2>1, <1>9, DumpRuns DEF Dump!PostStop
  <1>10. CASE UNCHANGED Dump!vars
    BY <1>10, DumpStutters DEF Dump!vars, Filled, Dump!StoppedAtOnce
  <1>11. QED
    BY <1>1, <1>2, <1>3, <1>4, <1>5, <1>6, <1>7, <1>8, <1>9, <1>10 DEF Dump!Next, Dump!WorkerStep

LEMMA DumpInitCopy == Dump!Init => Dump!Copy!Init
  BY DEF Dump!Init, Dump!Copy!Init, Dump!Target, Dump!Status, Dump!StoppedAtOnce, Dump!Copy!Unit,
         Dump!Copy!None, Dump!Cluster, Dump!Junk

(* A dump of a card of any size copies its clusters once each and in       *)
(* order, does nothing after one that failed, and succeeds only with all   *)
(* of them (system.c:2618-2694).                                           *)
THEOREM DumpIsCopy == Dump!Spec => Dump!CopySpec
  <1>2. DumpInv /\ DumpInv' /\ [Dump!Next]_(Dump!vars) => [Dump!Copy!Next]_(Dump!Copy!vars)
    BY DumpCopyStep
  <1>3. QED
    BY DumpInitCopy, <1>2, DumpInvariant, PTL DEF Dump!Spec, Dump!CopySpec, Dump!Copy!Spec

(* The next dump begins like the first, and is a copy again; it does not   *)
(* begin inside of another.                                                *)
LEMMA DumpAgainInv ==
  ASSUME DumpInv, Dump!Again
  PROVE  DumpInv'
  <1> USE DEF SomeUnits, DumpInv, Dump!Again
  <1>1. DumpTypes'
    <2>1. /\ Dump!Junk \in Dump!Data /\ 0 \in Dump!Bank
          /\ cluster' \in 0 .. NumSteps /\ Dump!NoRpc \in Dump!Rpc
      BY DEF Dump!Data, Dump!Junk, Dump!Bank, Dump!Rpc
    <2>2. QED
      BY <2>1 DEF DumpTypes, Dump!Outcome
  <1>2. DumpRequestInv' /\ DumpLoopInv' /\ DumpBufferInv'
    BY DEF DumpRequestInv, DumpLoopInv, DumpBufferInv, DumpInside, Before
  <1>3. DumpFileInv'
    BY DEF DumpFileInv, FirstOf
  <1>4. QED
    BY <1>1, <1>2, <1>3

LEMMA DumpAgainCopy ==
  ASSUME DumpInv, Dump!Again, dPc \in {"alloc", "done"}
  PROVE  [Dump!Copy!Next]_(Dump!Copy!vars)
  <1> USE DEF SomeUnits, DumpInv
  <1>1. Dump!Target' = [c \in Dump!Cluster |-> Dump!Junk] /\ Dump!Status' = "running"
    BY DEF Dump!Again, Dump!Target, Dump!Status, Dump!StoppedAtOnce, Dump!Cluster
  <1>2. CASE dPc = "alloc"
    <2>1. Filled = 0
      BY <1>2 DEF Filled, Dump!StoppedAtOnce, DumpLoopInv, Before
    <2>2. Dump!Target = [c \in Dump!Cluster |-> Dump!Junk] /\ Dump!Status = "running"
      BY <1>2, <2>1, DumpTargetIs DEF TargetFilled, Dump!Cluster, Dump!Status
    <2>3. QED
      BY <1>1, <2>2 DEF Dump!Copy!vars
  <1>3. CASE dPc = "done"
    BY <1>1, <1>3
       DEF Dump!Status, Dump!Copy!Next, Dump!Copy!Again, Dump!Copy!Unit, Dump!Copy!None,
           Dump!Cluster, Dump!Junk
  <1>4. QED
    BY <1>2, <1>3

(* What a dump that ends well, and was not stopped, has left in the file.  *)
LEMMA DumpWhole ==
  ASSUME DumpInv, dPc = "done", dResult = "ok", ~ dStop
  PROVE  image = [c \in 1 .. NumSteps |-> c - 1]
  BY DEF DumpInv, SomeUnits, DumpLoopInv, DumpFileInv, Dump!StoppedAtOnce, FirstOf

(***************************************************************************)
(* A restore: the one buffer on the IOP, and the order in which the blocks *)
(* reach the card.                                                         *)
(***************************************************************************)
(* A request is on its way from WriteBlock to the Sync of the next pass,   *)
(* or after the loop.                                                      *)
RestoreRequestInv ==
  /\ rRpc # Restore!NoRpc <=> rSema = 0
  /\ rRpc # Restore!NoRpc =>
       /\ rPc \in {"loop", "read", "sync", "last"}
       /\ block > 0 /\ rRpc = block - 1
       /\ rError = "ok"
  /\ Restore!RequestIntact

(* Where in the loop the restore stands, and with which result.            *)
RestoreLoopInv ==
  /\ rPc = "alloc" => block = 0
  /\ rPc \in {"alloc", "loop", "read", "sync", "write"} => rResult = "ok"
  /\ rPc \in {"read", "sync", "write"} => block < NumSteps
  /\ rPc \in {"sync", "write"} => rBuffer[rBank] = block
  /\ rPc = "write" => rError = "ok" /\ rRpc = Restore!NoRpc
  /\ rPc \in {"last", "free", "done"} /\ rResult = "ok" /\ ~ rStop => block = NumSteps
  /\ rPc \in {"free", "done"} /\ rResult = "ok" => rError = "ok"

(* The blocks before the last request are on the card, those after it are  *)
(* not; that one is once the IOP has answered without an error.            *)
RestoreCardInv ==
  /\ \A b \in Restore!Block : b < block - 1 => card[b] = b
  /\ \A b \in Restore!Block : b >= block => card[b] = Restore!Other
  /\ block > 0 =>
       /\ card[block - 1] \in {block - 1, Restore!Other}
       /\ rRpc = Restore!NoRpc /\ rError = "ok" => card[block - 1] = block - 1
       /\ rRpc # Restore!NoRpc => card[block - 1] = Restore!Other

RestoreInv == SomeUnits /\ Restore!TypeOK /\ RestoreRequestInv /\ RestoreLoopInv /\ RestoreCardInv

LEMMA RestoreInitInv == SomeUnits /\ Restore!Init => RestoreInv
  <1> SUFFICES ASSUME SomeUnits, Restore!Init PROVE RestoreInv
    OBVIOUS
  <1> USE DEF SomeUnits, Restore!Init
  <1>1. Restore!TypeOK
    <2>1. Restore!Other \in Restore!Data /\ 0 \in Restore!Bank /\ block \in 0 .. NumSteps
      BY DEF Restore!Data, Restore!Other, Restore!Bank
    <2>2. QED
      BY <2>1 DEF Restore!TypeOK, Restore!Outcome
  <1>2. RestoreRequestInv /\ RestoreLoopInv
    BY DEF RestoreRequestInv, Restore!RequestIntact, RestoreLoopInv
  <1>3. RestoreCardInv
    BY DEF RestoreCardInv, Restore!Block
  <1>4. QED
    BY <1>1, <1>2, <1>3 DEF RestoreInv

LEMMA RestoreTypesStep ==
  ASSUME RestoreInv, [Restore!Next]_(Restore!vars)
  PROVE  Restore!TypeOK'
  <1> USE DEF SomeUnits, RestoreInv, Restore!TypeOK, Restore!Bank, Restore!Other, Restore!Data,
              Restore!Block, Restore!NoRpc, Restore!Outcome
  <1>1. CASE Restore!Allocate BY <1>1 DEF Restore!Allocate
  <1>2. CASE Restore!Loop BY <1>2 DEF Restore!Loop
  <1>3. CASE Restore!ReadFile BY <1>3 DEF Restore!ReadFile, RestoreLoopInv
  <1>4. CASE Restore!Sync BY <1>4 DEF Restore!Sync
  <1>5. CASE Restore!WriteBlock BY <1>5 DEF Restore!WriteBlock, Restore!Sent, RestoreLoopInv
  <1>6. CASE Restore!SyncLast BY <1>6 DEF Restore!SyncLast
  <1>7. CASE Restore!Free BY <1>7 DEF Restore!Free
  <1>8. CASE Restore!RpcEnd
    <2>1. UNCHANGED <<rPc, block, rBank, rBuffer, rAllocated, rResult, rStop, iopBuffer>>
      BY <1>8 DEF Restore!RpcEnd
    <2>2. PICK d \in {Restore!Other, iopBuffer} : card' = [card EXCEPT ![rRpc] = d]
      BY <1>8 DEF Restore!RpcEnd
    <2>3. card' \in [Restore!Block -> Restore!Data]
      BY <2>2
    <2>4. rRpc' = Restore!NoRpc /\ rSema' \in {0, 1} /\ rError' \in Restore!Outcome
      BY <1>8 DEF Restore!RpcEnd, Restore!EndFunction
    <2>5. QED
      BY <2>1, <2>3, <2>4
  <1>9. CASE Restore!PostStop BY <1>9 DEF Restore!PostStop
  <1>10. CASE UNCHANGED Restore!vars BY <1>10 DEF Restore!vars
  <1>11. QED
    BY <1>1, <1>2, <1>3, <1>4, <1>5, <1>6, <1>7, <1>8, <1>9, <1>10
       DEF Restore!Next, Restore!WorkerStep

LEMMA RestoreRequestStep ==
  ASSUME RestoreInv, [Restore!Next]_(Restore!vars)
  PROVE  RestoreRequestInv'
  <1> USE DEF SomeUnits, RestoreInv, Restore!TypeOK, RestoreRequestInv, Restore!RequestIntact
  <1>1. CASE Restore!Allocate BY <1>1 DEF Restore!Allocate
  <1>2. CASE Restore!Loop BY <1>2 DEF Restore!Loop
  <1>3. CASE Restore!ReadFile BY <1>3 DEF Restore!ReadFile
  <1>4. CASE Restore!Sync BY <1>4 DEF Restore!Sync, Restore!RequestDone
  <1>5. CASE Restore!WriteBlock
    BY <1>5 DEF Restore!WriteBlock, Restore!Sent, RestoreLoopInv, Restore!NoRpc, Restore!Block
  <1>6. CASE Restore!SyncLast BY <1>6 DEF Restore!SyncLast, Restore!RequestDone
  <1>7. CASE Restore!Free BY <1>7 DEF Restore!Free
  <1>8. CASE Restore!RpcEnd BY <1>8 DEF Restore!RpcEnd, Restore!EndFunction
  <1>9. CASE Restore!PostStop BY <1>9 DEF Restore!PostStop
  <1>10. CASE UNCHANGED Restore!vars BY <1>10 DEF Restore!vars
  <1>11. QED
    BY <1>1, <1>2, <1>3, <1>4, <1>5, <1>6, <1>7, <1>8, <1>9, <1>10
       DEF Restore!Next, Restore!WorkerStep

LEMMA RestoreLoopStep ==
  ASSUME RestoreInv, [Restore!Next]_(Restore!vars)
  PROVE  RestoreLoopInv'
  <1> USE DEF SomeUnits, RestoreInv, Restore!TypeOK, RestoreLoopInv, RestoreRequestInv
  <1>1. CASE Restore!Allocate BY <1>1 DEF Restore!Allocate
  <1>2. CASE Restore!Loop BY <1>2 DEF Restore!Loop, Restore!MoreBlocks
  <1>3. CASE Restore!ReadFile BY <1>3 DEF Restore!ReadFile
  <1>4. CASE Restore!Sync BY <1>4
     DEF Restore!Sync, Restore!RequestDone, Restore!LastFailed, Restore!Outcome
  <1>5. CASE Restore!WriteBlock BY <1>5 DEF Restore!WriteBlock
  <1>6. CASE Restore!SyncLast BY <1>6 DEF Restore!SyncLast, Restore!LastFailed, Restore!Outcome
  <1>7. CASE Restore!Free BY <1>7 DEF Restore!Free
  <1>8. CASE Restore!RpcEnd BY <1>8 DEF Restore!RpcEnd
  <1>9. CASE Restore!PostStop BY <1>9 DEF Restore!PostStop
  <1>10. CASE UNCHANGED Restore!vars BY <1>10 DEF Restore!vars
  <1>11. QED
    BY <1>1, <1>2, <1>3, <1>4, <1>5, <1>6, <1>7, <1>8, <1>9, <1>10
       DEF Restore!Next, Restore!WorkerStep

LEMMA RestoreCardStep ==
  ASSUME RestoreInv, [Restore!Next]_(Restore!vars)
  PROVE  RestoreCardInv'
  <1> USE DEF SomeUnits, RestoreInv, Restore!TypeOK, RestoreCardInv, Restore!Block
  <1>1. CASE Restore!Allocate BY <1>1 DEF Restore!Allocate
  <1>2. CASE Restore!Loop BY <1>2 DEF Restore!Loop
  <1>3. CASE Restore!ReadFile BY <1>3 DEF Restore!ReadFile
  <1>4. CASE Restore!Sync BY <1>4 DEF Restore!Sync
  <1>5. CASE Restore!WriteBlock
    BY <1>5 DEF Restore!WriteBlock, RestoreLoopInv, Restore!NoRpc
  <1>6. CASE Restore!SyncLast BY <1>6 DEF Restore!SyncLast
  <1>7. CASE Restore!Free BY <1>7 DEF Restore!Free
  <1>8. CASE Restore!RpcEnd
    BY <1>8 DEF Restore!RpcEnd, RestoreRequestInv, Restore!RequestIntact, Restore!NoRpc
  <1>9. CASE Restore!PostStop BY <1>9 DEF Restore!PostStop
  <1>10. CASE UNCHANGED Restore!vars BY <1>10 DEF Restore!vars
  <1>11. QED
    BY <1>1, <1>2, <1>3, <1>4, <1>5, <1>6, <1>7, <1>8, <1>9, <1>10
       DEF Restore!Next, Restore!WorkerStep

LEMMA RestoreInvKept ==
  ASSUME RestoreInv, [Restore!Next]_(Restore!vars)
  PROVE  RestoreInv'
  BY RestoreTypesStep, RestoreRequestStep, RestoreLoopStep, RestoreCardStep
     DEF RestoreInv, SomeUnits

(* The invariant holds in every state of a restore. *)
THEOREM RestoreInvariant == Restore!Spec => []RestoreInv
  <1>1. Restore!Init => RestoreInv
    BY RestoreInitInv, UnitsAre
  <1>2. QED
    BY <1>1, RestoreInvKept, PTL DEF Restore!Spec

(* What the IOP works on stays in its buffer until it has answered, though *)
(* the worker goes on with the next block (mctools_rpc.c:220-229), for a   *)
(* card of any size.                                                       *)
THEOREM RequestStaysIntact == Restore!Spec => []Restore!RequestIntact
  <1>1. RestoreInv => Restore!RequestIntact
    BY DEF RestoreInv, RestoreRequestInv
  <1>2. QED
    BY RestoreInvariant, <1>1, PTL

(***************************************************************************)
(* A restore is a copy of the image: each step is one of CardCopy, or none.*)
(***************************************************************************)
LEMMA RestoreSame ==
  ASSUME card' = card, rPc = "done" <=> rPc' = "done", rResult' = rResult, rStop' = rStop
  PROVE  UNCHANGED Restore!Copy!vars
  BY DEF Restore!Copy!vars, Restore!Status

LEMMA RestoreRuns ==
  ASSUME card' = card, rPc # "done", rPc' # "done"
  PROVE  UNCHANGED Restore!Copy!vars
  BY DEF Restore!Copy!vars, Restore!Status

LEMMA RestoreEnds ==
  ASSUME RestoreInv, RestoreInv', card' = card, rPc # "done", rPc' = "done"
  PROVE  Restore!Copy!Next
  <1> USE DEF SomeUnits, RestoreInv
  <1>1. Restore!Status = "running"
    BY DEF Restore!Status
  <1>2. CASE Restore!Status' = "ok"
    <2>1. rResult' = "ok" /\ (rStop' => \A b \in Restore!Block : card'[b] = b)
      BY <1>2 DEF Restore!Status
    <2>2. CASE ~ rStop'
      <3>1. block' = NumSteps /\ rError' = "ok" /\ rRpc' = Restore!NoRpc
        BY <2>1, <2>2 DEF RestoreInv, RestoreLoopInv, RestoreRequestInv
      <3>2. \A b \in Restore!Block : card'[b] = b
        BY <3>1 DEF RestoreInv, RestoreCardInv, Restore!Block
      <3>3. QED
        BY <3>2, <1>1, <1>2
           DEF Restore!Copy!Next, Restore!Copy!Complete, Restore!Copy!Unit, Restore!Block,
               RestoreInv, Restore!TypeOK
    <2>3. CASE rStop'
      BY <2>1, <2>3, <1>1, <1>2
         DEF Restore!Copy!Next, Restore!Copy!Complete, Restore!Copy!Unit, Restore!Block,
             RestoreInv, Restore!TypeOK
    <2>4. QED
      BY <2>2, <2>3
  <1>3. CASE Restore!Status' # "ok"
    BY <1>1, <1>3 DEF Restore!Status, Restore!Copy!Next, Restore!Copy!GiveUp
  <1>4. QED
    BY <1>2, <1>3

(* What the IOP has written is the next block in its place.                *)
LEMMA RestoreWrites ==
  ASSUME RestoreInv, Restore!RpcEnd
  PROVE  [Restore!Copy!Next]_(Restore!Copy!vars)
  <1> USE DEF SomeUnits, RestoreInv
  <1>1. rRpc \in Restore!Block /\ rRpc = block - 1 /\ block > 0 /\ iopBuffer = rRpc /\ rPc # "done"
    BY DEF Restore!RpcEnd, RestoreInv, Restore!TypeOK, RestoreRequestInv, Restore!RequestIntact
  <1>2. card[rRpc] = Restore!Other /\ \A v \in 0 .. rRpc - 1 : card[v] = v
    BY <1>1 DEF Restore!RpcEnd, RestoreInv, Restore!TypeOK, RestoreCardInv, Restore!Block
  <1>3. Restore!Status = "running" /\ Restore!Status' = "running"
    BY <1>1 DEF Restore!RpcEnd, Restore!Status
  <1>4. CASE card' = [card EXCEPT ![rRpc] = iopBuffer]
    <2>1. Restore!Copy!Copy(rRpc)
      BY <1>1, <1>2, <1>3, <1>4 DEF Restore!Copy!Copy, Restore!Copy!None, Restore!Other
    <2>2. QED
      BY <1>1, <2>1 DEF Restore!Copy!Next, Restore!Copy!Unit, Restore!Block
  <1>5. CASE card' = [card EXCEPT ![rRpc] = Restore!Other]
    BY <1>2, <1>3, <1>5 DEF Restore!Copy!vars, RestoreInv, Restore!TypeOK
  <1>6. QED
    BY <1>4, <1>5 DEF Restore!RpcEnd

LEMMA RestoreCopyStep ==
  ASSUME RestoreInv, RestoreInv', [Restore!Next]_(Restore!vars)
  PROVE  [Restore!Copy!Next]_(Restore!Copy!vars)
  <1>1. CASE Restore!Allocate
    BY <1>1, RestoreRuns, RestoreEnds DEF Restore!Allocate
  <1>2. CASE Restore!Loop BY <1>2, RestoreRuns DEF Restore!Loop
  <1>3. CASE Restore!ReadFile BY <1>3, RestoreRuns DEF Restore!ReadFile
  <1>4. CASE Restore!Sync BY <1>4, RestoreRuns DEF Restore!Sync
  <1>5. CASE Restore!WriteBlock BY <1>5, RestoreRuns DEF Restore!WriteBlock
  <1>6. CASE Restore!SyncLast BY <1>6, RestoreRuns DEF Restore!SyncLast
  <1>7. CASE Restore!Free BY <1>7, RestoreEnds DEF Restore!Free
  <1>8. CASE Restore!RpcEnd BY <1>8, RestoreWrites
  <1>9. CASE Restore!PostStop BY <1>9, RestoreRuns DEF Restore!PostStop
  <1>10. CASE UNCHANGED Restore!vars BY <1>10, RestoreSame DEF Restore!vars
  <1>11. QED
    BY <1>1, <1>2, <1>3, <1>4, <1>5, <1>6, <1>7, <1>8, <1>9, <1>10
       DEF Restore!Next, Restore!WorkerStep

LEMMA RestoreInitCopy == Restore!Init => Restore!Copy!Init
  BY DEF Restore!Init, Restore!Copy!Init, Restore!Status, Restore!Copy!Unit, Restore!Copy!None,
         Restore!Block, Restore!Other

(* A restore of a card of any size copies its blocks once each and in      *)
(* order, sends nothing after a block that failed, and succeeds only with  *)
(* all of them on the card (system.c:2696-2769).                           *)
THEOREM RestoreIsCopy == Restore!Spec => Restore!CopySpec
  <1>2. RestoreInv /\ RestoreInv' /\ [Restore!Next]_(Restore!vars)
          => [Restore!Copy!Next]_(Restore!Copy!vars)
    BY RestoreCopyStep
  <1>3. QED
    BY RestoreInitCopy, <1>2, RestoreInvariant, PTL
       DEF Restore!Spec, Restore!CopySpec, Restore!Copy!Spec

(* The next restore begins like the first, and is a copy again; it does    *)
(* not begin inside of another.                                            *)
LEMMA RestoreAgainInv ==
  ASSUME RestoreInv, Restore!Again
  PROVE  RestoreInv'
  <1> USE DEF SomeUnits, RestoreInv, Restore!Again
  <1>1. Restore!TypeOK'
    <2>1. Restore!Other \in Restore!Data /\ 0 \in Restore!Bank /\ block' \in 0 .. NumSteps
      BY DEF Restore!Data, Restore!Other, Restore!Bank
    <2>2. QED
      BY <2>1 DEF Restore!TypeOK, Restore!Outcome
  <1>2. RestoreRequestInv' /\ RestoreLoopInv'
    BY DEF RestoreRequestInv, Restore!RequestIntact, RestoreLoopInv
  <1>3. RestoreCardInv'
    BY DEF RestoreCardInv, Restore!Block
  <1>4. QED
    BY <1>1, <1>2, <1>3

LEMMA RestoreAgainCopy ==
  ASSUME RestoreInv, Restore!Again, rPc \in {"alloc", "done"}
  PROVE  [Restore!Copy!Next]_(Restore!Copy!vars)
  <1> USE DEF SomeUnits, RestoreInv
  <1>1. card' = [b \in Restore!Block |-> Restore!Other] /\ Restore!Status' = "running"
    BY DEF Restore!Again, Restore!Status
  <1>2. CASE rPc = "alloc"
    <2>1. card = [b \in Restore!Block |-> Restore!Other] /\ Restore!Status = "running"
      BY <1>2 DEF RestoreCardInv, RestoreLoopInv, Restore!TypeOK, Restore!Block, Restore!Status
    <2>2. QED
      BY <1>1, <2>1 DEF Restore!Copy!vars
  <1>3. CASE rPc = "done"
    BY <1>1, <1>3
       DEF Restore!Status, Restore!Copy!Next, Restore!Copy!Again, Restore!Copy!Unit,
           Restore!Copy!None, Restore!Block, Restore!Other
  <1>4. QED
    BY <1>2, <1>3

(* What a restore that ends well, and was not stopped, has left on the     *)
(* card.                                                                   *)
LEMMA RestoreWhole ==
  ASSUME RestoreInv, rPc = "done", rResult = "ok", ~ rStop
  PROVE  card = [b \in 0 .. NumSteps - 1 |-> b]
  BY DEF RestoreInv, SomeUnits, Restore!TypeOK, RestoreRequestInv, RestoreLoopInv,
         RestoreCardInv, Restore!Block

(***************************************************************************)
(* A step of the whole is one of each part, or none of it.                 *)
(***************************************************************************)
DumpPart ==
  \/ [Dump!Next]_(Dump!vars)
  \/ Dump!Again /\ \E c \in Transfer : BeginOperation(c)

RestorePart ==
  \/ [Restore!Next]_(Restore!vars)
  \/ Restore!Again /\ \E c \in Transfer : BeginOperation(c)

LEMMA DumpKeeps == UNCHANGED dVars => UNCHANGED Dump!vars
  BY DEF dVars, Dump!vars

LEMMA RestoreKeeps == UNCHANGED rVars => UNCHANGED Restore!vars
  BY DEF rVars, Restore!vars

LEMMA Parts ==
  ASSUME [MaintNext]_allVars
  PROVE  [Next]_vars /\ DumpPart /\ RestorePart
  <1> USE DumpKeeps, RestoreKeeps
      DEF Next, MainStep, WorkerStep, DumpPart, RestorePart
  <1>1. CASE User
    BY <1>1 DEF User
  <1>2. CASE PostCommand
    BY <1>2 DEF PostCommand, Dump!Next, Restore!Next
  <1>3. CASE MainRest
    BY <1>3 DEF MainRest
  <1>4. CASE HandOver
    BY <1>4 DEF HandOver
  <1>5. CASE RunDump
    <2>1. Dump!Next
      BY <1>5 DEF RunDump, DumpStep, Dump!Next, Dump!WorkerStep
    <2>2. [Next]_vars
      BY <1>5 DEF RunDump, DumpStep
    <2>3. QED
      BY <1>5, <2>1, <2>2 DEF RunDump
  <1>6. CASE RunRestore
    <2>1. Restore!Next
      BY <1>6 DEF RunRestore, RestoreStep, Restore!Next, Restore!WorkerStep
    <2>2. [Next]_vars
      BY <1>6 DEF RunRestore, RestoreStep
    <2>3. QED
      BY <1>6, <2>1, <2>2 DEF RunRestore
  <1>7. CASE DumpRpcEnd
    BY <1>7 DEF DumpRpcEnd, Dump!Next
  <1>8. CASE RestoreRpcEnd
    BY <1>8 DEF RestoreRpcEnd, Restore!Next
  <1>9. CASE UNCHANGED allVars
    BY <1>9 DEF allVars
  <1>10. QED
    BY <1>1, <1>2, <1>3, <1>4, <1>5, <1>6, <1>7, <1>8, <1>9 DEF MaintNext

(***************************************************************************)
(* The invariant: those of the parts, and where the worker stands.         *)
(***************************************************************************)
(* A transfer is under way only while the worker is in it. *)
WhereInv ==
  /\ dPc \notin {"alloc", "done"} => InTransfer("dump")
  /\ rPc \notin {"alloc", "done"} => InTransfer("restore")

(* The worker is in the transfer that main asked for last, and has its     *)
(* result from there until main sees it.                                   *)
PcOf(c)     == IF c = "dump" THEN dPc ELSE rPc
ResultOf(c) == IF c = "dump" THEN dResult ELSE rResult

LinkInv ==
  /\ sending.cmd \in Transfer => sending.cmd = chosen
  /\ workerPc \in Busy \cup {"stop_ack", "stop_code", "report"} =>
       command = chosen /\ command \in Transfer
  /\ workerPc = "stop_check" =>
       PcOf(command) \in {"free", "done"} /\ result = EndsAs(ResultOf(command))
  /\ workerPc \in {"stop_ack", "stop_code", "report"} =>
       PcOf(command) = "done" /\ result = EndsAs(ResultOf(command))
  /\ outcome = "ok" =>
       chosen \in Transfer /\ PcOf(chosen) = "done" /\ ResultOf(chosen) = "ok"

MInv == IInv /\ DumpInv /\ RestoreInv /\ WhereInv /\ LinkInv

LEMMA MaintInitInv == MaintInit => MInv
  <1> SUFFICES ASSUME MaintInit PROVE MInv
    OBVIOUS
  <1>1. IInv
    BY InitIInv DEF MaintInit
  <1>2. DumpInv
    BY DumpInitInv, UnitsAre DEF MaintInit, SomeUnits
  <1>3. RestoreInv
    BY RestoreInitInv, UnitsAre DEF MaintInit, SomeUnits
  <1>4. WhereInv
    BY DEF MaintInit, WhereInv, Dump!Init, Restore!Init
  <1>5. LinkInv
    BY DEF MaintInit, Init, LinkInv, NoSend, Transfer, Busy
  <1>6. QED
    BY <1>1, <1>2, <1>3, <1>4, <1>5 DEF MInv

(* Where the actions of the worker lead. *)
LEMMA WhereStep ==
  ASSUME MInv, [MaintNext]_allVars
  PROVE  WhereInv'
  <1> USE DEF MInv, WhereInv, InTransfer, Using
  <1>1. CASE User
    BY <1>1 DEF User, Dump!Again, Restore!Again, Cancel, Quit, dVars, rVars, workerVars
  <1>2. CASE PostCommand
    BY <1>2 DEF PostCommand, SetCommand, Dump!PostStop, Restore!PostStop, dVars, rVars, workerVars
  <1>3. CASE MainRest
    BY <1>3 DEF MainRest, SetArgument, WakeWorker, MainSleep, WakeWorkerAgain, Poll, GoOn,
                Close, Terminate, dVars, rVars, workerVars,
                IInv, BusyInv, Busy, MainInOperation, Awaiting
  <1>4. CASE HandOver
    BY <1>4 DEF HandOver, ReadArgument, ReadCommand, IdleSleep, Accept, Acknowledge,
                WaitForMain, StopCheck, Freed, StopAcknowledge, StopCode, Report, Reject,
                RejectAcknowledge, dVars, rVars
  <1>5. CASE RunDump
    BY <1>5 DEF RunDump, DumpStep, Begin, Check, Use, UseLast, vars, workerVars, rVars
  <1>6. CASE RunRestore
    BY <1>6 DEF RunRestore, RestoreStep, Begin, Check, Use, UseLast, vars, workerVars, dVars
  <1>7. CASE DumpRpcEnd
    BY <1>7 DEF DumpRpcEnd, Dump!RpcEnd, vars, workerVars, rVars
  <1>8. CASE RestoreRpcEnd
    BY <1>8 DEF RestoreRpcEnd, Restore!RpcEnd, vars, workerVars, dVars
  <1>9. CASE UNCHANGED allVars
    BY <1>9 DEF allVars, vars, workerVars, dVars, rVars
  <1>10. QED
    BY <1>1, <1>2, <1>3, <1>4, <1>5, <1>6, <1>7, <1>8, <1>9 DEF MaintNext

LEMMA LinkStep ==
  ASSUME MInv, [MaintNext]_allVars
  PROVE  LinkInv'
  <1> USE DEF MInv, LinkInv, PcOf, ResultOf, Transfer, Busy
  <1>1. CASE User
    BY <1>1 DEF User, BeginOperation, StartSend, WorkerAsleep, Cancel, Quit, mainVars,
                workerVars, dVars, rVars
  <1>2. CASE PostCommand
    BY <1>2 DEF PostCommand, SetCommand, Dump!PostStop, Restore!PostStop, dVars, rVars,
                workerVars
  <1>3. CASE MainRest
    BY <1>3 DEF MainRest, SetArgument, WakeWorker, MainSleep, WakeWorkerAgain, Poll, GoOn,
                Close, Terminate, NoSend, dVars, rVars, workerVars, mainVars
  <1>4. CASE HandOver
    BY <1>4 DEF HandOver, ReadArgument, ReadCommand, IdleSleep, Accept, Acknowledge,
                WaitForMain, StopCheck, Freed, StopAcknowledge, StopCode, Report, Reject,
                RejectAcknowledge, EndsAs, dVars, rVars, mainVars, IInv, SendInv
  <1>5. CASE RunDump
    <2>0. /\ outcome = "none" /\ UNCHANGED <<chosen, rVars>> /\ command \in Transfer
          /\ command = "dump" /\ command = chosen
      BY <1>5 DEF RunDump, InTransfer, Using, IInv, OutcomeInv
    <2> USE <2>0 DEF mainVars, rVars
    <2>1. CASE Dump!Allocate /\ Begin /\ Reported(dResult')
      BY <2>1 DEF Dump!Allocate, Begin, Reported, EndsAs, DumpInv, DumpRequestInv
    <2>2. CASE Dump!Loop /\ Check
      BY <2>2 DEF Check
    <2>3. CASE (Dump!ReadCluster \/ Dump!WriteFile \/ Dump!Sync) /\ Use
      BY <2>3 DEF Use
    <2>4. CASE (Dump!ReadCluster \/ Dump!WriteFile \/ Dump!Sync) /\ UNCHANGED vars
      BY <2>4 DEF Dump!ReadCluster, Dump!WriteFile, Dump!Sync, vars, workerVars
    <2>5. CASE Dump!WriteLast /\ UseLast /\ Reported(dResult')
      BY <2>5 DEF Dump!WriteLast, UseLast, Reported
    <2>6. CASE Dump!Free /\ UNCHANGED vars
      BY <2>6 DEF Dump!Free, vars, workerVars
    <2>7. QED
      BY <1>5, <2>1, <2>2, <2>3, <2>4, <2>5, <2>6 DEF RunDump, DumpStep
  <1>6. CASE RunRestore
    <2>0. /\ outcome = "none" /\ UNCHANGED <<chosen, dVars>> /\ command \in Transfer
          /\ command = "restore" /\ command = chosen
      BY <1>6 DEF RunRestore, InTransfer, Using, IInv, OutcomeInv
    <2> USE <2>0 DEF mainVars, dVars
    <2>1. CASE Restore!Allocate /\ Begin /\ Reported(rResult')
      BY <2>1 DEF Restore!Allocate, Begin, Reported, EndsAs, RestoreInv, RestoreLoopInv
    <2>2. CASE Restore!Loop /\ Check
      BY <2>2 DEF Check
    <2>3. CASE (Restore!ReadFile \/ Restore!Sync \/ Restore!WriteBlock) /\ Use
      BY <2>3 DEF Use
    <2>4. CASE (Restore!ReadFile \/ Restore!Sync \/ Restore!WriteBlock) /\ UNCHANGED vars
      BY <2>4 DEF Restore!ReadFile, Restore!Sync, Restore!WriteBlock, vars, workerVars
    <2>5. CASE Restore!SyncLast /\ UseLast /\ Reported(rResult')
      BY <2>5 DEF Restore!SyncLast, UseLast, Reported
    <2>6. CASE Restore!Free /\ UNCHANGED vars
      BY <2>6 DEF Restore!Free, vars, workerVars
    <2>7. QED
      BY <1>6, <2>1, <2>2, <2>3, <2>4, <2>5, <2>6 DEF RunRestore, RestoreStep
  <1>7. CASE DumpRpcEnd
    BY <1>7 DEF DumpRpcEnd, Dump!RpcEnd, vars, mainVars, workerVars, rVars
  <1>8. CASE RestoreRpcEnd
    BY <1>8 DEF RestoreRpcEnd, Restore!RpcEnd, vars, mainVars, workerVars, dVars
  <1>9. CASE UNCHANGED allVars
    BY <1>9 DEF allVars, vars, mainVars, workerVars, dVars, rVars
  <1>10. QED
    BY <1>1, <1>2, <1>3, <1>4, <1>5, <1>6, <1>7, <1>8, <1>9 DEF MaintNext

LEMMA MaintStep ==
  ASSUME MInv, [MaintNext]_allVars
  PROVE  MInv'
  <1>1. IInv'
    BY Parts, TypeStep, RestStep DEF MInv, IInv, Rest
  <1>2. DumpInv'
    BY Parts, DumpInvKept, DumpAgainInv DEF MInv, DumpPart
  <1>3. RestoreInv'
    BY Parts, RestoreInvKept, RestoreAgainInv DEF MInv, RestorePart
  <1>4. QED
    BY <1>1, <1>2, <1>3, WhereStep, LinkStep DEF MInv

(* The invariant holds of dump and restore as a whole. *)
THEOREM MaintInvariant == MaintSpec => []MInv
  BY MaintInitInv, MaintStep, PTL DEF MaintSpec

(* The transfers are what WorkerThread takes them for: whatever holds of   *)
(* the hand-over with uses of the file holds of it with real transfers     *)
(* (system.c:2618-2842).                                                   *)
THEOREM TransfersFitIn == MaintSpec => Spec
  <1>1. MaintInit => Init
    BY DEF MaintInit
  <1>2. [MaintNext]_allVars => [Next]_vars
    BY Parts
  <1>3. QED
    BY <1>1, <1>2, PTL DEF MaintSpec, Spec

(* While the worker is in a transfer the file is open, and its parameters  *)
(* exist (system.c:2471, 2489).                                            *)
THEOREM MaintFileOutlives == MaintSpec => []FileOutlivesTransfer
  BY TransfersFitIn, FileOutlives, PTL

(* Each command is answered once, also with real transfers                 *)
(* (system.c:2687, 2787, 2806).                                            *)
THEOREM MaintAnswersPairUp == MaintSpec => []OneAnswerPerCommand
  BY TransfersFitIn, AnswersPairUp, PTL

(* The IOP has no request on a freed buffer, but after a failed fwrite     *)
(* (system.c:2648-2652, 2674).                                             *)
THEOREM MaintBuffersHeld == MaintSpec => []BuffersHeld
  <1>1. MInv => BuffersHeld
    BY DEF MInv, BuffersHeld, DumpInv, DumpRequestInv, DumpInside, Dump!BuffersHeld
  <1>2. QED
    BY MaintInvariant, <1>1, PTL

(* What main announces as complete is complete (system.c:2485-2489, 2784,  *)
(* 2793).                                                                  *)
THEOREM MaintAnnounced == MaintSpec => []AnnouncedIsCopied
  <1>1. MInv => AnnouncedIsCopied
    <2> SUFFICES ASSUME MInv, mainPc = "close", state = "ok"
                 PROVE  \/ chosen = "dump" /\ (dStop \/ image = [c \in 1 .. NumSteps |-> c - 1])
                        \/ chosen = "restore" /\ (rStop \/ card = [b \in 0 .. NumSteps - 1 |-> b])
      BY DEF AnnouncedIsCopied
    <2>1. outcome = "ok"
      BY DEF MInv, IInv, StateInv, Running
    <2>2. CASE chosen = "dump"
      BY <2>1, <2>2, DumpWhole DEF MInv, LinkInv, PcOf, ResultOf
    <2>3. CASE chosen = "restore"
      BY <2>1, <2>3, RestoreWhole DEF MInv, LinkInv, PcOf, ResultOf
    <2>4. QED
      BY <2>1, <2>2, <2>3 DEF MInv, LinkInv, Transfer
  <1>2. QED
    BY MaintInvariant, <1>1, PTL

(* A dump copies the clusters once each and in order, does nothing after   *)
(* one that failed, and succeeds only with all of them; so does every      *)
(* later one (system.c:2618-2694).                                         *)
THEOREM MaintDumpCopies == MaintSpec => DumpCopies
  <1>1. MaintInit => Dump!Copy!Init
    BY DumpInitCopy DEF MaintInit
  <1>2. MInv /\ MInv' /\ [MaintNext]_allVars => [Dump!Copy!Next]_(Dump!Copy!vars)
    <2> SUFFICES ASSUME MInv, MInv', [MaintNext]_allVars
                 PROVE  [Dump!Copy!Next]_(Dump!Copy!vars)
      OBVIOUS
    <2>1. CASE [Dump!Next]_(Dump!vars)
      BY <2>1, DumpCopyStep DEF MInv
    <2>2. CASE Dump!Again /\ workerPc = "idle"
      BY <2>2, DumpAgainCopy DEF MInv, WhereInv, InTransfer, Using
    <2>3. QED
      BY <2>1, <2>2, Parts DEF DumpPart, BeginOperation, WorkerAsleep
  <1>3. QED
    BY <1>1, <1>2, MaintInvariant, PTL DEF MaintSpec, DumpCopies, Dump!CopySpec, Dump!Copy!Spec

(* A restore puts the blocks of the image on the card once each and in     *)
(* order, sends nothing after one that failed, and succeeds only with all  *)
(* of them; so does every later one (system.c:2696-2769).                  *)
THEOREM MaintRestoreCopies == MaintSpec => RestoreCopies
  <1>1. MaintInit => Restore!Copy!Init
    BY RestoreInitCopy DEF MaintInit
  <1>2. MInv /\ MInv' /\ [MaintNext]_allVars => [Restore!Copy!Next]_(Restore!Copy!vars)
    <2> SUFFICES ASSUME MInv, MInv', [MaintNext]_allVars
                 PROVE  [Restore!Copy!Next]_(Restore!Copy!vars)
      OBVIOUS
    <2>1. CASE [Restore!Next]_(Restore!vars)
      BY <2>1, RestoreCopyStep DEF MInv
    <2>2. CASE Restore!Again /\ workerPc = "idle"
      BY <2>2, RestoreAgainCopy DEF MInv, WhereInv, InTransfer, Using
    <2>3. QED
      BY <2>1, <2>2, Parts DEF RestorePart, BeginOperation, WorkerAsleep
  <1>3. QED
    BY <1>1, <1>2, MaintInvariant, PTL
       DEF MaintSpec, RestoreCopies, Restore!CopySpec, Restore!Copy!Spec
=============================================================================
