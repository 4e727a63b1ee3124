--------------------------- MODULE InstallSession ---------------------------
(***************************************************************************)
(* The operations of the menu, the reboots of the IOP between which they   *)
(* work, the lock of an installation, and the power button.                *)
(*   iop.c          IopInitStart, SystemInitThread                         *)
(*   mctools_rpc.c  InitMCTOOLS, DeinitMCTOOLS                             *)
(*   menu.c         MainMenu                                               *)
(*   system.c       InstallLockSema, poweroffCallback, and the order of    *)
(*                  steps in each operation                                *)
(*                                                                         *)
(* The IOP has either the main modules (those of the hard disk, and        *)
(* SECRSIF, which signs files) or MCTOOLS, and is rebooted to change.  A   *)
(* reboot loses every call that waits for an answer.  The program of an    *)
(* operation is the sequence of the steps that matter here; those which    *)
(* write a medium are "sign" (and copy), "touch", "hdd" and "ask".         *)
(***************************************************************************)
EXTENDS Naturals, Sequences

(* IopInitStart: to the reset; to its end; and the wait for its semaphore. *)
Reboot(modules) == <<modules, "boot", "wait">>

FinalReboot == Reboot("main")

(* "card" is InitMCInfo, "query" MCToolsInitPageCache or MCToolsGetMCInfo. *)
Maintenance ==
  Reboot("tools") \o <<"card", "query", "lock", "ask", "unlock">> \o FinalReboot

Program ==
  [ start         |-> Reboot("main"),
    install       |-> <<"lock", "sign", "unlock">>,
    multi         |-> <<"lock", "sign">> \o Reboot("tools") \o <<"card", "query", "ask">>
                        \o FinalReboot \o <<"unlock">>,
    cleanup       |-> <<"touch">>,
    cleanup_multi |-> Maintenance,
    format        |-> <<"touch">>,
    dump          |-> Maintenance,
    restore       |-> Maintenance,
    install_hdd   |-> <<"lock", "hdd", "unlock">>,
    cleanup_hdd   |-> <<"lock", "hdd", "unlock">>,
    format_hdd    |-> <<"hdd">> ]

Op == DOMAIN Program

VARIABLES
  op,        \* the operation, "menu" or "gone"
  pc,        \* its next step
  lock,      \* who has taken InstallLockSema
  loaded,    \* the set of modules that is ready on the IOP
  flags,     \* InitThreadParams.flags: the modules to load
  initThread,\* whether SystemInitThread runs
  sema,      \* InitCompleteSema
  up,        \* whether the IOP is past its reset
  IopBuffer, \* NULL, allocated since the reset, or a pointer from before it
  callback   \* poweroffCallback: not running, waiting, never to return, done

main == <<op, pc>>
iop  == <<loaded, flags, initThread, sema, up, IopBuffer>>
vars == <<main, lock, iop, callback>>

PoweredOff == callback = "done"

Init ==
  /\ op = "start" /\ pc = 1
  /\ lock = "free"
  /\ loaded = "none" /\ flags = "none" /\ initThread = FALSE /\ sema = 0 /\ up = FALSE
  /\ IopBuffer = "NULL"
  /\ callback = "none"

Steps == Program[op]

At(steps) == op \in Op /\ ~ PoweredOff /\ pc <= Len(Steps) /\ Steps[pc] \in steps

Advance == pc' = pc + 1 /\ UNCHANGED op

(* An error on the way ends the operation, which unlocks at its end if it  *)
(* does so at all.                                                         *)
OnError_Return == Len(Steps) + 1      \* mutant: return without the unlock
OnError == IF Steps[Len(Steps)] = "unlock" THEN Len(Steps) ELSE Len(Steps) + 1

Failed ==
  /\ pc' = OnError
  /\ UNCHANGED op

(***************************************************************************)
(* The menu.                                                               *)
(***************************************************************************)
Choose(o) ==
  /\ op = "menu" /\ ~ PoweredOff
  /\ op' = o /\ pc' = 1
  /\ UNCHANGED <<lock, iop, callback>>

Return ==
  /\ op \in Op /\ ~ PoweredOff /\ pc = Len(Steps) + 1
  /\ op' = "menu" /\ pc' = 1
  /\ UNCHANGED <<lock, iop, callback>>

(* The program ends; its services are taken down.                          *)
Exit ==
  /\ op = "menu" /\ ~ PoweredOff
  /\ op' = "gone"
  /\ UNCHANGED <<pc, lock, iop, callback>>

(***************************************************************************)
(* What is done with a card or the disk.  It may fail; after requests to   *)
(* MCTOOLS the rest of the operation follows all the same.                 *)
(***************************************************************************)
Work ==
  /\ At({"sign", "touch", "hdd", "card", "query", "ask"})
  /\ \/ Advance
     \/ Steps[pc] # "ask" /\ Failed
  /\ UNCHANGED <<lock, iop, callback>>

Lock ==
  /\ At({"lock"}) /\ lock = "free"
  /\ lock' = "main"
  /\ Advance
  /\ UNCHANGED <<iop, callback>>

Unlock ==
  /\ At({"unlock"})
  /\ lock' = "free"
  /\ Advance
  /\ UNCHANGED <<iop, callback>>

(***************************************************************************)
(* The IOP.                                                                *)
(***************************************************************************)
Deinit(buffer) == IF buffer = "NULL" THEN "NULL" ELSE "stale"

Reset ==
  /\ At({"main", "tools"})
  /\ flags' = Steps[pc]
  /\ loaded' = "none" /\ up' = FALSE /\ sema' = 0
  /\ IopBuffer' = Deinit(IopBuffer)
  /\ callback' = IF callback = "waits" THEN "lost" ELSE callback
  /\ Advance
  /\ UNCHANGED <<lock, initThread>>

Boot ==
  /\ At({"boot"})
  /\ up' = TRUE /\ initThread' = TRUE
  /\ Advance
  /\ UNCHANGED <<lock, loaded, flags, sema, IopBuffer, callback>>

(* SystemInitThread *)
InitMCTOOLS_Sized == IopBuffer   \* mutant: allocated only when it is too small
InitMCTOOLS == "live"

SystemInitThread ==
  /\ initThread /\ ~ PoweredOff
  /\ loaded' = flags
  /\ IopBuffer' = IF flags = "tools" THEN InitMCTOOLS ELSE IopBuffer
  /\ initThread' = FALSE /\ sema' = 1
  /\ UNCHANGED <<main, lock, flags, up, callback>>

Ready == sema = 1

Wait ==
  /\ At({"wait"}) /\ Ready
  /\ sema' = 0
  /\ Advance
  /\ UNCHANGED <<lock, loaded, flags, initThread, up, IopBuffer, callback>>

(***************************************************************************)
(* poweroffCallback, on a thread of its own.  Its calls of the IOP are     *)
(* answered unless the IOP is reset first.                                 *)
(***************************************************************************)
MayPowerOff_Always == TRUE       \* mutant: the lock is not looked at
MayPowerOff == lock = "free"

PowerButton ==
  /\ callback = "none" /\ up /\ op # "gone"
  /\ MayPowerOff
  /\ lock' = "callback" /\ callback' = "waits"
  /\ UNCHANGED <<main, iop>>

PowerOff ==
  /\ callback = "waits" /\ up
  /\ callback' = "done"
  /\ UNCHANGED <<main, lock, iop>>

MainStep == Work \/ Lock \/ Unlock \/ Reset \/ Boot \/ Wait \/ Return

Next ==
  \/ MainStep
  \/ SystemInitThread
  \/ PowerButton
  \/ PowerOff
  \/ Exit
  \/ \E o \in Op \ {"start"} : Choose(o)

Spec == Init /\ [][Next]_vars

(* The threads run; the user need not press anything.                      *)
FairSpec ==
  Spec /\ WF_vars(MainStep) /\ WF_vars(SystemInitThread) /\ WF_vars(PowerOff)

(***************************************************************************)
(* Properties.                                                             *)
(***************************************************************************)
TypeOK ==
  /\ op \in Op \cup {"menu", "gone"}
  /\ pc \in 1 .. IF op \in Op THEN Len(Steps) + 1 ELSE 1
  /\ lock \in {"free", "main", "callback"}
  /\ {loaded, flags} \subseteq {"none", "main", "tools"}
  /\ initThread \in BOOLEAN /\ up \in BOOLEAN /\ sema \in {0, 1}
  /\ IopBuffer \in {"NULL", "live", "stale"}
  /\ callback \in {"none", "waits", "lost", "done"}

Doing == IF op \in Op /\ pc <= Len(Steps) THEN Steps[pc] ELSE "nothing"

(* The power is not turned off while an installation, or anything else     *)
(* that takes the lock, is at work on a card or the disk (system.c:3112).  *)
NoPowerOffInside ==
  PoweredOff => \/ op \in {"cleanup", "format", "format_hdd"}
                \/ Doing \notin {"sign", "hdd", "ask"}

(* MCTOOLS is asked only when it is there, and with a buffer that was      *)
(* allocated since the IOP was reset (mctools_rpc.c:43, 242).              *)
ToolsReady ==
  Doing \in {"query", "ask"} => loaded = "tools" /\ IopBuffer = "live"

(* What the comment at system.c:2218 says: "Reboot the IOP to allow the    *)
(* remainder of the program to continue."                                  *)
MainReady == Doing \in {"sign", "hdd"} => loaded = "main"

(* Every operation returns to the menu, or the power goes off, or the      *)
(* callback that has the lock lost its answer in a reboot (system.c:3113). *)
OperationReturns ==
  op \in Op ~> op = "menu" \/ PoweredOff \/ (callback = "lost" /\ Doing = "lock")
=============================================================================
