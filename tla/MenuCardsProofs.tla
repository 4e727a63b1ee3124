-------------------------- MODULE MenuCardsProofs ---------------------------
(***************************************************************************)
(* The operations and the menu.  First the lock and the modules of the IOP,*)
(* in operations that follow each other in any order, with the power       *)
(* button at any time.  Then the menu and its cards, for any number of     *)
(* cards that are exchanged any number of times: what is proved of the     *)
(* operations holds of those that the menu begins.                         *)
(***************************************************************************)
EXTENDS MenuCards, TLAPS

(***************************************************************************)
(* The programs, step by step.                                             *)
(***************************************************************************)
LEMMA Operations ==
  Op = {"start", "install", "multi", "cleanup", "cleanup_multi", "format", "dump",
        "restore", "install_hdd", "cleanup_hdd", "format_hdd"}
  BY DEF Op, Program

LEMMA RebootIs ==
  /\ Len(Program["start"]) = 3 /\ Program["start"][1] = "main"
  /\ Program["start"][2] = "boot" /\ Program["start"][3] = "wait"
  BY DEF Program, Reboot

Alone == {"cleanup", "format", "format_hdd"}

LEMMA AloneIs ==
  ASSUME NEW o \in Alone
  PROVE  Len(Program[o]) = 1 /\ Program[o][1] \in {"touch", "hdd"}
  BY DEF Alone, Program

Short == {"install", "install_hdd", "cleanup_hdd"}

LEMMA ShortIs ==
  ASSUME NEW o \in Short
  PROVE  /\ Len(Program[o]) = 3 /\ Program[o][1] = "lock"
         /\ Program[o][2] \in {"sign", "hdd"} /\ Program[o][3] = "unlock"
  BY DEF Short, Program

Long == {"cleanup_multi", "dump", "restore"}

LEMMA LongIs ==
  ASSUME NEW o \in Long
  PROVE  /\ Len(Program[o]) = 11
         /\ Program[o][1] = "tools" /\ Program[o][2] = "boot" /\ Program[o][3] = "wait"
         /\ Program[o][4] = "card" /\ Program[o][5] = "query" /\ Program[o][6] = "lock"
         /\ Program[o][7] = "ask" /\ Program[o][8] = "unlock"
         /\ Program[o][9] = "main" /\ Program[o][10] = "boot" /\ Program[o][11] = "wait"
  <1>1. Program[o] = Maintenance
    BY DEF Long, Program
  <1>2. Len(Maintenance) = 11 /\ Maintenance[1] = "tools" /\ Maintenance[2] = "boot"
    BY DEF Maintenance, FinalReboot, Reboot
  <1>3. Maintenance[3] = "wait" /\ Maintenance[4] = "card" /\ Maintenance[5] = "query"
    BY DEF Maintenance, FinalReboot, Reboot
  <1>4. Maintenance[6] = "lock" /\ Maintenance[7] = "ask" /\ Maintenance[8] = "unlock"
    BY DEF Maintenance, FinalReboot, Reboot
  <1>5. Maintenance[9] = "main" /\ Maintenance[10] = "boot" /\ Maintenance[11] = "wait"
    BY DEF Maintenance, FinalReboot, Reboot
  <1>6. QED
    BY <1>1, <1>2, <1>3, <1>4, <1>5

LEMMA MultiIs ==
  /\ Len(Program["multi"]) = 12
  /\ Program["multi"][1] = "lock" /\ Program["multi"][2] = "sign"
  /\ Program["multi"][3] = "tools" /\ Program["multi"][4] = "boot"
  /\ Program["multi"][5] = "wait" /\ Program["multi"][6] = "card"
  /\ Program["multi"][7] = "query" /\ Program["multi"][8] = "ask"
  /\ Program["multi"][9] = "main" /\ Program["multi"][10] = "boot"
  /\ Program["multi"][11] = "wait" /\ Program["multi"][12] = "unlock"
  <1> DEFINE M == <<"lock", "sign">> \o Reboot("tools") \o <<"card", "query", "ask">>
                     \o FinalReboot \o <<"unlock">>
  <1>1. Program["multi"] = M
    BY DEF Program
  <1>2. Len(M) = 12 /\ M[1] = "lock" /\ M[2] = "sign" /\ M[3] = "tools"
    BY DEF FinalReboot, Reboot
  <1>3. M[4] = "boot" /\ M[5] = "wait" /\ M[6] = "card" /\ M[7] = "query" /\ M[8] = "ask"
    BY DEF FinalReboot, Reboot
  <1>4. M[9] = "main" /\ M[10] = "boot" /\ M[11] = "wait" /\ M[12] = "unlock"
    BY DEF FinalReboot, Reboot
  <1> HIDE DEF M
  <1>5. QED
    BY <1>1, <1>2, <1>3, <1>4

(***************************************************************************)
(* What the proofs need of the programs: where an operation has the lock,  *)
(* where it has MCTOOLS, and how a reboot goes.                            *)
(***************************************************************************)
Inside(o) ==
  IF o = "multi" THEN 2 .. 12 ELSE IF o \in Short THEN 2 .. 3
  ELSE IF o \in Long THEN 7 .. 8 ELSE {}

Tooled(o) == IF o = "multi" THEN 6 .. 9 ELSE IF o \in Long THEN 4 .. 9 ELSE {}

Booting == {"boot", "wait"}

Shape(o, p, step, next) ==
  /\ p = 1 => p \notin Inside(o) \cup Tooled(o) /\ step \notin Booting
  /\ step = "lock" => p \notin Inside(o) /\ p + 1 \in Inside(o)
  /\ step = "unlock" => p \in Inside(o) /\ p + 1 \notin Inside(o)
  /\ step \notin {"lock", "unlock"} => (p \in Inside(o) <=> p + 1 \in Inside(o))
  /\ step \in {"sign", "hdd", "ask"} => p \in Inside(o) \/ o \in Alone
  /\ step \in {"query", "ask"} => p \in Tooled(o)
  /\ p + 1 \in Tooled(o) => p \in Tooled(o) \/ step = "wait"
  /\ step = "wait" /\ p + 1 \in Tooled(o) => Program[o][p - 2] = "tools"
  /\ step \in {"main", "tools"} => next = "boot" /\ p + 1 \notin Tooled(o)
  /\ step = "boot" => next = "wait" /\ p + 1 \notin Tooled(o)
  /\ next = "wait" /\ p < Len(Program[o]) => step = "boot"
  /\ next = "boot" /\ p < Len(Program[o]) => step \in {"main", "tools"}
  /\ step \in {"main", "tools", "boot"} => p < Len(Program[o])
  /\ p \in Tooled(o) => step \notin Booting

LEMMA ShapeOf ==
  ASSUME NEW o \in Op, NEW p \in 1 .. Len(Program[o])
  PROVE  Shape(o, p, Program[o][p], Program[o][p + 1])
  <1>1. CASE o \in Alone
    <2>0. Len(Program[o]) = 1
      BY <1>1, AloneIs
    <2>1. p = 1
      BY <2>0
    <2>2. o \notin Short \cup Long \cup {"multi"}
      BY <1>1 DEF Alone, Short, Long
    <2>3. QED
      BY <1>1, <2>1, <2>2, AloneIs DEF Shape, Inside, Tooled, Booting
  <1>2. CASE o \in Short
    <2>0. Len(Program[o]) = 3
      BY <1>2, ShortIs
    <2>1. p \in {1, 2, 3}
      BY <2>0
    <2>2. o \notin Alone \cup Long \cup {"multi"}
      BY <1>2 DEF Alone, Short, Long
    <2>3. QED
      BY <1>2, <2>1, <2>2, ShortIs DEF Shape, Inside, Tooled, Booting
  <1>3. CASE o \in Long
    <2>1. p \in 1 .. 11
      BY <1>3, LongIs
    <2>2. o \notin Alone \cup Short \cup {"multi"}
      BY <1>3 DEF Alone, Short, Long
    <2>3. QED
      <3>1. Inside(o) = 7 .. 8 /\ Tooled(o) = 4 .. 9
        BY <1>3, <2>2 DEF Inside, Tooled
      <3>2. /\ Len(Program[o]) = 11
            /\ Program[o][1] = "tools" /\ Program[o][2] = "boot" /\ Program[o][3] = "wait"
            /\ Program[o][4] = "card" /\ Program[o][5] = "query" /\ Program[o][6] = "lock"
            /\ Program[o][7] = "ask" /\ Program[o][8] = "unlock"
            /\ Program[o][9] = "main" /\ Program[o][10] = "boot" /\ Program[o][11] = "wait"
        BY <1>3, LongIs
      <3>3. CASE p \in {1, 2, 3}
        BY <3>1, <3>2, <3>3 DEF Shape, Booting
      <3>4. CASE p \in {4, 5, 6}
        BY <3>1, <3>2, <3>4 DEF Shape, Booting
      <3>5. CASE p \in {7, 8, 9}
        BY <3>1, <3>2, <3>5 DEF Shape, Booting
      <3>6. CASE p \in {10, 11}
        BY <3>1, <3>2, <3>6 DEF Shape, Booting
      <3>7. QED
        BY <2>1, <3>3, <3>4, <3>5, <3>6
  <1>4. CASE o = "multi"
    <2>1. p \in 1 .. 12
      BY <1>4, MultiIs
    <2>2. o \notin Alone \cup Short \cup Long
      BY <1>4 DEF Alone, Short, Long
    <2>3. QED
      BY <1>4, <2>1, <2>2, MultiIs DEF Shape, Inside, Tooled, Booting
  <1>5. CASE o = "start"
    <2>1. p \in {1, 2, 3}
      BY <1>5, RebootIs
    <2>2. o \notin Alone \cup Short \cup Long \cup {"multi"}
      BY <1>5 DEF Alone, Short, Long
    <2>3. QED
      BY <1>5, <2>1, <2>2, RebootIs DEF Shape, Inside, Tooled, Booting
  <1>6. QED
    BY <1>1, <1>2, <1>3, <1>4, <1>5, Operations DEF Alone, Short, Long

(* Where an operation goes on after an error.                              *)
WayOut(o) == IF Program[o][Len(Program[o])] = "unlock" THEN Len(Program[o]) ELSE Len(Program[o]) + 1

LEMMA WaysOut ==
  ASSUME NEW o \in Op
  PROVE  /\ Len(Program[o]) \in Nat \ {0}
         /\ WayOut(o) \in 1 .. Len(Program[o]) + 1
         /\ WayOut(o) \notin Tooled(o)
         /\ WayOut(o) \in 1 .. Len(Program[o]) => Program[o][WayOut(o)] = "unlock"
         /\ Len(Program[o]) + 1 \notin Inside(o) \cup Tooled(o)
         /\ \A p \in 1 .. Len(Program[o]) :
              Program[o][p] \in {"sign", "touch", "hdd", "card", "query"}
                => (p \in Inside(o) <=> WayOut(o) \in Inside(o))
  <1>1. CASE o \in Alone
    BY <1>1, AloneIs DEF WayOut, Inside, Tooled, Alone, Short, Long
  <1>2. CASE o \in Short
    <2>1. WayOut(o) = 3 /\ Len(Program[o]) = 3 /\ Program[o][3] = "unlock"
      BY <1>2, ShortIs DEF WayOut
    <2>2. Inside(o) = 2 .. 3 /\ Tooled(o) = {}
      BY <1>2 DEF Inside, Tooled, Short, Long
    <2>3. \A p \in 1 .. 3 : Program[o][p] \notin {"lock", "unlock"} => p = 2
      BY <1>2, ShortIs
    <2>4. QED
      BY <2>1, <2>2, <2>3
  <1>3. CASE o \in Long
    <2>1. o # "multi" /\ o \notin Short
      BY <1>3 DEF Short, Long
    <2>2. WayOut(o) = 12 /\ Len(Program[o]) = 11
      <3>1. Len(Program[o]) = 11 /\ Program[o][11] = "wait"
        BY <1>3, LongIs
      <3>2. QED
        BY <3>1 DEF WayOut
    <2>3. \A p \in 1 .. Len(Program[o]) :
              Program[o][p] \in {"sign", "touch", "hdd", "card", "query"} => p \in {4, 5}
      BY <1>3, <2>2, LongIs
    <2>4. QED
      BY <1>3, <2>1, <2>2, <2>3 DEF Inside, Tooled
  <1>4. CASE o = "multi"
    BY <1>4, MultiIs DEF WayOut, Inside, Tooled, Short, Long
  <1>5. CASE o = "start"
    BY <1>5, RebootIs DEF WayOut, Inside, Tooled, Short, Long
  <1>6. QED
    BY <1>1, <1>2, <1>3, <1>4, <1>5, Operations DEF Alone, Short, Long

LEMMA OnErrorIs == op \in Op => OnError = WayOut(op)
  BY DEF OnError, WayOut, Steps

(***************************************************************************)
(* The inductive invariant.                                                *)
(***************************************************************************)
Progress ==
  /\ op \in Op \cup {"menu", "gone"}
  /\ op \in Op => pc \in 1 .. Len(Program[op]) + 1

(* Main has the lock in the part of its operation that takes it, and the   *)
(* callback keeps it.                                                      *)
LockInv ==
  /\ op \in Op => (lock = "main" <=> pc \in Inside(op))
  /\ op \notin Op => lock # "main"
  /\ callback = "none" <=> lock # "callback"

AtStep(steps) == op \in Op /\ pc <= Len(Program[op]) /\ Program[op][pc] \in steps

(* Modules are loaded only while main waits for them, and they are those   *)
(* of the last reset.                                                      *)
BootInv ==
  /\ AtStep({"boot"}) => flags = Program[op][pc - 1]
  /\ AtStep({"wait"}) => flags = Program[op][pc - 2]
  /\ initThread => AtStep({"wait"})
  /\ sema = 1 => AtStep({"wait"}) /\ loaded = flags /\ (flags = "tools" => IopBuffer = "live")
  /\ sema = 1 => initThread = FALSE

ToolsInv == op \in Op /\ pc \in Tooled(op) => loaded = "tools" /\ IopBuffer = "live"

SInv == Progress /\ LockInv /\ BootInv /\ ToolsInv

LEMMA SessionInit == Init => SInv
  <1> SUFFICES ASSUME Init PROVE SInv
    OBVIOUS
  <1>1. op \in Op /\ op = "start" /\ pc = 1
    BY Operations DEF Init
  <1>2. pc \in 1 .. Len(Program[op])
    BY <1>1, WaysOut
  <1>3. Shape(op, pc, Program[op][pc], Program[op][pc + 1])
    BY <1>1, <1>2, ShapeOf
  <1>4. QED
    BY <1>1, <1>2, <1>3
       DEF Init, SInv, Progress, LockInv, BootInv, ToolsInv, AtStep, Shape, Booting

LEMMA NotOps == "menu" \notin Op /\ "gone" \notin Op
  BY Operations

LEMMA SessionStep == SInv /\ [Next]_vars => SInv'
  <1> SUFFICES ASSUME SInv, [Next]_vars PROVE SInv'
    OBVIOUS
  <1> USE DEF SInv, At, Steps, AtStep
  <1>0. ASSUME op \in Op, pc <= Len(Program[op])
        PROVE  /\ pc \in 1 .. Len(Program[op])
               /\ Shape(op, pc, Program[op][pc], Program[op][pc + 1])
    BY <1>0, ShapeOf, WaysOut DEF Progress
  <1>1. CASE Work
    <2>1. CASE Advance
      BY <1>1, <2>1, <1>0 DEF Work, Advance, iop, Shape, Booting, Progress, LockInv, BootInv, ToolsInv
    <2>2. CASE Steps[pc] # "ask" /\ Failed
      <3>1. pc' = WayOut(op) /\ op' = op
        BY <1>1, <2>2, OnErrorIs DEF Work, Failed
      <3>2. QED
        BY <1>1, <2>2, <3>1, <1>0, WaysOut DEF Work, iop, Shape, Booting, Progress, LockInv, BootInv, ToolsInv
    <2>3. QED
      BY <1>1, <2>1, <2>2 DEF Work
  <1>2. CASE Lock
    BY <1>2, <1>0 DEF Lock, Advance, iop, Shape, Booting, Progress, LockInv, BootInv, ToolsInv
  <1>3. CASE Unlock
    BY <1>3, <1>0 DEF Unlock, Advance, iop, Shape, Booting, Progress, LockInv, BootInv, ToolsInv
  <1>4. CASE Reset
    BY <1>4, <1>0 DEF Reset, Advance, Shape, Booting, Progress, LockInv, BootInv, ToolsInv
  <1>5. CASE Boot
    BY <1>5, <1>0 DEF Boot, Advance, Shape, Booting, Progress, LockInv, BootInv, ToolsInv
  <1>6. CASE Wait
    BY <1>6, <1>0 DEF Wait, Ready, Advance, Shape, Booting, Progress, LockInv, BootInv, ToolsInv
  <1>7. CASE Return
    BY <1>7, WaysOut, NotOps DEF Return, iop, Progress, LockInv, BootInv, ToolsInv
  <1>8. CASE SystemInitThread
    BY <1>8, <1>0 DEF SystemInitThread, InitMCTOOLS, main, Shape, Booting, Progress, LockInv, BootInv, ToolsInv
  <1>9. CASE PowerButton
    BY <1>9 DEF PowerButton, MayPowerOff, main, iop, Progress, LockInv, BootInv, ToolsInv
  <1>10. CASE PowerOff
    BY <1>10 DEF PowerOff, main, iop, Progress, LockInv, BootInv, ToolsInv
  <1>11. CASE Exit
    BY <1>11, NotOps DEF Exit, iop, Progress, LockInv, BootInv, ToolsInv
  <1>12. ASSUME NEW o \in Op \ {"start"}, Choose(o) PROVE SInv'
    <2>1. 1 \in 1 .. Len(Program[o]) /\ Shape(o, 1, Program[o][1], Program[o][2])
      BY ShapeOf, WaysOut
    <2>2. QED
      BY <1>12, <2>1, NotOps DEF Choose, iop, Shape, Booting, Progress, LockInv, BootInv, ToolsInv
  <1>13. CASE UNCHANGED vars
    BY <1>13 DEF vars, main, iop, Progress, LockInv, BootInv, ToolsInv
  <1>14. QED
    BY <1>1, <1>2, <1>3, <1>4, <1>5, <1>6, <1>7, <1>8, <1>9, <1>10, <1>11, <1>12, <1>13
       DEF Next, MainStep

THEOREM SessionInvariant == Spec => []SInv
  BY SessionInit, SessionStep, PTL DEF Spec

(* The power is not turned off while an operation that takes the lock is   *)
(* at work on a card or the disk (system.c:3112).                          *)
THEOREM NoneIsCutOff == Spec => []NoPowerOffInside
  <1>1. SInv => NoPowerOffInside
    <2> SUFFICES ASSUME SInv, PoweredOff, Doing \in {"sign", "hdd", "ask"}
                 PROVE  op \in {"cleanup", "format", "format_hdd"}
      BY DEF NoPowerOffInside
    <2>1. op \in Op /\ pc <= Len(Program[op]) /\ Program[op][pc] \in {"sign", "hdd", "ask"}
      BY DEF Doing, Steps
    <2>2. pc \in Inside(op) \/ op \in Alone
      BY <2>1, ShapeOf DEF SInv, Progress, Shape
    <2>3. lock = "callback"
      BY DEF PoweredOff, SInv, LockInv
    <2>4. QED
      BY <2>1, <2>2, <2>3 DEF SInv, LockInv, Alone
  <1>2. QED
    BY SessionInvariant, <1>1, PTL

(* MCTOOLS is asked only when it is there, with its buffer                 *)
(* (mctools_rpc.c:43, 242).                                                *)
THEOREM ToolsAreReady == Spec => []ToolsReady
  <1>1. SInv => ToolsReady
    <2> SUFFICES ASSUME SInv, Doing \in {"query", "ask"}
                 PROVE  loaded = "tools" /\ IopBuffer = "live"
      BY DEF ToolsReady
    <2>1. op \in Op /\ pc <= Len(Program[op]) /\ Program[op][pc] \in {"query", "ask"}
      BY DEF Doing, Steps
    <2>2. pc \in Tooled(op)
      BY <2>1, ShapeOf DEF SInv, Progress, Shape
    <2>3. QED
      BY <2>1, <2>2 DEF SInv, ToolsInv
  <1>2. QED
    BY SessionInvariant, <1>1, PTL

(***************************************************************************)
(* The menu.                                                               *)
(***************************************************************************)
Event == {"install", "multi", "cleanup", "cleanup_multi", "format", "dump", "restore",
          "install_hdd", "cleanup_hdd", "cross_psx", "format_hdd", "exit"}

LEMMA EventsAre == {Events[n] : n \in DOMAIN Events} = Event
  BY DEF Events, Event

LEMMA OperationIs ==
  ASSUME NEW e \in Event \ {"exit"}
  PROVE  Operation(e) \in Op \ {"start"}
  BY Operations DEF Operation, Event

LEMMA Asks ==
  ASSUME NEW e \in {"install", "multi", "cleanup"}
  PROVE  "not" \in OpModeFlags(e)
  <1> DEFINE table == <<{"not"}, {"not"}, {"not"}, {"must"}, {}, {}, {}, {}>>
  <1>1. PICK n \in {1, 2, 3} : Events[n] = e
    BY DEF Events
  <1>2. n \in DOMAIN table /\ "not" \in table[n]
    OBVIOUS
  <1>3. QED
    BY <1>1, <1>2 DEF OpModeFlags

(***************************************************************************)
(* The inductive invariant.                                                *)
(***************************************************************************)
Places == {"menu", "info1", "file1", "info2", "file2", "port", "check", "begin", "run"}
Contents == {"blank", "plain", "multi"}

Kinds ==
  /\ event \in Event /\ McPort \in Slot /\ at \in Places
  /\ slot \in [Slot -> Card \cup {None}] /\ content \in [Card -> Contents]
  /\ told \subseteq Slot /\ counted \subseteq Slot /\ unsure \subseteq Slot /\ missed \subseteq Slot
  /\ Type \in [Slot -> BOOLEAN] /\ HasMulti \in [Slot -> BOOLEAN]
  /\ slot[1] # None => slot[1] # slot[2]

(* Where the menu is, and where the operation is.                          *)
Together ==
  /\ at = "run" <=> op \in Op
  /\ at \in {"check", "begin"} => event \in CardEvents
  /\ op \in Op \ {"start"} => op = Operation(event)
  /\ op \in Long /\ pc > 1 => told = {}

HoldsMulti(s) == slot[s] # None /\ content[slot[s]] = "multi"

(* A card that was reported, with no news of it lost, is remembered as it  *)
(* is, or as having no multi-installation.                                 *)
Believed ==
  \A s \in Slot : HasMulti[s] /\ s \in told /\ s \notin missed => HoldsMulti(s)

Asked == {"port", "check", "begin"}
Looked(s) == at \in Asked \cup {"file2"} \/ (s = 1 /\ at \in {"file1", "info2"})
Read(s)   == at \in Asked \/ (s = 1 /\ at \in {"info2", "file2"})

Seen ==
  \A s \in Slot :
    /\ Looked(s) /\ s \notin unsure => s \in told
    /\ Looked(s) /\ s \notin unsure /\ HoldsMulti(s) => s \in counted
    /\ Read(s) /\ s \notin unsure /\ HoldsMulti(s) => HasMulti[s]

Checked == at = "begin" => ~ Refused

CInv == SInv /\ Kinds /\ Together /\ Believed /\ Seen /\ Checked

LEMMA CardsInitInv == CardsInit => CInv
  <1> SUFFICES ASSUME CardsInit PROVE CInv
    OBVIOUS
  <1>1. SInv
    BY SessionInit DEF CardsInit
  <1>2. op \in Op /\ op = "start"
    BY Operations DEF CardsInit, Init
  <1>3. QED
    BY <1>1, <1>2 DEF CardsInit, CInv, Kinds, Together, Believed, Seen, Checked, Looked, Read,
       Asked, Event, Places, Contents, Slot, Long

(***************************************************************************)
(* Each step of the whole is a step of the session, or leaves it alone.    *)
(***************************************************************************)
LEMMA CardsParts == Kinds /\ Together /\ [CardsNext]_all => [Next]_vars
  <1> SUFFICES ASSUME Kinds, Together, [CardsNext]_all PROVE [Next]_vars
    OBVIOUS
  <1>1. CASE Begin
    <2>1. Operation(event) \in Op \ {"start"}
      BY <1>1, OperationIs DEF Begin, Kinds, Together, CardEvents
    <2>2. QED
      BY <1>1, <2>1 DEF Begin, Next
  <1>2. CASE Running
    BY <1>2 DEF Running, Next, MainStep
  <1>3. CASE Finish
    BY <1>3 DEF Finish, Next, MainStep
  <1>4. CASE Others
    BY <1>4 DEF Others, Next
  <1>5. CASE Leave
    BY <1>5 DEF Leave, Next
  <1>6. CASE GetNumMemcardsInserted
    BY <1>6 DEF GetNumMemcardsInserted, GetInfo, HasOldMultiInstall, session
  <1>7. CASE ChoosePort \/ CheckPrerequisites \/ Back
    BY <1>7 DEF ChoosePort, CheckPrerequisites, Back, session
  <1>8. CASE \E e \in {Events[n] : n \in DOMAIN Events} : Select(e)
    BY <1>8 DEF Select, session
  <1>9. CASE \E s \in Slot, c \in Card \cup {None} : ChangeCard(s, c)
    BY <1>9 DEF ChangeCard, session
  <1>10. CASE UNCHANGED all
    BY <1>10 DEF all
  <1>11. QED
    BY <1>1, <1>2, <1>3, <1>4, <1>5, <1>6, <1>7, <1>8, <1>9, <1>10 DEF CardsNext

(***************************************************************************)
(* The steps.                                                              *)
(***************************************************************************)
Believes(s) == HasMulti[s] /\ s \in told /\ s \notin missed

LEMMA LongOps == Long \subseteq Op
  BY Operations DEF Long

LEMMA SelectInv ==
  ASSUME CInv, NEW e \in Event, Select(e)
  PROVE  Kinds' /\ Together' /\ Believed' /\ Seen' /\ Checked'
  <1>1. op \notin Op
    BY NotOps DEF Select
  <1>2. QED
    BY <1>1 DEF CInv, Select, Goto, session, vars, main, Kinds, Together, Believed, HoldsMulti, Seen,
       Looked, Read, Asked, Checked, Places

LEMMA ChangeInv ==
  ASSUME CInv, NEW s \in Slot, NEW c \in Card \cup {None}, ChangeCard(s, c)
  PROVE  Kinds' /\ Together' /\ Believed' /\ Seen' /\ Checked'
  <1> USE DEF CInv, ChangeCard, session, vars, main
  <1>1. Kinds'
    BY DEF Kinds, Slot
  <1>2. Together'
    BY DEF Together
  <1>3. Believed'
    BY DEF Kinds, Believed, HoldsMulti
  <1>4. Seen'
    BY DEF Kinds, Seen, HoldsMulti, Looked, Read
  <1>5. Checked'
    BY DEF Checked, Refused
  <1>6. QED
    BY <1>1, <1>2, <1>3, <1>4, <1>5

LEMMA Reported ==
  ASSUME NEW s \in Slot, NEW result \in Reports(s)
  PROVE  /\ loaded = "main" /\ s \notin told => result < 0
         /\ loaded = "main" /\ HoldsMulti(s) => slot[s] # None /\ ~ (result < -1)
  BY DEF Reports, HoldsMulti

LEMMA GetInfoInv ==
  ASSUME CInv, NEW s \in Slot, NEW here, NEW there, GetInfo(s, here, there),
         \/ s = 1 /\ here = "info1" /\ there = "file1"
         \/ s = 2 /\ here = "info2" /\ there = "file2"
  PROVE  Kinds' /\ Together' /\ Believed' /\ Seen' /\ Checked'
  <1>2. PICK result \in Reports(s) :
          LET type == IF loaded = "main" THEN slot[s] # None ELSE Type[s]
          IN  /\ Type' = [Type EXCEPT ![s] = type]
              /\ HasMulti' = IF NewCard(result) THEN [HasMulti EXCEPT ![s] = FALSE] ELSE HasMulti
              /\ missed' = IF result < 0 THEN missed \ {s} ELSE missed
              /\ counted' = IF result < -1 \/ ~ type THEN counted ELSE counted \cup {s}
    BY DEF GetInfo
  <1>3. /\ at = here /\ at' = there
        /\ told' = IF loaded = "main" THEN told \cup {s} ELSE told
        /\ unsure' = IF loaded = "main" THEN unsure \ {s} ELSE unsure \cup {s}
        /\ UNCHANGED <<vars, slot, content, event, McPort, changes>>
    BY DEF GetInfo, Goto, session
  <1>4. /\ loaded = "main" /\ HoldsMulti(s) => slot[s] # None /\ ~ (result < -1)
        /\ loaded = "main" /\ s \notin told => NewCard(result)
        /\ NewCard(result) <=> result < 0
    BY <1>2, Reported DEF NewCard
  <1>5. Kinds'
    BY <1>2, <1>3, <1>4 DEF CInv, Kinds, Places
  <1>6. Together'
    BY <1>3, LongOps DEF CInv, Together, vars, main
  <1>7. Believed'
    <2>1. CASE loaded = "main" /\ s \notin told
      <3>1. NewCard(result)
        BY <2>1, <1>4
      <3>2. QED
        BY <3>1, <1>2, <1>3, <1>4 DEF CInv, Believed, HoldsMulti, Kinds
    <2>2. CASE loaded = "main" => s \in told
      BY <2>2, <1>2, <1>3, <1>4 DEF CInv, Believed, HoldsMulti, NewCard, Kinds
    <2>3. QED
      BY <2>1, <2>2
  <1>8. Seen'
    <2>1. loaded = "main" /\ HoldsMulti(s) => s \in counted'
      BY <1>2, <1>4
    <2>2. /\ counted \subseteq counted'
          /\ \A t \in Slot \ {s} : HasMulti'[t] = HasMulti[t]
          /\ \A t \in Slot : HoldsMulti(t)' <=> HoldsMulti(t)
      BY <1>2, <1>3 DEF CInv, Kinds, HoldsMulti
    <2>3. s \notin unsure' => loaded = "main" /\ s \in told'
      BY <1>3
    <2>0. \/ s = 1 /\ at = "info1" /\ at' = "file1"
          \/ s = 2 /\ at = "info2" /\ at' = "file2"
      BY <1>3
    <2>4. ~ Read(s)'
      BY <2>0 DEF Read, Asked
    <2>5. ASSUME NEW t \in Slot, t # s
          PROVE  /\ Looked(t)' => Looked(t)
                 /\ Read(t)' => Read(t)
                 /\ t \notin unsure' => t \notin unsure
                 /\ t \in told => t \in told'
      <3>1. t = IF s = 1 THEN 2 ELSE 1
        BY <2>5 DEF Slot
      <3>2. (Looked(t)' => Looked(t)) /\ (Read(t)' => Read(t))
        BY <2>0, <3>1 DEF Looked, Read, Asked
      <3>3. QED
        BY <1>3, <3>2, <2>5
    <2>6. QED
      BY <2>1, <2>2, <2>3, <2>4, <2>5 DEF CInv, Seen
  <1>9. Checked'
    BY <1>3 DEF Checked
  <1>10. QED
    BY <1>5, <1>6, <1>7, <1>8, <1>9

LEMMA OldInv ==
  ASSUME CInv, NEW s \in Slot, NEW here, NEW there, HasOldMultiInstall(s, here, there),
         \/ s = 1 /\ here = "file1" /\ there = "info2"
         \/ s = 2 /\ here = "file2" /\ there = "port"
  PROVE  Kinds' /\ Together' /\ Believed' /\ Seen' /\ Checked'
  <1>2. /\ at = here /\ at' = there
        /\ UNCHANGED <<vars, slot, content, Type, counted, event, McPort, changes>>
    BY DEF HasOldMultiInstall, Goto, session
  <1>3. \/ UNCHANGED <<told, missed>>
        \/ s \notin told /\ told' = told \cup {s} /\ missed' = missed \cup {s}
    BY DEF HasOldMultiInstall, Access
  <1>4. \/ s \notin counted /\ UNCHANGED <<HasMulti, unsure>>
        \/ /\ HoldsMulti(s) /\ HasMulti' = [HasMulti EXCEPT ![s] = TRUE]
           /\ UNCHANGED unsure
        \/ /\ UNCHANGED HasMulti
           /\ unsure' = IF HoldsMulti(s) THEN unsure \cup {s} ELSE unsure
    BY DEF HasOldMultiInstall, HoldsMulti
  <1>5. Kinds'
    BY <1>2, <1>3, <1>4 DEF CInv, Kinds, Places
  <1>6. Together'
    BY <1>2, <1>3, LongOps DEF CInv, Together, vars, main
  <1>7. Believed'
    BY <1>2, <1>3, <1>4 DEF CInv, Believed, HoldsMulti, Kinds
  <1>8. Seen'
    BY <1>2, <1>3, <1>4 DEF CInv, Seen, HoldsMulti, Looked, Read, Asked, Kinds, Slot
  <1>9. Checked'
    BY <1>2 DEF Checked
  <1>10. QED
    BY <1>5, <1>6, <1>7, <1>8, <1>9

LEMMA PortInv ==
  ASSUME CInv, ChoosePort
  PROVE  Kinds' /\ Together' /\ Believed' /\ Seen' /\ Checked'
  <1>1. /\ at = "port" /\ event \in CardEvents
        /\ UNCHANGED <<vars, slot, content, told, HasMulti, missed, changes>>
    BY DEF ChoosePort, session
  <1>2. \/ Menu
        \/ /\ McPort' \in Slot /\ at' = "check"
           /\ UNCHANGED <<event, counted, unsure, Type>>
    BY DEF ChoosePort, OnlyOne, Goto, Slot
  <1>3. QED
    BY <1>1, <1>2, LongOps
       DEF CInv, Menu, Forget, Goto, vars, main, Kinds, Event, Together, Places, Slot, Believed, HoldsMulti,
           Seen, Looked, Read, Asked, Checked

LEMMA PrerequisitesInv ==
  ASSUME CInv, CheckPrerequisites
  PROVE  Kinds' /\ Together' /\ Believed' /\ Seen' /\ Checked'
  <1>1. /\ at = "check"
        /\ UNCHANGED <<vars, slot, content, HasMulti, changes>>
    BY DEF CheckPrerequisites, session
  <1>2. \/ UNCHANGED <<told, missed>>
        \/ \E s \in Slot : /\ s \notin told /\ told' = told \cup {s} /\ missed' = missed \cup {s}
    BY DEF CInv, Kinds, CheckPrerequisites, Access
  <1>3. \/ Menu
        \/ /\ at' = "begin" /\ ~ Refused
           /\ UNCHANGED <<event, McPort, counted, unsure, Type>>
    BY DEF CheckPrerequisites, Goto, Stay
  <1>4. Kinds'
    BY <1>1, <1>2, <1>3 DEF CInv, Menu, Forget, Goto, Kinds, Event, Places, Slot
  <1>5. Together'
    BY <1>1, <1>2, <1>3, LongOps DEF CInv, Menu, Forget, Goto, vars, main, Together
  <1>6. Believed'
    BY <1>1, <1>2 DEF CInv, Believed, HoldsMulti
  <1>7. Seen'
    BY <1>1, <1>2, <1>3 DEF CInv, Menu, Forget, Goto, Seen, HoldsMulti, Looked, Read, Asked
  <1>8. Checked'
    BY <1>1, <1>3 DEF Checked, Menu, Goto, Refused
  <1>9. QED
    BY <1>4, <1>5, <1>6, <1>7, <1>8

LEMMA BackInv ==
  ASSUME CInv, Back
  PROVE  Kinds' /\ Together' /\ Believed' /\ Seen' /\ Checked'
  BY LongOps DEF CInv, Back, Menu, Forget, Goto, session, vars, main, Kinds, Event, Together, Places, Slot,
     Believed, HoldsMulti, Seen, Looked, Read, Asked, Checked

LEMMA BeginInv ==
  ASSUME CInv, Begin
  PROVE  Kinds' /\ Together' /\ Believed' /\ Seen' /\ Checked'
  <1>1. event \in Event \ {"exit"}
    BY DEF Begin, CInv, Kinds, Together, CardEvents
  <1>2. op' = Operation(event) /\ op' \in Op /\ pc' = 1 /\ at' = "run"
    BY <1>1, OperationIs DEF Begin, Choose, Goto
  <1>3. UNCHANGED <<slot, content, told, HasMulti, event, McPort, missed>>
    BY DEF Begin
  <1>4. Kinds'
    BY <1>2, <1>3 DEF Begin, Forget, CInv, Kinds, Places
  <1>5. Together'
    BY <1>2, <1>3 DEF Together
  <1>6. Believed' /\ Seen' /\ Checked'
    BY <1>2, <1>3 DEF CInv, Believed, HoldsMulti, Seen, Looked, Read, Asked, Checked
  <1>7. QED
    BY <1>4, <1>5, <1>6

LEMMA LeaveInv ==
  ASSUME CInv, Leave
  PROVE  Kinds' /\ Together' /\ Believed' /\ Seen' /\ Checked'
  BY NotOps, LongOps DEF CInv, Leave, Exit, cards, known, past, Kinds, Together, Believed, HoldsMulti, Seen,
     Looked, Read, Asked, Checked, Refused

LEMMA OthersInv ==
  ASSUME CInv, Others \/ UNCHANGED all
  PROVE  Kinds' /\ Together' /\ Believed' /\ Seen' /\ Checked'
  <1>1. UNCHANGED <<main, cards>>
    BY DEF Others, SystemInitThread, PowerOff, PowerButton, all, vars
  <1>2. QED
    BY <1>1 DEF CInv, main, cards, known, past, Kinds, Together, Believed, HoldsMulti, Seen,
       Looked, Read, Asked, Checked, Refused

(* Only MCTOOLS works on a card in these operations, and the first thing   *)
(* that they do is to reset the IOP.                                       *)
LEMMA RunningInv ==
  ASSUME CInv, Running
  PROVE  Kinds' /\ Together' /\ Believed' /\ Seen' /\ Checked'
  <1>1. /\ at = "run" /\ op \in Op /\ op' = op
        /\ pc <= Len(Program[op])
        /\ UNCHANGED <<slot, content, Type, HasMulti, counted, event, McPort, at, unsure, changes>>
    BY DEF Running, Work, Lock, Unlock, Reset, Boot, Wait, Advance, Failed, At, Steps
  <1>2. \/ At({"main", "tools"}) /\ told' = {} /\ UNCHANGED missed
        \/ At({"sign", "touch"}) /\ Access(McPort)
        \/ ~ At({"main", "tools", "sign", "touch"}) /\ UNCHANGED <<told, missed>>
    BY DEF Running
  <1>3. Kinds'
    BY <1>1, <1>2 DEF CInv, Kinds, Access
  <1>4. op \in Long => told' = {}
    <2> SUFFICES ASSUME op \in Long PROVE told' = {}
      OBVIOUS
    <2>0. Len(Program[op]) = 11 /\ Program[op][1] = "tools"
      BY LongIs
    <2>1. pc \in 1 .. 11
      BY <1>1, <2>0 DEF CInv, SInv, Progress
    <2>2. CASE pc = 1
      BY <1>1, <1>2, <2>0, <2>2 DEF At, Steps, Running, Work, Lock, Unlock, Reset, Boot, Wait
    <2>3. CASE pc > 1
      <3>1. told = {}
        BY <2>3 DEF CInv, Together
      <3>2. Program[op][pc] \notin {"sign", "touch"}
        BY <2>1, LongIs
      <3>3. QED
        BY <1>2, <3>1, <3>2 DEF At, Steps
    <2>4. QED
      BY <2>1, <2>2, <2>3
  <1>5. Together'
    BY <1>1, <1>4 DEF CInv, Together
  <1>6. Believed'
    BY <1>1, <1>2 DEF CInv, Believed, HoldsMulti, Access
  <1>7. Seen' /\ Checked'
    BY <1>1 DEF Seen, Looked, Read, Asked, Checked
  <1>8. QED
    BY <1>3, <1>5, <1>6, <1>7

LEMMA FinishInv ==
  ASSUME CInv, Finish
  PROVE  Kinds' /\ Together' /\ Believed' /\ Seen' /\ Checked'
  <1>1. /\ at = "run" /\ op \in Op /\ op' = "menu" /\ pc = Len(Program[op]) + 1
        /\ at' = "menu" /\ event' = "exit" /\ McPort' = 1
        /\ counted' = {} /\ unsure' = {} /\ Type' = [s \in Slot |-> FALSE]
        /\ UNCHANGED <<slot, told>>
    BY DEF Finish, Return, Menu, Forget, Goto, Steps
  <1> DEFINE c == slot[McPort]
  <1>2. \/ /\ event \in CardEvents /\ op # "start" /\ c # None
           /\ \E ok \in BOOLEAN :
                /\ content' \in {[content EXCEPT ![c] = new] : new \in Outcome(event, content[c], ok)}
                /\ ok /\ event = "multi" => content[c] # "blank"
                /\ HasMulti' = [HasMulti EXCEPT ![McPort] = FlagsAfter(event, ok)]
                /\ missed' = IF event = "format" /\ ~ ok THEN missed \cup {McPort} ELSE missed
        \/ UNCHANGED <<content, HasMulti, missed>>
    BY DEF Finish
  <1>3. Together' /\ Seen' /\ Checked'
    BY <1>1, NotOps, LongOps DEF Together, Seen, Looked, Read, Asked, Checked
  <1>4. CASE UNCHANGED <<content, HasMulti, missed>>
    BY <1>1, <1>3, <1>4 DEF CInv, Kinds, Event, Places, Slot, Believed, HoldsMulti
  <1>5. ASSUME event \in CardEvents, op # "start", c # None,
               NEW ok \in BOOLEAN, NEW new \in Outcome(event, content[c], ok),
               content' = [content EXCEPT ![c] = new],
               ok /\ event = "multi" => content[c] # "blank",
               HasMulti' = [HasMulti EXCEPT ![McPort] = FlagsAfter(event, ok)],
               missed' = IF event = "format" /\ ~ ok THEN missed \cup {McPort} ELSE missed
        PROVE  Kinds' /\ Believed'
    <2>1. c \in Card /\ content[c] \in Contents
      BY <1>5 DEF CInv, Kinds
    <2>2. new \in Contents /\ FlagsAfter(event, ok) \in BOOLEAN
      BY <1>5, <2>1 DEF Outcome, FlagsAfter, Contents, CInv, Kinds
    <2>3. Kinds'
      BY <1>1, <1>5, <2>1, <2>2 DEF CInv, Kinds, Event, Places, Slot
    <2>4. event \in {"cleanup_multi", "restore"} => told = {}
      <3> SUFFICES ASSUME event \in {"cleanup_multi", "restore"} PROVE told = {}
        OBVIOUS
      <3>1. op = event /\ op \in Long
        BY <1>1, <1>5 DEF CInv, Together, Operation, Long
      <3>2. Len(Program[op]) = 11
        BY <3>1, LongIs
      <3>3. pc > 1
        BY <1>1, <3>2
      <3>4. QED
        BY <3>1, <3>3 DEF CInv, Together
    <2>5. FlagsAfter(event, ok) /\ McPort \in told /\ McPort \notin missed' => new = "multi"
      BY <1>5, <2>1, <2>4 DEF Outcome, FlagsAfter, CInv, Believed, HoldsMulti, Kinds, Contents
    <2>6. \A s \in Slot \ {McPort} : slot[s] # c /\ HasMulti'[s] = HasMulti[s]
      BY <1>5 DEF CInv, Kinds, Slot
    <2>7. missed \subseteq missed'
      BY <1>5
    <2>8. Believed'
      BY <1>1, <1>5, <2>1, <2>2, <2>5, <2>6, <2>7 DEF CInv, Kinds, Believed, HoldsMulti
    <2>9. QED
      BY <2>3, <2>8
  <1>6. QED
    BY <1>2, <1>3, <1>4, <1>5

LEMMA CardsStep == CInv /\ [CardsNext]_all => CInv'
  <1> SUFFICES ASSUME CInv, [CardsNext]_all PROVE CInv'
    OBVIOUS
  <1>1. SInv'
    BY CardsParts, SessionStep DEF CInv
  <1>2. Kinds' /\ Together' /\ Believed' /\ Seen' /\ Checked'
    <2>1. CASE \E e \in {Events[n] : n \in DOMAIN Events} : Select(e)
      BY <2>1, EventsAre, SelectInv
    <2>2. CASE GetNumMemcardsInserted
      <3>1. 1 \in Slot /\ 2 \in Slot
        BY DEF Slot
      <3>2. CASE GetInfo(1, "info1", "file1") \/ GetInfo(2, "info2", "file2")
        BY <3>1, <3>2, GetInfoInv
      <3>3. CASE HasOldMultiInstall(1, "file1", "info2") \/ HasOldMultiInstall(2, "file2", "port")
        BY <3>1, <3>3, OldInv
      <3>4. QED
        BY <2>2, <3>2, <3>3 DEF GetNumMemcardsInserted
    <2>3. CASE ChoosePort \/ CheckPrerequisites
      BY <2>3, PortInv, PrerequisitesInv
    <2>4. CASE Begin \/ Leave \/ Back
      BY <2>4, BeginInv, LeaveInv, BackInv
    <2>5. CASE Running \/ Finish
      BY <2>5, RunningInv, FinishInv
    <2>6. CASE Others \/ UNCHANGED all
      BY <2>6, OthersInv
    <2>7. CASE \E s \in Slot, c \in Card \cup {None} : ChangeCard(s, c)
      BY <2>7, ChangeInv
    <2>8. QED
      BY <2>1, <2>2, <2>3, <2>4, <2>5, <2>6, <2>7 DEF CardsNext
  <1>3. QED
    BY <1>1, <1>2 DEF CInv

(***************************************************************************)
(* The theorems.                                                           *)
(***************************************************************************)
(* What the menu remembers of the cards, and how its place goes with that  *)
(* of the operation (menu.c:389-764, system.c:2334-2385).                  *)
THEOREM CardsInvariant == CardsSpec => []CInv
  BY CardsInitInv, CardsStep, PTL DEF CardsSpec

(* The operations that the menu begins are operations of the session, one  *)
(* at a time: what is proved of these holds of them (menu.c:389-764).      *)
THEOREM MenuFitsIn == CardsSpec => Spec
  <1>1. CardsInit => Init
    BY DEF CardsInit
  <1>2. CInv /\ [CardsNext]_all => [Next]_vars
    BY CardsParts DEF CInv
  <1>3. QED
    BY CardsInvariant, <1>1, <1>2, PTL DEF CardsSpec, Spec

(* The power is not turned off inside an operation that takes the lock,    *)
(* whatever the menu begins (system.c:3112).                               *)
THEOREM MenuNotCutOff == CardsSpec => []NoPowerOffInside
  BY MenuFitsIn, NoneIsCutOff, PTL

(* MCTOOLS is asked only when it is there, whatever the menu begins        *)
(* (mctools_rpc.c:43, 242).                                                *)
THEOREM MenuToolsReady == CardsSpec => []ToolsReady
  BY MenuFitsIn, ToolsAreReady, PTL

(* What the menu believes of a multi-installation is true of the card that *)
(* it has just looked at (system.c:2372, menu.c:491, 550, 597).            *)
THEOREM FlagsAreOfThisCard == CardsSpec => []FlagsOfThisCard
  <1>1. CInv => FlagsOfThisCard
    <2> SUFFICES ASSUME CInv, at \in Asked, NEW s \in Slot, HasMulti[s], s \notin unsure \cup missed
                 PROVE  HoldsMulti(s)
      BY DEF FlagsOfThisCard, Asked, HoldsMulti
    <2>0. Looked(s) /\ s \notin unsure
      BY DEF Looked
    <2>1. s \in told
      BY <2>0 DEF CInv, Seen
    <2>2. QED
      BY <2>1 DEF CInv, Believed
  <1>2. QED
    BY CardsInvariant, <1>1, PTL

(* An installation or a normal clean-up never begins on a card with a      *)
(* multi-installation that it could have seen (system.c:2334-2385).        *)
THEOREM MultiIsRespected == CardsSpec => MultiRespected
  <1> DEFINE Fact == op = "menu" /\ op' \in Op /\ event \in {"install", "multi", "cleanup"}
                       /\ McPort \notin unsure /\ slot[McPort] # None
                       => content[slot[McPort]] # "multi"
  <1>1. CInv /\ [CardsNext]_all => Fact
    <2> SUFFICES ASSUME CInv, [CardsNext]_all, op = "menu", op' \in Op,
                        event \in {"install", "multi", "cleanup"},
                        McPort \notin unsure, HoldsMulti(McPort)
                 PROVE  FALSE
      BY DEF HoldsMulti
    <2>1. op \notin Op /\ op' # op
      BY NotOps
    <2>2. Begin
      <3>1. ~ Running /\ ~ Finish
        BY <2>1 DEF Running, Finish, Return
      <3>2. ~ Others /\ ~ Leave
        BY <2>1, NotOps DEF Others, Leave, Exit, SystemInitThread, PowerOff, PowerButton, main
      <3>3. ~ GetNumMemcardsInserted /\ ~ UNCHANGED all
        BY <2>1 DEF GetNumMemcardsInserted, GetInfo, HasOldMultiInstall, session, vars, main, all
      <3>4. ~ ChoosePort /\ ~ CheckPrerequisites /\ ~ Back
        BY <2>1 DEF ChoosePort, CheckPrerequisites, Back, session, vars, main
      <3>5. /\ ~ \E e \in {Events[n] : n \in DOMAIN Events} : Select(e)
            /\ ~ \E s \in Slot, c \in Card \cup {None} : ChangeCard(s, c)
        BY <2>1 DEF Select, ChangeCard, session, vars, main
      <3>6. QED
        BY <3>1, <3>2, <3>3, <3>4, <3>5 DEF CardsNext
    <2>3. at = "begin"
      BY <2>2 DEF Begin, CardEvents
    <2>4. HasMulti[McPort]
      <3>1. Read(McPort) /\ McPort \in Slot
        BY <2>3 DEF CInv, Kinds, Read, Asked
      <3>2. QED
        BY <3>1 DEF CInv, Seen
    <2>5. Refused
      BY <2>4, Asks DEF Refused
    <2>6. QED
      BY <2>3, <2>5 DEF CInv, Checked
  <1>2. QED
    BY CardsInvariant, <1>1, PTL DEF CardsSpec, MultiRespected
=============================================================================
