----------------------------- MODULE SignedCopy -----------------------------
(***************************************************************************)
(* CopyFiles with the signing of files, and the driver of the card (MCMAN) *)
(* that authenticates a card it finds changed.  Both send commands to the  *)
(* card and to the MechaCon: the signing in calls that the program waits   *)
(* for, the driver whenever it has a command of libmc to carry out.        *)
(***************************************************************************)
EXTENDS CopyFiles, KelfSigning

copyVars == <<vars, authVars, signVars>>

(* The card has been authenticated before the installation. *)
CopyInit ==
  /\ Init
  /\ SignInit /\ twin \in BOOLEAN
  /\ proc = "none" /\ step = 1
  /\ at = [s \in Side |-> Through(s)]
  /\ buf = [b \in AuthValue |-> "none"]
  /\ heard = [b \in AuthValue |-> "current"]
  /\ busy = FALSE /\ granted = TRUE /\ unreset = {} /\ pulls = 0

(***************************************************************************)
(* The main thread.                                                        *)
(***************************************************************************)
IsKelf == pc = "sign" /\ list[i] = "kelf"

CopyStep == Program /\ ~ IsKelf /\ UNCHANGED <<authVars, signVars>>

StartSigning == IsKelf /\ SignKELF /\ UNCHANGED vars

SignStep == (Sign \/ SignFails) /\ UNCHANGED vars

(* What SignKELF returned decides; its variables are gone. *)
EndSigning ==
  /\ IsKelf
  /\ SignFile
  /\ \/ stage = "signed" /\ result' = result
     \/ stage = "failed" /\ result' = "error"
  /\ stage' = "idle" /\ left' = 0 /\ blk' = 1 /\ keyStep' = 1
  /\ half' = Unkeyed /\ key' = [b \in Buffers |-> Unkeyed]
  /\ UNCHANGED <<kelf, target, twin, told, fed, download, authVars>>

(***************************************************************************)
(* The driver, external.  It authenticates a card that has been changed    *)
(* before it carries out a command, and may reset one it cannot use.       *)
(***************************************************************************)
Carrying == answer = Pending /\ cmd # None /\ UNCHANGED vars

DriverAuth ==
  /\ Carrying /\ at["card"] # Through("card")
  /\ SecrAuthCard \/ SecrResetAuthCard
  /\ UNCHANGED signVars

DriverServes ==
  /\ proc = "none"
  /\ Serve
  /\ at["card"] = Through("card") \/ answer' = NoFd
  /\ UNCHANGED <<authVars, signVars>>

(* A command of a handshake makes the MechaCon forget the header. *)
DriverStep ==
  /\ AuthStep \/ UndoStep
  /\ download' = Remembers
  /\ UNCHANGED <<vars, stage, kelf, target, twin, left, blk, keyStep, told, fed, half, key>>

Hardware == (Compute \/ Pull) /\ UNCHANGED <<vars, signVars>>

CopyNext ==
  \/ CopyStep \/ StartSigning \/ SignStep \/ EndSigning
  \/ DriverAuth \/ DriverServes \/ DriverStep \/ Hardware

CopySpec == CopyInit /\ [][CopyNext]_copyVars

(* The program goes on, and the MechaCon comes to its results.  Polling    *)
(* that gets no result need not fail either.                               *)
Polling == stage \in {"poll_header", "poll_block"} /\ busy

FairCopy ==
  CopySpec /\ WF_copyVars(~ Polling /\ SignStep) /\ WF_copyVars(Hardware /\ busy /\ ~ busy')
=============================================================================
