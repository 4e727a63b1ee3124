------------------------------ MODULE CardAuth ------------------------------
(***************************************************************************)
(* How a Memory Card and the console's MechaCon authenticate each other.   *)
(*   irx/source/secrman/src/secrman.c    SecrAuthCard, SecrResetAuthCard   *)
(*   irx/source/secrman/src/CardAuth.c   the commands to the card          *)
(*   irx/source/secrman/src/MechaAuth.c  the commands to the MechaCon      *)
(*                                                                         *)
(* The module in between carries values from one to the other, command by  *)
(* command, in local buffers.  Any command may fail: it does not arrive,   *)
(* its answer does not (a checksum, a status word), or it is refused.  The *)
(* card may be pulled out at any time.                                     *)
(*                                                                         *)
(* Card and MechaCon are external.  From the order in which the code takes *)
(* their commands: each carries out a command of its half of the handshake *)
(* only after the one before, and forgets everything when it is reset.     *)
(* They do not check here what they are told; that the right values arrive *)
(* is what is asked of the code.                                           *)
(***************************************************************************)
EXTENDS Naturals, Sequences, Functions

CONSTANT MaxPulls       \* bound: how often the card is taken out

ASSUME PullsAssumption == MaxPulls \in Nat

Side == {"card", "mecha"}

(* The values, by the buffers of SecrAuthCard; MechaChallenge2 is put      *)
(* together from two answers.                                              *)
CardMade  == {"CardIV", "CardMaterial", "CardNonce",
              "CardResponse1", "CardResponse2", "CardResponse3"}
MechaMade == {"MechaChallenge1", "MechaChallenge2a", "MechaChallenge2b", "MechaChallenge3"}
AuthValue == CardMade \cup MechaMade

(* Whether a value is of the session that its maker is in.                 *)
Age == {"none", "old", "current", "wrong"}

VARIABLES
  proc,       \* what secrman does: "none", "auth" or a way back from it
  step,       \* the next command of it
  at,         \* the last command of AuthScript that each side carried out
  buf,        \* what the buffers hold
  heard,      \* what the maker's opposite has been told
  busy,       \* the MechaCon computes
  granted,    \* what SecrAuthCard returned last
  unreset,    \* history: a side did not answer to its last reset
  pulls

authVars == <<proc, step, at, buf, heard, busy, granted, unreset, pulls>>

(***************************************************************************)
(* The commands.                                                           *)
(***************************************************************************)
Command(to, c, put, get) == [to |-> to, cmd |-> c, put |-> put, get |-> get]

card_auth(c)               == Command("card", c, <<>>, <<>>)
card_auth_read(c, b)       == Command("card", c, <<>>, <<b>>)
card_auth_write(c, bs)     == Command("card", c, bs, <<>>)
card_auth_60               == card_auth("60")
card_auth_key_change       == card_auth("F7")
mechacon_auth(c)           == Command("mecha", c, <<>>, <<>>)
mechacon_auth_to(c, bs)    == Command("mecha", c, bs, <<>>)
mechacon_auth_from(c, bs)  == Command("mecha", c, <<>>, bs)
pol_cal_cmplt              == Command("mecha", "8F", <<>>, <<>>)

IsReset(x) == x.cmd \in {"60", "80"}

(* Mutant: the two answers of the MechaCon are sent in the wrong order.    *)
Challenge_Swapped ==
  <<card_auth_write("06", <<"MechaChallenge2a", "MechaChallenge2b">>),
    card_auth_write("07", <<"MechaChallenge3">>)>>

Challenge ==
  <<card_auth_write("06", <<"MechaChallenge3">>),
    card_auth_write("07", <<"MechaChallenge2a", "MechaChallenge2b">>)>>

(* The card is asked who it is, and the MechaCon told. *)
Introduce ==
  <<card_auth_60, mechacon_auth("80"), card_auth_key_change, card_auth("00"),
    mechacon_auth("81"),
    card_auth_read("01", "CardIV"), card_auth_read("02", "CardMaterial"),
    mechacon_auth_to("82", <<"CardIV", "CardMaterial">>),
    card_auth("03"), card_auth_read("04", "CardNonce"),
    mechacon_auth_to("83", <<"CardNonce">>), card_auth("05")>>

AskChallenge ==
  <<pol_cal_cmplt,
    mechacon_auth_from("84", <<"MechaChallenge1", "MechaChallenge2a">>),
    mechacon_auth_from("85", <<"MechaChallenge2b", "MechaChallenge3">>)>>

LastChallenge ==
  <<card_auth("08"), card_auth("09"), card_auth("0A"),
    card_auth_write("0B", <<"MechaChallenge1">>),
    card_auth("0C"), card_auth("0D"), card_auth("0E")>>

Respond ==
  <<card_auth_read("0F", "CardResponse1"), card_auth("10"),
    card_auth_read("11", "CardResponse2"),
    mechacon_auth_to("86", <<"CardResponse1", "CardResponse2">>),
    card_auth("12"), card_auth_read("13", "CardResponse3"),
    mechacon_auth_to("87", <<"CardResponse3">>), pol_cal_cmplt,
    card_auth("14"), mechacon_auth("88")>>

AuthScript == Introduce \o AskChallenge \o Challenge \o LastChallenge \o Respond

(* What the commands are for, by the names of their parameters.            *)
Expects(c) ==
  CASE c = "82" -> <<"CardIV", "CardMaterial">>
    [] c = "83" -> <<"CardNonce">>
    [] c = "06" -> <<"MechaChallenge3">>
    [] c = "07" -> <<"MechaChallenge2a", "MechaChallenge2b">>
    [] c = "0B" -> <<"MechaChallenge1">>
    [] c = "86" -> <<"CardResponse1", "CardResponse2">>
    [] c = "87" -> <<"CardResponse3">>
    [] OTHER -> <<>>

Steps == DOMAIN AuthScript
Own(s) == {k \in Steps : AuthScript[k].to = s /\ AuthScript[k] # pol_cal_cmplt}
Latest(S) == IF S = {} THEN 0 ELSE CHOOSE k \in S : \A j \in S : j <= k

(* Where s is before command k, and when the handshake is over. *)
Before(s, k) == Latest({j \in Own(s) : j < k})
Through(s)   == Latest(Own(s))

(* s is reset, or the card is out: what s said is out of date, and it has  *)
(* forgotten what it was told.                                             *)
Made(s)      == IF s = "card" THEN CardMade ELSE MechaMade
Aged(s, f)   == [b \in DOMAIN f |-> IF b \in Made(s) /\ f[b] = "current" THEN "old" ELSE f[b]]
Forgot(s, f) == [b \in DOMAIN f |-> IF b \in Made(s) THEN Aged(s, f)[b] ELSE "none"]

(* The side addressed carries out command k. *)
Reset(x) ==
  /\ heard' = Forgot(x.to, heard)
  /\ busy' = (busy /\ x.to = "card")

Obey(x, k) ==
  LET told == Expects(x.cmd)
  IN  /\ at[x.to] = Before(x.to, k)
      /\ heard' = [b \in AuthValue |->
                     IF b \notin Range(told) THEN heard[b]
                     ELSE IF x.put = told THEN buf[b] ELSE "wrong"]
      /\ busy' = (busy \/ x.cmd \in {"83", "87"})

Carried(x, k) ==
  /\ IF IsReset(x) THEN Reset(x) ELSE Obey(x, k)
  /\ at' = [at EXCEPT ![x.to] = k]

(* The buffers afterwards; an answer fills some of them. *)
Kept(x) == IF IsReset(x) THEN Aged(x.to, buf) ELSE buf
Filled(x) == [b \in AuthValue |-> IF b \in Range(x.get) THEN "current" ELSE Kept(x)[b]]

(* The code sees an answer, or it does not. *)
Answered(x, k) ==
  IF x = pol_cal_cmplt
    THEN ~ busy /\ UNCHANGED <<at, buf, heard, busy>>
    ELSE Carried(x, k) /\ buf' = Filled(x)

Unanswered(x, k) ==
  \/ UNCHANGED <<at, buf, heard, busy>>
  \/ x # pol_cal_cmplt /\ Carried(x, k) /\ buf' = Kept(x)

(* The MechaCon has computed what pol_cal_cmplt waits for. *)
Compute ==
  /\ busy /\ busy' = FALSE
  /\ UNCHANGED <<proc, step, at, buf, heard, granted, unreset, pulls>>

(***************************************************************************)
(* SecrAuthCard.  The driver of the card calls it.                         *)
(***************************************************************************)
AuthInit ==
  /\ proc = "none" /\ step = 1
  /\ at = [s \in Side |-> 0]
  /\ buf = [b \in AuthValue |-> "none"]
  /\ heard = [b \in AuthValue |-> "none"]
  /\ busy = FALSE
  /\ granted = FALSE /\ unreset = {}
  /\ pulls = 0

SecrAuthCard ==
  /\ proc = "none"
  /\ proc' = "auth" /\ step' = 1
  /\ buf' = [b \in AuthValue |-> "none"]
  /\ unreset' = {}
  /\ UNCHANGED <<at, heard, busy, granted, pulls>>

(* SecrResetAuthCard, the same as Error2_end. *)
SecrResetAuthCard ==
  /\ proc = "none"
  /\ proc' = "undo" /\ step' = 1
  /\ unreset' = {}
  /\ UNCHANGED <<at, buf, heard, busy, granted, pulls>>

(* Mutant: no way out resets the MechaCon. *)
WayOut_CardOnly(k) == IF k <= 2 THEN "none" ELSE "undo_card"

(* What is done when command k fails. *)
WayOut(k) == IF k <= 2 THEN "none" ELSE IF k <= 5 THEN "undo_card" ELSE "undo"

AuthStep ==
  LET x == AuthScript[step]
  IN  /\ proc = "auth"
      /\ \/ /\ Answered(x, step)
            /\ IF step = Len(AuthScript)
                 THEN proc' = "none" /\ step' = 1 /\ granted' = TRUE
                 ELSE step' = step + 1 /\ UNCHANGED <<proc, granted>>
            /\ UNCHANGED unreset
         \/ /\ Unanswered(x, step)
            /\ proc' = WayOut(step) /\ step' = 1
            /\ granted' = FALSE
            /\ unreset' = IF IsReset(x) THEN {x.to} ELSE {}
      /\ UNCHANGED pulls

(* The results of these are not looked at. *)
UndoStep ==
  LET x == AuthScript[step]
  IN  /\ proc \in {"undo_card", "undo"}
      /\ \/ Answered(x, step) /\ UNCHANGED unreset
         \/ Unanswered(x, step) /\ unreset' = unreset \cup {x.to}
      /\ IF proc = "undo" /\ step = 1
           THEN step' = 2 /\ UNCHANGED proc
           ELSE step' = 1 /\ proc' = "none"
      /\ granted' = FALSE
      /\ UNCHANGED pulls

(* The card is taken out and put back. *)
Pull ==
  /\ pulls < MaxPulls
  /\ pulls' = pulls + 1
  /\ at' = [at EXCEPT !["card"] = 0]
  /\ buf' = Aged("card", buf)
  /\ heard' = Forgot("card", heard)
  /\ UNCHANGED <<proc, step, busy, granted, unreset>>

AuthNext == SecrAuthCard \/ SecrResetAuthCard \/ AuthStep \/ UndoStep \/ Compute \/ Pull

AuthSpec == AuthInit /\ [][AuthNext]_authVars

(***************************************************************************)
(* Properties.                                                             *)
(***************************************************************************)
AuthTypeOK ==
  /\ proc \in {"none", "auth", "undo", "undo_card"}
  /\ step \in Steps
  /\ at \in [Side -> 0 .. Len(AuthScript)]
  /\ buf \in [AuthValue -> Age] /\ heard \in [AuthValue -> Age]
  /\ busy \in BOOLEAN /\ granted \in BOOLEAN
  /\ unreset \in SUBSET Side
  /\ pulls \in 0 .. MaxPulls

(* When card and MechaCon have both come through the handshake, each was   *)
(* told what the other said in this session, and nothing of an attempt     *)
(* before, whichever of its commands failed (secrman.c:587-852).           *)
AuthAgreed ==
  (\A s \in Side : at[s] = Through(s)) => \A b \in AuthValue : heard[b] = "current"

(* A handshake that fails leaves neither side in the middle of it, ready   *)
(* for somebody else's commands, if they answer to their last reset        *)
(* (secrman.c:822-852).                                                    *)
FailureForgets ==
  proc = "none" /\ ~ granted /\ unreset = {} => at["card"] <= 1 /\ at["mecha"] <= 5
=============================================================================
