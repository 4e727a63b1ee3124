------------------------------ MODULE MenuCards ------------------------------
(***************************************************************************)
(* The menu and what it remembers of the two Memory Cards, composed with   *)
(* the operations of InstallSession.                                       *)
(*   menu.c     MainMenu                                                   *)
(*   system.c   GetNumMemcardsInserted, HasOldMultiInstall,                *)
(*              CheckPrerequisites                                         *)
(*                                                                         *)
(* The menu looks at the cards when an entry has been chosen, then asks    *)
(* questions, and the user may change the cards at any time.  libmc and    *)
(* MCMAN, which report a card once after it was inserted or the IOP was    *)
(* reset, are external.                                                    *)
(***************************************************************************)
EXTENDS InstallSession, Integers, FiniteSets

CONSTANTS
  Card,        \* the cards of the user
  MaxChanges   \* bound: how often a card is inserted or taken out

ASSUME ChangesAssumption == MaxChanges \in Nat

Slot == {1, 2}
None == "none"

ASSUME CardAssumption == None \notin Card

VARIABLES
  slot,        \* the card in each slot
  content,     \* what is on each card: "blank", "plain", "multi"
  told,        \* the slots whose card MCMAN has reported
  Type,        \* McData[].Type is MC_TYPE_PS2
  HasMulti,    \* McData[].flags has MC_FLAG_CARD_HAS_MULTI_INST
  counted,     \* the slots that were counted
  event, McPort,
  at,          \* where in the loop of MainMenu
  unsure,      \* history: slots that were changed since, or could not be read
  missed,      \* history: slots whose news went elsewhere, or format failed
  changes      \* how often a card was changed

known  == <<told, Type, HasMulti, counted>>
past   == <<unsure, missed, changes>>
cards  == <<slot, content, known, event, McPort, at, past>>
all    == <<vars, cards>>
session == vars

(* main.h: the numbers of the events, and what each asks for. *)
Events == <<"install", "multi", "cleanup", "cleanup_multi", "format", "dump", "restore",
            "install_hdd", "cleanup_hdd", "cross_psx", "format_hdd", "exit">>
CardEvents == {"install", "multi", "cleanup", "cleanup_multi", "format", "dump",
               "restore", "cross_psx"}

(* Mutant: the table of an enumeration that begins with another event. *)
OpModeFlags_Shifted(e) ==
  LET table == <<{}, {"not"}, {"not"}, {"not"}, {"must"}, {}, {}, {}>>
  IN  UNION {table[n] : n \in {k \in DOMAIN table : Events[k] = e}}
OpModeFlags(e) ==
  LET table == <<{"not"}, {"not"}, {"not"}, {"must"}, {}, {}, {}, {}>>
  IN  UNION {table[n] : n \in {k \in DOMAIN table : Events[k] = e}}

CardsInit ==
  /\ Init
  /\ slot \in [Slot -> Card \cup {None}]
  /\ slot[1] # None => slot[1] # slot[2]
  /\ content \in [Card -> {"blank", "plain", "multi"}]
  /\ told = {}
  /\ Type = [s \in Slot |-> FALSE] /\ HasMulti = [s \in Slot |-> FALSE]
  /\ counted = {} /\ event = "exit" /\ McPort = 1 /\ at = "run"
  /\ unsure = {} /\ missed = {} /\ changes = 0

(***************************************************************************)
(* The user changes a card.                                                *)
(***************************************************************************)
ChangeCard(s, c) ==
  /\ changes < MaxChanges /\ ~ PoweredOff
  /\ slot[s] # c /\ (c # None => \A t \in Slot : slot[t] # c)
  /\ slot' = [slot EXCEPT ![s] = c]
  /\ told' = told \ {s}
  /\ unsure' = unsure \cup {s}
  /\ changes' = changes + 1
  /\ UNCHANGED <<session, content, Type, HasMulti, counted, event, McPort, at, missed>>

(* Any call to MCMAN but mcGetInfo may find the new card, and the menu     *)
(* hears nothing of it.                                                    *)
Access(s) ==
  \/ UNCHANGED <<told, missed>>
  \/ s \notin told /\ told' = told \cup {s} /\ missed' = missed \cup {s}

(***************************************************************************)
(* An entry is chosen, and the cards are looked at.                        *)
(***************************************************************************)
Goto(there) == at' = there

Select(e) ==
  /\ op = "menu" /\ at = "menu" /\ ~ PoweredOff
  /\ event' = e
  /\ counted' = {} /\ unsure' = {}
  /\ Goto("info1")
  /\ UNCHANGED <<session, slot, content, told, Type, HasMulti, McPort, missed, changes>>

(* What mcGetInfo may report: 0 for the same card, -1 for a new one, -2    *)
(* for a new one without format, and less for none.  Without MCMAN the     *)
(* result is whatever the variable held.                                   *)
Reports(s) ==
  IF loaded # "main" THEN {0, -1, -10}
  ELSE IF slot[s] = None THEN {-10}
  ELSE IF content[slot[s]] = "blank" THEN {-2} \cup (IF s \in told THEN {0} ELSE {})
  ELSE IF s \in told THEN {0} ELSE {-1}

NewCard_Formatted(result) == result < -1     \* mutant: not a new card with a format
NewCard(result) == result < 0

GetInfo(s, here, there) ==
  /\ at = here /\ ~ PoweredOff
  /\ \E result \in Reports(s) :
       LET type == IF loaded = "main" THEN slot[s] # None ELSE Type[s]
       IN  /\ Type' = [Type EXCEPT ![s] = type]
           /\ HasMulti' = IF NewCard(result) THEN [HasMulti EXCEPT ![s] = FALSE] ELSE HasMulti
           /\ missed' = IF result < 0 THEN missed \ {s} ELSE missed
           /\ counted' = IF result < -1 \/ ~ type THEN counted ELSE counted \cup {s}
  /\ told' = IF loaded = "main" THEN told \cup {s} ELSE told
  /\ unsure' = IF loaded = "main" THEN unsure \ {s} ELSE unsure \cup {s}
  /\ Goto(there)
  /\ UNCHANGED <<session, slot, content, event, McPort, changes>>

(* The uninstall file is opened if there is a card; that may fail.         *)
HasOldMultiInstall(s, here, there) ==
  /\ at = here /\ ~ PoweredOff
  /\ IF s \notin counted THEN UNCHANGED <<HasMulti, told, missed, unsure>>
     ELSE /\ Access(s)
          /\ \/ /\ loaded = "main" /\ slot[s] # None /\ content[slot[s]] = "multi"
                /\ HasMulti' = [HasMulti EXCEPT ![s] = TRUE]
                /\ UNCHANGED unsure
             \/ /\ UNCHANGED HasMulti
                /\ unsure' = IF slot[s] # None /\ content[slot[s]] = "multi"
                               THEN unsure \cup {s} ELSE unsure
  /\ Goto(there)
  /\ UNCHANGED <<session, slot, content, Type, counted, event, McPort, changes>>

GetNumMemcardsInserted ==
  \/ GetInfo(1, "info1", "file1") \/ HasOldMultiInstall(1, "file1", "info2")
  \/ GetInfo(2, "info2", "file2") \/ HasOldMultiInstall(2, "file2", "port")

(***************************************************************************)
(* The port is chosen, and the answers are given.                          *)
(***************************************************************************)
(* What is read again the next time is forgotten here. *)
Forget == counted' = {} /\ unsure' = {} /\ Type' = [s \in Slot |-> FALSE]
Menu == Goto("menu") /\ event' = "exit" /\ McPort' = 1 /\ Forget
Stay == UNCHANGED <<event, McPort, counted, unsure, Type>>

OnlyOne == IF Type[1] THEN 1 ELSE 2

ChoosePort ==
  /\ at = "port" /\ event \in CardEvents /\ ~ PoweredOff
  /\ \/ Menu                         \* cancelled, or no card
     \/ /\ \/ Cardinality(counted) > 1 /\ McPort' \in Slot
           \/ Cardinality(counted) = 1 /\ McPort' = OnlyOne
        /\ Goto("check") /\ UNCHANGED <<event, counted, unsure, Type>>
  /\ UNCHANGED <<session, slot, content, told, HasMulti, missed, changes>>

Refused ==
  \/ "must" \in OpModeFlags(event) /\ ~ HasMulti[McPort]
  \/ "not" \in OpModeFlags(event) /\ HasMulti[McPort]

(* For an installation the configuration file is looked for afterwards,    *)
(* and the user may go back then.                                          *)
CheckPrerequisites ==
  /\ at = "check" /\ ~ PoweredOff
  /\ IF Refused THEN Menu /\ UNCHANGED <<told, missed>>
     ELSE /\ IF event \in {"install", "multi", "cross_psx"}
               THEN Access(McPort) ELSE UNCHANGED <<told, missed>>
          /\ \/ Goto("begin") /\ Stay
             \/ event \in {"install", "multi", "cross_psx"} /\ Menu
  /\ UNCHANGED <<session, slot, content, HasMulti, changes>>

Operation(e) == IF e = "cross_psx" THEN "install" ELSE e

Begin ==
  /\ \/ at = "begin"
     \/ at = "port" /\ event \notin CardEvents \cup {"exit"}
  /\ Choose(Operation(event))
  /\ Goto("run") /\ Forget
  /\ UNCHANGED <<slot, content, told, HasMulti, event, McPort, missed, changes>>

Leave ==
  /\ at = "port" /\ event = "exit"
  /\ Exit
  /\ UNCHANGED cards

Back ==
  /\ at = "port" /\ event \notin CardEvents /\ ~ PoweredOff
  /\ Menu
  /\ UNCHANGED <<session, slot, content, told, HasMulti, missed, changes>>

(***************************************************************************)
(* The operation runs.  A reset of the IOP makes every card a new one.     *)
(***************************************************************************)
Running ==
  /\ at = "run" /\ op \in Op
  /\ Work \/ Lock \/ Unlock \/ Reset \/ Boot \/ Wait
  /\ \/ At({"main", "tools"}) /\ told' = {} /\ UNCHANGED missed
     \/ At({"sign", "touch"}) /\ Access(McPort)
     \/ ~ At({"main", "tools", "sign", "touch"}) /\ UNCHANGED <<told, missed>>
  /\ UNCHANGED <<slot, content, Type, HasMulti, counted, event, McPort, at, unsure, changes>>

(* Its outcome: the content of the card, and what becomes of the flags.    *)
Outcome(e, c, ok) ==
  CASE c = "blank" /\ e \notin {"format", "restore"} -> {"blank"}
    [] e = "multi" -> IF ok THEN {"multi"} ELSE {c, "multi"}
    [] e = "cleanup_multi" -> {c, "plain"}   \* the cache cannot be set up: a positive code
    [] e = "format" -> IF ok THEN {"plain"} ELSE {c, "blank"}
    [] e = "restore" -> {"blank", "plain", "multi"}
    [] OTHER -> {c}

FlagsAfter(e, ok) ==
  CASE e = "multi" /\ ok -> TRUE
    [] e \in {"cleanup_multi", "format"} /\ ok -> FALSE
    [] OTHER -> HasMulti[McPort]

Finish ==
  /\ at = "run" /\ Return
  /\ LET c == slot[McPort]
     IN  \/ /\ event \in CardEvents /\ op # "start" /\ c # None
            /\ \E ok \in BOOLEAN :
                 /\ content' \in {[content EXCEPT ![c] = new] : new \in Outcome(event, content[c], ok)}
                 /\ ok /\ event = "multi" => content[c] # "blank"
                 /\ HasMulti' = [HasMulti EXCEPT ![McPort] = FlagsAfter(event, ok)]
                 /\ missed' = IF event = "format" /\ ~ ok THEN missed \cup {McPort} ELSE missed
         \/ /\ event \notin CardEvents \/ op = "start" \/ c = None
            /\ UNCHANGED <<content, HasMulti, missed>>
  /\ Menu
  /\ UNCHANGED <<slot, told, changes>>

Others ==
  /\ \/ SystemInitThread \/ PowerOff
     \/ PowerButton /\ op \in Op     \* in the menu it is as good as in the first step
  /\ UNCHANGED cards

CardsNext ==
  \/ \E e \in {Events[n] : n \in DOMAIN Events} : Select(e)
  \/ GetNumMemcardsInserted \/ ChoosePort \/ CheckPrerequisites
  \/ Begin \/ Leave \/ Back \/ Running \/ Finish \/ Others
  \/ \E s \in Slot, c \in Card \cup {None} : ChangeCard(s, c)

CardsSpec == CardsInit /\ [][CardsNext]_all

FairCards ==
  CardsSpec /\ WF_all(Running) /\ WF_all(Finish)
            /\ WF_all(SystemInitThread /\ UNCHANGED cards) /\ WF_all(PowerOff /\ UNCHANGED cards)

(***************************************************************************)
(* Properties.                                                             *)
(***************************************************************************)
(* An installation or a normal clean-up never begins on a card with a      *)
(* multi-installation, which would be left half gone, unless the card was  *)
(* changed, or the file could not be opened, since the cards were looked   *)
(* at (system.c:2334-2385).  An installation for a PSX is not asked about. *)
MultiRespected ==
  [][op = "menu" /\ op' \in Op /\ event \in {"install", "multi", "cleanup"}
       /\ McPort \notin unsure /\ slot[McPort] # None
       => content[slot[McPort]] # "multi"]_all

(* What the menu believes of a multi-installation is true of the card that *)
(* it has just looked at, unless another call was told of the new card, or *)
(* a format failed (system.c:2372, menu.c:491, 550, 597).                  *)
FlagsOfThisCard ==
  at \in {"port", "check", "begin"} =>
    \A s \in Slot : HasMulti[s] /\ s \notin unsure \cup missed =>
       slot[s] # None /\ content[slot[s]] = "multi"
=============================================================================
