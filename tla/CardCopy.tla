------------------------------ MODULE CardCopy ------------------------------
(***************************************************************************)
(* What a dump or a restore of a Memory Card promises: the units of the    *)
(* source (clusters of a card, blocks of an image file) are copied to the  *)
(* target once each and in order, each to its own place; it is only called *)
(* complete when all of them were copied.  When it fails or the user stops *)
(* it, the target holds the first units, and nothing of the later ones.    *)
(***************************************************************************)
EXTENDS Naturals

CONSTANT NumUnits

VARIABLES
  target,    \* which unit of the source each place of the target holds
  status     \* "running", or how the copy ended

vars == <<target, status>>

Unit == 0 .. NumUnits - 1
None == NumUnits          \* a place that holds no unit of the source

Init ==
  /\ target = [u \in Unit |-> None]
  /\ status = "running"

Copy(u) ==
  /\ status = "running"
  /\ target[u] = None
  /\ \A v \in 0 .. u - 1 : target[v] = v
  /\ target' = [target EXCEPT ![u] = u]
  /\ UNCHANGED status

Complete ==
  /\ status = "running"
  /\ target = [u \in Unit |-> u]
  /\ status' = "ok"
  /\ UNCHANGED target

GiveUp ==
  /\ status = "running"
  /\ status' \in {"failed", "stopped"}
  /\ UNCHANGED target

(* The next operation. *)
Again ==
  /\ status # "running"
  /\ target' = [u \in Unit |-> None]
  /\ status' = "running"

Next == (\E u \in Unit : Copy(u)) \/ Complete \/ GiveUp \/ Again

Spec == Init /\ [][Next]_vars
=============================================================================
