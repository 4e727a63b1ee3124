------------------------------ MODULE Listing ------------------------------
(***************************************************************************)
(* What the cross-linking calls of MCTOOLS (irx/source/mctools/src/        *)
(* mctools.c) promise while the card works and has room: a directory is a  *)
(* bag of names.  Creating an alias adds its name once, whether or not the *)
(* name is there already; deleting one takes its name away once.           *)
(***************************************************************************)
EXTENDS Naturals

CONSTANTS Folder, Name

VARIABLES
  count,     \* how many entries of each name each folder shows
  result     \* the result of the last call

vars == <<count, result>>

Init ==
  /\ count = [e \in Folder \X Name |-> 0]
  /\ result = "ok"

Create(f, n) ==
  /\ count' = [count EXCEPT ![<<f, n>>] = @ + 1]
  /\ result' = "ok"

Delete(f, n) ==
  /\ count[<<f, n>>] > 0
  /\ count' = [count EXCEPT ![<<f, n>>] = @ - 1]
  /\ result' = "ok"

NotFound(f, n) ==
  /\ count[<<f, n>>] = 0
  /\ result' = "error"
  /\ UNCHANGED count

Next == \E f \in Folder, n \in Name : Create(f, n) \/ Delete(f, n) \/ NotFound(f, n)

Spec == Init /\ [][Next]_vars
=============================================================================
