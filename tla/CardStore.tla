----------------------------- MODULE CardStore -----------------------------
(***************************************************************************)
(* What the page cache of MCTOOLS (irx/source/mctools/src/cache.c)         *)
(* promises to the code that edits the file system of a Memory Card: an    *)
(* array of pages that behaves like memory.                                *)
(*                                                                         *)
(* A page reads back as it was last written.  Writes become durable only   *)
(* when they are synchronised, and a fault (a page that cannot be read or  *)
(* written, an IOP reset or a power cut while writes are pending) may      *)
(* damage what was written since, together with the pages that share an    *)
(* erase block with it, and nothing else.                                  *)
(***************************************************************************)
EXTENDS Naturals

CONSTANTS
  Page,         \* the page numbers of the card
  Data,         \* what a page can hold
  BlockOf(_)    \* the erase block a page belongs to

VARIABLES
  store,        \* the contents a reader sees
  pending,      \* the pages written and not yet durable
  lost,         \* a fault may have damaged something
  out           \* the data returned by the last read that succeeded

vars == <<store, pending, lost, out>>

(* The pages a fault can damage: those that share a block with a pending   *)
(* write, because Flash memory is erased by the block.                     *)
AtRisk == {p \in Page : \E q \in pending : BlockOf(q) = BlockOf(p)}

Init ==
  /\ store \in [Page -> Data]
  /\ pending = {}
  /\ lost = FALSE
  /\ out \in Data

Read(p) ==
  /\ out' = store[p]
  /\ UNCHANGED <<store, pending, lost>>

Write(p, d) ==
  /\ store' = [store EXCEPT ![p] = d]
  /\ pending' = pending \cup {p}
  /\ UNCHANGED <<lost, out>>

(* Everything written so far is durable. *)
Sync ==
  /\ pending' = {}
  /\ UNCHANGED <<store, lost, out>>

(* Only pages at risk change, and the loss is on record. *)
Damage ==
  /\ pending # {}
  /\ store' \in [Page -> Data]
  /\ \A p \in Page \ AtRisk : store'[p] = store[p]
  /\ pending' \in SUBSET pending
  /\ lost' = TRUE
  /\ UNCHANGED out

Next ==
  \/ \E p \in Page : Read(p)
  \/ \E p \in Page, d \in Data : Write(p, d)
  \/ Sync
  \/ Damage

Spec == Init /\ [][Next]_vars
=============================================================================
