---------------------------- MODULE MCSignedCopy ----------------------------
EXTENDS SignedCopy

(* The lists of an installation begin with a file to be signed.  These end *)
(* with a file, have no empty ones, and have every pair of kinds.          *)
MCLists ==
  LET rest(n) == [1 .. n -> {"file", "kelf", "dir"}]
      short   == {r \in UNION {rest(n) : n \in 1 .. 2} : r[Len(r)] # "dir"}
  IN  {<<"kelf">>} \cup {<<"kelf">> \o s : s \in short} \cup
      {<<"kelf", "dir", "dir", "file">>, <<"kelf", "file", "dir", "kelf">>}

(* Lengths that are multiples of a piece, and not. *)
MCKelfs ==
  {[header |-> 6, icvps2 |-> TRUE,
    blocks |-> <<[size |-> 8, signed |-> TRUE], [size |-> 5, signed |-> FALSE]>>],
   [header |-> 8, icvps2 |-> FALSE, blocks |-> <<[size |-> 6, signed |-> TRUE]>>]}
=============================================================================
