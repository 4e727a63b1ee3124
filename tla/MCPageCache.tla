---------------------------- MODULE MCPageCache ----------------------------
(* A small card for TLC: see MCPageCache.cfg for the sizes. *)
EXTENDS PageCache
=============================================================================
