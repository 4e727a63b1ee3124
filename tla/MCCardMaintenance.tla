-------------------------- MODULE MCCardMaintenance --------------------------
(* See MCCardMaintenance.cfg. *)
EXTENDS CardMaintenance
=============================================================================
