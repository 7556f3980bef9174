----------------------------- MODULE MCTciLink -----------------------------
(* Two transceivers with two frequencies: one is tracked and one is not. *)
EXTENDS TciLink

=============================================================================
