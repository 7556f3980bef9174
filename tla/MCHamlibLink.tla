---------------------------- MODULE MCHamlibLink ----------------------------
(* Two frequencies, one call beyond the automatic connect, a short queue. *)
EXTENDS HamlibLink

=============================================================================
