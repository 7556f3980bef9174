---------------------------- MODULE MCCallLookup ----------------------------
(* A call the country file knows, one it does not, and the first one portable. *)
EXTENDS CallLookup, TLC

CONSTANTS k1, k1p, k2

MCBase == (k1 :> k1) @@ (k1p :> k1) @@ (k2 :> k2)

=============================================================================
