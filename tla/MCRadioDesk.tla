----------------------------- MODULE MCRadioDesk -----------------------------
(***************************************************************************)
(* The two backends of the program. Any of them may be enabled when it     *)
(* starts, or none.                                                        *)
(***************************************************************************)
EXTENDS RadioDesk

AnyStartup == SUBSET Backends
NoStartup  == {{}}

=============================================================================
