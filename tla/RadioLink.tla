----------------------------- MODULE RadioLink -----------------------------
(***************************************************************************)
(* What a RadioBackend promises the main window, whatever thread, socket   *)
(* or timer is behind it: connected and disconnected alternate; readings   *)
(* come only while connected, so that nothing of an old connection is left *)
(* on the radio panel; and a Connect that the user asked for is answered,  *)
(* by connected() or by error(), until the window closes.                  *)
(***************************************************************************)
CONSTANTS
  Freqs      (* the dial frequencies; 0 is none of them *)

VARIABLES
  open,      (* the window is open and its slots are wired                    *)
  ready,     (* the Connect actions are enabled                               *)
  up,        (* isConnected()                                                 *)
  heard,     (* the dial frequency reported in this connection, 0 before it   *)
  tx         (* the panel takes the rig to transmit                            *)

vars == <<open, ready, up, heard, tx>>

Init == open = TRUE /\ ready = TRUE /\ up = FALSE /\ heard = 0 /\ tx = FALSE

(* The Connect actions are disabled until the answer is there. *)
Ask ==
  /\ open /\ ready
  /\ ready' = FALSE
  /\ UNCHANGED <<open, up, heard, tx>>

(* connected(): also without Ask, when the program connects by itself. *)
Connected ==
  /\ open /\ ~up
  /\ up' = TRUE
  /\ ready' = FALSE
  /\ UNCHANGED <<open, heard, tx>>

(* error() without a connection. *)
Refused ==
  /\ open /\ ~up
  /\ ready' = TRUE
  /\ UNCHANGED <<open, up, heard, tx>>

(* Readings still under way reach the panel even after the window is closed. *)
Reported ==
  /\ open => up
  /\ heard' \in Freqs \cup {heard}
  /\ tx' \in BOOLEAN
  /\ UNCHANGED <<open, ready, up>>

Disconnected ==
  /\ open /\ up
  /\ up' = FALSE
  /\ ready' = TRUE
  /\ heard' = 0
  /\ tx' = FALSE
  /\ UNCHANGED open

Close ==
  /\ open
  /\ open' = FALSE
  /\ UNCHANGED <<ready, up, heard, tx>>

Next == Ask \/ Connected \/ Refused \/ Reported \/ Disconnected \/ Close

Answered == ~ready /\ (Connected \/ Refused)

Spec == Init /\ [][Next]_vars /\ WF_vars(Answered)

=============================================================================
