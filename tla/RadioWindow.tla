---------------------------- MODULE RadioWindow ----------------------------
(***************************************************************************)
(* The main window's side of a radio backend: the radio panel, the Connect *)
(* and Disconnect actions, and the slots that wireRadioBackend connects to *)
(* the backend's signals.                                                  *)
(***************************************************************************)
VARIABLES
  panel,     (* RadioPanel: m_connected, m_freqMhz, m_transmitting            *)
  actions    (* the Connect actions and the Disconnect action are enabled     *)

DarkPanel == [connected |-> FALSE, freq |-> 0, tx |-> FALSE]

IdleActions == [connect |-> TRUE, disconnect |-> FALSE]

(* Wrong: leaves the TX pill as it was. *)
WrongSetConnected(connected) ==
  panel' = IF connected THEN [panel EXCEPT !.connected = TRUE]
           ELSE [panel EXCEPT !.connected = FALSE, !.freq = 0]

(* A panel that is told what it knows does nothing. *)
SetConnected(connected) ==
  panel' = IF connected = panel.connected THEN panel
           ELSE [connected |-> connected, tx |-> panel.tx /\ connected,
                 freq |-> IF connected THEN panel.freq ELSE 0]

SetFrequency(freq) == panel' = [panel EXCEPT !.freq = freq]

SetTransmitting(tx) == panel' = [panel EXCEPT !.tx = tx]

OnConnected ==
  /\ SetConnected(TRUE)
  /\ actions' = [connect |-> FALSE, disconnect |-> TRUE]

(* No other backend is connected. *)
OnDisconnected ==
  /\ SetConnected(FALSE)
  /\ actions' = IdleActions

(* Wrong: leaves the Connect actions as the click left them. *)
WrongOnError(anyRadioConnected) == UNCHANGED <<panel, actions>>

(* A failed connect gives the Connect actions back. *)
OnError(anyRadioConnected) ==
  /\ actions' = [actions EXCEPT !.connect = @ \/ ~anyRadioConnected]
  /\ UNCHANGED panel

=============================================================================
