------------------------------ MODULE TciLink ------------------------------
(***************************************************************************)
(* The TCI backend: a web socket to the SDR program, a reconnect timer,    *)
(* and the parser of the server's messages, all on the GUI thread. The     *)
(* server may go away and come back at any time; it announces the state of *)
(* every transceiver (TRX) when a client connects, and every change after. *)
(*                                                                         *)
(* Host and port are taken to make a valid URL. Modulation messages are    *)
(* latched as the frequency's are, and left out with m_serverReady, which  *)
(* only setFreq and setMode read and which nothing calls. The Hamlib       *)
(* backend is not connected here.                                          *)
(***************************************************************************)
EXTENDS Naturals, RadioWindow

CONSTANTS
  Trxs,     (* the transceivers the server announces                          *)
  Freqs,    (* their dial frequencies                                         *)
  None      (* m_trackedTrx = -1                                              *)

ASSUME TciLinkAssumption ==
  /\ Freqs \subseteq Nat \ {0}
  /\ None \notin Trxs

VARIABLES
  (* the backend *)
  connected,      (* m_connected                                              *)
  intentional,    (* m_intentionalClose                                       *)
  timer,          (* m_reconnectTimer is running                              *)
  tracked,        (* m_trackedTrx                                             *)
  last,           (* m_lastFreqHz and m_transmitting                          *)
  window,         (* the main window is open and its slots are wired          *)
  (* the web socket and the server *)
  socket,         (* QWebSocket::state()                                      *)
  unread,         (* what the server has announced and the socket not yet read*)
  server,         (* the server accepts and keeps connections                 *)
  rig,            (* the transceivers behind it                               *)
  (* history *)
  heard           (* the dial frequency the window was told in this connection*)

backend  == <<connected, intentional, timer, tracked, last>>
shown    == <<panel, actions, heard>>
external == <<server, rig>>
vars     == <<backend, window, socket, unread, external, shown>>

Announcements == {"vfo", "trx"} \X Trxs

----------------------------------------------------------------------------
(* TciBackend                                                              *)

(* Wrong: keeps the last frequency, which the panel no longer shows. *)
WrongForgotten == [last EXCEPT !.freq = @]

(* connectRadio forgets the TRX and its frequency, not m_transmitting. *)
Forgotten == [last EXCEPT !.freq = 0]

(* open() drops whatever connection the socket still has, without a signal. *)
ConnectRadio ==
  /\ intentional' = FALSE
  /\ tracked' = None
  /\ last' = Forgotten
  /\ socket' = "connecting"
  /\ unread' = {}

DisconnectRadio ==
  /\ intentional' = TRUE
  /\ timer' = FALSE
  /\ socket' = IF socket = "closed" THEN "closed" ELSE "closing"
  /\ UNCHANGED <<connected, tracked, last, unread>>

(* The window's own slots, which closeEvent cuts off. *)
Slot(slot, freq) ==
  IF window THEN slot /\ heard' = freq ELSE UNCHANGED shown

OnOpen ==
  /\ connected' = TRUE
  /\ Slot(OnConnected, heard)
  /\ UNCHANGED <<intentional, timer, tracked, last>>

(* Wrong: does not retry a connect that failed. *)
WrongRetry == timer' = (timer \/ (~intentional /\ connected))

(* onDisconnected: an end that nobody asked for starts the timer. *)
Retry == timer' = (timer \/ ~intentional)

(* disconnected() only ends what connected() began. *)
OnClosed ==
  /\ connected' = FALSE
  /\ Retry
  /\ UNCHANGED <<intentional, tracked, last>>

----------------------------------------------------------------------------
(* The socket's events                                                     *)

(* The handshake ends; the server announces every TRX. *)
SocketOpens ==
  /\ socket = "connecting" /\ server
  /\ socket' = "open"
  /\ unread' = Announcements
  /\ OnOpen
  /\ UNCHANGED <<window, external>>

(* A failed connect, or a lost connection: the socket reports an error and its end,
   in either order, to the same effect. *)
SocketFails ==
  /\ socket \in {"connecting", "open"} /\ ~server
  /\ socket' = "closed"
  /\ unread' = {}
  /\ OnClosed
  /\ Slot(IF connected THEN OnDisconnected ELSE OnError(FALSE), IF connected THEN 0 ELSE heard)
  /\ UNCHANGED <<window, external>>

(* The end of a close() of ours. Without a connection nothing is signalled. *)
SocketCloses ==
  /\ socket = "closing"
  /\ socket' = "closed"
  /\ unread' = {}
  /\ OnClosed
  /\ Slot(IF connected THEN OnDisconnected ELSE UNCHANGED <<panel, actions>>,
          IF connected THEN 0 ELSE heard)
  /\ UNCHANGED <<window, external>>

(* The first TRX to announce a valid frequency is the one that is tracked. *)
Latch(trx) ==
  IF tracked = None /\ rig[trx].freq # 0 THEN trx ELSE tracked

(* vfo: a TRX that is off announces no frequency, which is not valid. *)
OnVfo(trx) ==
  LET freq == rig[trx].freq
  IN  /\ socket = "open" /\ <<"vfo", trx>> \in unread
      /\ unread' = unread \ {<<"vfo", trx>>}
      /\ tracked' = Latch(trx)
      /\ IF freq # 0 /\ trx = tracked' /\ freq # last.freq
         THEN /\ last' = [last EXCEPT !.freq = freq]
              /\ SetFrequency(freq) /\ heard' = freq /\ UNCHANGED actions
         ELSE UNCHANGED <<last, shown>>
      /\ UNCHANGED <<connected, intentional, timer, window, socket, external>>

(* trx: other TRXs are ignored once one is tracked, and heard until then. *)
Listens(trx) == tracked \in {None, trx}

OnTrx(trx) ==
  LET tx == rig[trx].tx
  IN  /\ socket = "open" /\ <<"trx", trx>> \in unread
      /\ unread' = unread \ {<<"trx", trx>>}
      /\ IF Listens(trx) /\ tx # last.tx
         THEN /\ last' = [last EXCEPT !.tx = tx]
              /\ SetTransmitting(tx) /\ UNCHANGED <<actions, heard>>
         ELSE UNCHANGED <<last, shown>>
      /\ UNCHANGED <<connected, intentional, timer, tracked, window, socket, external>>

OnReconnectTimer ==
  /\ timer
  /\ timer' = FALSE
  /\ IF intentional THEN UNCHANGED <<intentional, tracked, last, socket, unread>> ELSE ConnectRadio
  /\ UNCHANGED <<connected, window, external, shown>>

----------------------------------------------------------------------------
(* The user                                                                *)

OnConnectTci ==
  /\ window /\ actions.connect
  /\ actions' = [actions EXCEPT !.connect = FALSE]
  /\ ConnectRadio
  /\ UNCHANGED <<connected, timer, window, external, panel, heard>>

OnDisconnectRadio ==
  /\ window /\ actions.disconnect
  /\ DisconnectRadio
  /\ UNCHANGED <<window, external, shown>>

(* radioStatusChanged: WSJT-X feeds the panel while no radio is connected. *)
WsjtxStatus(freq) ==
  /\ ~connected
  /\ SetFrequency(freq)
  /\ UNCHANGED <<backend, window, socket, unread, external, actions, heard>>

(* closeEvent *)
Close ==
  /\ window
  /\ window' = FALSE
  /\ DisconnectRadio
  /\ UNCHANGED <<external, shown>>

(* The SDR program stops or starts; an operator tunes or keys a TRX. *)
ServerChanges ==
  /\ server' = ~server
  /\ UNCHANGED <<backend, window, socket, unread, rig, shown>>

Announced(item) == IF socket = "open" THEN unread \cup {item} ELSE unread

RigChanges(trx) ==
  /\ \/ \E freq \in (Freqs \cup {0}) \ {rig[trx].freq} :
          rig' = [rig EXCEPT ![trx].freq = freq] /\ unread' = Announced(<<"vfo", trx>>)
     \/ rig' = [rig EXCEPT ![trx].tx = ~@] /\ unread' = Announced(<<"trx", trx>>)
  /\ UNCHANGED <<backend, window, socket, server, shown>>

(* TCI may be set to connect at startup, which does not disable the actions. *)
Init ==
  /\ connected = FALSE /\ intentional = FALSE /\ timer = FALSE
  /\ tracked = None /\ last = [freq |-> 0, tx |-> FALSE]
  /\ window = TRUE
  /\ socket \in {"closed", "connecting"} /\ unread = {}
  /\ server \in BOOLEAN
  /\ rig \in [Trxs -> [freq : Freqs \cup {0}, tx : BOOLEAN]]
  /\ panel = DarkPanel /\ actions = IdleActions
  /\ heard = 0

Next ==
  \/ SocketOpens \/ SocketFails \/ SocketCloses
  \/ \E trx \in Trxs : OnVfo(trx) \/ OnTrx(trx) \/ RigChanges(trx)
  \/ OnReconnectTimer
  \/ OnConnectTci \/ OnDisconnectRadio
  \/ \E freq \in Freqs : WsjtxStatus(freq)
  \/ Close
  \/ ServerChanges

(* The event loop delivers the socket's events and the timer's. A connect ends one way
   or the other, however often the server comes and goes meanwhile. *)
Fairness ==
  /\ WF_vars(SocketOpens \/ SocketFails) /\ WF_vars(SocketCloses)
  /\ WF_vars(OnReconnectTimer)
  /\ \A trx \in Trxs : WF_vars(OnVfo(trx)) /\ WF_vars(OnTrx(trx))

Spec == Init /\ [][Next]_vars /\ Fairness

----------------------------------------------------------------------------
(* Properties                                                              *)

(* The variables hold what the code's types allow. *)
TypeOK ==
  /\ connected \in BOOLEAN /\ intentional \in BOOLEAN /\ timer \in BOOLEAN
  /\ tracked \in Trxs \cup {None}
  /\ last \in [freq : Freqs \cup {0}, tx : BOOLEAN]
  /\ window \in BOOLEAN
  /\ socket \in {"closed", "connecting", "open", "closing"}
  /\ unread \subseteq Announcements
  /\ server \in BOOLEAN
  /\ rig \in [Trxs -> [freq : Freqs \cup {0}, tx : BOOLEAN]]
  /\ panel \in [connected : BOOLEAN, freq : Freqs \cup {0}, tx : BOOLEAN]
  /\ actions \in [connect : BOOLEAN, disconnect : BOOLEAN]
  /\ heard \in Freqs \cup {0}

(* The panel shows the tracked TRX's frequency, in every connection anew, once the
   messages about it are read. *)
PanelShowsTrackedTrx ==
  window /\ socket = "open" /\ tracked # None /\ <<"vfo", tracked>> \notin unread =>
    panel.connected /\ (rig[tracked].freq # 0 => panel.freq = rig[tracked].freq)

(* After Disconnect, or the end of the program, nothing connects again by itself. *)
DisconnectSticks == intentional => ~timer /\ socket \in {"closed", "closing"}

(* A connection that ended, or could not be made, without the user's will is made again:
   if the server stays there, so does the connection, unless none was ever begun. *)
LinkRecovers ==
  <>[](server /\ ~intentional) => <>[](socket = "open") \/ [](socket = "closed")

(* The TX pill shows whether the tracked TRX transmits, once its messages are read. *)
TxPillIsTrue ==
  window /\ socket = "open" /\ tracked # None /\ <<"trx", tracked>> \notin unread =>
    panel.tx = rig[tracked].tx

(* This backend keeps the promise of RadioLink to the window. *)
Link == INSTANCE RadioLink
  WITH open <- window, ready <- actions.connect, up <- panel.connected, tx <- panel.tx

ImplementsRadioLink == Link!Spec

=============================================================================
