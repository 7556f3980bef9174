------------------------------ MODULE RadioDesk ------------------------------
(***************************************************************************)
(* All radio backends over the one panel and the one set of actions of the *)
(* main window. Backends that are enabled connect when the program starts, *)
(* and the TCI backend again whenever its connection is lost, so that any  *)
(* of them may be connected, connecting and failing beside the others.     *)
(*                                                                         *)
(* Each backend is what HamlibLink and TciLink are on the GUI thread: the  *)
(* calls it was given and has not answered, and isConnected(). The Hamlib  *)
(* worker takes its calls one by one; the web socket knows the last only.  *)
(***************************************************************************)
EXTENDS Naturals, Sequences, RadioWindow

CONSTANTS
  Backends,      (* m_radioBackends                                           *)
  Queued,        (* those whose calls wait in a queue: Hamlib                  *)
  Retrying,      (* those that connect again by themselves: TCI                *)
  Dials,         (* dial frequencies                                          *)
  Startups,      (* the sets of backends that may be enabled at the start      *)
  MaxCalls       (* bound: calls that wait for one backend                     *)

ASSUME RadioDeskAssumption ==
  /\ Queued \subseteq Backends /\ Retrying \subseteq Backends
  /\ Queued \cap Retrying = {}
  /\ Dials \subseteq Nat \ {0}
  /\ Startups \subseteq SUBSET Backends
  /\ MaxCalls \in Nat

VARIABLES
  up,       (* isConnected()                                                   *)
  calls,    (* connectRadio and disconnectRadio, not yet answered               *)
  retry,    (* the reconnect timer is running                                  *)
  keyed,    (* the PTT state that was last reported                            *)
  (* history *)
  ended     (* Disconnect was chosen, and no Connect since                      *)

backends == <<up, calls, retry, keyed>>
deskVars == <<backends, panel, actions, ended>>

AnyRadioConnected == \E b \in Backends : up[b]

Connecting(b) == \E i \in DOMAIN calls[b] : calls[b][i] = "connect"

(* A call to a backend. QWebSocket::open and close replace what is under way. *)
Called(b, call) == IF b \in Queued THEN Append(calls[b], call) ELSE <<call>>

(* The slots of wireRadioBackend, which ask all backends. *)
WhenDisconnected(b) ==
  IF \E other \in Backends \ {b} : up[other]
  THEN UNCHANGED <<panel, actions>>
  ELSE OnDisconnected

(* Wrong: looks at the backend that has failed only. *)
WrongWhenRefused(b) == OnError(up[b])

WhenRefused(b) == OnError(AnyRadioConnected)

-----------------------------------------------------------------------------
(* The user *)

OnConnect(b) ==
  /\ actions.connect
  /\ Len(calls[b]) < MaxCalls
  /\ actions' = [actions EXCEPT !.connect = FALSE]
  /\ calls' = [calls EXCEPT ![b] = Called(b, "connect")]
  /\ ended' = FALSE
  /\ UNCHANGED <<up, retry, keyed, panel>>

(* Wrong: only those that are connected. *)
WrongToDisconnect == {b \in Backends : up[b]}

ToDisconnect == Backends

(* disconnectRadio stops the timer. *)
OnDisconnectAll ==
  /\ actions.disconnect
  /\ \A b \in Backends : Len(calls[b]) < MaxCalls
  /\ calls' = [b \in Backends |-> IF b \in ToDisconnect THEN Called(b, "disconnect") ELSE calls[b]]
  /\ retry' = [b \in Backends |-> retry[b] /\ b \notin ToDisconnect]
  /\ ended' = TRUE
  /\ UNCHANGED <<up, keyed, panel, actions>>

-----------------------------------------------------------------------------
(* The backends *)

Answered(b) == calls' = [calls EXCEPT ![b] = Tail(@)]

Drop(b) ==
  /\ up' = [up EXCEPT ![b] = FALSE]
  /\ WhenDisconnected(b)

Rearm(b) == retry' = [retry EXCEPT ![b] = b \in Retrying]

(* connected() *)
ConnectSucceeds(b) ==
  /\ calls[b] # <<>> /\ Head(calls[b]) = "connect"
  /\ b \in Queued => ~up[b]
  /\ Answered(b)
  /\ up' = [up EXCEPT ![b] = TRUE]
  /\ OnConnected
  /\ UNCHANGED <<retry, keyed, ended>>

(* doConnect ends a connection before it makes another. *)
ConnectDropsFirst(b) ==
  /\ calls[b] # <<>> /\ Head(calls[b]) = "connect"
  /\ b \in Queued /\ up[b]
  /\ Drop(b)
  /\ UNCHANGED <<calls, retry, keyed, ended>>

(* error(), and disconnected() of a link that was opened while it was there. *)
ConnectFails(b) ==
  /\ calls[b] # <<>> /\ Head(calls[b]) = "connect"
  /\ b \in Queued => ~up[b]
  /\ Answered(b)
  /\ Rearm(b)
  /\ \/ up[b] /\ Drop(b)
     \/ ~up[b] /\ WhenRefused(b) /\ UNCHANGED up
  /\ UNCHANGED <<keyed, ended>>

(* disconnected(), if there was a connection. *)
Disconnects(b) ==
  /\ calls[b] # <<>> /\ Head(calls[b]) = "disconnect"
  /\ Answered(b)
  /\ \/ up[b] /\ Drop(b)
     \/ ~up[b] /\ UNCHANGED <<up, panel, actions>>
  /\ UNCHANGED <<retry, keyed, ended>>

(* The rig or the server is gone. What a connected backend reports as an error
   changes nothing. *)
Loses(b) ==
  /\ up[b] /\ (b \in Queued \/ calls[b] = <<>>)
  /\ Drop(b)
  /\ Rearm(b)
  /\ UNCHANGED <<calls, keyed, ended>>

ReconnectTimer(b) ==
  /\ retry[b]
  /\ retry' = [retry EXCEPT ![b] = FALSE]
  /\ calls' = [calls EXCEPT ![b] = Called(b, "connect")]
  /\ UNCHANGED <<up, keyed, panel, actions, ended>>

(* Readings, of changes only. *)
Reports(b) ==
  /\ up[b] /\ (b \in Queued \/ calls[b] = <<>>)
  /\ \/ UNCHANGED keyed /\ \E freq \in Dials : SetFrequency(freq)
     \/ keyed' = [keyed EXCEPT ![b] = ~@] /\ SetTransmitting(~keyed[b])
  /\ UNCHANGED <<up, calls, retry, actions, ended>>

(* radioStatusChanged of WSJT-X *)
OnRadioStatus ==
  /\ ~AnyRadioConnected
  /\ \E freq \in Dials : SetFrequency(freq)
  /\ UNCHANGED <<backends, actions, ended>>

-----------------------------------------------------------------------------
DeskInit ==
  /\ up = [b \in Backends |-> FALSE]
  /\ \E enabled \in Startups :
       calls = [b \in Backends |-> IF b \in enabled THEN <<"connect">> ELSE <<>>]
  /\ retry = [b \in Backends |-> FALSE]
  /\ keyed = [b \in Backends |-> FALSE]
  /\ panel = DarkPanel /\ actions = IdleActions
  /\ ended = FALSE

DeskNext ==
  \/ \E b \in Backends :
       \/ OnConnect(b)
       \/ ConnectSucceeds(b) \/ ConnectDropsFirst(b) \/ ConnectFails(b) \/ Disconnects(b)
       \/ Loses(b) \/ ReconnectTimer(b) \/ Reports(b)
  \/ OnDisconnectAll
  \/ OnRadioStatus

DeskSpec == DeskInit /\ [][DeskNext]_deskVars

-----------------------------------------------------------------------------
DeskTypeOK ==
  /\ up \in [Backends -> BOOLEAN] /\ retry \in [Backends -> BOOLEAN]
  /\ calls \in [Backends -> Seq({"connect", "disconnect"})]
  /\ keyed \in [Backends -> BOOLEAN] /\ ended \in BOOLEAN
  /\ panel \in [connected : BOOLEAN, freq : Dials \cup {0}, tx : BOOLEAN]
  /\ actions \in [connect : BOOLEAN, disconnect : BOOLEAN]

(* However connections of several backends begin, fail and end beside each
   other, the panel and the Disconnect action show whether there is one;
   Connect is not offered while there is, and withheld without one only while
   an answer is awaited that will give it back. *)
DeskIsTrue ==
  /\ panel.connected = AnyRadioConnected
  /\ actions.disconnect = AnyRadioConnected
  /\ actions.connect => ~AnyRadioConnected
  /\ ~actions.connect => AnyRadioConnected \/ \E b \in Backends : Connecting(b)

(* Disconnect ends every backend, those that are still connecting or wait for
   their reconnect timer included: unless the user connects one, nothing is
   left that would bring a radio back. *)
DisconnectEndsAll ==
  ended => \A b \in Backends :
             /\ ~retry[b]
             /\ up[b] \/ Connecting(b) => calls[b] # <<>> /\ calls[b][Len(calls[b])] = "disconnect"

(* What the comment in onConnectHamlib promises of the eager disabling: no
   second Connect reaches a backend "while it's mid-connect". *)
NoSecondConnect == [][\A b \in Backends : OnConnect(b) => ~Connecting(b)]_deskVars

(* What RadioPanel.h says, "RX/TX pills reflect hardware radio backend state
   only": a lit TX pill is a connected radio's. *)
PillIsOfRadio == panel.tx => \E b \in Backends : up[b] /\ keyed[b]

=============================================================================
