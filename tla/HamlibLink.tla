----------------------------- MODULE HamlibLink -----------------------------
(***************************************************************************)
(* The Hamlib backend: HamlibWorker on its own thread, which alone touches *)
(* the rig; HamlibBackend and the main window on the GUI thread; and the   *)
(* two queues between them, calls to the worker and signals back. Each     *)
(* queue keeps its order, but a thread handles its next entry whenever it  *)
(* is scheduled, so each side acts on an old picture of the other.         *)
(*                                                                         *)
(* The rig may be tuned, keyed, switched off and on at any time. The mode  *)
(* is read, compared and reported as the dial frequency is; it is left     *)
(* out, except that a poll in which only the mode answers is no failure.   *)
(* The TCI backend is not connected here; TciLink is about it.             *)
(***************************************************************************)
EXTENDS Naturals, Sequences, RadioWindow

CONSTANTS
  Freqs,        (* the dial frequencies of the rig                            *)
  MaxCalls,     (* bound: calls the user leaves waiting for the worker        *)
  MaxSignals    (* bound: signals waiting for the GUI thread when a poll runs *)

ASSUME HamlibLinkAssumption ==
  /\ Freqs \subseteq Nat \ {0}
  /\ MaxCalls \in Nat
  /\ MaxSignals \in Nat

VARIABLES
  (* the GUI thread *)
  backendUp,    (* HamlibBackend::m_connected                                 *)
  window,       (* "open", "closing", "blocked" in ~HamlibBackend, "gone"     *)
  (* between the threads *)
  calls,        (* queued invocations of doConnect and doDisconnect           *)
  signals,      (* queued signals of the worker                               *)
  (* the worker thread *)
  workerUp,     (* m_connected; m_rig is open exactly then                    *)
  failures,     (* m_consecutiveFailures                                      *)
  last,         (* m_lastFreqHz and m_lastPtt                                 *)
  (* the rig *)
  rig,          (* its dial, its PTT, and whether it answers                  *)
  (* history *)
  heard         (* the dial frequency the GUI was told in this connection     *)

gui    == <<backendUp, panel, actions, window, heard>>
queues == <<calls, signals>>
worker == <<workerUp, failures, last>>
vars   == <<gui, queues, worker, rig>>

kMaxConsecutiveFailures == 3

(***************************************************************************)
(* What the worker knows of the connection. Every signal carries, as       *)
(* history, what the worker knew once it had emitted it.                   *)
(***************************************************************************)
Picture == [up : BOOLEAN, freq : Freqs \cup {0}]

Down == [up |-> FALSE, freq |-> 0]

Knows == IF workerUp THEN [up |-> TRUE, freq |-> last.freq] ELSE Down

Told == [up |-> backendUp, freq |-> heard]

Signal == [kind : {"connected", "disconnected", "error", "freq", "tx"},
           tx : BOOLEAN, after : Picture]

Emitted(kind, tx, after) == [kind |-> kind, tx |-> tx, after |-> after]

----------------------------------------------------------------------------
(* The worker thread                                                       *)

(* What doDisconnect emits: nothing when there is no connection. *)
Disconnection == IF workerUp THEN <<Emitted("disconnected", FALSE, Down)>> ELSE <<>>

(* Wrong: keeps the last frequency of the previous connection. *)
WrongOpened == [last EXCEPT !.freq = @]

(* doConnect forgets the last frequency (and mode), not the last PTT. *)
Opened == [last EXCEPT !.freq = 0]

(* doConnect closes an open rig first; rig_open may fail, a silent rig's does. *)
DoConnect ==
  /\ \/ /\ rig.answers
        /\ workerUp' = TRUE
        /\ last' = Opened
        /\ failures' = 0
        /\ signals' = signals \o Disconnection
             \o <<Emitted("connected", FALSE, [up |-> TRUE, freq |-> 0])>>
     \/ /\ workerUp' = FALSE
        /\ signals' = signals \o Disconnection \o <<Emitted("error", FALSE, Down)>>
        /\ UNCHANGED <<last, failures>>

DoDisconnect ==
  /\ workerUp' = FALSE
  /\ signals' = signals \o Disconnection
  /\ UNCHANGED <<last, failures>>

(* Wrong: waits until the GUI thread has taken the signals sent so far. *)
WrongRunCall ==
  /\ calls # <<>> /\ signals = <<>>
  /\ IF Head(calls) = "connect" THEN DoConnect ELSE DoDisconnect
  /\ calls' = Tail(calls)
  /\ UNCHANGED <<gui, rig>>

(* The worker's event loop takes its next call. *)
RunCall ==
  /\ calls # <<>>
  /\ IF Head(calls) = "connect" THEN DoConnect ELSE DoDisconnect
  /\ calls' = Tail(calls)
  /\ UNCHANGED <<gui, rig>>

ReadFreq(ok) == IF "freq" \in ok THEN rig.freq ELSE last.freq
ReadPtt(ok)  == IF "tx" \in ok THEN rig.tx ELSE last.tx

(* Only a change is reported, the frequency's before the PTT's. *)
FreqChange(freq) ==
  IF freq # last.freq THEN <<Emitted("freq", FALSE, [up |-> TRUE, freq |-> freq])>> ELSE <<>>

PttChange(freq, tx) ==
  IF tx # last.tx THEN <<Emitted("tx", tx, [up |-> TRUE, freq |-> freq])>> ELSE <<>>

(* A poll in which at least one read succeeds. A read of a live rig may fail. *)
PollAnswered ==
  \E ok \in SUBSET {"freq", "mode", "tx"} :
    /\ rig.answers /\ ok # {}
    /\ last' = [freq |-> ReadFreq(ok), tx |-> ReadPtt(ok)]
    /\ failures' = 0
    /\ signals' = signals \o FreqChange(ReadFreq(ok)) \o PttChange(ReadFreq(ok), ReadPtt(ok))
    /\ UNCHANGED workerUp

(* Wrong: goes on counting for ever. *)
WrongPollFailed ==
  /\ failures' = IF failures + 1 < kMaxConsecutiveFailures THEN failures + 1 ELSE failures
  /\ UNCHANGED <<workerUp, last, signals>>

(* A poll that reads nothing; after the third in a row the worker gives the rig up. *)
PollFailed ==
  \/ /\ failures + 1 < kMaxConsecutiveFailures
     /\ failures' = failures + 1
     /\ UNCHANGED <<workerUp, last, signals>>
  \/ /\ failures + 1 >= kMaxConsecutiveFailures
     /\ failures' = failures + 1
     /\ workerUp' = FALSE
     /\ signals' = signals \o <<Emitted("error", FALSE, Knows)>> \o Disconnection
     /\ UNCHANGED last

(* The poll timer, which runs while the rig is open. *)
Poll ==
  /\ workerUp
  /\ Len(signals) <= MaxSignals
  /\ PollAnswered \/ (~rig.answers /\ PollFailed)
  /\ UNCHANGED <<gui, calls, rig>>

----------------------------------------------------------------------------
(* The GUI thread                                                          *)

(* The user: onConnectHamlib, with Hamlib enabled, disables Connect at once. *)
OnConnectHamlib ==
  /\ window = "open"
  /\ actions.connect
  /\ Len(calls) < MaxCalls
  /\ calls' = Append(calls, "connect")
  /\ actions' = [actions EXCEPT !.connect = FALSE]
  /\ UNCHANGED <<backendUp, panel, window, heard, signals, worker, rig>>

OnDisconnectRadio ==
  /\ window = "open"
  /\ actions.disconnect
  /\ Len(calls) < MaxCalls
  /\ calls' = Append(calls, "disconnect")
  /\ UNCHANGED <<gui, signals, worker, rig>>

(* The window's own slots, which closeEvent cuts off; the panel's stay connected. *)
Slot(slot, freq) ==
  IF window = "open" THEN slot /\ heard' = freq ELSE UNCHANGED <<panel, actions, heard>>

(* The next queued signal. HamlibBackend notes the connection, then the slots run. *)
Deliver ==
  LET s == Head(signals)
  IN  /\ signals # <<>>
      /\ window \in {"open", "closing"}
      /\ signals' = Tail(signals)
      /\ \/ s.kind = "connected" /\ backendUp' = TRUE /\ Slot(OnConnected, 0)
         \/ s.kind = "disconnected" /\ backendUp' = FALSE /\ Slot(OnDisconnected, 0)
         \/ s.kind = "error" /\ UNCHANGED backendUp /\ Slot(OnError(backendUp), heard)
         \/ /\ s.kind = "freq"
            /\ SetFrequency(s.after.freq) /\ heard' = s.after.freq
            /\ UNCHANGED <<backendUp, actions>>
         \/ /\ s.kind = "tx"
            /\ SetTransmitting(s.tx)
            /\ UNCHANGED <<backendUp, actions, heard>>
      /\ UNCHANGED <<window, calls, worker, rig>>

(* radioStatusChanged: WSJT-X feeds the panel while no radio is connected. *)
WsjtxStatus(freq) ==
  /\ window \in {"open", "closing"}
  /\ ~backendUp
  /\ SetFrequency(freq)
  /\ UNCHANGED <<backendUp, actions, window, heard, queues, worker, rig>>

(* closeEvent cuts the window's slots off and queues a disconnect. *)
Close ==
  /\ window = "open"
  /\ window' = "closing"
  /\ calls' = Append(calls, "disconnect")
  /\ UNCHANGED <<backendUp, panel, actions, heard, signals, worker, rig>>

(* ~HamlibBackend queues a second disconnect and blocks until the worker has run it. *)
Destroy ==
  /\ window = "closing"
  /\ window' = "blocked"
  /\ calls' = Append(calls, "disconnect")
  /\ UNCHANGED <<backendUp, panel, actions, heard, signals, worker, rig>>

(* Wrong: quits the worker's event loop without waiting for its calls. *)
WrongJoin ==
  /\ window = "blocked"
  /\ window' = "gone"
  /\ UNCHANGED <<backendUp, panel, actions, heard, queues, worker, rig>>

(* The blocking call, quit() and wait() return: the worker thread is gone. *)
Join ==
  /\ window = "blocked"
  /\ calls = <<>>
  /\ window' = "gone"
  /\ UNCHANGED <<backendUp, panel, actions, heard, queues, worker, rig>>

----------------------------------------------------------------------------
(* The rig and its operator                                                *)

RigChanges ==
  /\ window # "gone"
  /\ \/ \E freq \in Freqs : rig' = [rig EXCEPT !.freq = freq]
     \/ rig' = [rig EXCEPT !.tx = ~@]
     \/ rig' = [rig EXCEPT !.answers = ~@]
  /\ UNCHANGED <<gui, queues, worker>>

(* Hamlib may be set to connect at startup, which does not disable the actions. *)
Init ==
  /\ backendUp = FALSE
  /\ panel = DarkPanel
  /\ actions = IdleActions
  /\ window = "open"
  /\ calls \in {<<>>, <<"connect">>} /\ signals = <<>>
  /\ workerUp = FALSE /\ failures = 0 /\ last = [freq |-> 0, tx |-> FALSE]
  /\ rig \in [freq : Freqs, tx : BOOLEAN, answers : BOOLEAN]
  /\ heard = 0

Next ==
  \/ RunCall \/ Poll
  \/ OnConnectHamlib \/ OnDisconnectRadio
  \/ Deliver
  \/ \E freq \in Freqs : WsjtxStatus(freq)
  \/ Close \/ Destroy \/ Join
  \/ RigChanges

(* Both threads run their event loops, a running poll timer fires, and the program
   that was closed goes on to its end. *)
Fairness ==
  /\ WF_vars(RunCall) /\ WF_vars(Poll) /\ WF_vars(Deliver)
  /\ WF_vars(Destroy) /\ WF_vars(Join)

Spec == Init /\ [][Next]_vars /\ Fairness

----------------------------------------------------------------------------
(* Properties                                                              *)

(* The variables hold what the code's types allow. *)
TypeOK ==
  /\ backendUp \in BOOLEAN
  /\ panel \in [connected : BOOLEAN, freq : Freqs \cup {0}, tx : BOOLEAN]
  /\ actions \in [connect : BOOLEAN, disconnect : BOOLEAN]
  /\ window \in {"open", "closing", "blocked", "gone"}
  /\ calls \in Seq({"connect", "disconnect"})
  /\ signals \in Seq(Signal)
  /\ workerUp \in BOOLEAN
  /\ failures \in 0..kMaxConsecutiveFailures
  /\ last \in [freq : Freqs \cup {0}, tx : BOOLEAN]
  /\ rig \in [freq : Freqs, tx : BOOLEAN, answers : BOOLEAN]
  /\ heard \in Freqs \cup {0}

(* Once the signals are delivered the window agrees with the worker: connected when it
   is, showing the frequency it last read, whatever WSJT-X showed there before, and,
   with no call under way, offering Connect or Disconnect, whichever makes sense. *)
WindowCatchesUp ==
  window = "open" /\ signals = <<>> =>
    /\ panel.connected = workerUp
    /\ workerUp /\ last.freq # 0 => panel.freq = last.freq
    /\ calls = <<>> => actions = [connect |-> ~workerUp, disconnect |-> workerUp]

(* The TX pill is never lit, nor left to be lit, without a connection: no reading of
   a connection is delivered after its end. *)
NoTxWithoutRadio == window = "open" /\ panel.tx => panel.connected /\ backendUp

(* The program never ends with the rig open, whatever was queued when it closed. *)
RigClosedAtExit == window = "gone" => ~workerUp

(* A rig that is gone is noticed: the radio does not stay "connected" to it. *)
DeadRigIsNoticed ==
  backendUp /\ ~rig.answers ~> ~backendUp \/ rig.answers \/ window # "open"

(* A program that was closed ends: the GUI thread, blocked in the destructor, and the
   worker never wait for each other. *)
CloseReturns == window = "closing" ~> window = "gone"

(* This backend keeps the promise of RadioLink to the window. *)
Link == INSTANCE RadioLink
  WITH open <- (window = "open"), ready <- actions.connect,
       up <- panel.connected, tx <- panel.tx

ImplementsRadioLink == Link!Spec

=============================================================================
