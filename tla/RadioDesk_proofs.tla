-------------------------- MODULE RadioDesk_proofs --------------------------
(***************************************************************************)
(* What is proved about the radio panel with all backends (RadioDesk) and  *)
(* about the TCI backend (TciLink), which is one of them.                  *)
(***************************************************************************)
EXTENDS RadioDesk, TciLink, TLAPS

(***************************************************************************)
(* RadioDesk, for any backends, frequencies and queue bounds. DeskIsTrue   *)
(* is inductive with the types. DisconnectEndsAll needs to know besides    *)
(* that a web socket remembers the last call only (SocketKnowsOne): a      *)
(* Disconnect that waits behind a Connect then waits in a queue, and what  *)
(* queues its calls has no timer.                                          *)
(***************************************************************************)

SocketKnowsOne == \A b \in Backends \ Queued : Len(calls[b]) <= 1

Call == {"connect", "disconnect"}

Kinds ==
  /\ up \in [Backends -> BOOLEAN] /\ retry \in [Backends -> BOOLEAN]
  /\ calls \in [Backends -> Seq(Call)]
  /\ keyed \in [Backends -> BOOLEAN] /\ ended \in BOOLEAN

PanelAgrees ==
  /\ panel \in [connected : BOOLEAN, freq : Dials \cup {0}, tx : BOOLEAN]
  /\ actions \in [connect : BOOLEAN, disconnect : BOOLEAN]
  /\ panel.connected = AnyRadioConnected
  /\ actions.disconnect = AnyRadioConnected
  /\ actions.connect => ~AnyRadioConnected

Awaited == ~actions.connect => AnyRadioConnected \/ \E b \in Backends : Connecting(b)

Ending(b) ==
  /\ ~retry[b]
  /\ up[b] \/ Connecting(b) => calls[b] # <<>> /\ calls[b][Len(calls[b])] = "disconnect"

(* The types, DeskIsTrue and DisconnectEndsAll in the parts that steps disturb. *)
DeskInv == Kinds /\ PanelAgrees /\ Awaited /\ SocketKnowsOne /\ (ended => \A b \in Backends : Ending(b))

LEMMA DeskInvImplies == DeskInv => DeskTypeOK /\ DeskIsTrue /\ DisconnectEndsAll
BY DEF DeskInv, Kinds, PanelAgrees, Awaited, Ending, DeskTypeOK, DeskIsTrue, DisconnectEndsAll, Call

LEMMA CalledType ==
  ASSUME Kinds, NEW b \in Backends, NEW call \in Call
  PROVE  /\ Called(b, call) \in Seq(Call)
         /\ Called(b, call) # <<>> /\ Called(b, call)[Len(Called(b, call))] = call
         /\ b \notin Queued => Len(Called(b, call)) = 1
<1>1. calls[b] \in Seq(Call)
  BY DEF Kinds
<1>2. CASE b \in Queued
  <2>1. Called(b, call) = Append(calls[b], call)
    BY <1>2 DEF Called
  <2>2. QED
    BY <1>1, <1>2, <2>1
<1>3. CASE b \notin Queued
  BY <1>3 DEF Called
<1>4. QED
  BY <1>2, <1>3

(* The call that is answered is the first; the last stays the last. *)
LEMMA AnsweredType ==
  ASSUME Kinds, NEW b \in Backends, calls[b] # <<>>, Answered(b)
  PROVE  /\ calls' \in [Backends -> Seq(Call)]
         /\ \A a \in Backends \ {b} : calls'[a] = calls[a]
         /\ Len(calls'[b]) = Len(calls[b]) - 1
         /\ \A i \in DOMAIN calls'[b] : i + 1 \in DOMAIN calls[b] /\ calls'[b][i] = calls[b][i + 1]
         /\ calls'[b] # <<>> => calls'[b][Len(calls'[b])] = calls[b][Len(calls[b])]
<1>1. calls \in [Backends -> Seq(Call)] /\ calls[b] \in Seq(Call)
  BY DEF Kinds
<1>2. /\ calls' = [calls EXCEPT ![b] = Tail(calls[b])]
      /\ calls'[b] = Tail(calls[b])
  BY <1>1 DEF Answered
<1>3. Tail(calls[b]) \in Seq(Call) /\ Len(Tail(calls[b])) = Len(calls[b]) - 1
  BY <1>1
<1>4. \A i \in 1 .. Len(calls[b]) - 1 : Tail(calls[b])[i] = calls[b][i + 1]
  BY <1>1
<1>5. QED
  BY <1>1, <1>2, <1>3, <1>4

LEMMA DeskInitInv == DeskInit => DeskInv
<1> SUFFICES ASSUME DeskInit PROVE DeskInv
  OBVIOUS
<1>1. PICK enabled \in Startups :
        calls = [b \in Backends |-> IF b \in enabled THEN <<"connect">> ELSE <<>>]
  BY DEF DeskInit
<1>2. calls \in [Backends -> Seq(Call)] /\ \A b \in Backends : Len(calls[b]) <= 1
  <2>1. \A b \in Backends : calls[b] \in {<<"connect">>, <<>>}
    BY <1>1
  <2>2. /\ <<"connect">> \in Seq(Call) /\ Len(<<"connect">>) = 1
        /\ <<>> \in Seq(Call) /\ Len(<<>>) = 0
    BY DEF Call
  <2>3. ASSUME NEW b \in Backends PROVE calls[b] \in Seq(Call) /\ Len(calls[b]) <= 1
    <3>1. CASE calls[b] = <<"connect">>
      BY <2>2, <3>1
    <3>2. CASE calls[b] = <<>>
      BY <2>2, <3>2
    <3>3. QED
      BY <2>1, <3>1, <3>2
  <2>4. QED
    BY <1>1, <2>3
<1>3. AnyRadioConnected = FALSE
  BY DEF DeskInit, AnyRadioConnected
<1>4. PanelAgrees /\ Awaited
  BY <1>3 DEF DeskInit, PanelAgrees, Awaited, DarkPanel, IdleActions
<1>5. QED
  BY <1>2, <1>4 DEF DeskInit, DeskInv, Kinds, SocketKnowsOne

(* What an answer leaves of the rest. *)
LEMMA AnsweredInv ==
  ASSUME Kinds, SocketKnowsOne, NEW b \in Backends, calls[b] # <<>>, Answered(b)
  PROVE  /\ calls' \in [Backends -> Seq(Call)]
         /\ SocketKnowsOne'
         /\ \A a \in Backends : Connecting(a)' => Connecting(a)
         /\ \A a \in Backends \ {b} : calls'[a] = calls[a]
         /\ calls'[b] # <<>> => calls'[b][Len(calls'[b])] = calls[b][Len(calls[b])]
         /\ calls'[b] = <<>> => Len(calls[b]) = 1
<1>1. calls[b] \in Seq(Call) /\ \A a \in Backends : Len(calls[a]) \in Nat
  BY DEF Kinds
<1>2. SocketKnowsOne'
  <2>1. \A a \in Backends : Len(calls'[a]) <= Len(calls[a])
    BY <1>1, AnsweredType
  <2>2. \A a \in Backends : Len(calls'[a]) \in Nat
    BY <1>1, AnsweredType
  <2>3. QED
    BY <1>1, <2>1, <2>2 DEF SocketKnowsOne
<1>3. \A a \in Backends : Connecting(a)' => Connecting(a)
  <2> SUFFICES ASSUME NEW a \in Backends, Connecting(a)' PROVE Connecting(a)
    OBVIOUS
  <2>1. CASE a = b
    BY <2>1, AnsweredType DEF Connecting
  <2>2. CASE a # b
    BY <2>2, AnsweredType DEF Connecting
  <2>3. QED
    BY <2>1, <2>2
<1>4. /\ calls' \in [Backends -> Seq(Call)]
      /\ \A a \in Backends \ {b} : calls'[a] = calls[a]
      /\ calls'[b] # <<>> => calls'[b][Len(calls'[b])] = calls[b][Len(calls[b])]
      /\ Len(calls'[b]) = Len(calls[b]) - 1
  BY AnsweredType
<1>5. calls'[b] = <<>> => Len(calls[b]) = 1
  BY <1>1, <1>4
<1>6. QED
  BY <1>2, <1>3, <1>4, <1>5

(* When a connection ends, the panel goes dark if it was the last. *)
LEMMA DropShows ==
  ASSUME PanelAgrees, Kinds, NEW b \in Backends, Drop(b), up[b]
  PROVE  /\ PanelAgrees'
         /\ up' \in [Backends -> BOOLEAN] /\ ~up'[b]
         /\ \A a \in Backends \ {b} : up'[a] = up[a]
         /\ ~AnyRadioConnected' => actions'.connect
         /\ actions.connect => actions'.connect
<1>1. /\ up' \in [Backends -> BOOLEAN] /\ ~up'[b]
      /\ \A a \in Backends \ {b} : up'[a] = up[a]
  BY DEF Drop, Kinds
<1>2. CASE \E other \in Backends \ {b} : up[other]
  <2>1. AnyRadioConnected' /\ AnyRadioConnected
    BY <1>1, <1>2 DEF AnyRadioConnected
  <2>2. UNCHANGED <<panel, actions>>
    BY <1>2 DEF Drop, WhenDisconnected
  <2>3. QED
    BY <1>1, <2>1, <2>2 DEF PanelAgrees
<1>3. CASE ~\E other \in Backends \ {b} : up[other]
  <2>1. ~AnyRadioConnected' /\ AnyRadioConnected
    BY <1>1, <1>3 DEF AnyRadioConnected
  <2>2. OnDisconnected
    BY <1>3 DEF Drop, WhenDisconnected
  <2>3. panel.connected = TRUE
    BY <2>1 DEF PanelAgrees
  <2>4. (panel.tx /\ FALSE) = FALSE
    OBVIOUS
  <2>5. panel' = [connected |-> FALSE, tx |-> FALSE, freq |-> 0]
    BY <2>2, <2>3, <2>4 DEF OnDisconnected, SetConnected
  <2>6. actions' = [connect |-> TRUE, disconnect |-> FALSE]
    BY <2>2 DEF OnDisconnected, IdleActions
  <2>7. PanelAgrees' /\ actions'.connect
    BY <2>1, <2>5, <2>6 DEF PanelAgrees, AnyRadioConnected
  <2>8. QED
    BY <1>1, <2>7
<1>4. QED
  BY <1>2, <1>3

(* A Connect that is answered while a Disconnect is the last call has others
   behind it: it was queued, and what queues its calls has no timer. *)
LEMMA AnsweredEnding ==
  ASSUME DeskInv, NEW b \in Backends, calls[b] # <<>>, Answered(b), Head(calls[b]) = "connect", ended
  PROVE  /\ b \in Queued /\ b \notin Retrying
         /\ calls'[b] # <<>> /\ calls'[b][Len(calls'[b])] = "disconnect"
<1>1. Kinds /\ SocketKnowsOne /\ (ended => \A a \in Backends : Ending(a))
  BY DEF DeskInv
<1>2. calls[b] \in Seq(Call) /\ Len(calls[b]) \in Nat /\ Len(calls[b]) >= 1 /\ calls[b][1] = "connect"
  BY <1>1 DEF Kinds
<1>3. Connecting(b)
  BY <1>2 DEF Connecting
<1>4. calls[b][Len(calls[b])] = "disconnect"
  BY <1>1, <1>3 DEF Ending
<1>5. Len(calls[b]) # 1
  BY <1>2, <1>4
<1>6. b \in Queued /\ b \notin Retrying
  <2>1. ~(Len(calls[b]) <= 1)
    <3>1. \A n \in Nat : n >= 1 /\ n # 1 => ~(n <= 1)
      OBVIOUS
    <3>2. QED
      BY <1>2, <1>5, <3>1
  <2>2. b \in Queued
    BY <1>1, <2>1 DEF SocketKnowsOne
  <2>3. QED
    BY <2>2, RadioDeskAssumption
<1>7. /\ calls'[b] # <<>> => calls'[b][Len(calls'[b])] = calls[b][Len(calls[b])]
      /\ calls'[b] = <<>> => Len(calls[b]) = 1
  BY <1>1, AnsweredInv
<1>8. QED
  BY <1>4, <1>5, <1>6, <1>7

(* An answer to a Disconnect leaves every Connect that is waiting. *)
LEMMA AnsweredConnects ==
  ASSUME Kinds, NEW b \in Backends, calls[b] # <<>>, Answered(b), Head(calls[b]) = "disconnect"
  PROVE  \A a \in Backends : Connecting(a) => Connecting(a)'
<1> SUFFICES ASSUME NEW a \in Backends, Connecting(a) PROVE Connecting(a)'
  OBVIOUS
<1>1. calls \in [Backends -> Seq(Call)] /\ calls[b] \in Seq(Call)
  BY DEF Kinds
<1>2. CASE a # b
  BY <1>1, <1>2 DEF Connecting, Answered
<1>3. CASE a = b
  <2>1. PICK i \in 1 .. Len(calls[b]) : calls[b][i] = "connect"
    BY <1>1, <1>3 DEF Connecting
  <2>2. calls[b][1] = "disconnect" /\ i # 1
    BY <1>1, <2>1
  <2>3. calls'[b] = Tail(calls[b])
    BY <1>1 DEF Answered
  <2>4. i - 1 \in DOMAIN Tail(calls[b]) /\ Tail(calls[b])[i - 1] = calls[b][i]
    BY <1>1, <2>1, <2>2
  <2>5. QED
    BY <1>3, <2>1, <2>3, <2>4 DEF Connecting
<1>4. QED
  BY <1>2, <1>3

LEMMA OnConnectInv ==
  ASSUME DeskInv, NEW b \in Backends, OnConnect(b)
  PROVE  DeskInv'
<1>1. Kinds /\ PanelAgrees /\ SocketKnowsOne
  BY DEF DeskInv
<1>2. "connect" \in Call
  BY DEF Call
<1>3. /\ Called(b, "connect") \in Seq(Call)
      /\ Called(b, "connect") # <<>>
      /\ Called(b, "connect")[Len(Called(b, "connect"))] = "connect"
      /\ b \notin Queued => Len(Called(b, "connect")) = 1
  BY <1>1, <1>2, CalledType
<1>4. /\ calls' \in [Backends -> Seq(Call)] /\ calls'[b] = Called(b, "connect")
      /\ \A a \in Backends \ {b} : calls'[a] = calls[a]
  BY <1>1, <1>3 DEF OnConnect, Kinds
<1>5. SocketKnowsOne'
  BY <1>1, <1>3, <1>4 DEF SocketKnowsOne
<1>6. Connecting(b)'
  <2>1. Len(calls'[b]) \in DOMAIN calls'[b]
    BY <1>3, <1>4
  <2>2. QED
    BY <1>3, <1>4, <2>1 DEF Connecting
<1>7. PanelAgrees' /\ Awaited'
  BY <1>1, <1>6 DEF OnConnect, PanelAgrees, Awaited, AnyRadioConnected
<1>8. QED
  BY <1>1, <1>4, <1>5, <1>7 DEF OnConnect, Kinds, DeskInv

LEMMA ReconnectTimerInv ==
  ASSUME DeskInv, NEW b \in Backends, ReconnectTimer(b)
  PROVE  DeskInv'
<1>1. Kinds /\ PanelAgrees /\ SocketKnowsOne /\ ~ended
  BY DEF DeskInv, ReconnectTimer, Ending
<1>2. "connect" \in Call
  BY DEF Call
<1>3. /\ Called(b, "connect") \in Seq(Call)
      /\ Called(b, "connect") # <<>>
      /\ Called(b, "connect")[Len(Called(b, "connect"))] = "connect"
      /\ b \notin Queued => Len(Called(b, "connect")) = 1
  BY <1>1, <1>2, CalledType
<1>4. /\ calls' \in [Backends -> Seq(Call)] /\ calls'[b] = Called(b, "connect")
      /\ \A a \in Backends \ {b} : calls'[a] = calls[a]
  BY <1>1, <1>3 DEF ReconnectTimer, Kinds
<1>5. SocketKnowsOne'
  BY <1>1, <1>3, <1>4 DEF SocketKnowsOne
<1>6. Connecting(b)'
  <2>1. Len(calls'[b]) \in DOMAIN calls'[b]
    BY <1>3, <1>4
  <2>2. QED
    BY <1>3, <1>4, <2>1 DEF Connecting
<1>7. PanelAgrees' /\ Awaited'
  BY <1>1, <1>6 DEF ReconnectTimer, PanelAgrees, Awaited, AnyRadioConnected
<1>8. QED
  BY <1>1, <1>4, <1>5, <1>7 DEF ReconnectTimer, Kinds, DeskInv

LEMMA OnDisconnectAllInv ==
  ASSUME DeskInv, OnDisconnectAll
  PROVE  DeskInv'
<1>1. Kinds /\ PanelAgrees /\ actions.disconnect
  BY DEF DeskInv, OnDisconnectAll
<1>2. "disconnect" \in Call
  BY DEF Call
<1>3. \A b \in Backends :
        /\ Called(b, "disconnect") \in Seq(Call)
        /\ Called(b, "disconnect") # <<>>
        /\ Called(b, "disconnect")[Len(Called(b, "disconnect"))] = "disconnect"
        /\ b \notin Queued => Len(Called(b, "disconnect")) = 1
  BY <1>1, <1>2, CalledType
<1>4. calls' = [b \in Backends |-> Called(b, "disconnect")] /\ retry' = [b \in Backends |-> FALSE]
  <2>1. \A b \in Backends : (retry[b] /\ b \notin ToDisconnect) = FALSE
    BY DEF ToDisconnect
  <2>2. QED
    BY <2>1 DEF OnDisconnectAll, ToDisconnect
<1>5. calls' \in [Backends -> Seq(Call)] /\ SocketKnowsOne' /\ \A b \in Backends : Ending(b)'
  BY <1>3, <1>4 DEF SocketKnowsOne, Ending
<1>6. PanelAgrees' /\ Awaited'
  BY <1>1 DEF OnDisconnectAll, PanelAgrees, Awaited, AnyRadioConnected
<1>7. QED
  BY <1>1, <1>4, <1>5, <1>6 DEF OnDisconnectAll, Kinds, DeskInv

LEMMA ConnectSucceedsInv ==
  ASSUME DeskInv, NEW b \in Backends, ConnectSucceeds(b)
  PROVE  DeskInv'
<1>1. Kinds /\ PanelAgrees /\ SocketKnowsOne /\ calls[b] # <<>> /\ Head(calls[b]) = "connect" /\ Answered(b)
  BY DEF DeskInv, ConnectSucceeds
<1>2. /\ calls' \in [Backends -> Seq(Call)] /\ SocketKnowsOne'
      /\ \A a \in Backends : Connecting(a)' => Connecting(a)
      /\ \A a \in Backends \ {b} : calls'[a] = calls[a]
  BY <1>1, AnsweredInv
<1>3. up' \in [Backends -> BOOLEAN] /\ up'[b] /\ \A a \in Backends \ {b} : up'[a] = up[a]
  BY <1>1 DEF ConnectSucceeds, Kinds
<1>4. AnyRadioConnected' = TRUE
  BY <1>3 DEF AnyRadioConnected
<1>5. PanelAgrees' /\ Awaited'
  <2>1. panel' \in [connected : BOOLEAN, freq : Dials \cup {0}, tx : BOOLEAN] /\ panel'.connected = TRUE
    BY <1>1 DEF ConnectSucceeds, OnConnected, SetConnected, PanelAgrees
  <2>2. actions' = [connect |-> FALSE, disconnect |-> TRUE]
    BY DEF ConnectSucceeds, OnConnected
  <2>3. QED
    BY <1>4, <2>1, <2>2 DEF PanelAgrees, Awaited
<1>6. ASSUME ended, NEW a \in Backends PROVE Ending(a)'
  <2>1. Ending(a)
    BY <1>6 DEF DeskInv
  <2>2. CASE a = b
    <3>1. calls'[b] # <<>> /\ calls'[b][Len(calls'[b])] = "disconnect"
      BY <1>1, <1>6, AnsweredEnding
    <3>2. QED
      BY <2>1, <2>2, <3>1 DEF Ending, ConnectSucceeds
  <2>3. CASE a # b
    BY <1>2, <1>3, <2>1, <2>3 DEF Ending, ConnectSucceeds
  <2>4. QED
    BY <2>2, <2>3
<1>7. QED
  BY <1>1, <1>2, <1>3, <1>5, <1>6 DEF ConnectSucceeds, Kinds, DeskInv

LEMMA ConnectDropsFirstInv ==
  ASSUME DeskInv, NEW b \in Backends, ConnectDropsFirst(b)
  PROVE  DeskInv'
<1>1. Kinds /\ PanelAgrees /\ Awaited /\ SocketKnowsOne /\ up[b] /\ Drop(b)
  BY DEF DeskInv, ConnectDropsFirst
<1>2. /\ PanelAgrees' /\ up' \in [Backends -> BOOLEAN] /\ ~up'[b]
      /\ \A a \in Backends \ {b} : up'[a] = up[a]
      /\ ~AnyRadioConnected' => actions'.connect
  BY <1>1, DropShows
<1>3. Awaited' /\ SocketKnowsOne'
  BY <1>1, <1>2 DEF Awaited, ConnectDropsFirst, SocketKnowsOne
<1>4. ASSUME ended, NEW a \in Backends PROVE Ending(a)'
  <2>1. Ending(a)
    BY <1>4 DEF DeskInv
  <2>2. QED
    BY <1>1, <1>2, <2>1 DEF Ending, ConnectDropsFirst, Connecting
<1>5. QED
  BY <1>1, <1>2, <1>3, <1>4 DEF ConnectDropsFirst, Kinds, DeskInv

LEMMA ConnectFailsInv ==
  ASSUME DeskInv, NEW b \in Backends, ConnectFails(b)
  PROVE  DeskInv'
<1>1. /\ Kinds /\ PanelAgrees /\ Awaited /\ SocketKnowsOne
      /\ calls[b] # <<>> /\ Head(calls[b]) = "connect" /\ Answered(b) /\ Rearm(b)
  BY DEF DeskInv, ConnectFails
<1>2. /\ calls' \in [Backends -> Seq(Call)] /\ SocketKnowsOne'
      /\ \A a \in Backends : Connecting(a)' => Connecting(a)
      /\ \A a \in Backends \ {b} : calls'[a] = calls[a]
  BY <1>1, AnsweredInv
<1>3. /\ PanelAgrees' /\ Awaited' /\ up' \in [Backends -> BOOLEAN]
      /\ \A a \in Backends \ {b} : up'[a] = up[a]
  <2>1. CASE up[b] /\ Drop(b)
    BY <1>1, <2>1, DropShows DEF Awaited
  <2>2. CASE ~up[b] /\ WhenRefused(b) /\ UNCHANGED up
    <3>1. /\ panel' = panel
          /\ actions' = [actions EXCEPT !.connect = @ \/ ~AnyRadioConnected]
      BY <2>2 DEF WhenRefused, OnError
    <3>2. AnyRadioConnected' = AnyRadioConnected /\ AnyRadioConnected \in BOOLEAN
      BY <2>2 DEF AnyRadioConnected
    <3>3. PanelAgrees'
      BY <1>1, <3>1, <3>2 DEF PanelAgrees
    <3>4. Awaited'
      BY <1>1, <3>1, <3>2 DEF PanelAgrees, Awaited
    <3>5. QED
      BY <1>1, <2>2, <3>3, <3>4 DEF Kinds
  <2>3. QED
    BY <2>1, <2>2 DEF ConnectFails
<1>4. retry' \in [Backends -> BOOLEAN] /\ retry'[b] = (b \in Retrying)
      /\ \A a \in Backends \ {b} : retry'[a] = retry[a]
  BY <1>1 DEF Rearm, Kinds
<1>5. ASSUME ended, NEW a \in Backends PROVE Ending(a)'
  <2>1. Ending(a)
    BY <1>5 DEF DeskInv
  <2>2. CASE a = b
    <3>1. /\ b \notin Retrying
          /\ calls'[b] # <<>> /\ calls'[b][Len(calls'[b])] = "disconnect"
      BY <1>1, <1>5, AnsweredEnding
    <3>2. QED
      BY <1>4, <2>2, <3>1 DEF Ending
  <2>3. CASE a # b
    BY <1>2, <1>3, <1>4, <2>1, <2>3 DEF Ending
  <2>4. QED
    BY <2>2, <2>3
<1>6. QED
  BY <1>1, <1>2, <1>3, <1>4, <1>5 DEF ConnectFails, Kinds, DeskInv

LEMMA DisconnectsInv ==
  ASSUME DeskInv, NEW b \in Backends, Disconnects(b)
  PROVE  DeskInv'
<1>1. /\ Kinds /\ PanelAgrees /\ Awaited /\ SocketKnowsOne
      /\ calls[b] # <<>> /\ Head(calls[b]) = "disconnect" /\ Answered(b)
  BY DEF DeskInv, Disconnects
<1>2. /\ calls' \in [Backends -> Seq(Call)] /\ SocketKnowsOne'
      /\ \A a \in Backends : Connecting(a)' => Connecting(a)
      /\ \A a \in Backends \ {b} : calls'[a] = calls[a]
      /\ calls'[b] # <<>> => calls'[b][Len(calls'[b])] = calls[b][Len(calls[b])]
  BY <1>1, AnsweredInv
<1>3. /\ PanelAgrees' /\ Awaited' /\ up' \in [Backends -> BOOLEAN] /\ ~up'[b]
      /\ \A a \in Backends \ {b} : up'[a] = up[a]
  <2>1. CASE up[b] /\ Drop(b)
    BY <1>1, <2>1, DropShows DEF Awaited
  <2>2. CASE ~up[b] /\ UNCHANGED <<up, panel, actions>>
    <3>1. AnyRadioConnected' = AnyRadioConnected
      BY <2>2 DEF AnyRadioConnected
    <3>2. Awaited'
      BY <1>1, <2>2, <3>1, AnsweredConnects DEF Awaited
    <3>3. QED
      BY <1>1, <2>2, <3>1, <3>2 DEF PanelAgrees, Kinds
  <2>3. QED
    BY <2>1, <2>2 DEF Disconnects
<1>4. ASSUME ended, NEW a \in Backends PROVE Ending(a)'
  <2>1. Ending(a)
    BY <1>4 DEF DeskInv
  <2>2. CASE a = b /\ calls'[b] = <<>>
    <3>1. ~Connecting(b)'
      BY <2>2 DEF Connecting
    <3>2. QED
      BY <1>3, <2>1, <2>2, <3>1 DEF Ending, Disconnects
  <2>3. CASE a = b /\ calls'[b] # <<>>
    <3>1. Connecting(b)' => Connecting(b)
      BY <1>2
    <3>2. QED
      BY <1>2, <1>3, <2>1, <2>3, <3>1 DEF Ending, Disconnects
  <2>4. CASE a # b
    BY <1>2, <1>3, <2>1, <2>4 DEF Ending, Disconnects
  <2>5. QED
    BY <2>2, <2>3, <2>4
<1>5. QED
  BY <1>1, <1>2, <1>3, <1>4 DEF Disconnects, Kinds, DeskInv

LEMMA LosesInv ==
  ASSUME DeskInv, NEW b \in Backends, Loses(b)
  PROVE  DeskInv'
<1>1. Kinds /\ PanelAgrees /\ Awaited /\ SocketKnowsOne /\ up[b] /\ Drop(b) /\ Rearm(b)
  BY DEF DeskInv, Loses
<1>2. /\ PanelAgrees' /\ up' \in [Backends -> BOOLEAN] /\ ~up'[b]
      /\ \A a \in Backends \ {b} : up'[a] = up[a]
      /\ ~AnyRadioConnected' => actions'.connect
  BY <1>1, DropShows
<1>3. Awaited' /\ SocketKnowsOne'
  BY <1>1, <1>2 DEF Awaited, Loses, SocketKnowsOne
<1>4. retry' \in [Backends -> BOOLEAN] /\ retry'[b] = (b \in Retrying)
      /\ \A a \in Backends \ {b} : retry'[a] = retry[a]
  BY <1>1 DEF Rearm, Kinds
<1>5. ASSUME ended, NEW a \in Backends PROVE Ending(a)'
  <2>1. Ending(a)
    BY <1>5 DEF DeskInv
  <2>2. CASE a = b
    <3>1. calls[b] # <<>>
      BY <1>1, <2>1, <2>2 DEF Ending
    <3>2. b \notin Retrying
      BY <3>1, RadioDeskAssumption DEF Loses
    <3>3. QED
      BY <1>2, <1>4, <2>1, <2>2, <3>2 DEF Ending, Loses, Connecting
  <2>3. CASE a # b
    BY <1>2, <1>4, <2>1, <2>3 DEF Ending, Loses, Connecting
  <2>4. QED
    BY <2>2, <2>3
<1>6. QED
  BY <1>1, <1>2, <1>3, <1>4, <1>5 DEF Loses, Kinds, DeskInv

(* Readings and the frequency of WSJT-X change what the panel shows, not whether a
   radio is connected. *)
LEMMA ReportsInv ==
  ASSUME DeskInv, NEW b \in Backends, Reports(b)
  PROVE  DeskInv'
<1>1. PanelAgrees /\ Kinds
  BY DEF DeskInv
<1>2. panel' \in [connected : BOOLEAN, freq : Dials \cup {0}, tx : BOOLEAN]
      /\ panel'.connected = panel.connected
      /\ keyed' \in [Backends -> BOOLEAN]
  BY <1>1 DEF Reports, SetFrequency, SetTransmitting, PanelAgrees, Kinds
<1>3. UNCHANGED <<up, calls, retry, actions, ended>>
  BY DEF Reports
<1>4. QED
  BY <1>1, <1>2, <1>3 DEF DeskInv, PanelAgrees, Kinds, Awaited, AnyRadioConnected, Connecting,
     SocketKnowsOne, Ending

LEMMA OnRadioStatusInv ==
  ASSUME DeskInv, OnRadioStatus
  PROVE  DeskInv'
<1>1. PanelAgrees
  BY DEF DeskInv
<1>2. panel' \in [connected : BOOLEAN, freq : Dials \cup {0}, tx : BOOLEAN]
      /\ panel'.connected = panel.connected
  BY <1>1 DEF OnRadioStatus, SetFrequency, PanelAgrees
<1>3. UNCHANGED <<up, calls, retry, keyed, actions, ended>>
  BY DEF OnRadioStatus, backends
<1>4. QED
  BY <1>1, <1>2, <1>3 DEF DeskInv, PanelAgrees, Kinds, Awaited, AnyRadioConnected, Connecting,
     SocketKnowsOne, Ending

LEMMA DeskStutterInv == DeskInv /\ UNCHANGED deskVars => DeskInv'
<1> SUFFICES ASSUME DeskInv, UNCHANGED deskVars PROVE DeskInv'
  OBVIOUS
<1>1. UNCHANGED <<up, calls, retry, keyed, panel, actions, ended>>
  BY DEF deskVars, backends
<1>2. QED
  BY <1>1 DEF DeskInv, PanelAgrees, Kinds, Awaited, AnyRadioConnected, Connecting,
     SocketKnowsOne, Ending

LEMMA DeskNextInv == DeskInv /\ [DeskNext]_deskVars => DeskInv'
BY DeskStutterInv, OnConnectInv, ConnectSucceedsInv, ConnectDropsFirstInv, ConnectFailsInv,
   DisconnectsInv, LosesInv, ReconnectTimerInv, ReportsInv, OnDisconnectAllInv, OnRadioStatusInv
   DEF DeskNext

(* The desk's variables hold what the code's types allow, for any backends. *)
THEOREM DeskTypes == DeskSpec => []DeskTypeOK
BY DeskInitInv, DeskNextInv, DeskInvImplies, PTL DEF DeskSpec

(* However many backends connect, fail and end beside each other, the panel and
   the actions of MainWindow::wireRadioBackend show whether one is connected,
   and Connect is withheld only while a radio or an answer is there. *)
THEOREM DeskShowsTruth == DeskSpec => []DeskIsTrue
BY DeskInitInv, DeskNextInv, DeskInvImplies, PTL DEF DeskSpec

(* After onDisconnectRadio no timer runs, and a backend that is connected or was
   told to connect has been told to disconnect after that. *)
THEOREM DisconnectEndsEverything == DeskSpec => []DisconnectEndsAll
BY DeskInitInv, DeskNextInv, DeskInvImplies, PTL DEF DeskSpec

PillNeedsRadio == panel.tx => AnyRadioConnected

(* Which radio lit the TX pill may be wrong (see PillIsOfRadio); that some radio is
   connected while it is lit is not: the last one to go takes the pill along. *)
THEOREM PillIsOfSomeRadio == DeskSpec => []PillNeedsRadio
<1>1. DeskInit => PillNeedsRadio
  BY DEF DeskInit, DarkPanel, PillNeedsRadio
<1>2. DeskInv /\ PillNeedsRadio /\ [DeskNext]_deskVars => PillNeedsRadio'
  <2> SUFFICES ASSUME DeskInv, PillNeedsRadio, [DeskNext]_deskVars PROVE PillNeedsRadio'
    OBVIOUS
  <2>1. PanelAgrees /\ Kinds /\ PanelAgrees'
    BY DeskNextInv DEF DeskInv
  <2>2. panel'.tx => panel'.connected
    <3>1. panel.tx => panel.connected
      BY <2>1 DEF PillNeedsRadio, PanelAgrees, AnyRadioConnected
    <3>2. CASE panel' = panel
      BY <3>1, <3>2
    <3>3. CASE OnConnected
      <4>1. panel'.connected = TRUE
        BY <2>1, <3>3 DEF OnConnected, SetConnected, PanelAgrees
      <4>2. QED
        BY <4>1
    <3>4. CASE OnDisconnected
      BY <2>1, <3>1, <3>4 DEF OnDisconnected, SetConnected, PanelAgrees
    <3>5. ASSUME NEW freq, SetFrequency(freq)
          PROVE  panel'.tx => panel'.connected
      BY <2>1, <3>1, <3>5 DEF SetFrequency, PanelAgrees
    <3>6. ASSUME NEW b \in Backends, up[b], NEW tx, SetTransmitting(tx)
          PROVE  panel'.tx => panel'.connected
      BY <2>1, <3>6 DEF SetTransmitting, PanelAgrees, AnyRadioConnected
    <3>7. \/ panel' = panel \/ OnConnected \/ OnDisconnected
          \/ \E freq \in Dials : SetFrequency(freq)
          \/ \E b \in Backends : up[b] /\ SetTransmitting(~keyed[b])
      BY DEF DeskNext, deskVars, OnConnect, OnDisconnectAll, ConnectSucceeds, ConnectDropsFirst,
             ConnectFails, Disconnects, Loses, ReconnectTimer, Reports, OnRadioStatus, Drop,
             WhenDisconnected, WhenRefused, OnError
    <3>8. QED
      BY <3>2, <3>3, <3>4, <3>5, <3>6, <3>7
  <2>3. QED
    BY <2>1, <2>2 DEF PillNeedsRadio, PanelAgrees, AnyRadioConnected
<1>3. QED
  BY <1>1, <1>2, DeskInitInv, DeskNextInv, PTL DEF DeskSpec

----------------------------------------------------------------------------
(***************************************************************************)
(* TciLink, for any transceivers and frequencies.                          *)
(*                                                                         *)
(* The argument: the backend's flags say in which states the socket may be *)
(* (FlagsMatchSocket), the window's panel and actions say what the backend *)
(* said last (WindowIsTold), and from the moment a TRX is latched the      *)
(* panel shows the frequency the backend remembers of it (TrackedIsShown). *)
(***************************************************************************)

FlagsMatchSocket ==
  /\ socket = "open" => connected
  /\ socket = "closed" => ~connected
  /\ socket = "connecting" => tracked = None
  /\ intentional => ~timer /\ socket \in {"closed", "closing"}
  /\ socket = "closing" => intentional
  /\ ~window => intentional

WindowIsTold ==
  window =>
    /\ panel.connected = connected
    /\ actions.disconnect = connected
    /\ connected => ~actions.connect
    /\ ~connected => heard = 0

(* The latched TRX, its last valid frequency, and what the panel made of them. *)
TrackedIsShown ==
  /\ last.freq = 0 <=> tracked = None
  /\ connected /\ tracked # None => panel.freq = last.freq
  /\ socket = "open" /\ tracked # None /\ <<"vfo", tracked>> \notin unread =>
       rig[tracked].freq \in {0, last.freq}

Inv == TypeOK /\ FlagsMatchSocket /\ WindowIsTold /\ TrackedIsShown

----------------------------------------------------------------------------
(* The invariant                                                           *)

LEMMA InitInv == Init => Inv
<1> SUFFICES ASSUME Init PROVE Inv
  OBVIOUS
<1>1. TypeOK
  <2>1. /\ last \in [freq : Freqs \cup {0}, tx : BOOLEAN]
        /\ panel \in [connected : BOOLEAN, freq : Freqs \cup {0}, tx : BOOLEAN]
        /\ actions \in [connect : BOOLEAN, disconnect : BOOLEAN]
    BY DEF Init, DarkPanel, IdleActions
  <2>2. QED
    BY <2>1 DEF Init, TypeOK
<1>2. FlagsMatchSocket /\ WindowIsTold /\ TrackedIsShown
  BY DEF Init, FlagsMatchSocket, WindowIsTold, TrackedIsShown, DarkPanel, IdleActions
<1>3. QED
  BY <1>1, <1>2 DEF Inv

(* connectRadio and disconnectRadio, whoever calls them. *)
LEMMA ConnectRadioType ==
  ASSUME TypeOK, ConnectRadio
  PROVE  /\ intentional' = FALSE /\ tracked' = None /\ socket' = "connecting" /\ unread' = {}
         /\ last' \in [freq : Freqs \cup {0}, tx : BOOLEAN]
BY DEF TypeOK, ConnectRadio, Forgotten

(* What the window's slots do. *)
LEMMA ConnectedSlot ==
  ASSUME TypeOK, OnConnected
  PROVE  /\ panel' \in [connected : BOOLEAN, freq : Freqs \cup {0}, tx : BOOLEAN]
         /\ panel'.connected = TRUE
         /\ panel'.tx = panel.tx
         /\ actions' \in [connect : BOOLEAN, disconnect : BOOLEAN]
         /\ actions'.connect = FALSE /\ actions'.disconnect = TRUE
BY DEF TypeOK, OnConnected, SetConnected

LEMMA DisconnectedSlot ==
  ASSUME TypeOK, OnDisconnected
  PROVE  /\ panel' \in [connected : BOOLEAN, freq : Freqs \cup {0}, tx : BOOLEAN]
         /\ panel'.connected = FALSE
         /\ panel.connected => panel'.tx = FALSE
         /\ actions' \in [connect : BOOLEAN, disconnect : BOOLEAN]
         /\ actions'.connect = TRUE /\ actions'.disconnect = FALSE
BY DEF TypeOK, OnDisconnected, SetConnected, IdleActions

LEMMA ErrorSlot ==
  ASSUME TypeOK, OnError(FALSE)
  PROVE  /\ panel' = panel
         /\ actions' \in [connect : BOOLEAN, disconnect : BOOLEAN]
         /\ actions'.connect = TRUE /\ actions'.disconnect = actions.disconnect
BY DEF TypeOK, OnError

(* The socket opens. *)
LEMMA OpensStep ==
  ASSUME Inv, SocketOpens
  PROVE  Inv'
<1> USE DEF Inv
<1>1. /\ socket = "connecting" /\ socket' = "open" /\ unread' = Announcements /\ connected' = TRUE
      /\ UNCHANGED <<intentional, timer, tracked, last, window, server, rig>>
      /\ Slot(OnConnected, heard)
  BY DEF SocketOpens, OnOpen, external
<1>2. tracked = None /\ window
  BY <1>1 DEF FlagsMatchSocket, TypeOK
<1>3. OnConnected /\ heard' = heard
  BY <1>1, <1>2 DEF Slot
<1>4. TypeOK'
  BY <1>1, <1>3, ConnectedSlot DEF TypeOK
<1>5. FlagsMatchSocket' /\ TrackedIsShown'
  BY <1>1, <1>2 DEF FlagsMatchSocket, TrackedIsShown
<1>6. WindowIsTold'
  BY <1>1, <1>3, ConnectedSlot DEF WindowIsTold, TypeOK
<1>7. QED
  BY <1>4, <1>5, <1>6

(* The socket fails or closes: the connection is over. *)
LEMMA EndsStep ==
  ASSUME Inv, SocketFails \/ SocketCloses
  PROVE  Inv'
<1> USE DEF Inv
<1>1. /\ socket' = "closed" /\ unread' = {} /\ connected' = FALSE
      /\ timer' = (timer \/ ~intentional)
      /\ UNCHANGED <<intentional, tracked, last, window, server, rig>>
  BY DEF SocketFails, SocketCloses, OnClosed, Retry, external
<1>2. \/ window /\ connected /\ OnDisconnected /\ heard' = 0
      \/ window /\ ~connected /\ OnError(FALSE) /\ heard' = heard
      \/ ~(window /\ connected) /\ UNCHANGED <<panel, actions, heard>>
  BY DEF SocketFails, SocketCloses, Slot, shown, TypeOK
<1>3. timer' \in BOOLEAN /\ (intentional => ~timer')
  BY <1>1 DEF FlagsMatchSocket, TypeOK
<1>4. TypeOK'
  <2>1. /\ panel' \in [connected : BOOLEAN, freq : Freqs \cup {0}, tx : BOOLEAN]
        /\ actions' \in [connect : BOOLEAN, disconnect : BOOLEAN]
        /\ heard' \in Freqs \cup {0}
    <3>1. CASE window /\ connected /\ OnDisconnected /\ heard' = 0
      BY <3>1, DisconnectedSlot
    <3>2. CASE window /\ ~connected /\ OnError(FALSE) /\ heard' = heard
      BY <3>2, ErrorSlot DEF TypeOK
    <3>3. CASE UNCHANGED <<panel, actions, heard>>
      BY <3>3 DEF TypeOK
    <3>4. QED
      BY <1>2, <3>1, <3>2, <3>3
  <2>2. QED
    BY <1>1, <1>3, <2>1 DEF TypeOK
<1>5. FlagsMatchSocket' /\ TrackedIsShown'
  BY <1>1, <1>3 DEF FlagsMatchSocket, TrackedIsShown
<1>6. WindowIsTold'
  <2>1. CASE window /\ connected /\ OnDisconnected /\ heard' = 0
    BY <1>1, <2>1, DisconnectedSlot DEF WindowIsTold
  <2>2. CASE window /\ ~connected /\ OnError(FALSE) /\ heard' = heard
    BY <1>1, <2>2, ErrorSlot DEF WindowIsTold
  <2>3. CASE ~(window /\ connected) /\ UNCHANGED <<panel, actions, heard>>
    BY <1>1, <2>3 DEF WindowIsTold, TypeOK
  <2>4. QED
    BY <1>2, <2>1, <2>2, <2>3
<1>7. QED
  BY <1>4, <1>5, <1>6

(* A frequency is read. *)
LEMMA VfoStep ==
  ASSUME Inv, NEW trx \in Trxs, OnVfo(trx)
  PROVE  Inv'
<1> USE DEF Inv
<1> DEFINE freq == rig[trx].freq
<1>1. /\ socket = "open" /\ unread' = unread \ {<<"vfo", trx>>} /\ tracked' = Latch(trx)
      /\ UNCHANGED <<connected, intentional, timer, window, socket, server, rig>>
  BY DEF OnVfo, external
<1>2. /\ connected /\ freq \in Freqs \cup {0} /\ tracked' \in Trxs \cup {None}
      /\ tracked # None => tracked' = tracked
      /\ tracked' # None /\ tracked = None => tracked' = trx /\ freq # 0
  BY <1>1, TciLinkAssumption DEF FlagsMatchSocket, TypeOK, Latch
<1>3. CASE freq # 0 /\ trx = tracked' /\ freq # last.freq
  <2>1. /\ last' = [last EXCEPT !.freq = freq] /\ panel' = [panel EXCEPT !.freq = freq]
        /\ heard' = freq /\ actions' = actions
    BY <1>3 DEF OnVfo, SetFrequency
  <2>2. /\ last'.freq = freq /\ panel'.freq = freq /\ panel'.connected = panel.connected
        /\ last' \in [freq : Freqs \cup {0}, tx : BOOLEAN]
        /\ panel' \in [connected : BOOLEAN, freq : Freqs \cup {0}, tx : BOOLEAN]
    BY <1>2, <2>1 DEF TypeOK
  <2>3. TypeOK'
    BY <1>1, <1>2, <2>1, <2>2 DEF TypeOK
  <2>4. FlagsMatchSocket' /\ WindowIsTold'
    BY <1>1, <1>2, <2>1, <2>2 DEF FlagsMatchSocket, WindowIsTold
  <2>5. trx # None
    BY TciLinkAssumption
  <2>6. TrackedIsShown'
    BY <1>1, <1>3, <2>2, <2>5 DEF TrackedIsShown
  <2>7. QED
    BY <2>3, <2>4, <2>6
<1>4. CASE ~(freq # 0 /\ trx = tracked' /\ freq # last.freq)
  <2>1. UNCHANGED <<last, panel, actions, heard>>
    BY <1>4 DEF OnVfo, shown
  <2>2. TypeOK' /\ FlagsMatchSocket' /\ WindowIsTold'
    BY <1>1, <1>2, <2>1 DEF TypeOK, FlagsMatchSocket, WindowIsTold
  <2>3. tracked' # None => tracked' = tracked
    BY <1>2, <1>4, <2>1, TciLinkAssumption DEF TypeOK, TrackedIsShown
  <2>4. tracked' = trx => freq \in {0, last.freq}
    BY <1>4
  <2>5. tracked' # None /\ tracked' # trx /\ <<"vfo", tracked'>> \notin unread' =>
          <<"vfo", tracked>> \notin unread /\ tracked' = tracked
    BY <1>1, <2>3
  <2>6. tracked' = tracked
    BY <1>2, <2>3
  <2>7. TrackedIsShown'
    BY <1>1, <2>1, <2>4, <2>5, <2>6 DEF TrackedIsShown
  <2>8. QED
    BY <2>2, <2>7
<1>5. QED
  BY <1>3, <1>4

(* A PTT state is read. *)
LEMMA TrxStep ==
  ASSUME Inv, NEW trx \in Trxs, OnTrx(trx)
  PROVE  Inv'
<1> USE DEF Inv
<1>1. /\ socket = "open" /\ unread' = unread \ {<<"trx", trx>>}
      /\ UNCHANGED <<connected, intentional, timer, tracked, window, socket, server, rig>>
  BY DEF OnTrx, external
<1>2. \/ /\ last' = [last EXCEPT !.tx = rig[trx].tx]
         /\ panel' = [panel EXCEPT !.tx = rig[trx].tx]
         /\ UNCHANGED <<actions, heard>>
      \/ UNCHANGED <<last, panel, actions, heard>>
  BY DEF OnTrx, SetTransmitting, shown
<1>3. rig[trx].tx \in BOOLEAN
  BY DEF TypeOK
<1>4. /\ last' \in [freq : Freqs \cup {0}, tx : BOOLEAN] /\ last'.freq = last.freq
      /\ panel' \in [connected : BOOLEAN, freq : Freqs \cup {0}, tx : BOOLEAN]
      /\ panel'.freq = panel.freq /\ panel'.connected = panel.connected
      /\ UNCHANGED <<actions, heard>>
  BY <1>2, <1>3 DEF TypeOK
<1>5. TypeOK'
  BY <1>1, <1>4 DEF TypeOK
<1>6. FlagsMatchSocket' /\ WindowIsTold'
  BY <1>1, <1>4 DEF FlagsMatchSocket, WindowIsTold
<1>7. <<"vfo", tracked>> \notin unread' => <<"vfo", tracked>> \notin unread
  BY <1>1
<1>8. TrackedIsShown'
  BY <1>1, <1>4, <1>7 DEF TrackedIsShown
<1>9. QED
  BY <1>5, <1>6, <1>8

(* A connect or a disconnect is asked for, by the user, the timer or the closing window. *)
LEMMA AskStep ==
  ASSUME Inv, OnConnectTci \/ OnDisconnectRadio \/ OnReconnectTimer \/ Close
  PROVE  Inv'
<1> USE DEF Inv
<1>1. CASE OnConnectTci \/ (OnReconnectTimer /\ ~intentional)
  <2>1. /\ ConnectRadio
        /\ UNCHANGED <<connected, window, server, rig, panel, heard>>
        /\ timer' \in {timer, FALSE}
        /\ actions' = actions \/ actions' = [actions EXCEPT !.connect = FALSE]
    BY <1>1 DEF OnConnectTci, OnReconnectTimer, external, shown
  <2>2. /\ intentional' = FALSE /\ tracked' = None /\ socket' = "connecting" /\ unread' = {}
        /\ last' \in [freq : Freqs \cup {0}, tx : BOOLEAN]
        /\ last'.freq = 0
    BY <2>1 DEF ConnectRadio, Forgotten, TypeOK
  <2>3. /\ actions' \in [connect : BOOLEAN, disconnect : BOOLEAN]
        /\ actions'.disconnect = actions.disconnect
        /\ actions'.connect => actions.connect
    BY <2>1 DEF TypeOK
  <2>4. window
    BY <1>1 DEF OnConnectTci, FlagsMatchSocket, TypeOK
  <2>5. TypeOK'
    BY <2>1, <2>2, <2>3 DEF TypeOK
  <2>6. FlagsMatchSocket' /\ WindowIsTold' /\ TrackedIsShown'
    BY <2>1, <2>2, <2>3, <2>4 DEF FlagsMatchSocket, WindowIsTold, TrackedIsShown
  <2>7. QED
    BY <2>5, <2>6
<1>2. CASE OnReconnectTimer /\ intentional
  BY <1>2 DEF OnReconnectTimer, FlagsMatchSocket
<1>3. CASE OnDisconnectRadio \/ Close
  <2>1. /\ DisconnectRadio
        /\ UNCHANGED <<server, rig, panel, actions, heard>>
        /\ window' = window \/ window' = FALSE
    BY <1>3 DEF OnDisconnectRadio, Close, external, shown
  <2>2. /\ intentional' = TRUE /\ timer' = FALSE
        /\ socket' = IF socket = "closed" THEN "closed" ELSE "closing"
        /\ UNCHANGED <<connected, tracked, last, unread>>
    BY <2>1 DEF DisconnectRadio
  <2>3. socket' \in {"closed", "closing"} /\ (socket' = "closed" => socket = "closed")
    BY <2>2
  <2>4. window' \in BOOLEAN /\ (window' => window)
    <3>1. CASE window' = window
      BY <3>1 DEF TypeOK
    <3>2. CASE window' = FALSE
      BY <3>2
    <3>3. QED
      BY <2>1, <3>1, <3>2
  <2>5. TypeOK'
    <3>1. socket' \in {"closed", "connecting", "open", "closing"}
      BY <2>3
    <3>2. intentional' \in BOOLEAN /\ timer' \in BOOLEAN
      BY <2>2
    <3>3. QED
      BY <2>1, <2>2, <2>4, <3>1, <3>2 DEF TypeOK
  <2>6. FlagsMatchSocket'
    BY <2>2, <2>3 DEF FlagsMatchSocket
  <2>7. WindowIsTold'
    BY <2>1, <2>2, <2>4 DEF WindowIsTold
  <2>8. TrackedIsShown'
    BY <2>1, <2>2, <2>3 DEF TrackedIsShown
  <2>9. QED
    BY <2>5, <2>6, <2>7, <2>8
<1>4. QED
  BY <1>1, <1>2, <1>3 DEF TypeOK

(* What the world does. *)
LEMMA WorldStep ==
  ASSUME Inv, \/ ServerChanges
              \/ \E trx \in Trxs : RigChanges(trx)
              \/ \E freq \in Freqs : WsjtxStatus(freq)
              \/ UNCHANGED vars
  PROVE  Inv'
<1> USE DEF Inv
<1>1. CASE ServerChanges
  BY <1>1 DEF ServerChanges, backend, shown, TypeOK, FlagsMatchSocket, WindowIsTold, TrackedIsShown
<1>2. CASE \E trx \in Trxs : RigChanges(trx)
  <2>1. PICK trx \in Trxs : RigChanges(trx)
    BY <1>2
  <2>2. UNCHANGED <<backend, window, socket, server, shown>>
    BY <2>1 DEF RigChanges
  <2>3. /\ rig' \in [Trxs -> [freq : Freqs \cup {0}, tx : BOOLEAN]]
        /\ unread' \subseteq Announcements /\ unread \subseteq unread'
        /\ \A t \in Trxs : rig'[t].freq = rig[t].freq \/ (socket = "open" => <<"vfo", t>> \in unread')
    <3>1. CASE \E freq \in (Freqs \cup {0}) \ {rig[trx].freq} :
                 rig' = [rig EXCEPT ![trx].freq = freq] /\ unread' = Announced(<<"vfo", trx>>)
      <4>1. PICK freq \in (Freqs \cup {0}) \ {rig[trx].freq} :
                   rig' = [rig EXCEPT ![trx].freq = freq] /\ unread' = Announced(<<"vfo", trx>>)
        BY <3>1
      <4>2. rig' \in [Trxs -> [freq : Freqs \cup {0}, tx : BOOLEAN]]
        BY <4>1 DEF TypeOK
      <4>3. \A t \in Trxs : t # trx => rig'[t] = rig[t]
        BY <4>1 DEF TypeOK
      <4>4. /\ unread' \subseteq Announcements /\ unread \subseteq unread'
            /\ socket = "open" => <<"vfo", trx>> \in unread'
        BY <4>1 DEF TypeOK, Announced, Announcements
      <4>5. QED
        BY <4>2, <4>3, <4>4
    <3>2. CASE rig' = [rig EXCEPT ![trx].tx = ~@] /\ unread' = Announced(<<"trx", trx>>)
      <4>1. rig' \in [Trxs -> [freq : Freqs \cup {0}, tx : BOOLEAN]]
        <5>1. (~rig[trx].tx) \in BOOLEAN
          OBVIOUS
        <5>2. [rig[trx] EXCEPT !.tx = ~@] \in [freq : Freqs \cup {0}, tx : BOOLEAN]
          BY <5>1 DEF TypeOK
        <5>3. rig' = [rig EXCEPT ![trx] = [rig[trx] EXCEPT !.tx = ~@]]
          BY <3>2 DEF TypeOK
        <5>4. QED
          BY <5>2, <5>3 DEF TypeOK
      <4>2. \A t \in Trxs : rig'[t].freq = rig[t].freq
        BY <3>2 DEF TypeOK
      <4>3. unread' \subseteq Announcements /\ unread \subseteq unread'
        BY <3>2 DEF TypeOK, Announced, Announcements
      <4>4. QED
        BY <4>1, <4>2, <4>3
    <3>3. QED
      BY <2>1, <3>1, <3>2 DEF RigChanges
  <2>4. TypeOK'
    BY <2>2, <2>3 DEF TypeOK, backend, shown
  <2>5. FlagsMatchSocket' /\ WindowIsTold'
    BY <2>2 DEF FlagsMatchSocket, WindowIsTold, backend, shown
  <2>6. TrackedIsShown'
    BY <2>2, <2>3 DEF TrackedIsShown, TypeOK, backend, shown
  <2>7. QED
    BY <2>4, <2>5, <2>6
<1>3. CASE \E freq \in Freqs : WsjtxStatus(freq)
  <2>1. PICK freq \in Freqs : WsjtxStatus(freq)
    BY <1>3
  <2>2. /\ ~connected /\ panel' = [panel EXCEPT !.freq = freq]
        /\ UNCHANGED <<backend, window, socket, unread, server, rig, actions, heard>>
    BY <2>1 DEF WsjtxStatus, SetFrequency, external
  <2>3. /\ panel' \in [connected : BOOLEAN, freq : Freqs \cup {0}, tx : BOOLEAN]
        /\ panel'.connected = panel.connected
    BY <2>2 DEF TypeOK
  <2>4. TypeOK'
    BY <2>2, <2>3 DEF TypeOK, backend
  <2>5. FlagsMatchSocket' /\ WindowIsTold' /\ TrackedIsShown'
    BY <2>2, <2>3 DEF FlagsMatchSocket, WindowIsTold, TrackedIsShown, backend
  <2>6. QED
    BY <2>4, <2>5
<1>4. CASE UNCHANGED vars
  BY <1>4 DEF vars, backend, external, shown, TypeOK, FlagsMatchSocket, WindowIsTold, TrackedIsShown
<1>5. QED
  BY <1>1, <1>2, <1>3, <1>4

(* The invariant holds, whatever the server, the operator and the user do. *)
THEOREM SpecInv == Spec => []Inv
<1>1. Inv /\ [Next]_vars => Inv'
  BY OpensStep, EndsStep, VfoStep, TrxStep, AskStep, WorldStep DEF Next
<1>2. QED
  BY <1>1, InitInv, PTL DEF Spec

----------------------------------------------------------------------------
(* The properties                                                          *)

(* Type correctness for any transceivers and frequencies. *)
THEOREM SpecTypeOK == Spec => []TypeOK
<1>1. Inv => TypeOK
  BY DEF Inv
<1>2. QED
  BY <1>1, SpecInv, PTL

(* The panel shows the latched TRX's frequency in every connection anew, although the
   backend reports changes only and forgets what it reported only when it connects. *)
THEOREM SpecPanelShowsTrackedTrx == Spec => []PanelShowsTrackedTrx
<1>1. Inv => PanelShowsTrackedTrx
  BY DEF Inv, FlagsMatchSocket, WindowIsTold, TrackedIsShown, PanelShowsTrackedTrx
<1>2. QED
  BY <1>1, SpecInv, PTL

(* What the user ended stays ended: no timer is left that would connect again. *)
THEOREM SpecDisconnectSticks == Spec => []DisconnectSticks
<1>1. Inv => DisconnectSticks
  BY DEF Inv, FlagsMatchSocket, DisconnectSticks
<1>2. QED
  BY <1>1, SpecInv, PTL

(* A link that was ever begun is looked after: there is a socket that connects, is open
   or closes, a timer that will connect again, or the user's will that it be down. *)
Tended == socket # "closed" \/ timer \/ intentional

(* The safety behind LinkRecovers: no step of TciBackend (onDisconnected, onReconnectTimer,
   connectRadio, disconnectRadio) drops a link and forgets it. *)
THEOREM LinkIsNotForgotten == Spec => [][Tended => Tended']_vars
<1>1. Inv /\ [Next]_vars => [Tended => Tended']_vars
  <2> SUFFICES ASSUME Inv, Next, Tended PROVE Tended'
    OBVIOUS
  <2>1. CASE SocketFails \/ SocketCloses
    BY <2>1 DEF SocketFails, SocketCloses, OnClosed, Retry, Tended, Inv, TypeOK
  <2>2. CASE SocketOpens
    BY <2>2 DEF SocketOpens, Tended
  <2>3. CASE OnConnectTci \/ OnReconnectTimer
    BY <2>3 DEF OnConnectTci, OnReconnectTimer, ConnectRadio, Tended
  <2>4. CASE OnDisconnectRadio \/ Close
    BY <2>4 DEF OnDisconnectRadio, Close, DisconnectRadio, Tended
  <2>5. CASE \/ \E trx \in Trxs : OnVfo(trx) \/ OnTrx(trx) \/ RigChanges(trx)
             \/ \E freq \in Freqs : WsjtxStatus(freq)
             \/ ServerChanges
    BY <2>5 DEF OnVfo, OnTrx, RigChanges, WsjtxStatus, ServerChanges, backend, Tended
  <2>6. QED
    BY <2>1, <2>2, <2>3, <2>4, <2>5 DEF Next
<1>2. QED
  BY <1>1, SpecInv, PTL DEF Spec

----------------------------------------------------------------------------
(* The promise of RadioLink                                                *)

(* The end of a connection is one that RadioLink allows. *)
LEMMA EndsArePromised ==
  ASSUME Inv, SocketFails \/ SocketCloses
  PROVE  [Link!Next]_(Link!vars)
<1> USE DEF Inv
<1>1. /\ window' = window
      /\ \/ window /\ connected /\ OnDisconnected /\ heard' = 0
         \/ window /\ ~connected /\ OnError(FALSE) /\ heard' = heard
         \/ UNCHANGED <<panel, actions, heard>>
  BY DEF SocketFails, SocketCloses, Slot, shown, TypeOK
<1>2. CASE window /\ connected /\ OnDisconnected /\ heard' = 0
  <2>1. Link!Disconnected
    BY <1>1, <1>2, DisconnectedSlot DEF Link!Disconnected, WindowIsTold
  <2>2. QED
    BY <2>1 DEF Link!Next
<1>3. CASE window /\ ~connected /\ OnError(FALSE) /\ heard' = heard
  <2>1. Link!Refused
    BY <1>1, <1>3, ErrorSlot DEF Link!Refused, WindowIsTold
  <2>2. QED
    BY <2>1 DEF Link!Next
<1>4. CASE UNCHANGED <<panel, actions, heard>>
  BY <1>1, <1>4 DEF Link!vars
<1>5. QED
  BY <1>1, <1>2, <1>3, <1>4

(* A socket that opens is a connection, or the same one again. *)
LEMMA OpenIsPromised ==
  ASSUME Inv, SocketOpens
  PROVE  [Link!Next]_(Link!vars)
<1> USE DEF Inv
<1>1. /\ socket = "connecting" /\ window' = window
      /\ Slot(OnConnected, heard)
  BY DEF SocketOpens, OnOpen
<1>2. window
  BY <1>1 DEF FlagsMatchSocket, TypeOK
<1>3. OnConnected /\ heard' = heard
  BY <1>1, <1>2 DEF Slot
<1>4. CASE panel.connected
  <2>1. panel'.connected = panel.connected
    BY <1>3, <1>4, ConnectedSlot DEF TypeOK
  <2>2. actions'.connect = actions.connect
    BY <1>2, <1>3, <1>4, ConnectedSlot DEF WindowIsTold, TypeOK
  <2>3. QED
    BY <1>1, <1>3, <2>1, <2>2, ConnectedSlot DEF Link!vars
<1>5. CASE ~panel.connected
  <2>1. Link!Connected
    BY <1>1, <1>2, <1>3, <1>5, ConnectedSlot DEF Link!Connected
  <2>2. QED
    BY <2>1 DEF Link!Next
<1>6. QED
  BY <1>4, <1>5

(* What is read is reported to a connected window. *)
LEMMA ReadsArePromised ==
  ASSUME Inv, NEW trx \in Trxs, OnVfo(trx) \/ OnTrx(trx)
  PROVE  [Link!Next]_(Link!vars)
<1> USE DEF Inv
<1>1. /\ socket = "open" /\ window' = window
      /\ \/ /\ panel' = [panel EXCEPT !.freq = rig[trx].freq] /\ rig[trx].freq # 0
            /\ heard' = rig[trx].freq /\ actions' = actions
         \/ /\ panel' = [panel EXCEPT !.tx = rig[trx].tx]
            /\ UNCHANGED <<actions, heard>>
         \/ UNCHANGED <<panel, actions, heard>>
  BY DEF OnVfo, OnTrx, SetFrequency, SetTransmitting, shown
<1>2. /\ panel'.connected = panel.connected /\ panel'.tx \in BOOLEAN
      /\ heard' \in Freqs \cup {heard} /\ actions' = actions
  BY <1>1 DEF TypeOK
<1>3. window => panel.connected
  BY <1>1 DEF FlagsMatchSocket, WindowIsTold
<1>4. Link!Reported
  BY <1>1, <1>2, <1>3 DEF Link!Reported
<1>5. QED
  BY <1>4 DEF Link!Next

(* Socket, timer and server hidden, every behaviour of the backend is one that
   RadioLink allows; that a Connect is answered is liveness, left to the run. *)
THEOREM SpecStepsAreRadioLink == Spec => Link!Init /\ [][Link!Next]_(Link!vars)
<1>1. Init => Link!Init
  BY DEF Init, DarkPanel, IdleActions, Link!Init
<1>2. Inv /\ [Next]_vars => [Link!Next]_(Link!vars)
  <2>1. CASE Inv /\ (SocketOpens \/ SocketFails \/ SocketCloses)
    BY <2>1, OpenIsPromised, EndsArePromised
  <2>2. CASE Inv /\ \E trx \in Trxs : OnVfo(trx) \/ OnTrx(trx)
    BY <2>2, ReadsArePromised
  <2>3. CASE Inv /\ OnConnectTci
    <3>1. /\ window /\ actions.connect /\ actions' = [actions EXCEPT !.connect = FALSE]
          /\ UNCHANGED <<window, panel, heard>>
      BY <2>3 DEF OnConnectTci
    <3>2. actions'.connect = FALSE
      BY <2>3, <3>1 DEF Inv, TypeOK
    <3>3. Link!Ask
      BY <3>1, <3>2 DEF Link!Ask
    <3>4. QED
      BY <3>3 DEF Link!Next
  <2>4. CASE Close
    BY <2>4 DEF Close, shown, Link!Close, Link!Next
  <2>5. CASE Inv /\ \E freq \in Freqs : WsjtxStatus(freq)
    <3>1. PICK freq \in Freqs : WsjtxStatus(freq)
      BY <2>5
    <3>2. /\ panel' = [panel EXCEPT !.freq = freq]
          /\ UNCHANGED <<window, actions, heard>>
      BY <3>1 DEF WsjtxStatus, SetFrequency
    <3>3. panel'.connected = panel.connected /\ panel'.tx = panel.tx
      BY <2>5, <3>2 DEF Inv, TypeOK
    <3>4. QED
      BY <3>2, <3>3 DEF Link!vars
  <2>6. CASE \/ OnReconnectTimer \/ OnDisconnectRadio \/ ServerChanges
             \/ (\E trx \in Trxs : RigChanges(trx)) \/ UNCHANGED vars
    BY <2>6 DEF OnReconnectTimer, OnDisconnectRadio, ServerChanges, RigChanges, shown, vars, Link!vars
  <2>7. QED
    BY <2>1, <2>2, <2>3, <2>4, <2>5, <2>6 DEF Next
<1>3. QED
  BY <1>1, <1>2, SpecInv, PTL DEF Spec

----------------------------------------------------------------------------
(***************************************************************************)
(* TciLink is a backend of RadioDesk. While the window is open, every step *)
(* of the socket, the timer and the user is one that the desk makes with a *)
(* backend that retries and has no queue, or none that it sees.            *)
(***************************************************************************)

TCI == "TCI"

(* What the socket was last asked for and has not done. *)
SocketCalls ==
  IF socket = "connecting" THEN <<"connect">>
  ELSE IF socket = "closing" THEN <<"disconnect">> ELSE <<>>

Desk == INSTANCE RadioDesk
  WITH Backends <- {TCI}, Queued <- {}, Retrying <- {TCI}, Dials <- Freqs,
       Startups <- SUBSET {TCI}, MaxCalls <- 2,
       up <- [b \in {TCI} |-> connected], calls <- [b \in {TCI} |-> SocketCalls],
       retry <- [b \in {TCI} |-> timer], keyed <- [b \in {TCI} |-> last.tx],
       ended <- intentional

(* The slots are the same window's. *)
LEMMA SameSlots ==
  /\ Desk!DarkPanel = DarkPanel /\ Desk!IdleActions = IdleActions
  /\ Desk!OnConnected <=> OnConnected
  /\ Desk!OnDisconnected <=> OnDisconnected
  /\ Desk!OnError(FALSE) <=> OnError(FALSE)
  /\ \A freq : Desk!SetFrequency(freq) <=> SetFrequency(freq)
  /\ \A tx : Desk!SetTransmitting(tx) <=> SetTransmitting(tx)
BY DEF Desk!DarkPanel, DarkPanel, Desk!IdleActions, IdleActions, Desk!SetConnected, SetConnected,
       Desk!OnConnected, OnConnected, Desk!OnDisconnected, OnDisconnected, Desk!OnError, OnError,
       Desk!SetFrequency, SetFrequency, Desk!SetTransmitting, SetTransmitting

(* A connection of the only backend ends. *)
LEMMA DeskDrops ==
  ASSUME OnDisconnected, connected' = FALSE
  PROVE  Desk!Drop(TCI)
<1>1. Desk!WhenDisconnected(TCI)
  BY SameSlots DEF Desk!WhenDisconnected
<1>2. [b \in {TCI} |-> connected]' = [[b \in {TCI} |-> connected] EXCEPT ![TCI] = FALSE]
  OBVIOUS
<1>3. QED
  BY <1>1, <1>2 DEF Desk!Drop

(* The answer to the only call there is. *)
LEMMA DeskAnswers ==
  ASSUME socket \in {"connecting", "closing"}, socket' \in {"open", "closed"}
  PROVE  /\ Desk!Answered(TCI)
         /\ [b \in {TCI} |-> SocketCalls][TCI] # <<>>
         /\ Head([b \in {TCI} |-> SocketCalls][TCI]) =
              IF socket = "connecting" THEN "connect" ELSE "disconnect"
<1>1. SocketCalls = IF socket = "connecting" THEN <<"connect">> ELSE <<"disconnect">>
  BY DEF SocketCalls
<1>2. SocketCalls' = <<>>
  BY DEF SocketCalls
<1>3. SocketCalls # <<>> /\ Tail(SocketCalls) = <<>>
      /\ Head(SocketCalls) = IF socket = "connecting" THEN "connect" ELSE "disconnect"
  BY <1>1
<1>4. Desk!Answered(TCI)
  BY <1>2, <1>3 DEF Desk!Answered
<1>5. QED
  BY <1>3, <1>4

LEMMA EndIsDesks ==
  ASSUME Inv, window', SocketFails \/ SocketCloses
  PROVE  Desk!DeskNext
<1> USE DEF Inv
<1>1. /\ socket' = "closed" /\ connected' = FALSE /\ timer' = (timer \/ ~intentional)
      /\ UNCHANGED <<intentional, last, window>> /\ window
  BY DEF SocketFails, SocketCloses, OnClosed, Retry
<1>2. [b \in {TCI} |-> connected][TCI] = connected
  OBVIOUS
<1>3. CASE SocketFails
  <2>1. socket \in {"connecting", "open"} /\ ~intentional /\ timer' = TRUE
    BY <1>1, <1>3 DEF SocketFails, FlagsMatchSocket
  <2>2. Desk!Rearm(TCI)
    BY <2>1 DEF Desk!Rearm
  <2>3. CASE socket = "open"
    <3>1. connected /\ OnDisconnected
      BY <1>1, <1>3, <2>3 DEF FlagsMatchSocket, SocketFails, Slot
    <3>2. SocketCalls = <<>> /\ SocketCalls' = <<>>
      BY <1>1, <2>3 DEF SocketCalls
    <3>3. Desk!Loses(TCI)
      BY <1>1, <1>2, <2>2, <3>1, <3>2, DeskDrops DEF Desk!Loses
    <3>4. QED
      BY <3>3 DEF Desk!DeskNext
  <2>4. CASE socket = "connecting"
    <3>1. /\ Desk!Answered(TCI)
          /\ [b \in {TCI} |-> SocketCalls][TCI] # <<>>
          /\ Head([b \in {TCI} |-> SocketCalls][TCI]) = "connect"
      BY <1>1, <2>4, DeskAnswers
    <3>2. CASE connected
      <4>1. Desk!Drop(TCI)
        BY <1>1, <1>3, <3>2, DeskDrops DEF SocketFails, Slot
      <4>2. Desk!ConnectFails(TCI)
        BY <1>1, <1>2, <2>2, <3>1, <3>2, <4>1 DEF Desk!ConnectFails
      <4>3. QED
        BY <4>2 DEF Desk!DeskNext
    <3>3. CASE ~connected
      <4>1. OnError(FALSE)
        BY <1>1, <1>3, <3>3 DEF SocketFails, Slot
      <4>2. Desk!AnyRadioConnected = FALSE
        BY <3>3 DEF Desk!AnyRadioConnected
      <4>3. Desk!WhenRefused(TCI)
        BY <4>1, <4>2, SameSlots DEF Desk!WhenRefused
      <4>4. connected' = connected
        BY <1>1, <3>3 DEF TypeOK
      <4>5. Desk!ConnectFails(TCI)
        BY <1>1, <1>2, <2>2, <3>1, <3>3, <4>3, <4>4 DEF Desk!ConnectFails
      <4>6. QED
        BY <4>5 DEF Desk!DeskNext
    <3>4. QED
      BY <3>2, <3>3
  <2>5. QED
    BY <2>1, <2>3, <2>4
<1>4. CASE SocketCloses
  <2>1. socket = "closing" /\ intentional /\ timer' = timer
    BY <1>1, <1>4 DEF SocketCloses, FlagsMatchSocket, TypeOK
  <2>2. /\ Desk!Answered(TCI)
        /\ [b \in {TCI} |-> SocketCalls][TCI] # <<>>
        /\ Head([b \in {TCI} |-> SocketCalls][TCI]) = "disconnect"
    BY <1>1, <2>1, DeskAnswers
  <2>3. CASE connected
    <3>1. Desk!Drop(TCI)
      BY <1>1, <1>4, <2>3, DeskDrops DEF SocketCloses, Slot
    <3>2. Desk!Disconnects(TCI)
      BY <1>1, <1>2, <2>1, <2>2, <2>3, <3>1 DEF Desk!Disconnects
    <3>3. QED
      BY <3>2 DEF Desk!DeskNext
  <2>4. CASE ~connected
    <3>1. UNCHANGED <<panel, actions>> /\ connected' = connected
      BY <1>1, <1>4, <2>4 DEF SocketCloses, Slot, TypeOK
    <3>2. Desk!Disconnects(TCI)
      BY <1>1, <1>2, <2>1, <2>2, <2>4, <3>1 DEF Desk!Disconnects
    <3>3. QED
      BY <3>2 DEF Desk!DeskNext
  <2>5. QED
    BY <2>3, <2>4
<1>5. QED
  BY <1>3, <1>4

LEMMA OpenIsDesks ==
  ASSUME Inv, SocketOpens
  PROVE  Desk!DeskNext
<1>1. /\ socket = "connecting" /\ socket' = "open" /\ connected' = TRUE
      /\ UNCHANGED <<intentional, timer, last>>
      /\ window /\ OnConnected
  BY DEF SocketOpens, OnOpen, Slot, Inv, FlagsMatchSocket, TypeOK
<1>2. /\ Desk!Answered(TCI)
      /\ [b \in {TCI} |-> SocketCalls][TCI] # <<>>
      /\ Head([b \in {TCI} |-> SocketCalls][TCI]) = "connect"
  BY <1>1, DeskAnswers
<1>3. [b \in {TCI} |-> connected]' = [[b \in {TCI} |-> connected] EXCEPT ![TCI] = TRUE]
  BY <1>1
<1>4. Desk!ConnectSucceeds(TCI)
  BY <1>1, <1>2, <1>3, SameSlots DEF Desk!ConnectSucceeds
<1>5. QED
  BY <1>4 DEF Desk!DeskNext

(* A call replaces what the socket was doing. *)
LEMMA DeskCalls ==
  ASSUME NEW call \in {"connect", "disconnect"},
         socket' = IF call = "connect" THEN "connecting" ELSE "closing"
  PROVE  [b \in {TCI} |-> SocketCalls]' =
           [[b \in {TCI} |-> SocketCalls] EXCEPT ![TCI] = Desk!Called(TCI, call)]
<1>1. SocketCalls' = <<call>>
  BY DEF SocketCalls
<1>2. Desk!Called(TCI, call) = <<call>>
  BY DEF Desk!Called
<1>3. QED
  BY <1>1, <1>2

LEMMA AskIsDesks ==
  ASSUME Inv, window', OnConnectTci \/ OnDisconnectRadio \/ OnReconnectTimer
  PROVE  Desk!DeskNext
<1> USE DEF Inv
<1>1. Len([b \in {TCI} |-> SocketCalls][TCI]) < 2
  BY DEF SocketCalls
<1>2. CASE OnConnectTci
  <2>1. /\ actions.connect /\ actions' = [actions EXCEPT !.connect = FALSE]
        /\ socket' = "connecting" /\ intentional' = FALSE
        /\ UNCHANGED <<connected, timer, panel>> /\ last'.tx = last.tx
    BY <1>2 DEF OnConnectTci, ConnectRadio, Forgotten, TypeOK
  <2>2. Desk!OnConnect(TCI)
    BY <1>1, <2>1, DeskCalls DEF Desk!OnConnect
  <2>3. QED
    BY <2>2 DEF Desk!DeskNext
<1>3. CASE OnDisconnectRadio
  <2>1. /\ actions.disconnect /\ timer' = FALSE /\ intentional' = TRUE
        /\ UNCHANGED <<connected, last, panel, actions>>
    BY <1>3 DEF OnDisconnectRadio, DisconnectRadio, shown
  <2>2. socket # "closed" /\ socket' = "closing"
    BY <1>3 DEF OnDisconnectRadio, DisconnectRadio, WindowIsTold, FlagsMatchSocket
  <2>3. SocketCalls' = <<"disconnect">>
    BY <2>2 DEF SocketCalls
  <2>4. Desk!Called(TCI, "disconnect") = <<"disconnect">>
    BY DEF Desk!Called
  <2>5. [b \in {TCI} |-> SocketCalls]' =
          [b \in {TCI} |-> IF b \in Desk!ToDisconnect THEN Desk!Called(b, "disconnect")
                           ELSE [a \in {TCI} |-> SocketCalls][b]]
    BY <2>3, <2>4 DEF Desk!ToDisconnect
  <2>6. [b \in {TCI} |-> timer]' =
          [b \in {TCI} |-> [a \in {TCI} |-> timer][b] /\ b \notin Desk!ToDisconnect]
    BY <2>1 DEF Desk!ToDisconnect
  <2>7. Desk!OnDisconnectAll
    BY <1>1, <2>1, <2>5, <2>6 DEF Desk!OnDisconnectAll
  <2>8. QED
    BY <2>7 DEF Desk!DeskNext
<1>4. CASE OnReconnectTimer
  <2>1. timer /\ ~intentional
    BY <1>4 DEF OnReconnectTimer, FlagsMatchSocket, TypeOK
  <2>2. /\ timer' = FALSE /\ socket' = "connecting" /\ intentional' = intentional
        /\ UNCHANGED <<connected, panel, actions>> /\ last'.tx = last.tx
    BY <1>4, <2>1 DEF OnReconnectTimer, ConnectRadio, Forgotten, shown, TypeOK
  <2>3. Desk!ReconnectTimer(TCI)
    BY <2>1, <2>2, DeskCalls DEF Desk!ReconnectTimer
  <2>4. QED
    BY <2>3 DEF Desk!DeskNext
<1>5. QED
  BY <1>2, <1>3, <1>4

(* A reading is reported when it is a change, and otherwise nothing happens. *)
LEMMA ReadIsDesks ==
  ASSUME Inv, NEW trx \in Trxs, OnVfo(trx) \/ OnTrx(trx)
  PROVE  [Desk!DeskNext]_(Desk!deskVars)
<1> USE DEF Inv
<1>1. /\ socket = "open" /\ connected
      /\ UNCHANGED <<connected, intentional, timer, socket, actions>>
  BY DEF OnVfo, OnTrx, shown, FlagsMatchSocket
<1>2. SocketCalls = <<>> /\ SocketCalls' = SocketCalls
  BY <1>1 DEF SocketCalls
<1>3. \/ \E freq \in Freqs : SetFrequency(freq) /\ last'.tx = last.tx
      \/ SetTransmitting(~last.tx) /\ last'.tx = ~last.tx
      \/ UNCHANGED <<last, panel>>
  <2>1. CASE OnVfo(trx)
    BY <2>1 DEF OnVfo, TypeOK, shown
  <2>2. CASE OnTrx(trx)
    <3>1. rig[trx].tx \in BOOLEAN /\ last.tx \in BOOLEAN
      BY DEF TypeOK
    <3>2. rig[trx].tx # last.tx => rig[trx].tx = ~last.tx
      BY <3>1
    <3>3. QED
      BY <2>2, <3>2 DEF OnTrx, TypeOK, shown
  <2>3. QED
    BY <2>1, <2>2
<1>4. CASE \E freq \in Freqs : SetFrequency(freq) /\ last'.tx = last.tx
  <2>1. Desk!Reports(TCI)
    BY <1>1, <1>2, <1>4, SameSlots DEF Desk!Reports
  <2>2. QED
    BY <2>1 DEF Desk!DeskNext
<1>5. CASE SetTransmitting(~last.tx) /\ last'.tx = ~last.tx
  <2>1. Desk!Reports(TCI)
    BY <1>1, <1>2, <1>5, SameSlots DEF Desk!Reports
  <2>2. QED
    BY <2>1 DEF Desk!DeskNext
<1>6. CASE UNCHANGED <<last, panel>>
  BY <1>1, <1>2, <1>6 DEF Desk!deskVars, Desk!backends
<1>7. QED
  BY <1>3, <1>4, <1>5, <1>6

(* The TCI backend in detail is a backend of RadioDesk for as long as the window
   is open: until closeEvent, what it does to the panel and the actions, and
   when, is what the desk allows a backend that retries and has no queue. *)
THEOREM TciIsOfDesk == Spec => Desk!DeskInit /\ [][window' => Desk!DeskNext]_(Desk!deskVars)
<1>1. Init => Desk!DeskInit
  <2> SUFFICES ASSUME Init PROVE Desk!DeskInit
    OBVIOUS
  <2>1. PICK enabled \in SUBSET {TCI} : (socket = "connecting" <=> TCI \in enabled)
    <3>1. CASE socket = "connecting"
      BY <3>1
    <3>2. CASE socket # "connecting"
      <4>1. {} \in SUBSET {TCI} /\ TCI \notin {}
        OBVIOUS
      <4>2. QED
        BY <3>2, <4>1
    <3>3. QED
      BY <3>1, <3>2
  <2>2. [b \in {TCI} |-> SocketCalls] = [b \in {TCI} |-> IF b \in enabled THEN <<"connect">> ELSE <<>>]
    BY <2>1 DEF Init, SocketCalls
  <2>3. QED
    BY <2>2, SameSlots DEF Init, Desk!DeskInit
<1>2. Inv /\ [Next]_vars => [window' => Desk!DeskNext]_(Desk!deskVars)
  <2> SUFFICES ASSUME Inv, [Next]_vars, window' PROVE [Desk!DeskNext]_(Desk!deskVars)
    OBVIOUS
  <2>1. CASE SocketOpens \/ SocketFails \/ SocketCloses
    BY <2>1, OpenIsDesks, EndIsDesks
  <2>2. CASE \E trx \in Trxs : OnVfo(trx) \/ OnTrx(trx)
    BY <2>2, ReadIsDesks
  <2>3. CASE OnConnectTci \/ OnDisconnectRadio \/ OnReconnectTimer
    BY <2>3, AskIsDesks
  <2>4. CASE Close
    BY <2>4 DEF Close
  <2>5. CASE \E freq \in Freqs : WsjtxStatus(freq)
    <3>1. PICK freq \in Freqs : WsjtxStatus(freq)
      BY <2>5
    <3>2. /\ ~connected /\ SetFrequency(freq)
          /\ UNCHANGED <<connected, intentional, timer, last, socket, actions>>
      BY <3>1 DEF WsjtxStatus, backend
    <3>3. SocketCalls' = SocketCalls
      BY <3>2 DEF SocketCalls
    <3>4. Desk!OnRadioStatus
      BY <3>2, <3>3, SameSlots DEF Desk!OnRadioStatus, Desk!AnyRadioConnected, Desk!backends
    <3>5. QED
      BY <3>4 DEF Desk!DeskNext
  <2>6. CASE ServerChanges \/ (\E trx \in Trxs : RigChanges(trx)) \/ UNCHANGED vars
    <3>1. UNCHANGED <<connected, intentional, timer, last, socket, panel, actions>>
      BY <2>6 DEF ServerChanges, RigChanges, vars, backend, shown
    <3>2. SocketCalls' = SocketCalls
      BY <3>1 DEF SocketCalls
    <3>3. QED
      BY <3>1, <3>2 DEF Desk!deskVars, Desk!backends
  <2>7. QED
    BY <2>1, <2>2, <2>3, <2>4, <2>5, <2>6 DEF Next
<1>3. QED
  BY <1>1, <1>2, SpecInv, PTL DEF Spec

=============================================================================
