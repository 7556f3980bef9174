------------------------- MODULE HamlibLink_proofs -------------------------
(***************************************************************************)
(* Proofs about HamlibLink, for any frequencies and any queue lengths.     *)
(*                                                                         *)
(* The argument: the signals under way are, in order, the steps that lead  *)
(* from what the GUI thread was told of the connection to what the worker  *)
(* knows of it now. Delivering the first, or emitting one more, keeps      *)
(* that; an empty queue then means that both sides agree.                  *)
(***************************************************************************)
EXTENDS HamlibLink, TLAPS

(* The signal s may follow when the connection stands as in before. *)
Leads(before, s) ==
  /\ s.kind = "connected" => ~before.up /\ s.after = [up |-> TRUE, freq |-> 0]
  /\ s.kind = "disconnected" => before.up /\ s.after = Down
  /\ s.kind = "error" => s.after = before
  /\ s.kind = "freq" => before.up /\ s.after.up /\ s.after.freq \in Freqs
  /\ s.kind = "tx" => before.up /\ s.after = before

(* q leads, signal by signal, from told to knows. *)
Chain(told, q, knows) ==
  /\ \A i \in 1..Len(q) : Leads(IF i = 1 THEN told ELSE q[i - 1].after, q[i])
  /\ knows = IF q = <<>> THEN told ELSE q[Len(q)].after

(* Cut off from the window, the signals still start somewhere. *)
SignalsLeadToWorker ==
  \E told \in Picture : Chain(told, signals, Knows) /\ (window = "open" => told = Told)

PanelIsTold ==
  window = "open" =>
    /\ panel.connected = backendUp
    /\ ~backendUp => heard = 0
    /\ heard # 0 => panel.freq = heard

TxNeedsConnection == window = "open" /\ panel.tx => panel.connected

(* A disabled Connect action waits for a call or a signal that will enable it. *)
ConnectIsAwaited ==
  window = "open" =>
    /\ actions.disconnect = backendUp
    /\ backendUp => ~actions.connect
    /\ ~backendUp /\ ~actions.connect =>
         signals # <<>> \/ \E i \in 1..Len(calls) : calls[i] = "connect"

(* The last call that a blocked GUI thread waits for closes the rig. *)
LastCallDisconnects ==
  /\ window = "blocked" =>
       IF calls = <<>> THEN ~workerUp ELSE calls[Len(calls)] = "disconnect"
  /\ window = "gone" => calls = <<>> /\ ~workerUp

(* A worker that has counted to the limit has given the rig up. *)
GivesUpInTime == workerUp => failures < kMaxConsecutiveFailures

Inv ==
  /\ TypeOK
  /\ GivesUpInTime
  /\ SignalsLeadToWorker
  /\ PanelIsTold
  /\ TxNeedsConnection
  /\ ConnectIsAwaited
  /\ LastCallDisconnects

----------------------------------------------------------------------------
(* Lemmas about chains of signals                                          *)

(* One more signal that may follow makes a chain that leads to it. *)
LEMMA ChainGrows ==
  ASSUME NEW told, NEW knows, NEW q \in Seq(Signal), NEW s \in Signal,
         Chain(told, q, knows), Leads(knows, s)
  PROVE  Chain(told, q \o <<s>>, s.after) /\ q \o <<s>> \in Seq(Signal)
<1> DEFINE r == q \o <<s>>
<1>1. /\ Len(q) \in Nat /\ Len(r) = Len(q) + 1 /\ r # <<>>
      /\ \A i \in 1..Len(q) : r[i] = q[i]
      /\ r[Len(q) + 1] = s
  OBVIOUS
<1>2. ASSUME NEW i \in 1..Len(r)
      PROVE  Leads(IF i = 1 THEN told ELSE r[i - 1].after, r[i])
  <2>1. CASE i \in 1..Len(q)
    <3>1. i # 1 => i - 1 \in 1..Len(q)
      BY <1>1, <2>1
    <3>2. r[i] = q[i] /\ (i # 1 => r[i - 1] = q[i - 1])
      BY <1>1, <2>1, <3>1
    <3>3. Leads(IF i = 1 THEN told ELSE q[i - 1].after, q[i])
      BY <2>1 DEF Chain
    <3>4. QED
      BY <3>2, <3>3
  <2>2. CASE i = Len(q) + 1
    <3>1. r[i] = s
      BY <1>1, <2>2
    <3>2. knows = IF i = 1 THEN told ELSE r[i - 1].after
      <4>1. CASE q = <<>>
        BY <2>2, <4>1 DEF Chain
      <4>2. CASE q # <<>>
        <5>1. Len(q) \in 1..Len(q) /\ i # 1 /\ i - 1 = Len(q)
          BY <1>1, <2>2, <4>2
        <5>2. r[i - 1] = q[Len(q)]
          BY <1>1, <5>1
        <5>3. QED
          BY <4>2, <5>1, <5>2 DEF Chain
      <4>3. QED
        BY <4>1, <4>2
    <3>3. QED
      BY <3>1, <3>2
  <2>3. QED
    BY <1>1, <2>1, <2>2
<1>3. Chain(told, r, s.after)
  BY <1>1, <1>2 DEF Chain
<1>4. r \in Seq(Signal)
  OBVIOUS
<1>5. QED
  BY <1>3, <1>4

(* The first signal may follow what was told, and the rest is a chain from it. *)
LEMMA ChainShrinks ==
  ASSUME NEW told, NEW knows, NEW q \in Seq(Signal), q # <<>>, Chain(told, q, knows)
  PROVE  Leads(told, Head(q)) /\ Chain(Head(q).after, Tail(q), knows)
<1> DEFINE r == Tail(q)
<1>1. /\ Len(q) \in Nat \ {0} /\ Len(r) = Len(q) - 1 /\ Head(q) = q[1]
      /\ \A i \in 1..Len(r) : r[i] = q[i + 1]
      /\ r = <<>> <=> Len(q) = 1
  <2>1. Len(q) \in Nat \ {0} /\ Head(q) = q[1]
    OBVIOUS
  <2>2. r \in Seq(Signal) /\ Len(r) = Len(q) - 1
    BY <2>1
  <2>3. \A i \in 1..Len(r) : r[i] = q[i + 1]
    BY <2>1, <2>2
  <2>4. r = <<>> <=> Len(q) = 1
    BY <2>1, <2>2
  <2>5. QED
    BY <2>1, <2>2, <2>3, <2>4
<1>2. Leads(told, Head(q))
  BY <1>1 DEF Chain
<1>3. ASSUME NEW i \in 1..Len(r)
      PROVE  Leads(IF i = 1 THEN Head(q).after ELSE r[i - 1].after, r[i])
  <2>1. i + 1 \in 1..Len(q) /\ i + 1 # 1 /\ (i + 1) - 1 = i /\ r[i] = q[i + 1]
    BY <1>1
  <2>2. Leads(q[i].after, q[i + 1])
    BY <2>1 DEF Chain
  <2>3. q[i] = IF i = 1 THEN Head(q) ELSE r[i - 1]
    <3>1. i # 1 => i - 1 \in 1..Len(r) /\ (i - 1) + 1 = i
      BY <1>1
    <3>2. QED
      BY <1>1, <3>1
  <2>4. QED
    BY <2>1, <2>2, <2>3
<1>4. knows = IF r = <<>> THEN Head(q).after ELSE r[Len(r)].after
  <2>1. knows = q[Len(q)].after
    BY DEF Chain
  <2>2. CASE r = <<>>
    BY <1>1, <2>1, <2>2
  <2>3. CASE r # <<>>
    <3>1. Len(r) \in 1..Len(r) /\ Len(r) + 1 = Len(q)
      BY <1>1, <2>3
    <3>2. QED
      BY <1>1, <2>1, <2>3, <3>1
  <2>4. QED
    BY <2>2, <2>3
<1>5. QED
  BY <1>2, <1>3, <1>4 DEF Chain


----------------------------------------------------------------------------
(* What the worker emits                                                   *)

(* A picture of the connection is well formed. *)
LEMMA PictureType ==
  ASSUME TypeOK
  PROVE  Knows \in Picture /\ Down \in Picture
BY DEF TypeOK, Knows, Down, Picture

(* doDisconnect leads to a closed connection. *)
LEMMA DisconnectionLeadsDown ==
  ASSUME TypeOK, NEW told, NEW q \in Seq(Signal), Chain(told, q, Knows)
  PROVE  Chain(told, q \o Disconnection, Down) /\ q \o Disconnection \in Seq(Signal)
<1>1. CASE workerUp
  <2> DEFINE s == Emitted("disconnected", FALSE, Down)
  <2>1. s \in Signal /\ s.after = Down
    BY PictureType DEF Signal, Emitted
  <2>2. Leads(Knows, s)
    BY <1>1 DEF Leads, Knows, Emitted
  <2>3. Chain(told, q \o <<s>>, s.after) /\ q \o <<s>> \in Seq(Signal)
    BY <2>1, <2>2, ChainGrows
  <2>4. Disconnection = <<s>>
    BY <1>1 DEF Disconnection
  <2>5. QED
    BY <2>1, <2>3, <2>4
<1>2. CASE ~workerUp
  <2>1. q \o Disconnection = q /\ Knows = Down
    BY <1>2 DEF Disconnection, Knows
  <2>2. QED
    BY <2>1
<1>3. QED
  BY <1>1, <1>2 DEF TypeOK

(* A call that the worker runs leads to what it knows afterwards. *)
LEMMA CallLeads ==
  ASSUME TypeOK, NEW told, Chain(told, signals, Knows), DoConnect \/ DoDisconnect
  PROVE  Chain(told, signals', Knows') /\ signals' \in Seq(Signal)
<1> DEFINE down == signals \o Disconnection
<1>1. Chain(told, down, Down) /\ down \in Seq(Signal)
  BY DisconnectionLeadsDown DEF TypeOK
<1>2. CASE DoDisconnect
  BY <1>1, <1>2 DEF DoDisconnect, Knows
<1>3. ASSUME NEW s \in Signal, Leads(Down, s), signals' = down \o <<s>>, Knows' = s.after
      PROVE  Chain(told, signals', Knows') /\ signals' \in Seq(Signal)
  BY <1>1, <1>3, ChainGrows
<1>4. CASE DoConnect
  <2>1. CASE workerUp'
    <3> DEFINE s == Emitted("connected", FALSE, [up |-> TRUE, freq |-> 0])
    <3>1. s \in Signal /\ Leads(Down, s)
      BY DEF Signal, Emitted, Leads, Down, Picture
    <3>2. signals' = down \o <<s>> /\ Knows' = s.after
      BY <1>4, <2>1 DEF DoConnect, Knows, Emitted, Opened, TypeOK
    <3>3. QED
      BY <1>3, <3>1, <3>2
  <2>2. CASE ~workerUp'
    <3> DEFINE s == Emitted("error", FALSE, Down)
    <3>1. s \in Signal /\ Leads(Down, s)
      BY DEF Signal, Emitted, Leads, Down, Picture
    <3>2. signals' = down \o <<s>> /\ Knows' = s.after
      BY <1>4, <2>2 DEF DoConnect, Knows, Emitted
    <3>3. QED
      BY <1>3, <3>1, <3>2
  <2>3. QED
    BY <1>4, <2>1, <2>2 DEF DoConnect
<1>5. QED
  BY <1>2, <1>4

(* So does a poll. *)
LEMMA PollLeads ==
  ASSUME TypeOK, NEW told, Chain(told, signals, Knows), workerUp, PollAnswered \/ PollFailed
  PROVE  Chain(told, signals', Knows') /\ signals' \in Seq(Signal)
<1>1. signals \in Seq(Signal) /\ Knows = [up |-> TRUE, freq |-> last.freq]
  BY DEF TypeOK, Knows
<1>2. CASE PollAnswered
  <2>1. PICK ok \in SUBSET {"freq", "mode", "tx"} :
          /\ last' = [freq |-> ReadFreq(ok), tx |-> ReadPtt(ok)]
          /\ signals' = signals \o FreqChange(ReadFreq(ok)) \o PttChange(ReadFreq(ok), ReadPtt(ok))
          /\ workerUp' = workerUp
    BY <1>2 DEF PollAnswered
  <2> DEFINE freq == ReadFreq(ok)
             tx   == ReadPtt(ok)
             read == [up |-> TRUE, freq |-> freq]
             q    == signals \o FreqChange(freq)
  <2>2. freq \in Freqs \cup {0} /\ tx \in BOOLEAN /\ read \in Picture
    BY DEF TypeOK, ReadFreq, ReadPtt, Picture
  <2>3. Chain(told, q, read) /\ q \in Seq(Signal)
    <3>1. CASE freq # last.freq
      <4> DEFINE s == Emitted("freq", FALSE, read)
      <4>1. freq \in Freqs
        BY <3>1 DEF ReadFreq, TypeOK
      <4>2. s \in Signal /\ Leads(Knows, s) /\ s.after = read
        BY <1>1, <2>2, <4>1 DEF Signal, Emitted, Leads
      <4>3. q = signals \o <<s>>
        BY <3>1 DEF FreqChange
      <4>4. QED
        BY <1>1, <4>2, <4>3, ChainGrows
    <3>2. CASE freq = last.freq
      <4>1. q = signals /\ read = Knows
        BY <1>1, <3>2 DEF FreqChange
      <4>2. QED
        BY <1>1, <4>1
    <3>3. QED
      BY <3>1, <3>2
  <2>4. Knows' = read
    BY <2>1 DEF Knows
  <2>5. signals' = q \o PttChange(freq, tx)
    BY <2>1
  <2>6. read = [up |-> TRUE, freq |-> freq]
    OBVIOUS
  <2> HIDE DEF q, read, freq, tx
  <2>7. CASE tx # last.tx
    <3> DEFINE s == Emitted("tx", tx, read)
    <3>1. s \in Signal /\ Leads(read, s) /\ s.after = read
      BY <2>6, <2>2 DEF Signal, Emitted, Leads
    <3>2. signals' = q \o <<s>>
      BY <2>6, <2>5, <2>7 DEF PttChange
    <3>3. Chain(told, q \o <<s>>, s.after) /\ q \o <<s>> \in Seq(Signal)
      BY <2>3, <3>1, ChainGrows
    <3>4. QED
      BY <2>4, <3>1, <3>2, <3>3
  <2>8. CASE tx = last.tx
    <3>1. signals' = q
      BY <2>3, <2>5, <2>8 DEF PttChange
    <3>2. QED
      BY <2>3, <2>4, <3>1
  <2>9. QED
    BY <2>7, <2>8
<1>3. CASE PollFailed
  <2>1. CASE UNCHANGED <<workerUp, last, signals>>
    BY <1>1, <2>1 DEF Knows
  <2>2. CASE workerUp' = FALSE
    <3> DEFINE s == Emitted("error", FALSE, Knows)
               q == signals \o <<s>>
    <3>1. s \in Signal /\ Leads(Knows, s) /\ s.after = Knows
      BY PictureType DEF Signal, Emitted, Leads
    <3>2. Chain(told, q, Knows) /\ q \in Seq(Signal)
      BY <1>1, <3>1, ChainGrows
    <3>3. Chain(told, q \o Disconnection, Down) /\ q \o Disconnection \in Seq(Signal)
      BY <3>2, DisconnectionLeadsDown
    <3>4. signals' = q \o Disconnection /\ Knows' = Down
      BY <1>3, <2>2 DEF PollFailed, Knows
    <3>5. QED
      BY <3>3, <3>4
  <2>3. QED
    BY <1>3, <2>1, <2>2 DEF PollFailed
<1>4. QED
  BY <1>2, <1>3

----------------------------------------------------------------------------
(* The invariant                                                           *)

(* A worker step keeps the signals a chain, and their type. *)
LEMMA WorkerKeepsChain ==
  ASSUME Inv, RunCall \/ Poll
  PROVE  signals' \in Seq(Signal) /\ SignalsLeadToWorker'
<1>1. PICK told \in Picture : Chain(told, signals, Knows) /\ (window = "open" => told = Told)
  BY DEF Inv, SignalsLeadToWorker
<1>2. Chain(told, signals', Knows') /\ signals' \in Seq(Signal)
  <2>1. CASE RunCall
    BY <1>1, <2>1, CallLeads DEF RunCall, Inv
  <2>2. CASE Poll
    BY <1>1, <2>2, PollLeads DEF Poll, Inv
  <2>3. QED
    BY <2>1, <2>2
<1>3. window' = "open" => told = Told'
  BY <1>1 DEF RunCall, Poll, gui, Told
<1>4. QED
  BY <1>2, <1>3 DEF SignalsLeadToWorker

(* The steps that leave the worker and its signals alone. *)
LEMMA OthersKeepChain ==
  ASSUME Inv, UNCHANGED <<signals, worker>>, window' = "open" => UNCHANGED <<window, backendUp, heard>>
  PROVE  signals' \in Seq(Signal) /\ SignalsLeadToWorker'
BY DEF Inv, TypeOK, SignalsLeadToWorker, Told, Knows, worker

(* What delivering a signal does to what the GUI thread was told. *)
LEMMA DeliverTells ==
  ASSUME TypeOK, Deliver, window = "open", Leads(Told, Head(signals)), Head(signals) \in Signal
  PROVE  Told' = Head(signals).after
<1> DEFINE s == Head(signals)
<1>1. s.after = [up |-> s.after.up, freq |-> s.after.freq] /\ s.after.up \in BOOLEAN
  BY DEF Signal, Picture
<1>2. CASE s.kind = "connected"
  BY <1>2 DEF Deliver, Slot, Leads, Told
<1>3. CASE s.kind = "disconnected"
  BY <1>3 DEF Deliver, Slot, Leads, Told, Down
<1>4. CASE s.kind = "error"
  BY <1>4 DEF Deliver, Slot, Leads, Told
<1>5. CASE s.kind = "freq"
  <2>1. backendUp' = backendUp /\ heard' = s.after.freq
    BY <1>5 DEF Deliver
  <2>2. backendUp = TRUE /\ s.after.up = TRUE
    BY <1>1, <1>5 DEF Leads, Told, TypeOK
  <2>3. QED
    BY <1>1, <2>1, <2>2 DEF Told
<1>6. CASE s.kind = "tx"
  BY <1>6 DEF Deliver, Leads, Told
<1>7. QED
  BY <1>2, <1>3, <1>4, <1>5, <1>6 DEF Signal

(* Delivering the first signal keeps the rest a chain. *)
LEMMA DeliverKeepsChain ==
  ASSUME Inv, Deliver
  PROVE  /\ signals' \in Seq(Signal)
         /\ SignalsLeadToWorker'
         /\ \E told \in Picture : Leads(told, Head(signals)) /\ (window = "open" => told = Told)
<1>1. signals \in Seq(Signal) /\ signals # <<>> /\ signals' = Tail(signals)
  BY DEF Inv, TypeOK, Deliver
<1>2. signals' \in Seq(Signal) /\ Head(signals) \in Signal
  BY <1>1
<1>3. PICK told \in Picture : Chain(told, signals, Knows) /\ (window = "open" => told = Told)
  BY DEF Inv, SignalsLeadToWorker
<1>4. Leads(told, Head(signals)) /\ Chain(Head(signals).after, Tail(signals), Knows)
  BY <1>1, <1>3, ChainShrinks
<1>5. Knows' = Knows /\ Head(signals).after \in Picture
  BY <1>2 DEF Deliver, Knows, worker, Signal
<1>6. window' = "open" => Head(signals).after = Told'
  <2>1. window' = window
    BY DEF Deliver
  <2>2. QED
    BY <1>2, <1>3, <1>4, <2>1, DeliverTells DEF Inv
<1>7. QED
  BY <1>1, <1>2, <1>3, <1>4, <1>5, <1>6 DEF SignalsLeadToWorker

(* One call more, or one call less, leaves the queue of calls typed. *)
LEMMA CallsType ==
  ASSUME NEW q \in Seq({"connect", "disconnect"}), NEW c \in {"connect", "disconnect"}
  PROVE  /\ Append(q, c) \in Seq({"connect", "disconnect"})
         /\ Append(q, c) # <<>> /\ Append(q, c)[Len(Append(q, c))] = c
         /\ \A i \in 1..Len(q) : Append(q, c)[i] = q[i] /\ i \in 1..Len(Append(q, c))
OBVIOUS

LEMMA CallsTail ==
  ASSUME NEW q \in Seq({"connect", "disconnect"}), q # <<>>
  PROVE  /\ Tail(q) \in Seq({"connect", "disconnect"})
         /\ Tail(q) = <<>> => q[Len(q)] = Head(q)
         /\ Tail(q) # <<>> => Tail(q)[Len(Tail(q))] = q[Len(q)]
         /\ \A i \in 1..Len(q) : q[i] = Head(q) \/ (i - 1 \in 1..Len(Tail(q)) /\ Tail(q)[i - 1] = q[i])
<1>1. /\ Tail(q) \in Seq({"connect", "disconnect"})
      /\ Len(q) \in Nat \ {0} /\ Len(Tail(q)) = Len(q) - 1 /\ Head(q) = q[1]
  OBVIOUS
<1>2. \A i \in 1..Len(Tail(q)) : Tail(q)[i] = q[i + 1]
  BY <1>1
<1>3. Tail(q) = <<>> => Len(q) = 1
  BY <1>1
<1>4. Tail(q) # <<>> => Len(Tail(q)) \in 1..Len(Tail(q))
  BY <1>1
<1>5. \A i \in 1..Len(q) : i = 1 \/ (i - 1 \in 1..Len(Tail(q)) /\ (i - 1) + 1 = i)
  BY <1>1
<1>6. QED
  BY <1>1, <1>2, <1>3, <1>4, <1>5

(* Sequences of signals. *)
LEMMA SignalSeqs ==
  /\ <<>> \in Seq(Signal)
  /\ \A s \in Signal : <<s>> \in Seq(Signal) /\ Len(<<s>>) = 1
  /\ \A q \in Seq(Signal) : Len(q) \in Nat /\ (Len(q) = 0 <=> q = <<>>)
  /\ \A q, r \in Seq(Signal) : q \o r \in Seq(Signal) /\ Len(q \o r) = Len(q) + Len(r)
OBVIOUS

(* The worker takes no signal back, and answers every connect. *)
LEMMA SignalsGrow ==
  ASSUME TypeOK, RunCall \/ Poll
  PROVE  /\ signals # <<>> => signals' # <<>>
         /\ RunCall /\ Head(calls) = "connect" => signals' # <<>>
<1>1. signals \in Seq(Signal)
  BY DEF TypeOK
<1>2. Disconnection \in Seq(Signal)
  <2>1. Emitted("disconnected", FALSE, Down) \in Signal
    BY DEF Emitted, Signal, Down, Picture
  <2>2. QED
    BY <2>1, SignalSeqs DEF Disconnection
<1>3. CASE RunCall
  <2> DEFINE q == signals \o Disconnection
  <2>1. q \in Seq(Signal) /\ Len(q) >= Len(signals)
    BY <1>1, <1>2, SignalSeqs
  <2>2. /\ Emitted("connected", FALSE, [up |-> TRUE, freq |-> 0]) \in Signal
        /\ Emitted("error", FALSE, Down) \in Signal
    BY DEF Emitted, Signal, Down, Picture
  <2>3. \A s \in Signal : q \o <<s>> # <<>>
    <3>1. SUFFICES ASSUME NEW s \in Signal PROVE q \o <<s>> # <<>>
      OBVIOUS
    <3>2. <<s>> \in Seq(Signal) /\ Len(<<s>>) = 1
      BY SignalSeqs
    <3>3. q \o <<s>> \in Seq(Signal) /\ Len(q \o <<s>>) = Len(q) + 1
      BY <2>1, <3>2, SignalSeqs
    <3>4. QED
      BY <2>1, <3>3, SignalSeqs
  <2>4. CASE Head(calls) = "connect"
    <3> HIDE DEF q
    <3>1. \/ signals' = q \o <<Emitted("connected", FALSE, [up |-> TRUE, freq |-> 0])>>
          \/ signals' = q \o <<Emitted("error", FALSE, Down)>>
      BY <1>3, <2>4 DEF RunCall, DoConnect, q
    <3>2. QED
      BY <2>2, <2>3, <3>1
  <2>5. CASE Head(calls) # "connect"
    <3>1. signals' = q
      BY <1>3, <2>5 DEF RunCall, DoDisconnect
    <3>2. signals # <<>> => q # <<>>
      BY <1>1, <2>1, SignalSeqs
    <3>3. QED
      BY <2>5, <3>1, <3>2
  <2>6. QED
    BY <2>4, <2>5
<1>4. CASE Poll /\ PollAnswered
  <2>1. PICK ok : signals' = signals \o FreqChange(ReadFreq(ok)) \o PttChange(ReadFreq(ok), ReadPtt(ok))
    BY <1>4 DEF PollAnswered
  <2> DEFINE f == FreqChange(ReadFreq(ok))
             t == PttChange(ReadFreq(ok), ReadPtt(ok))
  <2>2. ReadFreq(ok) \in Freqs \cup {0} /\ ReadPtt(ok) \in BOOLEAN
    BY DEF ReadFreq, ReadPtt, TypeOK
  <2>3. f \in Seq(Signal)
    <3>1. Emitted("freq", FALSE, [up |-> TRUE, freq |-> ReadFreq(ok)]) \in Signal
      BY <2>2 DEF Emitted, Signal, Picture
    <3>2. QED
      BY <3>1, SignalSeqs DEF FreqChange
  <2>4. t \in Seq(Signal)
    <3>1. Emitted("tx", ReadPtt(ok), [up |-> TRUE, freq |-> ReadFreq(ok)]) \in Signal
      BY <2>2 DEF Emitted, Signal, Picture
    <3>2. QED
      BY <3>1, SignalSeqs DEF PttChange
  <2>5. signals' = signals \o f \o t
    BY <2>1
  <2> HIDE DEF f, t
  <2>6. signals \o f \in Seq(Signal) /\ Len(signals \o f) >= Len(signals)
    BY <1>1, <2>3, SignalSeqs
  <2>7. signals' \in Seq(Signal) /\ Len(signals') >= Len(signals)
    BY <1>1, <2>4, <2>5, <2>6, SignalSeqs
  <2>8. signals # <<>> => signals' # <<>>
    BY <1>1, <2>7, SignalSeqs
  <2>9. ~RunCall
    BY <1>4 DEF RunCall, Poll, TypeOK
  <2>10. QED
    BY <2>8, <2>9
<1>5. CASE Poll /\ PollFailed
  <2> DEFINE e == <<Emitted("error", FALSE, Knows)>>
  <2>1. e \in Seq(Signal)
    <3>1. Emitted("error", FALSE, Knows) \in Signal
      BY PictureType DEF Emitted, Signal
    <3>2. QED
      BY <3>1, SignalSeqs
  <2>2. signals' = signals \/ signals' = signals \o e \o Disconnection
    BY <1>5 DEF PollFailed
  <2> HIDE DEF e
  <2>3. signals \o e \in Seq(Signal) /\ Len(signals \o e) >= Len(signals)
    BY <1>1, <2>1, SignalSeqs
  <2>4. signals' \in Seq(Signal) /\ Len(signals') >= Len(signals)
    <3>1. Len(signals) \in Nat /\ Len(Disconnection) \in Nat /\ Len(signals \o e) \in Nat
      BY <1>1, <1>2, <2>3, SignalSeqs
    <3>2. signals \o e \o Disconnection \in Seq(Signal)
          /\ Len(signals \o e \o Disconnection) = Len(signals \o e) + Len(Disconnection)
      BY <1>2, <2>3, SignalSeqs
    <3>3. CASE signals' = signals
      BY <1>1, <3>1, <3>3
    <3>4. CASE signals' = signals \o e \o Disconnection
      BY <2>3, <3>1, <3>2, <3>4
    <3>5. QED
      BY <2>2, <3>3, <3>4
  <2>5. signals # <<>> => signals' # <<>>
    BY <1>1, <2>4, SignalSeqs
  <2>6. ~RunCall
    BY <1>5 DEF RunCall, Poll, TypeOK
  <2>7. QED
    BY <2>5, <2>6
<1>6. QED
  BY <1>3, <1>4, <1>5 DEF Poll

(* What the worker thread does. *)
LEMMA WorkerStep ==
  ASSUME Inv, RunCall \/ Poll
  PROVE  Inv'
<1> USE DEF Inv
<1>1. signals' \in Seq(Signal) /\ SignalsLeadToWorker'
  BY WorkerKeepsChain
<1>2. UNCHANGED gui /\ UNCHANGED rig
  BY DEF RunCall, Poll
<1>3. TypeOK' /\ GivesUpInTime'
  <2>1. /\ workerUp' \in BOOLEAN /\ failures' \in 0..kMaxConsecutiveFailures
        /\ last' \in [freq : Freqs \cup {0}, tx : BOOLEAN]
        /\ GivesUpInTime'
    <3>1. CASE RunCall
      <4>1. \/ workerUp' = TRUE /\ last' = Opened /\ failures' = 0
            \/ workerUp' = FALSE /\ last' = last /\ failures' = failures
        BY <3>1 DEF RunCall, DoConnect, DoDisconnect
      <4>2. workerUp' \in BOOLEAN
        BY <4>1 DEF TypeOK
      <4>3. last' \in [freq : Freqs \cup {0}, tx : BOOLEAN]
        BY <4>1 DEF Opened, TypeOK
      <4>4. failures' \in 0..kMaxConsecutiveFailures /\ GivesUpInTime'
        BY <4>1 DEF GivesUpInTime, TypeOK, kMaxConsecutiveFailures
      <4>5. QED
        BY <4>2, <4>3, <4>4
    <3>2. CASE Poll /\ PollAnswered
      <4>1. PICK ok : /\ last' = [freq |-> ReadFreq(ok), tx |-> ReadPtt(ok)]
                      /\ failures' = 0 /\ workerUp' = workerUp
        BY <3>2 DEF PollAnswered
      <4>2. workerUp' \in BOOLEAN
        BY <4>1 DEF TypeOK
      <4>3. last' \in [freq : Freqs \cup {0}, tx : BOOLEAN]
        BY <4>1 DEF ReadFreq, ReadPtt, TypeOK
      <4>4. failures' \in 0..kMaxConsecutiveFailures /\ GivesUpInTime'
        BY <4>1 DEF GivesUpInTime, TypeOK, kMaxConsecutiveFailures
      <4>5. QED
        BY <4>2, <4>3, <4>4
    <3>3. CASE Poll /\ PollFailed
      <4>1. /\ workerUp /\ failures' = failures + 1 /\ last' = last
            /\ \/ failures + 1 < kMaxConsecutiveFailures /\ workerUp' = workerUp
               \/ workerUp' = FALSE
        BY <3>3 DEF Poll, PollFailed
      <4>2. workerUp' \in BOOLEAN
        BY <4>1 DEF TypeOK
      <4>3. last' \in [freq : Freqs \cup {0}, tx : BOOLEAN]
        BY <4>1 DEF TypeOK
      <4>4. failures < kMaxConsecutiveFailures /\ failures \in 0..kMaxConsecutiveFailures
        BY <4>1 DEF GivesUpInTime, TypeOK
      <4>5. failures' \in 0..kMaxConsecutiveFailures
        BY <4>1, <4>4 DEF kMaxConsecutiveFailures
      <4>6. GivesUpInTime'
        BY <3>3, <4>1 DEF PollFailed, GivesUpInTime
      <4>7. QED
        BY <4>2, <4>3, <4>5, <4>6
    <3>4. QED
      BY <3>1, <3>2, <3>3 DEF Poll
  <2>2. calls' \in Seq({"connect", "disconnect"})
    <3>1. CASE RunCall
      BY <3>1, CallsTail DEF RunCall, TypeOK
    <3>2. CASE Poll
      BY <3>2 DEF Poll, TypeOK
    <3>3. QED
      BY <3>1, <3>2
  <2>3. QED
    BY <1>1, <1>2, <2>1, <2>2 DEF TypeOK, gui
<1>4. PanelIsTold' /\ TxNeedsConnection'
  BY <1>2 DEF PanelIsTold, TxNeedsConnection, gui
<1>5. ConnectIsAwaited'
  <2>1. CASE Poll
    BY <1>2, <2>1, SignalsGrow DEF Poll, ConnectIsAwaited, gui
  <2>2. CASE RunCall
    <3>1. calls # <<>> /\ calls' = Tail(calls)
      BY <2>2 DEF RunCall
    <3>2. QED
      BY <1>2, <2>2, <3>1, SignalsGrow, CallsTail DEF ConnectIsAwaited, gui, TypeOK
  <2>3. QED
    BY <2>1, <2>2
<1>6. LastCallDisconnects'
  <2>1. CASE Poll
    BY <1>2, <2>1 DEF Poll, LastCallDisconnects, gui
  <2>2. CASE RunCall
    <3>1. calls # <<>> /\ calls' = Tail(calls) /\ window' = window
          /\ (Head(calls) = "disconnect" => ~workerUp')
      BY <1>2, <2>2 DEF RunCall, DoDisconnect, gui
    <3>2. window # "gone"
      BY <3>1 DEF LastCallDisconnects
    <3>3. QED
      BY <3>1, <3>2, CallsTail DEF LastCallDisconnects, TypeOK
  <2>3. QED
    BY <2>1, <2>2
<1>7. QED
  BY <1>1, <1>3, <1>4, <1>5, <1>6


(* A signal is delivered. *)
LEMMA DeliverStep ==
  ASSUME Inv, Deliver
  PROVE  Inv'
<1> USE DEF Inv
<1> DEFINE s == Head(signals)
<1>1. /\ signals' \in Seq(Signal)
      /\ SignalsLeadToWorker'
      /\ window = "open" => Leads(Told, s)
  BY DeliverKeepsChain
<1>2. s \in Signal /\ s.tx \in BOOLEAN
  <2>1. signals \in Seq(Signal) /\ signals # <<>>
    BY DEF Deliver, TypeOK
  <2>2. s \in Signal
    BY <2>1
  <2>3. QED
    BY <2>2 DEF Signal
<1>3. s.kind = "freq" => s.after.freq \in Freqs
  BY DeliverKeepsChain DEF Leads
<1>4. UNCHANGED <<window, calls, workerUp, failures, last, rig>>
  BY DEF Deliver, worker
<1>5. CASE window # "open"
  <2>1. /\ backendUp' \in BOOLEAN
        /\ actions' = actions
        /\ \/ panel' = panel /\ heard' = heard
           \/ s.kind = "freq" /\ panel' = [panel EXCEPT !.freq = s.after.freq] /\ heard' = s.after.freq
           \/ panel' = [panel EXCEPT !.tx = s.tx] /\ heard' = heard
    BY <1>5 DEF Deliver, Slot, SetFrequency, SetTransmitting, TypeOK
  <2> HIDE DEF s
  <2>2. /\ panel' \in [connected : BOOLEAN, freq : Freqs \cup {0}, tx : BOOLEAN]
        /\ heard' \in Freqs \cup {0}
    BY <1>2, <1>3, <2>1 DEF TypeOK
  <2>3. TypeOK'
    BY <1>1, <1>4, <2>1, <2>2 DEF TypeOK
  <2>4. QED
    BY <1>1, <1>4, <1>5, <2>3 DEF GivesUpInTime, PanelIsTold, TxNeedsConnection,
       ConnectIsAwaited, LastCallDisconnects
<1>6. CASE window = "open"
  <2>1. panel.connected = backendUp /\ (panel.tx => panel.connected)
    BY <1>6 DEF PanelIsTold, TxNeedsConnection
  <2>2. SUFFICES /\ panel' \in [connected : BOOLEAN, freq : Freqs \cup {0}, tx : BOOLEAN]
                 /\ actions' \in [connect : BOOLEAN, disconnect : BOOLEAN]
                 /\ heard' \in Freqs \cup {0}
                 /\ backendUp' \in BOOLEAN
                 /\ panel'.connected = backendUp'
                 /\ ~backendUp' => heard' = 0
                 /\ heard' # 0 => panel'.freq = heard'
                 /\ panel'.tx => panel'.connected
                 /\ actions'.disconnect = backendUp'
                 /\ backendUp' = ~actions'.connect
    BY <1>1, <1>4, <1>6 DEF TypeOK, GivesUpInTime, PanelIsTold,
       TxNeedsConnection, ConnectIsAwaited, LastCallDisconnects
  <2>3. CASE s.kind = "connected"
    <3>1. /\ SetConnected(TRUE) /\ actions' = [connect |-> FALSE, disconnect |-> TRUE]
          /\ backendUp' = TRUE /\ heard' = 0
      BY <1>6, <2>3 DEF Deliver, Slot, OnConnected
    <3>2. QED
      BY <2>1, <3>1 DEF SetConnected, TypeOK
  <2>4. CASE s.kind = "disconnected"
    <3>1. /\ SetConnected(FALSE) /\ actions' = [connect |-> TRUE, disconnect |-> FALSE]
          /\ backendUp' = FALSE /\ heard' = 0
      BY <1>6, <2>4 DEF Deliver, Slot, OnDisconnected, IdleActions
    <3>2. backendUp
      BY <1>1, <1>6, <2>4 DEF Leads, Told
    <3>3. QED
      BY <2>1, <3>1, <3>2 DEF SetConnected, TypeOK
  <2>5. CASE s.kind = "error"
    <3>1. /\ panel' = panel /\ actions' = [actions EXCEPT !.connect = @ \/ ~backendUp]
          /\ backendUp' = backendUp /\ heard' = heard
      BY <1>6, <2>5 DEF Deliver, Slot, OnError
    <3>2. QED
      BY <1>6, <3>1 DEF TypeOK, PanelIsTold, TxNeedsConnection, ConnectIsAwaited
  <2>6. CASE s.kind = "freq"
    <3>1. /\ panel' = [panel EXCEPT !.freq = s.after.freq] /\ actions' = actions
          /\ backendUp' = backendUp /\ heard' = s.after.freq
      BY <2>6 DEF Deliver, SetFrequency
    <3>2. backendUp
      BY <1>1, <1>6, <2>6 DEF Leads, Told
    <3>3. QED
      BY <1>3, <1>6, <2>1, <2>6, <3>1, <3>2 DEF TypeOK, ConnectIsAwaited
  <2>7. CASE s.kind = "tx"
    <3>1. /\ panel' = [panel EXCEPT !.tx = s.tx] /\ actions' = actions
          /\ backendUp' = backendUp /\ heard' = heard
      BY <2>7 DEF Deliver, SetTransmitting
    <3>2. backendUp
      BY <1>1, <1>6, <2>7 DEF Leads, Told
    <3>3. QED
      BY <1>2, <1>6, <2>1, <3>1, <3>2 DEF TypeOK, PanelIsTold, ConnectIsAwaited
  <2>8. QED
    BY <1>2, <2>3, <2>4, <2>5, <2>6, <2>7 DEF Signal
<1>7. QED
  BY <1>5, <1>6

(* Everything else on the GUI thread, and the rig. *)
LEMMA GuiStep ==
  ASSUME Inv, \/ OnConnectHamlib \/ OnDisconnectRadio
              \/ \E freq \in Freqs : WsjtxStatus(freq)
              \/ Close \/ Destroy \/ Join \/ RigChanges \/ UNCHANGED vars
  PROVE  Inv'
<1> USE DEF Inv
<1>1. signals' = signals /\ UNCHANGED worker
  BY DEF OnConnectHamlib, OnDisconnectRadio, WsjtxStatus, Close, Destroy, Join, RigChanges,
     vars, gui, queues
<1>2. signals' \in Seq(Signal) /\ SignalsLeadToWorker' /\ GivesUpInTime'
  <2>1. window' = "open" => UNCHANGED <<window, backendUp, heard>>
    BY DEF OnConnectHamlib, OnDisconnectRadio, WsjtxStatus, Close, Destroy, Join, RigChanges,
       vars, gui, queues
  <2>2. QED
    BY <1>1, <2>1, OthersKeepChain DEF GivesUpInTime, worker
<1>3. SUFFICES TypeOK' /\ PanelIsTold' /\ TxNeedsConnection' /\ ConnectIsAwaited'
               /\ LastCallDisconnects'
  BY <1>2
<1>4. CASE OnConnectHamlib
  <2>1. /\ calls' = Append(calls, "connect") /\ window = "open"
        /\ actions' = [actions EXCEPT !.connect = FALSE]
        /\ UNCHANGED <<backendUp, panel, window, heard, rig>>
    BY <1>4 DEF OnConnectHamlib
  <2>2. /\ calls' \in Seq({"connect", "disconnect"})
        /\ \E i \in 1..Len(calls') : calls'[i] = "connect"
    BY <2>1 DEF TypeOK
  <2>3. TypeOK'
    BY <1>1, <1>2, <2>1, <2>2 DEF TypeOK, worker
  <2>4. QED
    BY <1>1, <2>1, <2>2, <2>3 DEF TypeOK, PanelIsTold, TxNeedsConnection, ConnectIsAwaited,
       LastCallDisconnects, worker
<1>5. CASE OnDisconnectRadio
  <2>1. /\ calls' = Append(calls, "disconnect") /\ window = "open"
        /\ UNCHANGED <<gui, rig>>
    BY <1>5 DEF OnDisconnectRadio
  <2>2. TypeOK'
    BY <1>1, <1>2, <2>1 DEF TypeOK, worker, gui
  <2>3. backendUp
    BY <1>5 DEF OnDisconnectRadio, ConnectIsAwaited
  <2>4. QED
    BY <1>1, <2>1, <2>2, <2>3 DEF PanelIsTold, TxNeedsConnection, ConnectIsAwaited,
       LastCallDisconnects, worker, gui
<1>6. CASE \E freq \in Freqs : WsjtxStatus(freq)
  <2>1. PICK freq \in Freqs : WsjtxStatus(freq)
    BY <1>6
  <2>2. TypeOK'
    BY <1>1, <1>2, <2>1 DEF WsjtxStatus, SetFrequency, TypeOK, worker, queues
  <2>3. QED
    BY <1>1, <2>1, <2>2 DEF WsjtxStatus, SetFrequency, TypeOK, PanelIsTold, TxNeedsConnection,
       ConnectIsAwaited, LastCallDisconnects, worker, queues
<1>7. CASE Close \/ Destroy
  <2>1. /\ calls' = Append(calls, "disconnect")
        /\ UNCHANGED <<backendUp, panel, actions, heard, rig>>
        /\ window' \in {"closing", "blocked"}
    BY <1>7 DEF Close, Destroy
  <2>2. /\ calls' \in Seq({"connect", "disconnect"})
        /\ calls' # <<>> /\ calls'[Len(calls')] = "disconnect"
    BY <2>1, CallsType DEF TypeOK
  <2>3. TypeOK'
    BY <1>1, <1>2, <2>1, <2>2 DEF TypeOK, worker
  <2>4. QED
    BY <2>1, <2>2, <2>3 DEF PanelIsTold, TxNeedsConnection, ConnectIsAwaited, LastCallDisconnects
<1>8. CASE Join
  <2>1. TypeOK'
    BY <1>1, <1>2, <1>8 DEF Join, TypeOK, worker, queues
  <2>2. QED
    BY <1>1, <1>8, <2>1 DEF Join, PanelIsTold, TxNeedsConnection, ConnectIsAwaited,
       LastCallDisconnects, worker, queues
<1>9. CASE RigChanges
  <2>1. rig' \in [freq : Freqs, tx : BOOLEAN, answers : BOOLEAN]
    BY <1>9 DEF RigChanges, TypeOK
  <2>2. UNCHANGED <<gui, queues, worker>>
    BY <1>9 DEF RigChanges
  <2>3. QED
    BY <2>1, <2>2 DEF TypeOK, PanelIsTold, TxNeedsConnection, ConnectIsAwaited,
       LastCallDisconnects, gui, queues, worker
<1>10. CASE UNCHANGED vars
  BY <1>10 DEF TypeOK, PanelIsTold, TxNeedsConnection, ConnectIsAwaited,
     LastCallDisconnects, vars, gui, queues, worker
<1>11. QED
  BY <1>4, <1>5, <1>6, <1>7, <1>8, <1>9, <1>10

LEMMA InitInv == Init => Inv
<1> SUFFICES ASSUME Init PROVE Inv
  OBVIOUS
<1>1. TypeOK
  <2>1. calls \in Seq({"connect", "disconnect"}) /\ signals \in Seq(Signal)
    <3>1. calls = <<>> \/ calls = <<"connect">>
      BY DEF Init
    <3>2. <<>> \in Seq({"connect", "disconnect"}) /\ <<"connect">> \in Seq({"connect", "disconnect"})
      OBVIOUS
    <3>3. signals \in Seq(Signal)
      BY SignalSeqs DEF Init
    <3>4. QED
      BY <3>1, <3>2, <3>3
  <2>2. failures \in 0..kMaxConsecutiveFailures
    BY DEF Init, kMaxConsecutiveFailures
  <2>3. QED
    BY <2>1, <2>2 DEF Init, DarkPanel, IdleActions, TypeOK
<1>2. SignalsLeadToWorker
  <2>1. Knows = Told /\ Told \in Picture
    BY DEF Init, Knows, Told, Down, Picture
  <2>2. Chain(Told, signals, Knows)
    BY <2>1 DEF Init, Chain
  <2>3. QED
    BY <2>1, <2>2 DEF SignalsLeadToWorker
<1>3. QED
  BY <1>1, <1>2 DEF Init, DarkPanel, IdleActions, Inv, GivesUpInTime, PanelIsTold,
     TxNeedsConnection, ConnectIsAwaited,
     LastCallDisconnects

(* The invariant holds, whatever the rig, the user and the two threads do. *)
THEOREM SpecInv == Spec => []Inv
<1>1. Inv /\ [Next]_vars => Inv'
  BY WorkerStep, DeliverStep, GuiStep DEF Next
<1>2. QED
  BY <1>1, InitInv, PTL DEF Spec

----------------------------------------------------------------------------
(* The properties                                                          *)

(* An empty queue of signals means that both threads see the same connection. *)
LEMMA QuietMeansAgreed ==
  ASSUME Inv, window = "open", signals = <<>>
  PROVE  Knows = Told
BY DEF Inv, SignalsLeadToWorker, Chain

(* Type correctness for any frequencies and bounds. *)
THEOREM SpecTypeOK == Spec => []TypeOK
<1>1. Inv => TypeOK
  BY DEF Inv
<1>2. QED
  BY <1>1, SpecInv, PTL

(* Once every signal is delivered, the window shows the worker's connection and the
   frequency it last read, although either side and WSJT-X acted on old pictures, and
   Connect and Disconnect are not stuck on the wrong side. *)
THEOREM SpecWindowCatchesUp == Spec => []WindowCatchesUp
<1>1. Inv => WindowCatchesUp
  <2>1. SUFFICES ASSUME Inv, window = "open", signals = <<>>
                 PROVE  /\ panel.connected = workerUp
                        /\ workerUp /\ last.freq # 0 => panel.freq = last.freq
                        /\ calls = <<>> =>
                             actions = [connect |-> ~workerUp, disconnect |-> workerUp]
    BY DEF WindowCatchesUp
  <2>2. Knows = Told
    BY <2>1, QuietMeansAgreed
  <2>3. backendUp = workerUp /\ (workerUp => heard = last.freq)
    BY <2>1, <2>2 DEF Knows, Told, Down, Inv, TypeOK
  <2>4. ASSUME calls = <<>>
        PROVE  actions = [connect |-> ~workerUp, disconnect |-> workerUp]
    <3>1. Len(calls) = 0
      BY <2>4
    <3>2. actions.disconnect = backendUp /\ actions.connect = ~backendUp
      BY <2>1, <3>1 DEF Inv, ConnectIsAwaited, TypeOK
    <3>3. QED
      BY <2>1, <2>3, <3>2 DEF Inv, TypeOK
  <2>5. panel.connected = workerUp /\ (workerUp /\ last.freq # 0 => panel.freq = last.freq)
    BY <2>1, <2>3 DEF Inv, PanelIsTold
  <2>6. QED
    BY <2>4, <2>5
<1>2. QED
  BY <1>1, SpecInv, PTL

(* The TX pill is dark whenever the radio is not connected. *)
THEOREM SpecNoTxWithoutRadio == Spec => []NoTxWithoutRadio
<1>1. Inv => NoTxWithoutRadio
  BY DEF Inv, PanelIsTold, TxNeedsConnection, NoTxWithoutRadio
<1>2. QED
  BY <1>1, SpecInv, PTL

(* The program never ends with the rig open. *)
THEOREM SpecRigClosedAtExit == Spec => []RigClosedAtExit
<1>1. Inv => RigClosedAtExit
  BY DEF Inv, LastCallDisconnects, RigClosedAtExit
<1>2. QED
  BY <1>1, SpecInv, PTL


----------------------------------------------------------------------------
(* The promise of RadioLink                                                *)

(* A delivered signal is a step that RadioLink allows. *)
LEMMA DeliverIsPromised ==
  ASSUME Inv, Deliver
  PROVE  [Link!Next]_(Link!vars)
<1> DEFINE s == Head(signals)
<1>1. s \in Signal /\ window' = window /\ (s.kind = "freq" => s.after.freq \in Freqs)
  <2>1. signals \in Seq(Signal) /\ signals # <<>> /\ window' = window
    BY DEF Deliver, Inv, TypeOK
  <2>2. s.kind = "freq" => s.after.freq \in Freqs
    BY DeliverKeepsChain DEF Leads
  <2>3. QED
    BY <2>1, <2>2
<1>2. /\ panel \in [connected : BOOLEAN, freq : Freqs \cup {0}, tx : BOOLEAN]
      /\ actions \in [connect : BOOLEAN, disconnect : BOOLEAN]
  BY DEF Inv, TypeOK
<1>3. CASE s.kind \in {"freq", "tx"}
  <2>1. /\ actions' = actions
        /\ \/ panel' = [panel EXCEPT !.freq = s.after.freq]
           \/ panel' = [panel EXCEPT !.tx = s.tx]
        /\ heard' \in Freqs \cup {heard}
    BY <1>1, <1>3 DEF Deliver, SetFrequency, SetTransmitting
  <2>2. window = "open" => panel.connected
    BY <1>3, DeliverKeepsChain DEF Leads, Told, Inv, PanelIsTold
  <2> HIDE DEF s
  <2>3. panel'.connected = panel.connected /\ panel'.tx \in BOOLEAN
    BY <1>1, <1>2, <2>1 DEF Signal
  <2>4. Link!Reported
    BY <1>1, <2>1, <2>2, <2>3 DEF Link!Reported
  <2>5. QED
    BY <2>4 DEF Link!Next
<1>4. CASE window # "open" /\ s.kind \notin {"freq", "tx"}
  BY <1>4 DEF Deliver, Slot, Link!vars
<1>5. CASE window = "open" /\ s.kind \notin {"freq", "tx"}
  <2>1. Leads(Told, s)
    BY <1>5, DeliverKeepsChain
  <2>2. /\ panel.connected = backendUp /\ (~backendUp => heard = 0)
        /\ (backendUp => ~actions.connect) /\ backendUp \in BOOLEAN
    BY <1>5 DEF Inv, PanelIsTold, ConnectIsAwaited, TypeOK
  <2>3. CASE s.kind = "connected"
    <3>1. SetConnected(TRUE) /\ actions' = [connect |-> FALSE, disconnect |-> TRUE] /\ heard' = 0
      BY <1>5, <2>3 DEF Deliver, Slot, OnConnected
    <3>2. ~backendUp /\ heard = 0
      BY <2>1, <2>2, <2>3 DEF Leads, Told
    <3> HIDE DEF s
    <3>3. Link!Connected
      BY <1>1, <1>2, <1>5, <2>2, <3>1, <3>2 DEF Link!Connected, SetConnected
    <3>4. QED
      BY <3>3 DEF Link!Next
  <2>4. CASE s.kind = "disconnected"
    <3>1. SetConnected(FALSE) /\ actions' = [connect |-> TRUE, disconnect |-> FALSE] /\ heard' = 0
      BY <1>5, <2>4 DEF Deliver, Slot, OnDisconnected, IdleActions
    <3>2. backendUp
      BY <2>1, <2>4 DEF Leads, Told
    <3> HIDE DEF s
    <3>3. Link!Disconnected
      BY <1>1, <1>2, <1>5, <2>2, <3>1, <3>2 DEF Link!Disconnected, SetConnected
    <3>4. QED
      BY <3>3 DEF Link!Next
  <2>5. CASE s.kind = "error"
    <3>1. panel' = panel /\ actions' = [actions EXCEPT !.connect = @ \/ ~backendUp] /\ heard' = heard
      BY <1>5, <2>5 DEF Deliver, Slot, OnError
    <3> HIDE DEF s
    <3>2. CASE backendUp
      <4>1. actions'.connect = actions.connect
        BY <1>2, <3>1, <3>2
      <4>2. QED
        BY <1>1, <3>1, <4>1 DEF Link!vars
    <3>3. CASE ~backendUp
      <4>1. actions'.connect = TRUE
        BY <1>2, <3>1, <3>3
      <4>2. Link!Refused
        BY <1>1, <1>5, <2>2, <3>1, <3>3, <4>1 DEF Link!Refused
      <4>3. QED
        BY <4>2 DEF Link!Next
    <3>4. QED
      BY <3>2, <3>3
  <2>6. QED
    BY <1>1, <1>5, <2>3, <2>4, <2>5 DEF Signal
<1>6. QED
  BY <1>3, <1>4, <1>5

(* Threads, queues and polls hidden, every behaviour of the backend is one that
   RadioLink allows; that a Connect is answered is liveness, left to the run. *)
THEOREM SpecStepsAreRadioLink == Spec => Link!Init /\ [][Link!Next]_(Link!vars)
<1>1. Init => Link!Init
  BY DEF Init, DarkPanel, IdleActions, Link!Init
<1>2. Inv /\ [Next]_vars => [Link!Next]_(Link!vars)
  <2>1. CASE Inv /\ Deliver
    BY <2>1, DeliverIsPromised
  <2>2. CASE RunCall \/ Poll \/ OnDisconnectRadio \/ RigChanges \/ UNCHANGED vars
    BY <2>2 DEF RunCall, Poll, OnDisconnectRadio, RigChanges, vars, gui, Link!vars
  <2>3. CASE Inv /\ OnConnectHamlib
    <3>1. /\ actions' = [actions EXCEPT !.connect = FALSE] /\ actions.connect
          /\ window = "open" /\ UNCHANGED <<panel, window, heard>>
      BY <2>3 DEF OnConnectHamlib
    <3>2. actions'.connect = FALSE
      BY <2>3, <3>1 DEF Inv, TypeOK
    <3>3. QED
      BY <3>1, <3>2 DEF Link!Ask, Link!Next
  <2>4. CASE Inv /\ (\E freq \in Freqs : WsjtxStatus(freq))
    <3>1. PICK freq \in Freqs : WsjtxStatus(freq)
      BY <2>4
    <3>2. panel'.connected = panel.connected /\ panel'.tx = panel.tx
      BY <2>4, <3>1 DEF WsjtxStatus, SetFrequency, Inv, TypeOK
    <3>3. QED
      BY <3>1, <3>2 DEF WsjtxStatus, Link!vars
  <2>5. CASE Close
    BY <2>5 DEF Close, Link!Close, Link!Next
  <2>6. CASE Destroy \/ Join
    BY <2>6 DEF Destroy, Join, Link!vars
  <2>7. QED
    BY <2>1, <2>2, <2>3, <2>4, <2>5, <2>6 DEF Next
<1>3. QED
  BY <1>1, <1>2, SpecInv, PTL DEF Spec

=============================================================================
