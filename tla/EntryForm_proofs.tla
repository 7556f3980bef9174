-------------------------- MODULE EntryForm_proofs --------------------------
(***************************************************************************)
(* For every band plan and mode table, any operators' input, any radio and *)
(* any datagrams: the entry form's types, that band and frequency agree,   *)
(* that the form follows the radio, and whose square it holds.             *)
(***************************************************************************)
EXTENDS EntryForm, TLAPS

-----------------------------------------------------------------------------
(* The tables *)

LEMMA PlanType ==
  /\ Len(Plan) \in Nat
  /\ \A i \in Places(Plan) : /\ Plan[i].name \in STRING /\ Plan[i].name # Blank
                             /\ Plan[i].low \in Nat /\ Plan[i].high \in Nat /\ Plan[i].default \in Nat
<1>1. Plan \in Seq(BandEntry)
  BY PlanAssumption
<1>2. Len(Plan) \in Nat /\ \A i \in Places(Plan) : Plan[i] \in BandEntry
  <2> HIDE DEF BandEntry
  <2> QED
    BY <1>1 DEF Places
<1> QED
  BY <1>2, PlanAssumption DEF BandEntry

(* A frequency in some band has a first one: it is in two at most. *)
LEMMA FirstBand ==
  ASSUME NEW freq \in Nat, NEW i \in Places(Plan), Covers(i, freq)
  PROVE  \E k \in Places(Plan) :
           Covers(k, freq) /\ \A j \in Places(Plan) : Covers(j, freq) => k <= j
<1> USE PlanType DEF Places
<1>1. CASE \A j \in Places(Plan) : Covers(j, freq) => i <= j
  BY <1>1
<1>2. CASE \E j \in Places(Plan) : Covers(j, freq) /\ j < i
  <2>1. PICK j \in Places(Plan) : Covers(j, freq) /\ j < i
    BY <1>2
  <2>2. ASSUME NEW k \in Places(Plan), Covers(k, freq), k < j
        PROVE  FALSE
    <3>1. /\ Plan[k].high <= Plan[j].low /\ Plan[j].high <= Plan[i].low
          /\ Plan[j].low < Plan[j].high
      BY <2>1, <2>2, PlanAssumption
    <3> QED
      BY <2>2, <3>1 DEF Covers
  <2> QED
    BY <2>1, <2>2
<1> QED
  BY <1>1, <1>2

(* What freqToBand returns is a band with the frequency, or nothing. *)
LEMMA FreqToBandInBand ==
  ASSUME NEW freq \in Nat
  PROVE  /\ FreqToBand(freq) \in BandNames \cup {Blank}
         /\ FreqToBand(freq) # Blank => InBand(freq, FreqToBand(freq))
<1>1. CASE \E i \in Places(Plan) : Covers(i, freq)
  <2> DEFINE First(k) == Covers(k, freq) /\ \A j \in Places(Plan) : Covers(j, freq) => k <= j
             k == CHOOSE k \in Places(Plan) : First(k)
  <2>1. k \in Places(Plan) /\ First(k)
    <3>1. \E n \in Places(Plan) : First(n)
      BY <1>1, FirstBand
    <3> QED
      BY <3>1
  <2>2. FreqToBand(freq) = Plan[k].name
    BY <1>1 DEF FreqToBand
  <2> HIDE DEF k
  <2> QED
    BY <2>1, <2>2 DEF BandNames, InBand
<1>2. CASE ~ \E i \in Places(Plan) : Covers(i, freq)
  BY <1>2 DEF FreqToBand
<1> QED
  BY <1>1, <1>2

(* The default of a band is in the band. *)
LEMMA DefaultInBand ==
  ASSUME NEW band \in BandNames
  PROVE  /\ BandDefaultFreq(band) \in Nat /\ InBand(BandDefaultFreq(band), band)
         /\ band # Blank
<1> DEFINE i == CHOOSE i \in Places(Plan) : Plan[i].name = band
<1>1. i \in Places(Plan) /\ Plan[i].name = band
  <2>1. \E n \in Places(Plan) : Plan[n].name = band
    BY DEF BandNames
  <2> QED
    BY <2>1
<1>2. BandDefaultFreq(band) = Plan[i].default
  BY DEF BandDefaultFreq
<1> HIDE DEF i
<1> QED
  BY <1>1, <1>2, PlanType, PlanAssumption DEF InBand, Covers

LEMMA EntryType ==
  ASSUME NEW mode \in ModeNames
  PROVE  /\ ModeDefaultRst(mode) \in STRING /\ ModeDefaultRst(mode) # Blank
         /\ FirstSubmode(mode) \in STRING
         /\ Submodes(mode) \subseteq STRING \ {Blank}
<1> DEFINE i == CHOOSE i \in Places(ModeTable) : ModeTable[i].mode = mode
<1>1. i \in Places(ModeTable) /\ ModeTable[i].mode = mode
  <2>1. \E n \in Places(ModeTable) : ModeTable[n].mode = mode
    BY DEF ModeNames
  <2> QED
    BY <2>1
<1>2. Entry(mode) = ModeTable[i]
  BY DEF Entry
<1> HIDE DEF i
<1>3. ModeTable[i] \in ModeEntry
  <2>1. ModeTable \in Seq(ModeEntry)
    BY ModesAssumption
  <2> HIDE DEF ModeEntry
  <2> QED
    BY <1>1, <2>1 DEF Places
<1>4. /\ ModeTable[i].rst \in STRING /\ ModeTable[i].rst # Blank
      /\ ModeTable[i].submodes \in Seq(STRING)
      /\ Blank \notin {ModeTable[i].submodes[k] : k \in Places(ModeTable[i].submodes)}
  BY <1>1, <1>3, ModesAssumption DEF ModeEntry
<1>5. ModeTable[i].submodes # <<>> => ModeTable[i].submodes[1] \in STRING
  BY <1>4
<1>6. \A k \in Places(ModeTable[i].submodes) : ModeTable[i].submodes[k] \in STRING
  BY <1>4 DEF Places
<1> QED
  BY <1>2, <1>4, <1>5, <1>6, ModesAssumption DEF ModeDefaultRst, FirstSubmode, Submodes

-----------------------------------------------------------------------------
(* The slots of the form *)

LEMMA WithReportType ==
  ASSUME NEW f \in Fields
  PROVE  /\ WithReport(f) \in Fields
         /\ \A x \in {"call", "band", "freq", "mode", "submode"} : WithReport(f)[x] = f[x]
         /\ f.rst # Blank => WithReport(f) = f
  BY EntryType DEF WithReport, Fields

LEMMA WithModeType ==
  ASSUME NEW f \in Fields, NEW mode \in ModeNames
  PROVE  /\ WithMode(f, mode) \in Fields
         /\ WithMode(f, mode).mode = mode
         /\ \A x \in {"call", "band", "freq"} : WithMode(f, mode)[x] = f[x]
         /\ f.rst # Blank => WithMode(f, mode).rst = f.rst
<1> DEFINE g == [f EXCEPT !.mode = mode, !.submode = FirstSubmode(mode)]
<1>1. /\ g \in Fields /\ g.mode = mode /\ g.rst = f.rst
      /\ \A x \in {"call", "band", "freq"} : g[x] = f[x]
  BY EntryType DEF Fields
<1>2. WithMode(f, mode) = WithReport(g)
  BY DEF WithMode
<1> HIDE DEF g
<1> QED
  BY <1>1, <1>2, WithReportType

LEMMA WithFreqType ==
  ASSUME NEW f \in Fields, NEW freq \in Nat
  PROVE  /\ WithFreq(f, freq) \in Fields
         /\ WithFreq(f, freq).freq = freq
         /\ \A x \in {"call", "mode", "submode", "rst"} : WithFreq(f, freq)[x] = f[x]
         /\ FreqToBand(freq) # Blank /\ freq # 0 => WithFreq(f, freq).band = FreqToBand(freq)
  BY FreqToBandInBand DEF WithFreq, Fields

LEMMA WithRadioModeType ==
  ASSUME NEW f \in Fields, NEW mode \in STRING, NEW submode \in STRING
  PROVE  /\ WithRadioMode(f, mode, submode) \in Fields
         /\ \A x \in {"call", "band", "freq"} : WithRadioMode(f, mode, submode)[x] = f[x]
         /\ f.rst # Blank => WithRadioMode(f, mode, submode).rst = f.rst
         /\ mode \in ModeNames =>
              /\ WithRadioMode(f, mode, submode).mode = mode
              /\ submode \in Submodes(mode) => WithRadioMode(f, mode, submode).submode = submode
<1> DEFINE g == IF mode \in ModeNames THEN WithMode(f, mode) ELSE f
<1>1. /\ g \in Fields
      /\ \A x \in {"call", "band", "freq"} : g[x] = f[x]
      /\ f.rst # Blank => g.rst = f.rst
      /\ mode \in ModeNames => g.mode = mode
  BY WithModeType
<1>2. WithRadioMode(f, mode, submode)
        = IF submode \in Submodes(g.mode) THEN [g EXCEPT !.submode = submode] ELSE g
  BY DEF WithRadioMode
<1> HIDE DEF g
<1> QED
  BY <1>1, <1>2 DEF Fields

LEMMA ClearedType ==
  ASSUME NEW f \in Fields
  PROVE  /\ Cleared(f) \in Fields
         /\ Cleared(f).call = Blank
         /\ \A x \in {"band", "freq", "mode", "submode"} : Cleared(f)[x] = f[x]
<1> DEFINE g == [f EXCEPT !.call = Blank, !.rst = Blank]
<1>1. /\ g \in Fields /\ g.call = Blank
      /\ \A x \in {"band", "freq", "mode", "submode"} : g[x] = f[x]
  BY ModesAssumption DEF Fields
<1>2. Cleared(f) = WithReport(g)
  BY DEF Cleared
<1> HIDE DEF g
<1> QED
  BY <1>1, <1>2, WithReportType

-----------------------------------------------------------------------------
(* The actions *)

(* No band begins at zero, which is no frequency. *)
LEMMA ZeroIsNoBand == FreqToBand(0) = Blank
<1>1. ASSUME NEW i \in Places(Plan) PROVE ~ Covers(i, 0)
  BY PlanType, PlanAssumption DEF Covers
<1> QED
  BY <1>1 DEF FreqToBand

LEMMA StatusType ==
  ASSUME NEW status \in Announced
  PROVE  /\ status.freq \in Nat /\ status.mode[1] \in STRING /\ status.mode[2] \in STRING
         /\ status.call \in Calls \cup {Blank} /\ status.grid \in BOOLEAN
<1>1. status \in [freq : Dials, mode : RadioModes, call : Calls \cup {Blank}, grid : BOOLEAN]
  BY FormAssumption
<1>2. status.mode \in STRING \X STRING
  BY <1>1, FormAssumption
<1> QED
  BY <1>1, <1>2, FormAssumption

(* What a Status does to the form, but for the station. *)
LEMMA StatusOfType ==
  ASSUME NEW f \in Fields, NEW status \in Announced, connected \in BOOLEAN
  PROVE  /\ StatusOf(f, status) \in Fields
         /\ connected => StatusOf(f, status) = f
         /\ StatusOf(f, status).call = f.call
         /\ f.rst # Blank => StatusOf(f, status).rst = f.rst
         /\ \/ StatusOf(f, status).band = f.band /\ StatusOf(f, status).freq = f.freq
            \/ /\ StatusOf(f, status).freq = status.freq
               /\ FreqToBand(status.freq) # Blank =>
                    StatusOf(f, status).band = FreqToBand(status.freq)
<1> DEFINE g == IF status.freq > 0 THEN WithFreq(f, status.freq) ELSE f
<1>1. /\ g \in Fields /\ g.call = f.call /\ g.rst = f.rst
      /\ \/ g.band = f.band /\ g.freq = f.freq
         \/ /\ g.freq = status.freq
            /\ FreqToBand(status.freq) # Blank => g.band = FreqToBand(status.freq)
  <2>1. CASE status.freq > 0
    BY <2>1, StatusType, WithFreqType
  <2>2. CASE ~ (status.freq > 0)
    BY <2>2
  <2> QED
    BY <2>1, <2>2
<1> DEFINE mode == status.mode[1]
           submode == status.mode[2]
<1>2. StatusOf(f, status) = IF connected THEN f ELSE WithRadioMode(g, mode, submode)
  BY DEF StatusOf
<1>3. mode \in STRING /\ submode \in STRING
  BY StatusType
<1> HIDE DEF g, mode, submode
<1>4. /\ WithRadioMode(g, mode, submode) \in Fields
      /\ \A x \in {"call", "band", "freq"} : WithRadioMode(g, mode, submode)[x] = g[x]
      /\ g.rst # Blank => WithRadioMode(g, mode, submode).rst = g.rst
  BY <1>1, <1>3, WithRadioModeType
<1> QED
  BY <1>1, <1>2, <1>4

(* How an action may change the form's band and frequency. *)
Tuned(f, g) ==
  \/ g.band = f.band /\ g.freq = f.freq
  \/ g.band = Blank
  \/ g.band \in BandNames /\ g.freq = BandDefaultFreq(g.band)
  \/ g.freq \in Nat /\ (FreqToBand(g.freq) # Blank => g.band = FreqToBand(g.freq))

(* The form of one action: its types, and how it is tuned. *)
LEMMA FormStep ==
  ASSUME TypeOK, Next
  PROVE  form' \in Fields /\ Tuned(form, form')
<1> USE DEF TypeOK
<1>1. ASSUME NEW call \in Calls \cup {Blank}, TypeCall(call)
      PROVE  form' \in Fields /\ Tuned(form, form')
  BY <1>1 DEF TypeCall, Tuned, Fields
<1>2. ASSUME NEW band \in BandNames \cup {Blank}, PickBand(band)
      PROVE  form' \in Fields /\ Tuned(form, form')
  BY <1>2, DefaultInBand DEF PickBand, Operate, WithBand, Tuned, Fields
<1>3. ASSUME NEW freq \in Dials, TypeFreq(freq) \/ RadioFreq(freq)
      PROVE  form' \in Fields /\ Tuned(form, form')
  <2>1. form' = WithFreq(form, freq) /\ freq \in Nat
    BY <1>3, FormAssumption DEF TypeFreq, Operate, RadioFreq
  <2> QED
    BY <2>1, WithFreqType, ZeroIsNoBand DEF Tuned
<1>4. ASSUME NEW mode \in ModeNames,
             PickMode(mode) \/ \E submode \in Submodes(mode) : PickSubmode(submode)
      PROVE  form' \in Fields /\ Tuned(form, form')
  <2>1. CASE PickMode(mode)
    BY <2>1, WithModeType DEF PickMode, Operate, Tuned
  <2>2. CASE \E submode \in Submodes(mode) : PickSubmode(submode)
    BY <2>2, EntryType DEF PickSubmode, Operate, Tuned, Fields
  <2> QED
    BY <1>4, <2>1, <2>2
<1>5. ASSUME NEW rst \in Reports, TypeReport(rst)
      PROVE  form' \in Fields /\ Tuned(form, form')
  BY <1>5, FormAssumption DEF TypeReport, Operate, Tuned, Fields
<1>6. CASE LogContact
  <2>1. form.mode \in ModeNames
    BY DEF Fields
  <2>2. form' = WithMode(Cleared(form), form.mode)
    BY <1>6 DEF LogContact
  <2> QED
    BY <2>1, <2>2, ClearedType, WithModeType DEF Tuned
<1>7. CASE Clear \/ AcceptFullEntry \/ WsjtxClears
  BY <1>7, ClearedType DEF Clear, AcceptFullEntry, WsjtxClears, Tuned
<1>8. CASE OpenFullEntry \/ RejectFullEntry \/ RadioConnects \/ RadioDisconnects
  BY <1>8 DEF OpenFullEntry, RejectFullEntry, RadioConnects, RadioDisconnects, Tuned
<1>9. ASSUME NEW mode \in RadioModes, RadioMode(mode)
      PROVE  form' \in Fields /\ Tuned(form, form')
  <2>1. mode[1] \in STRING /\ mode[2] \in STRING
    BY FormAssumption
  <2> QED
    BY <1>9, <2>1, WithRadioModeType DEF RadioMode, Tuned
<1>10. ASSUME NEW status \in Announced, Status(status)
       PROVE  form' \in Fields /\ Tuned(form, form')
  <2> DEFINE f == StatusOf(form, status)
  <2>1. f \in Fields /\ Tuned(form, f) /\ status.call \in Calls \cup {Blank}
    BY StatusOfType, StatusType DEF Tuned
  <2>2. \/ form' = f \/ form' = Cleared(f) \/ form' = [f EXCEPT !.call = status.call]
    BY <1>10 DEF Status, Select
  <2> HIDE DEF f
  <2>3. form' \in Fields /\ form'.band = f.band /\ form'.freq = f.freq
    BY <2>1, <2>2, ClearedType DEF Fields
  <2> QED
    BY <2>1, <2>3 DEF Tuned
<1> QED
  BY <1>1, <1>2, <1>3, <1>4, <1>5, <1>6, <1>7, <1>8, <1>9, <1>10 DEF Next

(* The types of the rest of the state. *)
LEMMA TypeStep ==
  ASSUME TypeOK, [Next]_vars
  PROVE  TypeOK'
<1> USE DEF TypeOK
<1>1. CASE UNCHANGED vars
  BY <1>1 DEF vars, radio, wsjtx
<1>2. CASE Next
  <2>1. form' \in Fields
    BY <1>2, FormStep
  <2> DEFINE Others == /\ grid' \in Calls \cup {Blank}
                       /\ dialog' \in BOOLEAN /\ connected' \in BOOLEAN /\ swapped' \in BOOLEAN
                       /\ station' \in [call : Calls \cup {Blank}, grid : BOOLEAN]
                       /\ told' \in [freq : Nat \cup {NoReport}, mode : RadioModes \cup {NoReport}]
                       /\ own' \subseteq {"freq", "mode", "submode"}
  <2>2. ASSUME NEW call \in Calls \cup {Blank}, TypeCall(call) PROVE Others
    BY <2>2 DEF TypeCall, SetCall, radio, wsjtx
  <2>3. ASSUME NEW band \in BandNames \cup {Blank}, PickBand(band) PROVE Others
    BY <2>3 DEF PickBand, Operate, radio, wsjtx
  <2>4. ASSUME NEW freq \in Dials, TypeFreq(freq) \/ RadioFreq(freq) PROVE Others
    BY <2>4, FormAssumption DEF TypeFreq, Operate, RadioFreq, radio, wsjtx
  <2>5. ASSUME NEW mode \in ModeNames,
               PickMode(mode) \/ \E submode \in Submodes(mode) : PickSubmode(submode)
        PROVE  Others
    BY <2>5 DEF PickMode, PickSubmode, Operate, radio, wsjtx
  <2>6. ASSUME NEW rst \in Reports, TypeReport(rst) PROVE Others
    BY <2>6 DEF TypeReport, Operate, radio, wsjtx
  <2>7. ASSUME LogContact \/ Clear \/ AcceptFullEntry \/ WsjtxClears PROVE Others
    BY <2>7 DEF LogContact, Clear, AcceptFullEntry, WsjtxClears, Forget, radio, wsjtx
  <2>8. ASSUME OpenFullEntry \/ RejectFullEntry PROVE Others
    BY <2>8 DEF OpenFullEntry, RejectFullEntry, radio, wsjtx
  <2>9. ASSUME RadioConnects \/ RadioDisconnects PROVE Others
    <3>1. /\ told' = NobodyTold /\ own' = {} /\ connected' \in BOOLEAN
          /\ grid' = grid /\ dialog' = dialog /\ station' = station /\ swapped' = swapped
      BY <2>9 DEF RadioConnects, RadioDisconnects, wsjtx
    <3>2. NobodyTold \in [freq : Nat \cup {NoReport}, mode : RadioModes \cup {NoReport}]
      BY DEF NobodyTold
    <3> QED
      BY <3>1, <3>2
  <2>10. ASSUME NEW mode \in RadioModes, RadioMode(mode) PROVE Others
    BY <2>10 DEF RadioMode, wsjtx
  <2>11. ASSUME NEW status \in Announced, Status(status) PROVE Others
    BY <2>11, StatusType DEF Status, StationOf, Select, Forget, radio
  <2> QED
    BY <1>2, <2>1, <2>2, <2>3, <2>4, <2>5, <2>6, <2>7, <2>8, <2>9, <2>10, <2>11 DEF Next
<1> QED
  BY <1>1, <1>2

LEMMA TypeInit ==
  ASSUME Init
  PROVE  TypeOK
<1>1. 1 \in Places(ModeTable) /\ ModeTable[1].mode \in ModeNames
  BY ModesAssumption DEF Places, ModeNames
<1>2. /\ ModeTable[1].mode \in ModeNames
      /\ FirstSubmode(ModeTable[1].mode) \in STRING
      /\ ModeDefaultRst(ModeTable[1].mode) \in STRING
  BY <1>1, EntryType
<1> QED
  BY <1>2, ModesAssumption DEF Init, TypeOK, Fields, NobodyTold

(* The entry form keeps its types: what it shows as band and mode is always in
   the tables, whatever radios and datagrams name. *)
THEOREM FormTypes == Spec => []TypeOK
BY TypeInit, TypeStep, PTL DEF Spec

-----------------------------------------------------------------------------
(* Band and frequency *)

LEMMA BandStep ==
  ASSUME TypeOK, BandHoldsFrequency, [Next]_vars
  PROVE  BandHoldsFrequency'
<1>1. CASE UNCHANGED vars
  BY <1>1 DEF vars, BandHoldsFrequency
<1>2. CASE Next
  <2>1. form' \in Fields /\ Tuned(form, form')
    BY <1>2, FormStep
  <2>2. CASE form'.band = form.band /\ form'.freq = form.freq
    BY <2>2 DEF BandHoldsFrequency
  <2>3. CASE form'.band = Blank
    BY <2>3 DEF BandHoldsFrequency
  <2>4. CASE form'.band \in BandNames /\ form'.freq = BandDefaultFreq(form'.band)
    BY <2>4, DefaultInBand DEF BandHoldsFrequency
  <2>5. CASE /\ form'.freq \in Nat
             /\ FreqToBand(form'.freq) # Blank => form'.band = FreqToBand(form'.freq)
    BY <2>5, FreqToBandInBand DEF BandHoldsFrequency
  <2> QED
    BY <2>1, <2>2, <2>3, <2>4, <2>5 DEF Tuned
<1> QED
  BY <1>1, <1>2

(* Band and frequency of the form agree, for every band plan in order, however
   the operator, the radio and WSJT-X take turns in setting them. *)
THEOREM FormIsTuned == Spec => []BandHoldsFrequency
<1>1. Init => BandHoldsFrequency
  BY DEF Init, BandHoldsFrequency
<1> QED
  BY <1>1, BandStep, FormTypes, PTL DEF Spec

-----------------------------------------------------------------------------
(* The form and the radio *)

(* Nothing is remembered of a radio that is not connected. *)
Untold == ~connected => told = NobodyTold

LEMMA UntoldFollows ==
  ASSUME told = NobodyTold
  PROVE  FormFollowsRadio
  BY DEF NobodyTold, FormFollowsRadio

LEMMA FollowStep ==
  ASSUME TypeOK, Untold, FormFollowsRadio, [Next]_vars
  PROVE  Untold' /\ FormFollowsRadio'
<1> DEFINE Kept == /\ told' = told /\ own' = own /\ connected' = connected
                   /\ \A x \in {"freq", "mode", "submode"} : form'[x] = form[x]
<1> USE DEF TypeOK
<1>1. CASE Kept
  BY <1>1 DEF Untold, FormFollowsRadio
<1>2. CASE UNCHANGED vars
  BY <1>1, <1>2 DEF vars, radio
<1>3. ASSUME NEW call \in Calls \cup {Blank}, TypeCall(call) PROVE Kept
  BY <1>3 DEF TypeCall, radio, Fields
<1>4. ASSUME NEW band \in BandNames \cup {Blank}, PickBand(band)
      PROVE  Untold' /\ FormFollowsRadio'
  <2>1. /\ told' = told /\ connected' = connected /\ own' = own \cup {"freq"}
        /\ form'.mode = form.mode /\ form'.submode = form.submode
    BY <1>4 DEF PickBand, Operate, WithBand, radio, Fields
  <2> QED
    BY <2>1 DEF Untold, FormFollowsRadio
<1>5. ASSUME NEW freq \in Dials, TypeFreq(freq)
      PROVE  Untold' /\ FormFollowsRadio'
  <2>1. /\ told' = told /\ connected' = connected /\ own' = own \cup {"freq"}
        /\ form'.mode = form.mode /\ form'.submode = form.submode
    BY <1>5, FormAssumption, WithFreqType DEF TypeFreq, Operate, radio
  <2> QED
    BY <2>1 DEF Untold, FormFollowsRadio
<1>6. ASSUME NEW freq \in Dials, RadioFreq(freq)
      PROVE  Untold' /\ FormFollowsRadio'
  <2>1. /\ form'.freq = freq /\ form'.mode = form.mode /\ form'.submode = form.submode
    BY <1>6, FormAssumption, WithFreqType DEF RadioFreq
  <2>2. /\ told'.freq = freq /\ told'.mode = told.mode
        /\ own' = own \ {"freq"} /\ connected /\ connected' = connected
    BY <1>6 DEF RadioFreq
  <2> QED
    BY <2>1, <2>2 DEF Untold, FormFollowsRadio
<1>7. ASSUME NEW mode \in ModeNames, PickMode(mode)
      PROVE  Untold' /\ FormFollowsRadio'
  <2>1. /\ told' = told /\ connected' = connected /\ own' = own \cup {"mode", "submode"}
        /\ form'.freq = form.freq
    BY <1>7, WithModeType DEF PickMode, Operate, radio
  <2> QED
    BY <2>1 DEF Untold, FormFollowsRadio
<1>8. ASSUME NEW submode, PickSubmode(submode)
      PROVE  Untold' /\ FormFollowsRadio'
  <2>1. /\ told' = told /\ connected' = connected /\ own' = own \cup {"submode"}
        /\ form'.freq = form.freq /\ form'.mode = form.mode
    BY <1>8 DEF PickSubmode, Operate, radio, Fields
  <2> QED
    BY <2>1 DEF Untold, FormFollowsRadio
<1>9. ASSUME NEW rst \in Reports, TypeReport(rst) PROVE Kept
  BY <1>9 DEF TypeReport, Operate, radio, Fields
<1>10. CASE LogContact
  <2>1. form.mode \in ModeNames
    BY DEF Fields
  <2>2. /\ told' = told /\ connected' = connected /\ own' = own \cup {"submode"}
        /\ form'.freq = form.freq /\ form'.mode = form.mode
    BY <1>10, <2>1, ClearedType, WithModeType DEF LogContact, radio
  <2> QED
    BY <2>2 DEF Untold, FormFollowsRadio
<1>11. ASSUME Clear \/ AcceptFullEntry \/ WsjtxClears PROVE Kept
  BY <1>11, ClearedType DEF Clear, AcceptFullEntry, WsjtxClears, radio
<1>12. ASSUME OpenFullEntry \/ RejectFullEntry PROVE Kept
  BY <1>12 DEF OpenFullEntry, RejectFullEntry, radio
<1>13. CASE RadioConnects \/ RadioDisconnects
  <2>1. told' = NobodyTold
    BY <1>13 DEF RadioConnects, RadioDisconnects
  <2> QED
    BY <2>1 DEF Untold, NobodyTold, FormFollowsRadio
<1>14. ASSUME NEW mode \in RadioModes, RadioMode(mode)
       PROVE  Untold' /\ FormFollowsRadio'
  <2>1. /\ mode[1] \in STRING /\ mode[2] \in STRING
        /\ form' = WithRadioMode(form, mode[1], mode[2])
    BY <1>14, FormAssumption DEF RadioMode
  <2>2. /\ form'.freq = form.freq
        /\ mode[1] \in ModeNames =>
             /\ form'.mode = mode[1]
             /\ mode[2] \in Submodes(mode[1]) => form'.submode = mode[2]
    BY <2>1, WithRadioModeType
  <2>3. /\ told'.freq = told.freq /\ told'.mode = mode
        /\ own' = own \ {"mode", "submode"} /\ connected /\ connected' = connected
    BY <1>14 DEF RadioMode
  <2> QED
    BY <2>2, <2>3 DEF Untold, FormFollowsRadio
<1>15. ASSUME NEW status \in Announced, Status(status)
       PROVE  Untold' /\ FormFollowsRadio'
  <2>1. told' = told /\ own' = own /\ connected' = connected
    BY <1>15 DEF Status, radio
  <2>2. CASE connected
    <3>1. StatusOf(form, status) = form
      BY <2>2 DEF StatusOf
    <3>2. form' = form \/ form' = Cleared(form) \/ form' = [form EXCEPT !.call = status.call]
      BY <1>15, <3>1 DEF Status, Select
    <3>3. \A x \in {"freq", "mode", "submode"} : form'[x] = form[x]
      BY <3>2, ClearedType DEF Fields
    <3> QED
      BY <1>1, <2>1, <3>3
  <2>3. CASE ~connected
    BY <2>1, <2>3 DEF Untold, NobodyTold, FormFollowsRadio
  <2> QED
    BY <2>2, <2>3
<1>16. CASE Next
  <2> HIDE DEF Kept
  <2> QED
    BY <1>1, <1>3, <1>4, <1>5, <1>6, <1>7, <1>8, <1>9, <1>10, <1>11, <1>12, <1>13, <1>14, <1>15,
       <1>16 DEF Next
<1> QED
  BY <1>2, <1>16

(* While a radio is connected, WSJT-X, a cleared form and a logged contact leave
   its frequency and mode in the form. *)
THEOREM FormFollows == Spec => []FormFollowsRadio
<1>1. Init => Untold /\ FormFollowsRadio
  BY UntoldFollows DEF Init, Untold
<1> QED
  BY <1>1, FollowStep, FormTypes, PTL DEF Spec

-----------------------------------------------------------------------------
(* The form and the station *)

LEMMA GridStep ==
  ASSUME TypeOK, GridIsOfStation, [Next]_vars
  PROVE  GridIsOfStation'
<1> DEFINE Kept == grid' = grid /\ swapped' = swapped /\ form'.call = form.call
<1> USE DEF TypeOK
<1>1. CASE Kept
  BY <1>1 DEF GridIsOfStation
<1>2. CASE Forget
  BY <1>2 DEF Forget, GridIsOfStation
<1>3. CASE UNCHANGED vars
  BY <1>1, <1>3 DEF vars
<1>4. ASSUME NEW call \in Calls \cup {Blank}, TypeCall(call)
      PROVE  GridIsOfStation'
  <2>1. /\ form'.call = call /\ form.call # call
        /\ grid' = IF call = Blank THEN Blank ELSE grid
        /\ swapped' = (call # Blank /\ (swapped \/ form.call # Blank))
    BY <1>4 DEF TypeCall, SetCall, Fields
  <2> QED
    BY <2>1 DEF GridIsOfStation
<1>5. ASSUME NEW band \in BandNames \cup {Blank}, PickBand(band) PROVE Kept
  BY <1>5 DEF PickBand, Operate, WithBand, Fields
<1>6. ASSUME NEW freq \in Dials, TypeFreq(freq) \/ RadioFreq(freq) PROVE Kept
  <2>1. form' = WithFreq(form, freq) /\ grid' = grid /\ swapped' = swapped
    BY <1>6 DEF TypeFreq, Operate, RadioFreq
  <2> QED
    BY <2>1, FormAssumption, WithFreqType
<1>7. ASSUME NEW mode \in ModeNames,
             PickMode(mode) \/ \E submode \in Submodes(mode) : PickSubmode(submode)
      PROVE  Kept
  BY <1>7, WithModeType DEF PickMode, PickSubmode, Operate, Fields
<1>8. ASSUME NEW rst \in Reports, TypeReport(rst) PROVE Kept
  BY <1>8 DEF TypeReport, Operate, Fields
<1>9. ASSUME LogContact \/ Clear \/ AcceptFullEntry \/ WsjtxClears PROVE Forget
  BY <1>9 DEF LogContact, Clear, AcceptFullEntry, WsjtxClears
<1>10. ASSUME OpenFullEntry \/ RejectFullEntry \/ RadioConnects \/ RadioDisconnects PROVE Kept
  BY <1>10 DEF OpenFullEntry, RejectFullEntry, RadioConnects, RadioDisconnects
<1>11. ASSUME NEW mode \in RadioModes, RadioMode(mode) PROVE Kept
  <2>1. mode[1] \in STRING /\ mode[2] \in STRING
    BY FormAssumption
  <2> QED
    BY <1>11, <2>1, WithRadioModeType DEF RadioMode
<1>12. ASSUME NEW status \in Announced, Status(status)
       PROVE  GridIsOfStation'
  <2> DEFINE f == StatusOf(form, status)
  <2>1. f \in Fields /\ f.call = form.call /\ status.call \in Calls \cup {Blank}
    BY StatusOfType, StatusType
  <2> HIDE DEF f
  <2>2. CASE form' = f /\ UNCHANGED <<grid, swapped>>
    BY <1>1, <2>1, <2>2
  <2>3. CASE Forget
    BY <1>2, <2>3
  <2>4. CASE Select(f, status)
    <3>1. form'.call = status.call
      BY <2>1, <2>4 DEF Select, Fields
    <3> QED
      BY <2>1, <2>4, <3>1 DEF Select, GridIsOfStation
  <2> QED
    BY <1>12, <2>2, <2>3, <2>4 DEF Status, f
<1>13. CASE Next
  <2> HIDE DEF Kept
  <2> QED
    BY <1>1, <1>2, <1>4, <1>5, <1>6, <1>7, <1>8, <1>9, <1>10, <1>11, <1>12, <1>13 DEF Next
<1> QED
  BY <1>3, <1>13

(* The square in the form is of the callsign in it, until one callsign is put
   over another. *)
THEOREM GridIsOwn == Spec => []GridIsOfStation
<1>1. Init => GridIsOfStation
  BY DEF Init, GridIsOfStation
<1> QED
  BY <1>1, GridStep, FormTypes, PTL DEF Spec

(* The Status datagrams of one station never touch what the operator has typed
   in the meantime. *)
THEOREM TextIsKept == Spec => StatusKeepsText
<1> DEFINE Keeps == \A status \in Announced : Status(status) /\ StationOf(status) = station =>
                      /\ form'.call = form.call /\ grid' = grid
                      /\ form.rst # Blank => form'.rst = form.rst
<1>1. ASSUME TypeOK
      PROVE  Keeps
  <2> SUFFICES ASSUME NEW status \in Announced, Status(status), StationOf(status) = station
               PROVE  /\ form'.call = form.call /\ grid' = grid
                      /\ form.rst # Blank => form'.rst = form.rst
    OBVIOUS
  <2>1. form' = StatusOf(form, status) /\ grid' = grid
    BY DEF Status, IsNews
  <2> QED
    BY <1>1, <2>1, StatusOfType DEF TypeOK
<1>2. TypeOK => [Keeps]_vars
  BY <1>1
<1> HIDE DEF Keeps
<1>3. Spec => [][Keeps]_vars
  BY <1>2, FormTypes, PTL DEF Spec
<1> QED
  BY <1>3 DEF StatusKeepsText, Keeps

=============================================================================
