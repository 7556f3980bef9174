----------------------------- MODULE EntryForm -----------------------------
(***************************************************************************)
(* The left column of the entry panel, QsoQuickEntryPanel, and the three   *)
(* who write to it: the operator, the connected radio and WSJT-X. Band     *)
(* and frequency set each other, the mode brings its list of submodes, and *)
(* the report has a default; what is set by the program must not set       *)
(* anything in turn.                                                       *)
(*                                                                         *)
(* The radio reports changes only, WSJT-X all it has, every second or so.  *)
(* What a lookup adds to a contact is the subject of CallLookup, what      *)
(* becomes of it in the log that of LogTable and ContactTravels.           *)
(***************************************************************************)
EXTENDS BandPlan

CONSTANTS
  Calls,         (* stations, besides Blank                                    *)
  NoReport,      (* the radio has not reported yet                             *)
  Dials,         (* frequencies that radios and operators tune to; 0 is none   *)
  RadioModes,    (* what radios and WSJT-X call their mode, with its submode   *)
  Reports,       (* what operators type as report                              *)
  Announced      (* WSJT-X's Status datagrams                                  *)

ASSUME FormAssumption ==
  /\ Calls \subseteq STRING \ {Blank}
  /\ Dials \subseteq Nat /\ NoReport \notin Nat \cup (STRING \X STRING)
  /\ RadioModes \subseteq STRING \X STRING
  /\ Reports \subseteq STRING
  /\ Announced \subseteq [freq : Dials, mode : RadioModes, call : Calls \cup {Blank}, grid : BOOLEAN]

VARIABLES
  form,          (* the fields of the panel                                    *)
  grid,          (* m_stationQso.gridsquare: the station whose square it is    *)
  dialog,        (* the full entry dialog is open                              *)
  connected,     (* anyRadioConnected                                          *)
  station,       (* m_lastDxCall, m_lastDxGrid of the WSJT-X listener          *)
  (* history *)
  told,          (* what the connected radio has last reported                 *)
  own,           (* the fields that somebody else has set since                *)
  swapped        (* another call was put over one, without clearing the form   *)

radio == <<connected, told>>
wsjtx == station
vars  == <<form, grid, dialog, connected, station, told, own, swapped>>

Fields == [call : Calls \cup {Blank}, band : BandNames \cup {Blank}, freq : Nat,
           mode : ModeNames, submode : STRING, rst : STRING]

NobodyTold == [freq |-> NoReport, mode |-> NoReport]

-----------------------------------------------------------------------------
(* QsoQuickEntryPanel, each slot as the form it leaves.                     *)

(* updateRstDefaults *)
WithReport(f) == IF f.rst = Blank THEN [f EXCEPT !.rst = ModeDefaultRst(f.mode)] ELSE f

(* onModeChanged *)
WithMode(f, mode) == WithReport([f EXCEPT !.mode = mode, !.submode = FirstSubmode(mode)])

(* setRadioFreq and onFreqChanged: outside the bands the band stays. *)
WithFreq(f, freq) ==
  IF FreqToBand(freq) = Blank \/ freq = 0
  THEN [f EXCEPT !.freq = freq]
  ELSE [f EXCEPT !.freq = freq, !.band = FreqToBand(freq)]

(* Wrong: leaves the frequency of the band before. *)
WrongWithBand(f, band) == [f EXCEPT !.band = band]

(* onBandChanged: the placeholder leaves the frequency. *)
WithBand(f, band) ==
  IF band = Blank THEN [f EXCEPT !.band = band]
  ELSE [f EXCEPT !.band = band, !.freq = BandDefaultFreq(band)]

(* setRadioMode: a mode that is not in the list is ignored, its submode is not. *)
WithRadioMode(f, mode, submode) ==
  LET g == IF mode \in ModeNames THEN WithMode(f, mode) ELSE f
  IN  IF submode \in Submodes(g.mode) THEN [g EXCEPT !.submode = submode] ELSE g

(* clearForm keeps band, frequency, mode and submode. *)
Cleared(f) == WithReport([f EXCEPT !.call = Blank, !.rst = Blank])

(* The callsign's textChanged: an emptied field clears the lookup panel, and
   the station layer with it. *)
SetCall(call, square) ==
  /\ form.call # call
  /\ grid' = IF call = Blank THEN Blank ELSE square
  /\ swapped' = (call # Blank /\ (swapped \/ form.call # Blank))

(* Wrong: forgets the lookup layer alone. *)
WrongForget == UNCHANGED grid /\ swapped' = FALSE

(* clearLookupPanel, from clearForm *)
Forget == grid' = Blank /\ swapped' = FALSE

-----------------------------------------------------------------------------
Init ==
  /\ form = [call |-> Blank, band |-> Blank, freq |-> 0, mode |-> ModeTable[1].mode,
             submode |-> FirstSubmode(ModeTable[1].mode),
             rst |-> ModeDefaultRst(ModeTable[1].mode)]
  /\ grid = Blank
  /\ dialog = FALSE
  /\ connected = FALSE
  /\ station = [call |-> Blank, grid |-> FALSE]
  /\ told = NobodyTold
  /\ own = {}
  /\ swapped = FALSE

(* The operator, while no dialog is open. *)
TypeCall(call) ==
  /\ ~dialog
  /\ SetCall(call, grid)
  /\ form' = [form EXCEPT !.call = call]
  /\ UNCHANGED <<dialog, radio, wsjtx, own>>

Operate(f, fields) ==
  /\ ~dialog
  /\ form' = f
  /\ own' = own \cup fields
  /\ UNCHANGED <<grid, dialog, radio, wsjtx, swapped>>

PickBand(band) == form.band # band /\ Operate(WithBand(form, band), {"freq"})

TypeFreq(freq) == form.freq # freq /\ Operate(WithFreq(form, freq), {"freq"})

PickMode(mode) == form.mode # mode /\ Operate(WithMode(form, mode), {"mode", "submode"})

PickSubmode(submode) ==
  /\ submode \in Submodes(form.mode)
  /\ Operate([form EXCEPT !.submode = submode], {"submode"})

TypeReport(rst) == Operate([form EXCEPT !.rst = rst], {})

(* validate: a callsign, and a band or a frequency. *)
Valid == form.call # Blank /\ (form.band # Blank \/ form.freq # 0)

(* onLogClicked: whatever becomes of the contact, the form is cleared for the
   next one, on the same band and mode; the submode is the list's first. *)
LogContact ==
  /\ ~dialog /\ Valid
  /\ form' = WithMode(Cleared(form), form.mode)
  /\ own' = own \cup {"submode"}
  /\ Forget
  /\ UNCHANGED <<dialog, radio, wsjtx>>

(* Clear and Escape *)
Clear ==
  /\ ~dialog
  /\ form' = Cleared(form)
  /\ Forget
  /\ UNCHANGED <<dialog, radio, wsjtx, own>>

OpenFullEntry ==
  /\ ~dialog /\ dialog' = TRUE
  /\ UNCHANGED <<form, grid, radio, wsjtx, own, swapped>>

(* Accepted, the contact is logged as the form was when the dialog opened. *)
AcceptFullEntry ==
  /\ dialog /\ dialog' = FALSE
  /\ form' = Cleared(form)
  /\ Forget
  /\ UNCHANGED <<radio, wsjtx, own>>

RejectFullEntry ==
  /\ dialog /\ dialog' = FALSE
  /\ UNCHANGED <<form, grid, radio, wsjtx, own, swapped>>

-----------------------------------------------------------------------------
(* The radio: a new connection reports everything anew, and its own names of
   the mode may stand for one that it has reported already. *)
RadioConnects ==
  /\ ~connected /\ connected' = TRUE
  /\ told' = NobodyTold /\ own' = {}
  /\ UNCHANGED <<form, grid, dialog, wsjtx, swapped>>

RadioDisconnects ==
  /\ connected /\ connected' = FALSE
  /\ told' = NobodyTold /\ own' = {}
  /\ UNCHANGED <<form, grid, dialog, wsjtx, swapped>>

RadioFreq(freq) ==
  /\ connected /\ freq # 0 /\ freq # told.freq
  /\ form' = WithFreq(form, freq)
  /\ told' = [told EXCEPT !.freq = freq]
  /\ own' = own \ {"freq"}
  /\ UNCHANGED <<grid, dialog, connected, wsjtx, swapped>>

RadioMode(mode) ==
  /\ connected
  /\ form' = WithRadioMode(form, mode[1], mode[2])
  /\ told' = [told EXCEPT !.mode = mode]
  /\ own' = own \ {"mode", "submode"}
  /\ UNCHANGED <<grid, dialog, connected, wsjtx, swapped>>

-----------------------------------------------------------------------------
(* WSJT-X *)

(* Wrong: overrides the radio. *)
WrongStatusOf(f, status) ==
  WithRadioMode(IF status.freq > 0 THEN WithFreq(f, status.freq) ELSE f,
                status.mode[1], status.mode[2])

(* radioStatusChanged: not while a radio is connected. *)
StatusOf(f, status) ==
  IF connected THEN f
  ELSE WithRadioMode(IF status.freq > 0 THEN WithFreq(f, status.freq) ELSE f,
                     status.mode[1], status.mode[2])

StationOf(status) == [call |-> status.call, grid |-> status.grid]

(* Wrong: every Status selects its station. *)
WrongIsNews(status) == TRUE

(* The station is told on only when it is another one than last time. *)
IsNews(status) == StationOf(status) # station

(* stationSelected: setDxCall leaves the square of the station before, and
   setDxGrid replaces it only where there is one. *)
Select(f, status) ==
  /\ form' = [f EXCEPT !.call = status.call]
  /\ grid' = IF status.grid THEN status.call ELSE grid
  /\ swapped' = (~status.grid /\ (swapped \/ form.call \notin {Blank, status.call}))

(* handleStatus, and its two signals in their order. *)
Status(status) ==
  /\ station' = StationOf(status)
  /\ LET f == StatusOf(form, status)
     IN  \/ ~IsNews(status) /\ form' = f /\ UNCHANGED <<grid, swapped>>
         \/ IsNews(status) /\ status.call = Blank /\ form' = Cleared(f) /\ Forget
         \/ IsNews(status) /\ status.call # Blank /\ Select(f, status)
  /\ UNCHANGED <<dialog, radio, own>>

(* Clear, and a logged contact when it is logged here as well. *)
WsjtxClears ==
  /\ form' = Cleared(form)
  /\ Forget
  /\ UNCHANGED <<dialog, radio, wsjtx, own>>

Next ==
  \/ \E call \in Calls \cup {Blank} : TypeCall(call)
  \/ \E band \in BandNames \cup {Blank} : PickBand(band)
  \/ \E freq \in Dials : TypeFreq(freq) \/ RadioFreq(freq)
  \/ \E mode \in ModeNames : PickMode(mode) \/ \E submode \in Submodes(mode) : PickSubmode(submode)
  \/ \E rst \in Reports : TypeReport(rst)
  \/ LogContact \/ Clear \/ OpenFullEntry \/ AcceptFullEntry \/ RejectFullEntry
  \/ RadioConnects \/ RadioDisconnects
  \/ \E mode \in RadioModes : RadioMode(mode)
  \/ \E status \in Announced : Status(status)
  \/ WsjtxClears

Spec == Init /\ [][Next]_vars

-----------------------------------------------------------------------------
TypeOK ==
  /\ form \in Fields
  /\ grid \in Calls \cup {Blank}
  /\ dialog \in BOOLEAN /\ connected \in BOOLEAN /\ swapped \in BOOLEAN
  /\ station \in [call : Calls \cup {Blank}, grid : BOOLEAN]
  /\ told \in [freq : Nat \cup {NoReport}, mode : RadioModes \cup {NoReport}]
  /\ own \subseteq {"freq", "mode", "submode"}

(* Band and frequency are of one kind, whoever has set which of them, in
   whatever order: a contact is never logged on one band with a frequency of
   another. It holds of frequencies that are in a band at all: the form keeps
   its band when a radio or the operator tunes out of the bands. *)
BandHoldsFrequency ==
  form.band # Blank /\ FreqToBand(form.freq) # Blank => InBand(form.freq, form.band)

(* While a radio is connected the form shows what it has reported, unless the
   operator has set something else since: WSJT-X, a cleared form, a logged
   contact and the full dialog leave it as it is. Of the submode this is so
   only until a contact is logged. *)
FormFollowsRadio ==
  /\ told.freq # NoReport /\ "freq" \notin own => form.freq = told.freq
  /\ told.mode # NoReport /\ told.mode[1] \in ModeNames =>
       /\ "mode" \notin own => form.mode = told.mode[1]
       /\ {"mode", "submode"} \cap own = {} /\ told.mode[2] \in Submodes(told.mode[1]) =>
            form.submode = told.mode[2]

(* The square that WSJT-X gave goes with the station it gave it for. It holds
   until another callsign is put over the one in the field. *)
GridIsOfStation == grid # Blank /\ ~swapped => grid = form.call

(* The Status datagrams that WSJT-X keeps sending of one station leave the
   callsign alone that the operator has typed over it, and a report. *)
StatusKeepsText ==
  [][\A status \in Announced : Status(status) /\ StationOf(status) = station =>
       /\ form'.call = form.call /\ grid' = grid
       /\ form.rst # Blank => form'.rst = form.rst]_vars

=============================================================================
