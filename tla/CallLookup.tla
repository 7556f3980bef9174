----------------------------- MODULE CallLookup -----------------------------
(***************************************************************************)
(* Looking up the station in the entry form: the form's callsign field,    *)
(* the panel beside it and its two layers of data, the window's debounce   *)
(* timer and cache, the country file (CTY.dat, synchronous) and QRZ.       *)
(*                                                                         *)
(* What is known of a station is abstracted to whose data it is: cty, the  *)
(* call whose country record it holds, and qrz, the call whose QRZ record. *)
(* A layer with neither is an empty one (result.callsign is empty).        *)
(***************************************************************************)
EXTENDS QrzSession

CONSTANTS
  Calls,       (* texts that are valid callsigns                             *)
  Fragments,   (* texts that are not                                         *)
  Base,        (* Callsign::base() of each call                              *)
  CtyMatched   (* the calls the country file has an entity for; {} when it is
                  off or not loaded                                          *)

Texts == Calls \cup Fragments

ASSUME CallLookupAssumption ==
  /\ Bases \subseteq Calls
  /\ Base \in [Calls -> Bases]
  /\ \A b \in Bases : Base[b] = b
  /\ CtyMatched \subseteq Calls
  /\ Calls \cap Fragments = {}
  /\ NoCall \notin Texts

Labels == [kind : {"idle", "result", "nothing", "looking", "failed"},
           call : Texts \cup {NoCall}]
Layers == [cty : Calls \cup {NoCall}, qrz : Bases \cup {NoCall}]

VARIABLES
  (* the entry panel *)
  text,        (* the callsign field                                         *)
  label,       (* m_lookupLabel, and whom it is about                        *)
  layer,       (* m_lookupQso                                                *)
  station,     (* m_stationQso holds a grid that WSJT-X gave                 *)
  imageReply,  (* m_imageReply: whose photo is being fetched                 *)
  photo,       (* m_contactImage shows the photo of                          *)
  previous,    (* m_prevQsosList shows what the log has                      *)
  (* the main window *)
  pending,     (* m_pendingLookupCallsign                                    *)
  cache,       (* m_cachedLookupResult                                       *)
  timer,       (* m_callsignLookupTimer is running                           *)
  dialog,      (* the full entry dialog is open, with a copy of the contact  *)
  (* history *)
  lastCall     (* the last valid callsign the field held                     *)

picture == <<imageReply, photo>>
panel   == <<label, layer, picture, previous>>
field   == <<text, pending, timer, lastCall>>
vars    == <<session, available, panel, station, field, cache, dialog>>

Nothing == [cty |-> NoCall, qrz |-> NoCall]

(* result.callsign: QRZ's, when it has answered *)
Whose(result) == IF result.qrz # NoCall THEN result.qrz ELSE result.cty

IdleLabel      == [kind |-> "idle", call |-> NoCall]
NothingLabel   == [kind |-> "nothing", call |-> NoCall]
FailedLabel    == [kind |-> "failed", call |-> NoCall]
LookingUp(call) == [kind |-> "looking", call |-> call]
Shows(result)   == [kind |-> "result", call |-> Whose(result)]

----------------------------------------------------------------------------
(* QsoQuickEntryPanel                                                      *)

(* A photo that is being fetched is aborted, and its slot sees the error. *)
DropPhoto == imageReply' = NoCall /\ photo' = NoCall

SetLookupStatus(status) ==
  /\ DropPhoto
  /\ label' = status
  /\ UNCHANGED layer

(* Wrong: leaves the photo of the station before, and its fetch. *)
WrongSetLookupResult(result, hasPhoto) ==
  /\ imageReply' = IF hasPhoto THEN result.qrz ELSE imageReply
  /\ IF result = Nothing
     THEN label' = NothingLabel /\ UNCHANGED layer
     ELSE label' = Shows(result) /\ layer' = result
  /\ UNCHANGED <<photo, previous>>

(* An empty result is shown as such, and leaves the layer as it was. *)
SetLookupResult(result, hasPhoto) ==
  /\ photo' = NoCall
  /\ imageReply' = IF hasPhoto THEN result.qrz ELSE NoCall
  /\ IF result = Nothing
     THEN label' = NothingLabel /\ UNCHANGED layer
     ELSE label' = Shows(result) /\ layer' = result
  /\ UNCHANGED previous

ClearLookupPanel ==
  /\ DropPhoto
  /\ label' = IdleLabel
  /\ layer' = Nothing
  /\ station' = FALSE
  /\ previous' = FALSE

(* The contact the form makes of its field and its lookup layer *)
BuildQso == [call |-> text, layer |-> layer]

----------------------------------------------------------------------------
(* MainWindow                                                              *)

(* The cache is kept for the contact WSJT-X may still log. *)
OnCallsignCleared ==
  /\ timer' = FALSE
  /\ ClearLookupPanel
  /\ UNCHANGED <<cache, lastCall>>

OnFragment ==
  /\ timer' = FALSE
  /\ UNCHANGED <<cache, panel, lastCall>>

(* Wrong: relies on the country file to replace the cache. *)
WrongOnNewCall(call) ==
  /\ lastCall' = call
  /\ timer' = TRUE
  /\ IF call \in CtyMatched
     THEN /\ cache' = [cty |-> call, qrz |-> NoCall]
          /\ SetLookupResult(cache', FALSE)
     ELSE UNCHANGED <<cache, panel>>

(* The country file answers at once, and without a match says nothing. *)
OnNewCall(call) ==
  /\ lastCall' = call
  /\ timer' = TRUE
  /\ IF call \in CtyMatched
     THEN /\ cache' = [cty |-> call, qrz |-> NoCall]
          /\ SetLookupResult(cache', FALSE)
     ELSE cache' = Nothing /\ UNCHANGED panel

(* The field's text is set to another one: every change is signalled. Unless
   it is cleared, what WSJT-X said of the station stays as grid tells. *)
OnCallsignChanged(t, grid) ==
  /\ text' = t
  /\ pending' = t
  /\ \/ t = NoCall /\ OnCallsignCleared
     \/ t \in Fragments /\ OnFragment /\ station' = grid
     \/ t \in Calls /\ OnNewCall(t) /\ station' = grid

(* clearForm: an empty field is not changed, so nothing is signalled. *)
ClearForm ==
  IF text # NoCall THEN OnCallsignChanged(NoCall, FALSE)
  ELSE ClearLookupPanel /\ UNCHANGED <<field, cache>>

(* QRZ overrides what is personal, the country file keeps the rest. *)
Merge(known, qrz) == IF qrz = Nothing THEN known ELSE [known EXCEPT !.qrz = qrz.qrz]

(* Wrong: takes an answer for whatever station is in the form by now. *)
WrongForTheForm(call) == pending # NoCall

(* The answer is for the call in the field, as it is typed. *)
ForTheForm(call) == call = pending

OnLookupFailed(call) ==
  /\ IF ForTheForm(call) THEN SetLookupStatus(FailedLabel) /\ UNCHANGED previous
     ELSE UNCHANGED panel
  /\ UNCHANGED cache

OnResultReady(call, result, hasPhoto) ==
  IF ForTheForm(call)
  THEN cache' = Merge(cache, result) /\ SetLookupResult(cache', hasPhoto)
  ELSE UNCHANGED <<panel, cache>>

(* QRZ is asked for the base callsign. *)
AskQrz(typed) == DropPhoto /\ label' = LookingUp(Base[typed]) /\ Lookup(Base[typed])

(* The field has been left alone for 600 ms. The log may be closed or fail. *)
DebounceFires ==
  /\ timer
  /\ timer' = FALSE
  /\ IF pending \in Calls
     THEN /\ IF available THEN AskQrz(pending)
             ELSE UNCHANGED <<session, picture, label>>
          /\ previous' \in {previous, TRUE}
     ELSE UNCHANGED <<session, picture, label, previous>>
  /\ UNCHANGED <<available, layer, station, cache, dialog, text, pending, lastCall>>

----------------------------------------------------------------------------
(* The operator, WSJT-X and the network                                    *)

Type(t) ==
  /\ ~dialog /\ t # text
  /\ OnCallsignChanged(t, station)
  /\ UNCHANGED <<session, available, dialog>>

(* Log Contact, Clear, Escape: the contact itself goes to the log. *)
LogOrClear ==
  /\ ~dialog
  /\ ClearForm
  /\ UNCHANGED <<session, available, dialog>>

OpenFullEntry ==
  /\ ~dialog
  /\ dialog' = TRUE
  /\ UNCHANGED <<session, available, panel, station, cache, field>>

AcceptFullEntry ==
  /\ dialog
  /\ dialog' = FALSE
  /\ ClearForm
  /\ UNCHANGED <<session, available>>

RejectFullEntry ==
  /\ dialog
  /\ dialog' = FALSE
  /\ UNCHANGED <<session, available, panel, station, cache, field>>

(* stationSelected(call, grid) of the WSJT-X listener. The grid of the station
   before stays when the new one comes without. *)
SelectStation(call, hasGrid) ==
  /\ LET grid == station \/ hasGrid
     IN  IF call # text THEN OnCallsignChanged(call, grid)
         ELSE station' = grid /\ UNCHANGED <<field, panel, cache>>
  /\ UNCHANGED <<session, available, dialog>>

(* stationSelected of no call, cleared, or qsoLogged with auto-log on, whose
   contact takes what it lacks from the cache: whatever event loop runs. *)
WsjtxClears ==
  /\ ClearForm
  /\ UNCHANGED <<session, available, dialog>>

LoginFails ==
  /\ AuthFails /\ OnLookupFailed(pendingCallsign)
  /\ UNCHANGED <<available, station, field, dialog>>

LoginAnswers(key) ==
  /\ AuthAnswers(key)
  /\ UNCHANGED <<available, panel, station, field, cache, dialog>>

(* A login that is aborted for a new one fails for the call of the new one. *)
QrzTimesOut ==
  /\ SessionTimesOut
  /\ IF authReply THEN OnLookupFailed(lookupReply.call) ELSE UNCHANGED <<panel, cache>>
  /\ UNCHANGED <<available, station, field, dialog>>

(* The network fails, or QRZ refuses, or the session times out once more. *)
QrzFails ==
  /\ LookupEnds /\ OnLookupFailed(lookupReply.call)
  /\ UNCHANGED <<available, station, field, dialog>>

(* QRZ knows the station, when asked with a key, or sends no callsign element. *)
QrzAnswers(found, hasPhoto) ==
  /\ found => lookupReply.keyed
  /\ hasPhoto => found
  /\ LookupEnds
  /\ OnResultReady(lookupReply.call,
                   [cty |-> NoCall, qrz |-> IF found THEN lookupReply.call ELSE NoCall],
                   hasPhoto)
  /\ UNCHANGED <<available, station, field, dialog>>

PhotoEnds(fetched) ==
  /\ imageReply # NoCall
  /\ imageReply' = NoCall
  /\ photo' = IF fetched THEN imageReply ELSE photo
  /\ UNCHANGED <<session, available, label, layer, previous, station, field, cache, dialog>>

----------------------------------------------------------------------------
Init ==
  /\ InitSession
  /\ text = NoCall /\ pending = NoCall /\ lastCall = NoCall
  /\ timer = FALSE
  /\ label = IdleLabel
  /\ layer = Nothing /\ cache = Nothing
  /\ station = FALSE /\ previous = FALSE
  /\ imageReply = NoCall /\ photo = NoCall
  /\ dialog = FALSE

Next ==
  \/ \E t \in Texts \cup {NoCall} : Type(t)
  \/ \E t \in Texts, hasGrid \in BOOLEAN : SelectStation(t, hasGrid)
  \/ LogOrClear \/ WsjtxClears
  \/ OpenFullEntry \/ AcceptFullEntry \/ RejectFullEntry
  \/ DebounceFires
  \/ LoginFails \/ QrzTimesOut \/ QrzFails
  \/ \E key \in BOOLEAN : LoginAnswers(key)
  \/ \E found, hasPhoto \in BOOLEAN : QrzAnswers(found, hasPhoto)
  \/ \E fetched \in BOOLEAN : PhotoEnds(fetched)

LoginEnds  == LoginFails \/ \E key \in BOOLEAN : LoginAnswers(key)
LookupDone == QrzTimesOut \/ QrzFails
                \/ \E found, hasPhoto \in BOOLEAN : QrzAnswers(found, hasPhoto)

(* Timers fire, and the network ends every request one way or another. *)
Fairness == WF_vars(DebounceFires) /\ WF_vars(LoginEnds) /\ WF_vars(LookupDone)

Spec == Init /\ [][Next]_vars /\ Fairness

----------------------------------------------------------------------------
(* Properties                                                              *)

(* Every variable has its type. *)
TypeOK ==
  /\ {available, sessionKey, authenticating, authReply, lookupRetried, timer,
      station, previous, dialog} \subseteq BOOLEAN
  /\ pendingCallsign \in Bases \cup {NoCall}
  /\ lookupReply \in [call : Bases \cup {NoCall}, keyed : BOOLEAN]
  /\ logins \in Nat
  /\ {text, pending} \subseteq Texts \cup {NoCall}
  /\ lastCall \in Calls \cup {NoCall}
  /\ label \in Labels
  /\ {layer, cache} \subseteq Layers
  /\ {imageReply, photo} \subseteq Bases \cup {NoCall}

(* Whatever QRZ still has to answer, and however late, the cache never holds
   data of a call other than the last one that was entered: what auto-log adds
   to a contact is of that station (the pending-call comparison of the slots,
   and the reset of the cache for a new call). *)
CacheIsOfLastCall == {cache.cty, cache.qrz} \subseteq {NoCall, lastCall}

(* A contact made of the form while it holds a call the country file knows has
   the lookup data of that call, and of no station that was in the form before
   (m_lookupQso in buildQso). *)
FormHasOwnData ==
  BuildQso.call \in CtyMatched =>
    /\ BuildQso.layer.cty = BuildQso.call
    /\ BuildQso.layer.qrz \in {NoCall, BuildQso.call}

(* A photo, shown or still being fetched, is of the station whose data the form
   would log (m_imageReply is aborted wherever the layer is replaced). *)
PhotoIsOfLayer == {imageReply, photo} \subseteq {NoCall, layer.qrz}

(* Clearing the callsign field resets the panel for good: no timer, answer or
   photo that was under way fills an empty form again. *)
EmptyFormIsBlank ==
  text = NoCall =>
    /\ label = IdleLabel /\ layer = Nothing
    /\ {imageReply, photo} = {NoCall}
    /\ ~station /\ ~previous /\ ~timer

(* One session at a time, and every request is for a call: a login is under way
   exactly while m_authenticating says so and then for some call, no key is in
   use meanwhile, and a request with a key is for the key in use. *)
OneSession ==
  /\ authenticating <=> authReply
  /\ authenticating <=> pendingCallsign # NoCall
  /\ authenticating => ~sessionKey
  /\ ~Idle => /\ lookupReply.call # NoCall
              /\ lookupReply.keyed <=> sessionKey

(* The session stays coherent, and "on Session Timeout the provider
   re-authenticates once and retries": a lookup costs two logins at most, one for
   want of a key and one retry, however many newer calls come in meanwhile. *)
SessionIsCoherent == OneSession /\ logins <= 2

(* The cache outlives the form: what QRZ said of a station is given up only for
   a new callsign, so a contact logged just after WSJT-X cleared its call is
   still completed. *)
CacheOutlivesForm ==
  [][\/ cache.cty \in {NoCall, cache'.cty} /\ cache.qrz \in {NoCall, cache'.qrz}
     \/ text' # text /\ text' \in Calls]_vars

(* "Looking up ..." does not stay for a call that is typed as it is asked for:
   QRZ's answer, a failure or another text replaces it. *)
LookupIsShown ==
  \A call \in Bases :
    label = LookingUp(call) /\ pending = call ~> ~(label = LookingUp(call) /\ pending = call)

(* The same of every call, portable ones included, which are asked for by their
   base callsign. *)
PortableIsShown ==
  \A call \in Calls :
    LET Waits == label = LookingUp(Base[call]) /\ pending = call
    IN  Waits ~> ~Waits

=============================================================================
