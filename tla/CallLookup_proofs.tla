------------------------- MODULE CallLookup_proofs -------------------------
(***************************************************************************)
(* What is shown and cached of a station is that station's, and the QRZ    *)
(* session stays coherent, for every set of calls and every country file.  *)
(*                                                                         *)
(* The invariant falls into the session's part, which only the provider    *)
(* and the debounce timer touch, and the form's, which rests on it for one *)
(* thing: an answer always names a call, so none is for an empty form.     *)
(***************************************************************************)
EXTENDS CallLookup, TLAPS

SessionTypeOK ==
  /\ sessionKey \in BOOLEAN /\ authenticating \in BOOLEAN
  /\ authReply \in BOOLEAN /\ lookupRetried \in BOOLEAN
  /\ pendingCallsign \in Bases \cup {NoCall}
  /\ lookupReply \in [call : Bases \cup {NoCall}, keyed : BOOLEAN]
  /\ logins \in Nat

FormTypeOK ==
  /\ available \in BOOLEAN /\ timer \in BOOLEAN /\ dialog \in BOOLEAN
  /\ station \in BOOLEAN /\ previous \in BOOLEAN
  /\ text \in Texts \cup {NoCall} /\ pending \in Texts \cup {NoCall}
  /\ lastCall \in Calls \cup {NoCall}
  /\ label \in Labels
  /\ layer \in Layers /\ cache \in Layers
  /\ imageReply \in Bases \cup {NoCall} /\ photo \in Bases \cup {NoCall}

(* A second login is a retry. *)
RetriesAreCounted == logins <= IF lookupRetried THEN 2 ELSE 1

SessionInv == SessionTypeOK /\ OneSession /\ RetriesAreCounted

(* The window's idea of the field, and of the last call it held, is right. *)
PendingIsText == pending = text /\ (text \in Calls => text = lastCall)

(* What the country file says of the call in the field is in the cache. *)
CtyIsCached == text \in CtyMatched => cache.cty = text

FormInv ==
  /\ FormTypeOK /\ PendingIsText /\ CtyIsCached
  /\ CacheIsOfLastCall /\ FormHasOwnData /\ PhotoIsOfLayer /\ EmptyFormIsBlank

IInv == SessionInv /\ FormInv

USE QrzSessionAssumption, CallLookupAssumption

----------------------------------------------------------------------------
(* The session                                                             *)

(* A request's fields have their types. *)
LEMMA Requests ==
  ASSUME NEW call \in Bases, NEW key \in BOOLEAN
  PROVE  /\ [call |-> call, keyed |-> key] \in [call : Bases \cup {NoCall}, keyed : BOOLEAN]
         /\ [call |-> call, keyed |-> key] # NoReply
         /\ call # NoCall
BY DEF NoReply

LEMMA NoRequest == NoReply \in [call : Bases \cup {NoCall}, keyed : BOOLEAN]
BY DEF NoReply

(* A lookup leaves the session coherent, whatever it is doing. *)
LEMMA LookupKeepsSession ==
  ASSUME SessionInv, NEW call \in Bases, Lookup(call)
  PROVE  SessionInv'
<1> USE DEF SessionInv, SessionTypeOK
<1>1. CASE authenticating
  <2>1. /\ pendingCallsign' = call /\ lookupRetried' = FALSE /\ logins' = 0
        /\ UNCHANGED <<sessionKey, authenticating, authReply, lookupReply>>
    BY <1>1 DEF Lookup, Wait
  <2>2. SessionTypeOK'
    BY <2>1
  <2>3. OneSession'
    BY <1>1, <2>1, Requests DEF OneSession, Idle
  <2> QED BY <2>1, <2>2, <2>3 DEF RetriesAreCounted
<1>2. CASE ~authenticating /\ ~sessionKey
  <2>1. ~authReply
    BY <1>2 DEF OneSession
  <2>2. /\ pendingCallsign' = call /\ lookupRetried' = FALSE /\ logins' = 1
        /\ authenticating' = TRUE /\ authReply' = TRUE
        /\ UNCHANGED <<sessionKey, lookupReply>>
    BY <1>2, <2>1 DEF Lookup, Authenticate
  <2>3. SessionTypeOK'
    BY <2>2
  <2>4. OneSession'
    BY <1>2, <2>2, Requests DEF OneSession, Idle
  <2> QED BY <2>2, <2>3, <2>4 DEF RetriesAreCounted
<1>3. CASE ~authenticating /\ sessionKey
  <2>1. /\ lookupRetried' = FALSE /\ logins' = 0
        /\ UNCHANGED <<sessionKey, pendingCallsign, authenticating, authReply>>
        /\ lookupReply' = lookupReply \/ lookupReply' = [call |-> call, keyed |-> TRUE]
    BY <1>3 DEF Lookup, AskFor, DoLookup
  <2>2. SessionTypeOK'
    BY <2>1, Requests
  <2>3. OneSession'
    BY <1>3, <2>1, Requests DEF OneSession, Idle
  <2> QED BY <2>1, <2>2, <2>3 DEF RetriesAreCounted
<1> QED BY <1>1, <1>2, <1>3

(* So does the end of a login, which always has a call to go on with. *)
LEMMA LoginKeepsSession ==
  ASSUME SessionInv, AuthFails \/ \E key \in BOOLEAN : AuthAnswers(key)
  PROVE  SessionInv'
<1> USE DEF SessionInv, SessionTypeOK
<1>1. /\ authenticating' = FALSE /\ authReply' = FALSE /\ pendingCallsign' = NoCall
      /\ UNCHANGED <<lookupRetried, logins>>
  BY DEF AuthFails, AuthAnswers
<1>2. RetriesAreCounted'
  BY <1>1 DEF RetriesAreCounted
<1>3. CASE AuthFails
  <2>1. UNCHANGED <<sessionKey, lookupReply>>
    BY <1>3 DEF AuthFails
  <2> QED BY <1>1, <1>2, <2>1 DEF OneSession, Idle
<1>4. ASSUME NEW key \in BOOLEAN, AuthAnswers(key) PROVE SessionInv'
  <2>1. pendingCallsign \in Bases
    BY <1>4 DEF OneSession, AuthAnswers
  <2>2. sessionKey' = key /\ lookupReply' = [call |-> pendingCallsign, keyed |-> key]
    BY <1>4, <2>1 DEF AuthAnswers, DoLookup
  <2>3. SessionTypeOK'
    BY <1>1, <2>1, <2>2, Requests
  <2>4. OneSession'
    BY <1>1, <2>1, <2>2, Requests DEF OneSession, Idle
  <2> QED BY <1>2, <2>3, <2>4
<1> QED BY <1>3, <1>4

(* And the end of a request: it can time out only while no login is under way,
   and then logs in for the second time. *)
LEMMA AnswerKeepsSession ==
  ASSUME SessionInv, SessionTimesOut \/ LookupEnds
  PROVE  SessionInv'
<1> USE DEF SessionInv, SessionTypeOK
<1>1. lookupReply' = NoReply /\ Idle'
  BY DEF SessionTimesOut, LookupEnds, Idle, NoReply
<1>2. CASE SessionTimesOut
  <2>1. lookupReply.keyed = TRUE /\ ~Idle /\ ~lookupRetried
    BY <1>2 DEF SessionTimesOut, MayRetry
  <2>2. ~authReply /\ lookupReply.call \in Bases
    BY <2>1 DEF OneSession
  <2>3. /\ authenticating' = TRUE /\ authReply' = TRUE /\ pendingCallsign' = lookupReply.call
        /\ sessionKey' = FALSE /\ lookupRetried' = TRUE /\ logins' = logins + 1
    <3>1. Authenticate(lookupReply.call)
      BY <1>2 DEF SessionTimesOut
    <3>2. authenticating' = TRUE /\ authReply' = TRUE /\ pendingCallsign' = lookupReply.call
      BY <2>2, <3>1 DEF Authenticate
    <3> QED BY <1>2, <3>2 DEF SessionTimesOut
  <2>4. SessionTypeOK'
    <3>1. logins' \in Nat
      BY <2>3
    <3>2. pendingCallsign' \in Bases
      BY <2>2, <2>3
    <3> QED BY <1>1, <2>3, <3>1, <3>2, NoRequest
  <2>5. OneSession'
    BY <1>1, <2>2, <2>3 DEF OneSession
  <2> QED BY <2>1, <2>3, <2>4, <2>5 DEF RetriesAreCounted
<1>3. CASE LookupEnds
  <2>1. UNCHANGED <<sessionKey, pendingCallsign, authenticating, authReply, logins, lookupRetried>>
    BY <1>3 DEF LookupEnds, login
  <2>2. SessionTypeOK'
    BY <1>1, <2>1, NoRequest
  <2>3. OneSession'
    BY <1>1, <2>1 DEF OneSession
  <2> QED BY <2>1, <2>2, <2>3 DEF RetriesAreCounted
<1> QED BY <1>2, <1>3

----------------------------------------------------------------------------
(* The form                                                                *)

LEMMA LabelsAreLabels ==
  /\ IdleLabel \in Labels /\ NothingLabel \in Labels /\ FailedLabel \in Labels
  /\ \A call \in Calls : LookingUp(call) \in Labels
  /\ \A result \in Layers : Shows(result) \in Labels
BY DEF Labels, Layers, Texts, IdleLabel, NothingLabel, FailedLabel, LookingUp, Shows, Whose

LEMMA LayersAreLayers ==
  /\ Nothing \in Layers /\ Nothing.cty = NoCall /\ Nothing.qrz = NoCall
  /\ \A call \in Calls : /\ [cty |-> call, qrz |-> NoCall] \in Layers
                         /\ [cty |-> call, qrz |-> NoCall] # Nothing
  /\ \A base \in Bases : /\ [cty |-> NoCall, qrz |-> base] \in Layers
                         /\ [cty |-> NoCall, qrz |-> base] # Nothing
BY DEF Nothing, Layers, Texts

(* Whatever the field is changed to, the new call's data replace the old. *)
LEMMA FieldKeepsForm ==
  ASSUME FormInv, NEW t \in Texts \cup {NoCall}, NEW grid \in BOOLEAN,
         OnCallsignChanged(t, grid), UNCHANGED available, dialog' \in BOOLEAN
  PROVE  FormInv'
<1> USE DEF FormInv, FormTypeOK
<1>0. text' = t /\ pending' = t
  BY DEF OnCallsignChanged
<1>1. CASE t = NoCall
  <2>1. OnCallsignCleared
    BY <1>1 DEF OnCallsignChanged, Texts
  <2>2. /\ timer' = FALSE /\ label' = IdleLabel /\ layer' = Nothing
        /\ station' = FALSE /\ previous' = FALSE
        /\ imageReply' = NoCall /\ photo' = NoCall
        /\ UNCHANGED <<cache, lastCall>>
    BY <2>1 DEF OnCallsignCleared, ClearLookupPanel, DropPhoto
  <2>3. FormTypeOK' /\ PendingIsText'
    BY <1>0, <1>1, <2>2, LabelsAreLabels, LayersAreLayers DEF PendingIsText, Texts
  <2>4. CtyIsCached' /\ FormHasOwnData'
    BY <1>0, <1>1 DEF CtyIsCached, FormHasOwnData, BuildQso, Texts
  <2>5. CacheIsOfLastCall' /\ PhotoIsOfLayer' /\ EmptyFormIsBlank'
    BY <1>0, <2>2 DEF CacheIsOfLastCall, PhotoIsOfLayer, EmptyFormIsBlank
  <2> QED BY <2>3, <2>4, <2>5
<1>2. CASE t \in Fragments
  <2>1. OnFragment /\ station' = grid
    BY <1>2 DEF OnCallsignChanged, Texts
  <2>2. timer' = FALSE /\ UNCHANGED <<cache, label, layer, imageReply, photo, previous, lastCall>>
    BY <2>1 DEF OnFragment, panel, picture
  <2>3. FormTypeOK' /\ PendingIsText'
    BY <1>0, <1>2, <2>1, <2>2 DEF PendingIsText
  <2>4. CtyIsCached' /\ FormHasOwnData' /\ EmptyFormIsBlank'
    BY <1>0, <1>2 DEF CtyIsCached, FormHasOwnData, BuildQso, EmptyFormIsBlank, Texts
  <2>5. CacheIsOfLastCall' /\ PhotoIsOfLayer'
    BY <2>2 DEF CacheIsOfLastCall, PhotoIsOfLayer
  <2> QED BY <2>3, <2>4, <2>5
<1>3. CASE t \in Calls
  <2>1. OnNewCall(t) /\ station' = grid
    BY <1>3 DEF OnCallsignChanged, Texts
  <2>2. lastCall' = t /\ timer' = TRUE
    BY <2>1 DEF OnNewCall
  <2>3. PendingIsText' /\ EmptyFormIsBlank'
    BY <1>0, <1>3, <2>2 DEF PendingIsText, EmptyFormIsBlank, Texts
  <2>4. CASE t \in CtyMatched
    <3>1. cache' = [cty |-> t, qrz |-> NoCall] /\ SetLookupResult(cache', FALSE)
      BY <2>1, <2>4 DEF OnNewCall
    <3>2. cache'.cty = t /\ cache'.qrz = NoCall
      BY <3>1
    <3>3. /\ layer' = cache' /\ label' = Shows(cache')
          /\ photo' = NoCall /\ imageReply' = NoCall /\ UNCHANGED previous
      BY <1>3, <3>1, LayersAreLayers DEF SetLookupResult
    <3>4. FormTypeOK'
      BY <1>0, <1>3, <2>1, <2>2, <3>1, <3>3, LabelsAreLabels, LayersAreLayers DEF Texts
    <3>5. CtyIsCached' /\ FormHasOwnData' /\ CacheIsOfLastCall' /\ PhotoIsOfLayer'
      BY <1>0, <2>2, <3>2, <3>3 DEF CtyIsCached, FormHasOwnData, BuildQso, CacheIsOfLastCall, PhotoIsOfLayer
    <3> QED BY <2>3, <3>4, <3>5
  <2>5. CASE t \notin CtyMatched
    <3>1. cache' = Nothing /\ UNCHANGED <<label, layer, imageReply, photo, previous>>
      BY <2>1, <2>5 DEF OnNewCall, panel, picture
    <3>2. FormTypeOK'
      BY <1>0, <1>3, <2>1, <2>2, <3>1, LayersAreLayers DEF Texts
    <3>3. CtyIsCached' /\ FormHasOwnData'
      BY <1>0, <2>5 DEF CtyIsCached, FormHasOwnData, BuildQso
    <3>4. CacheIsOfLastCall' /\ PhotoIsOfLayer'
      BY <3>1, LayersAreLayers DEF CacheIsOfLastCall, PhotoIsOfLayer
    <3> QED BY <2>3, <3>2, <3>3, <3>4
  <2> QED BY <2>4, <2>5
<1> QED BY <1>1, <1>2, <1>3 DEF Texts

LEMMA ClearingKeepsForm ==
  ASSUME FormInv, ClearForm, UNCHANGED available, dialog' \in BOOLEAN
  PROVE  FormInv'
<1>1. CASE text # NoCall
  BY <1>1, FieldKeepsForm DEF ClearForm
<1>2. CASE text = NoCall
  <2>1. /\ label' = IdleLabel /\ layer' = Nothing
        /\ station' = FALSE /\ previous' = FALSE
        /\ imageReply' = NoCall /\ photo' = NoCall
        /\ UNCHANGED <<text, pending, timer, lastCall, cache>>
    BY <1>2 DEF ClearForm, ClearLookupPanel, DropPhoto, field
  <2>2. FormTypeOK' /\ PendingIsText' /\ CtyIsCached' /\ CacheIsOfLastCall'
    BY <2>1, LabelsAreLabels, LayersAreLayers
    DEF FormInv, FormTypeOK, PendingIsText, CtyIsCached, CacheIsOfLastCall
  <2>3. FormHasOwnData'
    BY <1>2, <2>1 DEF FormHasOwnData, BuildQso, Texts
  <2>4. PhotoIsOfLayer' /\ EmptyFormIsBlank'
    BY <1>2, <2>1 DEF FormInv, PhotoIsOfLayer, EmptyFormIsBlank
  <2> QED BY <2>2, <2>3, <2>4 DEF FormInv
<1> QED BY <1>1, <1>2

LEMMA UntouchedForm ==
  ASSUME FormInv, UNCHANGED <<panel, station, field, cache, available>>, dialog' \in BOOLEAN
  PROVE  FormInv'
BY DEF FormInv, FormTypeOK, PendingIsText, CtyIsCached, CacheIsOfLastCall, FormHasOwnData,
       BuildQso, PhotoIsOfLayer, EmptyFormIsBlank, panel, picture, field

(* A status drops the photo, and there is none on an empty form. *)
LEMMA StatusKeepsForm ==
  ASSUME FormInv, NEW status \in Labels, text # NoCall, timer' \in BOOLEAN,
         previous' \in BOOLEAN, DropPhoto, label' = status,
         UNCHANGED <<layer, cache, station, text, pending, lastCall, available, dialog>>
  PROVE  FormInv'
<1>1. FormTypeOK'
  BY DEF FormInv, FormTypeOK, DropPhoto
<1>2. PendingIsText' /\ CtyIsCached' /\ CacheIsOfLastCall' /\ FormHasOwnData'
  BY DEF FormInv, PendingIsText, CtyIsCached, CacheIsOfLastCall, FormHasOwnData, BuildQso
<1>3. PhotoIsOfLayer' /\ EmptyFormIsBlank'
  BY DEF PhotoIsOfLayer, EmptyFormIsBlank, DropPhoto
<1> QED BY <1>1, <1>2, <1>3 DEF FormInv

LEMMA FailureKeepsForm ==
  ASSUME FormInv, NEW call \in Bases, OnLookupFailed(call),
         UNCHANGED <<station, field, available, dialog>>
  PROVE  FormInv'
<1>1. CASE call = pending
  <2>1. /\ DropPhoto /\ label' = FailedLabel
        /\ UNCHANGED <<layer, cache, previous, timer, text, pending, lastCall>>
    BY <1>1 DEF OnLookupFailed, ForTheForm, SetLookupStatus, field
  <2>2. text # NoCall
    BY <1>1 DEF FormInv, PendingIsText
  <2>3. timer' \in BOOLEAN /\ previous' \in BOOLEAN
    BY <2>1 DEF FormInv, FormTypeOK
  <2> QED BY <2>1, <2>2, <2>3, StatusKeepsForm, LabelsAreLabels
<1>2. CASE call # pending
  <2>1. UNCHANGED <<panel, cache>>
    BY <1>2 DEF OnLookupFailed, ForTheForm
  <2> QED BY <2>1, UntouchedForm DEF FormInv, FormTypeOK
<1> QED BY <1>1, <1>2

(* An answer that is taken is for the call in the field, which is the last one:
   merged into the cache it leaves one station's data there. *)
LEMMA AnswerKeepsForm ==
  ASSUME FormInv, NEW call \in Bases, NEW found \in BOOLEAN, NEW hasPhoto \in BOOLEAN,
         OnResultReady(call, [cty |-> NoCall, qrz |-> IF found THEN call ELSE NoCall], hasPhoto),
         UNCHANGED <<station, field, available, dialog>>
  PROVE  FormInv'
<1> DEFINE result == [cty |-> NoCall, qrz |-> IF found THEN call ELSE NoCall]
<1>1. CASE call = pending
  <2>1. text = call /\ lastCall = call
    BY <1>1 DEF FormInv, PendingIsText
  <2>2. UNCHANGED <<text, pending, timer, lastCall, station, available, dialog>>
    BY DEF field
  <2>3. cache' = Merge(cache, result) /\ SetLookupResult(cache', hasPhoto)
    BY <1>1 DEF OnResultReady, ForTheForm
  <2>4. /\ cache' \in Layers
        /\ cache'.cty = cache.cty
        /\ cache'.qrz \in {NoCall, call}
    <3>1. CASE found
      <4>1. result = [cty |-> NoCall, qrz |-> call] /\ result # Nothing
        BY <3>1, LayersAreLayers
      <4>2. cache' = [cache EXCEPT !.qrz = call]
        BY <2>3, <4>1 DEF Merge
      <4> QED BY <4>2 DEF FormInv, FormTypeOK, Layers
    <3>2. CASE ~found
      <4>1. cache' = cache
        BY <2>3, <3>2 DEF Merge, Nothing
      <4> QED BY <2>1, <4>1 DEF FormInv, FormTypeOK, CacheIsOfLastCall
    <3> QED BY <3>1, <3>2
  <2>5. /\ photo' = NoCall /\ previous' = previous
        /\ imageReply' = IF hasPhoto THEN cache'.qrz ELSE NoCall
        /\ \/ cache' = Nothing /\ label' = NothingLabel /\ layer' = layer
           \/ cache' # Nothing /\ label' = Shows(cache') /\ layer' = cache'
    BY <2>3 DEF SetLookupResult
  <2>6. FormTypeOK'
    BY <2>2, <2>4, <2>5, LabelsAreLabels DEF FormInv, FormTypeOK
  <2>7. PendingIsText' /\ CtyIsCached' /\ CacheIsOfLastCall'
    BY <2>1, <2>2, <2>4 DEF FormInv, PendingIsText, CtyIsCached, CacheIsOfLastCall
  <2>8. FormHasOwnData'
    BY <2>1, <2>2, <2>4, <2>5, LayersAreLayers
    DEF FormInv, FormHasOwnData, BuildQso, CtyIsCached
  <2>9. PhotoIsOfLayer'
    BY <2>5, LayersAreLayers DEF PhotoIsOfLayer
  <2>10. EmptyFormIsBlank'
    BY <2>1, <2>2 DEF EmptyFormIsBlank
  <2> QED BY <2>6, <2>7, <2>8, <2>9, <2>10 DEF FormInv
<1>2. CASE call # pending
  <2>1. UNCHANGED <<panel, cache>>
    BY <1>2 DEF OnResultReady, ForTheForm
  <2> QED BY <2>1, UntouchedForm DEF FormInv, FormTypeOK
<1> QED BY <1>1, <1>2

----------------------------------------------------------------------------
(* The steps                                                               *)

LEMMA InitInv == Init => IInv
<1> SUFFICES ASSUME Init PROVE IInv
  OBVIOUS
<1>1. SessionInv
  <2>1. SessionTypeOK
    BY NoRequest DEF Init, InitSession, SessionTypeOK
  <2>2. OneSession
    BY DEF Init, InitSession, OneSession, Idle
  <2>3. RetriesAreCounted
    BY DEF Init, InitSession, RetriesAreCounted
  <2> QED BY <2>1, <2>2, <2>3 DEF SessionInv
<1>2. FormTypeOK
  BY LabelsAreLabels, LayersAreLayers DEF Init, InitSession, FormTypeOK
<1>3. PendingIsText /\ CtyIsCached /\ FormHasOwnData
  BY DEF Init, PendingIsText, CtyIsCached, FormHasOwnData, BuildQso, Texts
<1>4. CacheIsOfLastCall /\ PhotoIsOfLayer /\ EmptyFormIsBlank
  BY LayersAreLayers DEF Init, CacheIsOfLastCall, PhotoIsOfLayer, EmptyFormIsBlank
<1> QED BY <1>1, <1>2, <1>3, <1>4 DEF IInv, FormInv

LEMMA UntouchedSession ==
  ASSUME SessionInv, UNCHANGED session
  PROVE  SessionInv'
BY DEF SessionInv, SessionTypeOK, OneSession, RetriesAreCounted, Idle, session, login

LEMMA DebounceKeepsInv ==
  ASSUME IInv, DebounceFires
  PROVE  IInv'
<1> USE DEF IInv
<1>1. timer /\ timer' = FALSE
      /\ UNCHANGED <<available, layer, station, cache, dialog, text, pending, lastCall>>
  BY DEF DebounceFires
<1>2. text # NoCall
  BY <1>1 DEF FormInv, EmptyFormIsBlank
<1>3. CASE pending \in Calls /\ available
  <2>1. Base[pending] \in Bases
    BY <1>3
  <2>2. /\ DropPhoto /\ label' = LookingUp(Base[pending]) /\ Lookup(Base[pending])
        /\ previous' \in {previous, TRUE}
    BY <1>3 DEF DebounceFires, AskQrz
  <2>3. SessionInv'
    BY <2>1, <2>2, LookupKeepsSession
  <2>4. LookingUp(Base[pending]) \in Labels
    BY <2>1, LabelsAreLabels
  <2>5. timer' \in BOOLEAN /\ previous' \in BOOLEAN
    BY <1>1, <2>2 DEF FormInv, FormTypeOK
  <2> QED BY <1>1, <1>2, <2>2, <2>3, <2>4, <2>5, StatusKeepsForm
<1>4. CASE ~(pending \in Calls /\ available)
  <2>1. UNCHANGED <<session, imageReply, photo, label>> /\ previous' \in {previous, TRUE}
    BY <1>4 DEF DebounceFires, picture
  <2>2. SessionInv'
    BY <2>1, UntouchedSession
  <2>3. FormTypeOK' /\ PendingIsText' /\ CtyIsCached' /\ CacheIsOfLastCall'
    BY <1>1, <2>1 DEF FormInv, FormTypeOK, PendingIsText, CtyIsCached, CacheIsOfLastCall
  <2>4. FormHasOwnData' /\ PhotoIsOfLayer' /\ EmptyFormIsBlank'
    BY <1>1, <1>2, <2>1 DEF FormInv, FormHasOwnData, BuildQso, PhotoIsOfLayer, EmptyFormIsBlank
  <2> QED BY <2>2, <2>3, <2>4 DEF FormInv
<1> QED BY <1>3, <1>4

LEMMA NextKeepsInv ==
  ASSUME IInv, [Next]_vars
  PROVE  IInv'
<1> USE DEF IInv
<1>0. dialog \in BOOLEAN
  BY DEF FormInv, FormTypeOK
<1>1. ASSUME NEW t \in Texts \cup {NoCall}, Type(t) PROVE IInv'
  BY <1>0, <1>1, UntouchedSession, FieldKeepsForm DEF Type, FormInv, FormTypeOK
<1>2. ASSUME NEW t \in Texts, NEW hasGrid \in BOOLEAN, SelectStation(t, hasGrid) PROVE IInv'
  <2> DEFINE grid == station \/ hasGrid
  <2>1. SessionInv' /\ dialog' \in BOOLEAN /\ grid \in BOOLEAN
    BY <1>0, <1>2, UntouchedSession DEF SelectStation
  <2>2. CASE t # text
    <3>1. OnCallsignChanged(t, grid)
      BY <1>2, <2>2 DEF SelectStation
    <3> QED BY <1>2, <2>1, <3>1, FieldKeepsForm DEF SelectStation
  <2>3. CASE t = text
    <3>1. /\ station' = grid /\ text # NoCall
          /\ UNCHANGED <<text, pending, timer, lastCall, label, layer, imageReply, photo,
                         previous, cache, available, dialog>>
      BY <1>2, <2>3 DEF SelectStation, field, panel, picture
    <3>2. FormTypeOK' /\ PendingIsText' /\ CtyIsCached' /\ CacheIsOfLastCall'
      BY <2>1, <3>1 DEF FormInv, FormTypeOK, PendingIsText, CtyIsCached, CacheIsOfLastCall
    <3>3. FormHasOwnData' /\ PhotoIsOfLayer' /\ EmptyFormIsBlank'
      BY <3>1 DEF FormInv, FormHasOwnData, BuildQso, PhotoIsOfLayer, EmptyFormIsBlank
    <3> QED BY <2>1, <3>2, <3>3 DEF FormInv
  <2> QED BY <2>2, <2>3
<1>3. CASE LogOrClear \/ WsjtxClears
  BY <1>0, <1>3, UntouchedSession, ClearingKeepsForm DEF LogOrClear, WsjtxClears
<1>4. CASE OpenFullEntry \/ RejectFullEntry
  BY <1>4, UntouchedSession, UntouchedForm DEF OpenFullEntry, RejectFullEntry
<1>5. CASE AcceptFullEntry
  BY <1>5, UntouchedSession, ClearingKeepsForm DEF AcceptFullEntry
<1>6. CASE DebounceFires
  BY <1>6, DebounceKeepsInv
<1>7. CASE LoginFails
  <2>1. AuthFails /\ OnLookupFailed(pendingCallsign)
    BY <1>7 DEF LoginFails
  <2>2. SessionInv'
    BY <2>1, LoginKeepsSession
  <2>3. pendingCallsign \in Bases
    BY <2>1 DEF AuthFails, SessionInv, OneSession, SessionTypeOK
  <2> QED BY <1>7, <2>1, <2>2, <2>3, FailureKeepsForm DEF LoginFails
<1>8. ASSUME NEW key \in BOOLEAN, LoginAnswers(key) PROVE IInv'
  BY <1>0, <1>8, LoginKeepsSession, UntouchedForm DEF LoginAnswers
<1>9. CASE QrzTimesOut
  <2>1. SessionTimesOut
    BY <1>9 DEF QrzTimesOut
  <2>2. SessionInv'
    BY <2>1, AnswerKeepsSession
  <2>3. lookupReply.call \in Bases
    BY <2>1 DEF SessionTimesOut, SessionInv, OneSession, SessionTypeOK
  <2>4. OnLookupFailed(lookupReply.call) \/ UNCHANGED <<panel, cache>>
    BY <1>9 DEF QrzTimesOut
  <2> QED BY <1>0, <1>9, <2>2, <2>3, <2>4, FailureKeepsForm, UntouchedForm DEF QrzTimesOut
<1>10. ASSUME LookupEnds PROVE SessionInv' /\ lookupReply.call \in Bases
  BY <1>10, AnswerKeepsSession DEF LookupEnds, SessionInv, OneSession, SessionTypeOK
<1>11. CASE QrzFails
  BY <1>10, <1>11, FailureKeepsForm DEF QrzFails
<1>12. ASSUME NEW found \in BOOLEAN, NEW hasPhoto \in BOOLEAN, QrzAnswers(found, hasPhoto) PROVE IInv'
  BY <1>10, <1>12, AnswerKeepsForm DEF QrzAnswers
<1>13. ASSUME NEW fetched \in BOOLEAN, PhotoEnds(fetched) PROVE IInv'
  <2>1. /\ imageReply # NoCall /\ imageReply' = NoCall /\ photo' \in {imageReply, photo}
        /\ UNCHANGED <<text, pending, timer, lastCall, label, layer, previous, station,
                       cache, available, dialog>>
    BY <1>13 DEF PhotoEnds, field
  <2>2. SessionInv'
    BY <1>13, UntouchedSession DEF PhotoEnds
  <2>3. FormTypeOK' /\ PendingIsText' /\ CtyIsCached' /\ CacheIsOfLastCall'
    BY <2>1 DEF FormInv, FormTypeOK, PendingIsText, CtyIsCached, CacheIsOfLastCall
  <2>4. FormHasOwnData' /\ PhotoIsOfLayer' /\ EmptyFormIsBlank'
    BY <2>1 DEF FormInv, FormHasOwnData, BuildQso, PhotoIsOfLayer, EmptyFormIsBlank
  <2> QED BY <2>2, <2>3, <2>4 DEF FormInv
<1>14. CASE UNCHANGED vars
  BY <1>0, <1>14, UntouchedSession, UntouchedForm DEF vars
<1> QED
  BY <1>1, <1>2, <1>3, <1>4, <1>5, <1>6, <1>7, <1>8, <1>9, <1>11, <1>12, <1>13, <1>14 DEF Next

THEOREM Invariance == Spec => []IInv
BY InitInv, NextKeepsInv, PTL DEF Spec

(* Every variable has its type (TypeOK). *)
THEOREM TypeCorrectness == Spec => []TypeOK
<1>1. IInv => TypeOK
  BY DEF IInv, SessionInv, SessionTypeOK, FormInv, FormTypeOK, TypeOK
<1> QED BY <1>1, Invariance, PTL

(* The session stays coherent, and no lookup logs in more than twice
   (SessionIsCoherent; MayRetry of the provider). *)
THEOREM SessionSafety == Spec => []SessionIsCoherent
<1>1. IInv => SessionIsCoherent
  BY DEF IInv, SessionInv, SessionTypeOK, RetriesAreCounted, SessionIsCoherent
<1> QED BY <1>1, Invariance, PTL

(* The cache is of the last complete call that was entered (CacheIsOfLastCall;
   what an auto-logged contact is completed from). *)
THEOREM CacheIsOwn == Spec => []CacheIsOfLastCall
<1>1. IInv => CacheIsOfLastCall
  BY DEF IInv, FormInv
<1> QED BY <1>1, Invariance, PTL

(* A contact is logged with the data of its own station, in every order of
   answers (FormHasOwnData). *)
THEOREM DataAreOwn == Spec => []FormHasOwnData
<1>1. IInv => FormHasOwnData
  BY DEF IInv, FormInv
<1> QED BY <1>1, Invariance, PTL

(* The photo is of the station whose data stand beside it (PhotoIsOfLayer). *)
THEOREM PhotoIsOwn == Spec => []PhotoIsOfLayer
<1>1. IInv => PhotoIsOfLayer
  BY DEF IInv, FormInv
<1> QED BY <1>1, Invariance, PTL

(* An empty form stays blank, whatever is still under way (EmptyFormIsBlank). *)
THEOREM BlankForm == Spec => []EmptyFormIsBlank
<1>1. IInv => EmptyFormIsBlank
  BY DEF IInv, FormInv
<1> QED BY <1>1, Invariance, PTL

----------------------------------------------------------------------------
(* The cache                                                               *)

Kept == cache.cty \in {NoCall, cache'.cty} /\ cache.qrz \in {NoCall, cache'.qrz}

NewCall == text' # text /\ text' \in Calls

LEMMA FieldKeepsCache ==
  ASSUME NEW t \in Texts \cup {NoCall}, NEW grid, t # text, OnCallsignChanged(t, grid)
  PROVE  Kept \/ NewCall
<1>1. CASE t \in Calls
  BY <1>1 DEF OnCallsignChanged, NewCall
<1>2. CASE t \notin Calls
  BY <1>2 DEF OnCallsignChanged, OnCallsignCleared, OnFragment, Kept
<1> QED BY <1>1, <1>2

LEMMA ClearingKeepsCache ==
  ASSUME ClearForm
  PROVE  Kept
BY DEF ClearForm, OnCallsignChanged, OnCallsignCleared, Texts, Kept

(* What QRZ is merged over is empty, or of the same call. *)
LEMMA AnswerKeepsCache ==
  ASSUME FormInv, NEW call \in Bases, NEW found \in BOOLEAN, NEW hasPhoto \in BOOLEAN,
         OnResultReady(call, [cty |-> NoCall, qrz |-> IF found THEN call ELSE NoCall], hasPhoto)
  PROVE  Kept
<1> DEFINE result == [cty |-> NoCall, qrz |-> IF found THEN call ELSE NoCall]
<1>1. CASE call = pending /\ found
  <2>1. cache.qrz \in {NoCall, call}
    BY <1>1 DEF FormInv, PendingIsText, CacheIsOfLastCall
  <2>2. result = [cty |-> NoCall, qrz |-> call] /\ result # Nothing
    BY <1>1, LayersAreLayers
  <2>3. cache' = [cache EXCEPT !.qrz = call]
    BY <1>1, <2>2 DEF OnResultReady, ForTheForm, Merge
  <2> QED BY <2>1, <2>3 DEF FormInv, FormTypeOK, Layers, Kept
<1>2. CASE ~(call = pending /\ found)
  <2>1. cache' = cache
    BY <1>2 DEF OnResultReady, ForTheForm, Merge, Nothing
  <2> QED BY <2>1 DEF Kept
<1> QED BY <1>1, <1>2

LEMMA NextKeepsCache ==
  ASSUME IInv, Next
  PROVE  Kept \/ NewCall
<1>1. ASSUME NEW t \in Texts \cup {NoCall}, Type(t) PROVE Kept \/ NewCall
  BY <1>1, FieldKeepsCache DEF Type
<1>2. ASSUME NEW t \in Texts, NEW hasGrid \in BOOLEAN, SelectStation(t, hasGrid) PROVE Kept \/ NewCall
  <2>1. CASE t # text
    BY <1>2, <2>1, FieldKeepsCache DEF SelectStation
  <2>2. CASE t = text
    BY <1>2, <2>2 DEF SelectStation, Kept
  <2> QED BY <2>1, <2>2
<1>3. CASE LogOrClear \/ WsjtxClears \/ AcceptFullEntry
  BY <1>3, ClearingKeepsCache DEF LogOrClear, WsjtxClears, AcceptFullEntry
<1>4. CASE OpenFullEntry \/ RejectFullEntry \/ DebounceFires
  BY <1>4 DEF OpenFullEntry, RejectFullEntry, DebounceFires, Kept
<1>5. CASE LoginFails \/ QrzTimesOut \/ QrzFails
  BY <1>5 DEF LoginFails, QrzTimesOut, QrzFails, OnLookupFailed, Kept
<1>6. ASSUME NEW key \in BOOLEAN, LoginAnswers(key) PROVE Kept
  BY <1>6 DEF LoginAnswers, Kept
<1>7. ASSUME NEW found \in BOOLEAN, NEW hasPhoto \in BOOLEAN, QrzAnswers(found, hasPhoto) PROVE Kept
  <2>1. lookupReply.call \in Bases
    BY <1>7 DEF QrzAnswers, LookupEnds, IInv, SessionInv, OneSession, SessionTypeOK
  <2> QED BY <1>7, <2>1, AnswerKeepsCache DEF QrzAnswers, IInv
<1>8. ASSUME NEW fetched \in BOOLEAN, PhotoEnds(fetched) PROVE Kept
  BY <1>8 DEF PhotoEnds, Kept
<1> QED BY <1>1, <1>2, <1>3, <1>4, <1>5, <1>6, <1>7, <1>8 DEF Next

(* QRZ's data of a station are given up only for a new callsign
   (CacheOutlivesForm; the cache that is kept when the form is cleared). *)
THEOREM CacheSafety == Spec => CacheOutlivesForm
<1>1. IInv /\ [Next]_vars => [Kept \/ NewCall]_vars
  BY NextKeepsCache
<1>2. [Kept \/ NewCall]_vars =>
        [\/ cache.cty \in {NoCall, cache'.cty} /\ cache.qrz \in {NoCall, cache'.qrz}
         \/ text' # text /\ text' \in Calls]_vars
  BY DEF Kept, NewCall
<1> QED BY <1>1, <1>2, Invariance, PTL DEF Spec, CacheOutlivesForm

============================================================================
