----------------------------- MODULE QrzSession -----------------------------
(***************************************************************************)
(* The QRZ XML provider: it logs in for a session key, asks for one        *)
(* callsign at a time, and logs in again when QRZ says the session has     *)
(* timed out. Its signals are steps of whoever is wired to them: an action *)
(* here leaves the receiver's variables alone.                             *)
(*                                                                         *)
(* abort() of a reply emits finished() before it returns, while the member *)
(* still points at the reply, so a request that is aborted is gone at once *)
(* and no answer to it is handled later.                                   *)
(***************************************************************************)
EXTENDS Naturals

CONSTANTS
  Bases,     (* the base callsigns that are asked for                       *)
  NoCall     (* the empty string                                            *)

ASSUME QrzSessionAssumption == NoCall \notin Bases

VARIABLES
  available,       (* isAvailable(): enabled and configured in the settings  *)
  sessionKey,      (* m_sessionKey is not empty                              *)
  pendingCallsign, (* m_pendingCallsign                                      *)
  authenticating,  (* m_authenticating                                       *)
  authReply,       (* m_authReply is set: a login is under way               *)
  lookupReply,     (* m_lookupReply, with its request                        *)
  lookupRetried,   (* m_lookupRetried                                        *)
  logins           (* history: logins sent since lookup() was last called    *)

login   == <<sessionKey, pendingCallsign, authenticating, authReply, logins>>
session == <<login, lookupReply, lookupRetried>>

(* m_lookupReply and m_currentLookupCallsign are set and cleared together. *)
NoReply == [call |-> NoCall, keyed |-> FALSE]

Idle == lookupReply = NoReply

(* A login that is under way is aborted first, and its slot gives up the call. *)
Authenticate(call) ==
  /\ pendingCallsign' = IF authReply THEN NoCall ELSE call
  /\ authenticating' = ~authReply
  /\ authReply' = TRUE

DoLookup(call, key) == lookupReply' = [call |-> call, keyed |-> key]

(* Wrong: the call that waits for the login is not replaced. *)
WrongWait(call) == UNCHANGED <<sessionKey, pendingCallsign, authenticating, authReply, lookupReply>>

(* Latest wins while the login is under way. *)
Wait(call) ==
  /\ pendingCallsign' = call
  /\ UNCHANGED <<sessionKey, authenticating, authReply, lookupReply>>

(* An identical request that is under way will do; another one is aborted. *)
AskFor(call) ==
  /\ IF lookupReply.call = call THEN UNCHANGED lookupReply ELSE DoLookup(call, TRUE)
  /\ UNCHANGED <<sessionKey, pendingCallsign, authenticating, authReply>>

Lookup(call) ==
  /\ available
  /\ lookupRetried' = FALSE
  /\ \/ authenticating /\ Wait(call) /\ logins' = 0
     \/ /\ ~authenticating /\ ~sessionKey
        /\ Authenticate(call) /\ logins' = 1
        /\ UNCHANGED <<sessionKey, lookupReply>>
     \/ ~authenticating /\ sessionKey /\ AskFor(call) /\ logins' = 0

----------------------------------------------------------------------------
(* What QRZ answers                                                        *)

(* The login fails or is refused: lookupFailed(pendingCallsign). *)
AuthFails ==
  /\ authReply
  /\ authReply' = FALSE
  /\ authenticating' = FALSE
  /\ pendingCallsign' = NoCall
  /\ UNCHANGED <<sessionKey, lookupReply, lookupRetried, logins>>

(* The login is answered: with a key, or with a page that has neither key nor error. *)
AuthAnswers(key) ==
  /\ authReply
  /\ authReply' = FALSE
  /\ authenticating' = FALSE
  /\ sessionKey' = key
  /\ pendingCallsign' = NoCall
  /\ IF pendingCallsign # NoCall THEN DoLookup(pendingCallsign, key) ELSE UNCHANGED lookupReply
  /\ UNCHANGED <<lookupRetried, logins>>

(* Wrong: logs in again as often as the session times out. *)
WrongMayRetry == lookupReply.keyed

(* Only a key can have timed out, and only the first timeout of a lookup is retried. *)
MayRetry == lookupReply.keyed /\ ~lookupRetried

SessionTimesOut ==
  /\ ~Idle /\ MayRetry
  /\ lookupRetried' = TRUE
  /\ sessionKey' = FALSE
  /\ lookupReply' = NoReply
  /\ Authenticate(lookupReply.call)
  /\ logins' = logins + 1

(* Any other answer: lookupFailed or resultReady of the call asked for. *)
LookupEnds ==
  /\ ~Idle
  /\ lookupReply' = NoReply
  /\ UNCHANGED <<login, lookupRetried>>

InitSession ==
  /\ available \in BOOLEAN
  /\ sessionKey = FALSE /\ authenticating = FALSE /\ authReply = FALSE
  /\ pendingCallsign = NoCall
  /\ lookupReply = NoReply
  /\ lookupRetried = FALSE
  /\ logins = 0

=============================================================================
