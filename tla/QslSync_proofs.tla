--------------------------- MODULE QslSync_proofs ---------------------------
(***************************************************************************)
(* Proofs about QslSync, for any contacts, services and faults, and        *)
(* however dialogs are left.                                               *)
(*                                                                         *)
(* The argument has two halves. A dialog's copies of the rows are recent:  *)
(* of the sent flags the log has, a copy lacks at most the one of the      *)
(* service the dialog is uploading to (CopiesAreRecent). And a request     *)
(* that the user has not gone on without is known to both ends, whatever   *)
(* strays run beside it: its service's member points at it, and the open   *)
(* dialog waits for it unless it was killed (RequestsAreKnown).            *)
(***************************************************************************)
EXTENDS QslSync, TLAPS

(* The flags of a copy, those of the log, and the one the copy may lack. *)
Lags(copy, row, s) ==
  /\ copy.sent \subseteq row.sent
  /\ row.sent \subseteq copy.sent \cup s

LaggingSet == IF dlg.kind = "upload" THEN {dlg.svc} ELSE {}

HeldIsRecent ==
  \A q \in DOMAIN dlg.held : q \in DOMAIN db /\ Lags(dlg.held[q], db[q], LaggingSet)

PendingIsRecent ==
  \A s \in Services : Hears("upload", s) =>
    \A q \in DOMAIN pending[s] : q \in DOMAIN db /\ Lags(pending[s][q], db[q], {s})

(* No dialog, nothing held and nothing awaited. *)
ClosedIsIdle == dlg.kind = "none" => ~dlg.running /\ DOMAIN dlg.held = {}

CopiesAreRecent == HeldIsRecent /\ PendingIsRecent /\ ClosedIsIdle

(* What is known of the request i of service s, unless it is a stray. *)
RequestIsKnown(s, i) ==
  LET r == flight[s][i] IN
  r.stray \/
  /\ handle[s][Via(s, r.kind)] = i
  /\ r.killed => s = "LoTW" /\ r.kind = "upload" /\ ~Hears("upload", s)
  /\ ~r.killed => Hears(IF r.kind = "upload" THEN "upload" ELSE "download", s)
  /\ r.kind = "upload" /\ ~r.killed => r.rows = DOMAIN pending[s]

RequestsAreKnown == \A s \in Services : \A i \in DOMAIN flight[s] : RequestIsKnown(s, i)

CrashIsOfStray == crashed => \E s \in Services : ~Undisturbed(s)

CopyInv == TypeOK /\ CopiesAreRecent

Inv == CopyInv /\ RequestsAreKnown /\ CrashIsOfStray

----------------------------------------------------------------------------
(* Lemmas about the operators                                              *)

LEMMA NoneIsCopies == IsCopies(None) /\ DOMAIN None = {}
BY DEF IsCopies, None

LEMMA CopyIsRow == ASSUME NEW f, IsCopies(f), NEW q \in DOMAIN f PROVE q \in Qsos /\ f[q] \in Row
BY DEF IsCopies

LEMMA UnsentIsCopies ==
  ASSUME IsCopies(db), NEW s \in Services
  PROVE  /\ IsCopies(Unsent(s))
         /\ DOMAIN Unsent(s) \subseteq DOMAIN db
         /\ \A q \in DOMAIN Unsent(s) : Unsent(s)[q] = db[q]
BY DEF IsCopies, Unsent

LEMMA FlaggedRow ==
  ASSUME NEW row \in Row, NEW flags \in SUBSET Services, NEW new
  PROVE  /\ new = [row EXCEPT !.sent = @ \cup flags] =>
              new \in Row /\ new.sent = row.sent \cup flags
         /\ new = [row EXCEPT !.rcvd = @ \cup flags] =>
              new \in Row /\ new.sent = row.sent
BY DEF Row

LEMMA MarkedIsCopies ==
  ASSUME NEW s \in Services, IsCopies(pending[s])
  PROVE  /\ IsCopies(MarkedSent(s))
         /\ DOMAIN MarkedSent(s) = DOMAIN pending[s]
         /\ \A q \in DOMAIN pending[s] :
              MarkedSent(s)[q].sent = pending[s][q].sent \cup {s}
<1>1. ASSUME NEW q \in DOMAIN pending[s]
      PROVE  MarkedSent(s)[q] \in Row /\ MarkedSent(s)[q].sent = pending[s][q].sent \cup {s}
  <2>1. pending[s][q] \in Row
    BY CopyIsRow
  <2>2. MarkedSent(s)[q] = [pending[s][q] EXCEPT !.sent = @ \cup {s}]
    BY DEF MarkedSent
  <2>3. {s} \in SUBSET Services
    OBVIOUS
  <2>4. \A flags \in SUBSET Services : MarkedSent(s)[q] = [pending[s][q] EXCEPT !.sent = @ \cup flags] =>
          MarkedSent(s)[q] \in Row /\ MarkedSent(s)[q].sent = pending[s][q].sent \cup flags
    BY <2>1, FlaggedRow
  <2>5. QED
    BY <2>2, <2>3, <2>4
<1>2. DOMAIN MarkedSent(s) = DOMAIN pending[s] /\ DOMAIN pending[s] \subseteq Qsos
  BY DEF IsCopies, MarkedSent
<1>3. MarkedSent(s) \in [DOMAIN MarkedSent(s) -> Row]
  BY <1>1, <1>2 DEF MarkedSent
<1>4. QED
  BY <1>1, <1>2, <1>3 DEF IsCopies

(* What Write leaves: rows it has not written are those of before. *)
LEMMA WriteRows ==
  ASSUME NEW copies, IsCopies(copies), IsCopies(db), Write(copies)
  PROVE  /\ IsCopies(db')
         /\ DOMAIN db' = DOMAIN db
         /\ refused' \in SUBSET DOMAIN copies
         /\ \A q \in DOMAIN db : db'[q] = IF q \in DOMAIN copies \ refused' THEN copies[q] ELSE db[q]
<1>1. PICK kept \in SUBSET DOMAIN copies :
        /\ db' = [q \in DOMAIN db |-> IF q \in kept \cap DOMAIN copies THEN copies[q] ELSE db[q]]
        /\ refused' = DOMAIN copies \ kept
  BY DEF Write
<1>2. \A q \in DOMAIN db : db'[q] \in Row
  BY <1>1 DEF IsCopies
<1>3. QED
  BY <1>1, <1>2 DEF IsCopies

(* The slots of a service's requests. *)
LEMMA SlotTypes == /\ 0 \notin Slots /\ Stillborn \notin Slots
                   /\ Slots \subseteq 0..Stillborn /\ 0 \in 0..Stillborn /\ Stillborn \in 0..Stillborn
BY QslSyncAssumption DEF Slots, Stillborn

LEMMA NewRequestType ==
  ASSUME NEW kind \in {"upload", "page", "download"}, NEW rows \in SUBSET Qsos
  PROVE  NewRequest(kind, rows) \in Request
BY DEF NewRequest, Request

LEMMA ViaType == \A s, kind : Via(s, kind) \in {"reply", "tqsl"}
BY DEF Via

LEMMA NextSlotIsFree ==
  ASSUME NEW s \in Services, FreeSlots(s) # {}
  PROVE  NextSlot(s) \in Slots /\ NextSlot(s) \notin DOMAIN flight[s]
BY DEF NextSlot, FreeSlots

(* A request that is overtaken may go astray; nothing else of it changes. *)
LEMMA OvertakenRequest ==
  ASSUME TypeOK, NEW s \in Services, NEW member, NEW i \in DOMAIN flight[s]
  PROVE  LET old == flight[s][i]
             new == Overtaken(s, member)[i]
         IN
         /\ new \in Request
         /\ new.kind = old.kind /\ new.rows = old.rows /\ new.answer = old.answer
         /\ new.killed = old.killed
         /\ new.stray = (old.stray \/ (member = "tqsl" /\ old.killed))
<1>1. flight[s][i] \in Request
  BY DEF TypeOK
<1>2. Overtaken(s, member)[i] =
        [flight[s][i] EXCEPT !.stray = flight[s][i].stray \/ (member = "tqsl" /\ flight[s][i].killed)]
  BY DEF Overtaken
<1>3. QED
  BY <1>1, <1>2 DEF Request

(* What Issue does to its service and to the others. *)
LEMMA IssueRequest ==
  ASSUME TypeOK, NEW s \in Services, NEW kind \in {"upload", "page", "download"},
         NEW rows \in SUBSET Qsos, Issue(s, kind, rows)
  PROVE  \E new \in Slots :
           /\ new \notin DOMAIN flight[s]
           /\ DOMAIN flight' = Services /\ DOMAIN flight'[s] = DOMAIN flight[s] \cup {new}
           /\ flight'[s][new] = NewRequest(kind, rows)
           /\ \A i \in DOMAIN flight[s] : flight'[s][i] = Overtaken(s, Via(s, kind))[i]
           /\ \A t \in Services \ {s} : flight'[t] = flight[t]
           /\ handle' = [handle EXCEPT ![s][Via(s, kind)] = new]
<1> DEFINE new == NextSlot(s)
           over == Overtaken(s, Via(s, kind))
<1>1. new \in Slots /\ new \notin DOMAIN flight[s]
  BY NextSlotIsFree DEF Issue
<1>2. /\ flight' = [flight EXCEPT ![s] = With(over, new, NewRequest(kind, rows))]
      /\ handle' = [handle EXCEPT ![s][Via(s, kind)] = new]
  BY DEF Issue
<1>3. s \in DOMAIN flight /\ DOMAIN flight = Services
  BY DEF TypeOK
<1>4. /\ DOMAIN flight' = Services
      /\ flight'[s] = With(over, new, NewRequest(kind, rows))
      /\ \A t \in Services \ {s} : flight'[t] = flight[t]
  BY <1>2, <1>3
<1>5. DOMAIN over = DOMAIN flight[s]
  BY DEF Overtaken
<1> HIDE DEF over
<1>6. /\ DOMAIN flight'[s] = DOMAIN flight[s] \cup {new}
      /\ flight'[s][new] = NewRequest(kind, rows)
      /\ \A i \in DOMAIN flight[s] : flight'[s][i] = over[i]
  BY <1>1, <1>4, <1>5 DEF With
<1>7. QED
  BY <1>1, <1>2, <1>4, <1>6 DEF over

(* A process that never starts takes the member all the same. *)
Stillbirth(s) ==
  /\ handle' = [handle EXCEPT ![s]["tqsl"] = Stillborn]
  /\ flight' = [flight EXCEPT ![s] = Overtaken(s, "tqsl")]

LEMMA StillbirthLeaves ==
  ASSUME TypeOK, NEW s \in Services, Stillbirth(s)
  PROVE  /\ DOMAIN flight' = Services /\ DOMAIN flight'[s] = DOMAIN flight[s]
         /\ \A i \in DOMAIN flight[s] : flight'[s][i] = Overtaken(s, "tqsl")[i]
         /\ \A t \in Services \ {s} : flight'[t] = flight[t]
<1>1. DOMAIN flight = Services
  BY DEF TypeOK
<1>2. DOMAIN Overtaken(s, "tqsl") = DOMAIN flight[s]
  BY DEF Overtaken
<1>3. QED
  BY <1>1, <1>2 DEF Stillbirth

(* The dialog's record. *)
DlgRecords(held) ==
  [kind : {"none", "upload", "download"}, svc : Services, running : BOOLEAN, held : {held}]

LEMMA DlgFields ==
  ASSUME TypeOK
  PROVE  /\ dlg.kind \in {"none", "upload", "download"} /\ dlg.svc \in Services
         /\ dlg.running \in BOOLEAN /\ IsCopies(dlg.held)
BY DEF TypeOK

LEMMA NoDialogType ==
  /\ NoDialog.kind = "none" /\ NoDialog.svc \in Services /\ ~NoDialog.running
  /\ NoDialog.held = None /\ NoDialog \in DlgRecords(None)
BY QslSyncAssumption DEF NoDialog, DlgRecords

(* A dialog that starts or ends its run. *)
LEMMA DlgRunning ==
  ASSUME TypeOK, NEW running \in BOOLEAN, dlg' = [dlg EXCEPT !.running = running]
  PROVE  /\ dlg'.kind = dlg.kind /\ dlg'.svc = dlg.svc /\ dlg'.held = dlg.held
         /\ dlg'.running = running
         /\ dlg' \in DlgRecords(dlg'.held)
BY DEF TypeOK, DlgRecords

LEMMA DlgHeld ==
  ASSUME TypeOK, NEW held, dlg' = [dlg EXCEPT !.running = FALSE, !.held = held]
  PROVE  /\ dlg'.kind = dlg.kind /\ dlg'.svc = dlg.svc /\ dlg'.held = held
         /\ dlg'.running = FALSE
         /\ dlg' \in DlgRecords(held)
BY DEF TypeOK, DlgRecords

----------------------------------------------------------------------------
(* Types                                                                   *)

LEMMA InitTypes == Init => TypeOK
<1> SUFFICES ASSUME Init PROVE TypeOK
  OBVIOUS
<1>1. IsCopies(db)
  <2>1. PICK S \in SUBSET Qsos : db = [q \in S |-> [sent |-> {}, rcvd |-> {}]]
    BY DEF Init
  <2>2. QED
    BY <2>1 DEF IsCopies, Row
<1>2. IsCopies(dlg.held) /\ dlg \in DlgRecords(dlg.held)
  BY NoDialogType, NoneIsCopies DEF Init
<1>3. \A s \in Services : /\ IsCopies(pending[s])
                           /\ DOMAIN flight[s] = {}
  BY NoneIsCopies DEF Init
<1>4. handle \in [Services -> [{"reply", "tqsl"} -> 0..Stillborn]]
  BY SlotTypes DEF Init
<1>5. QED
  BY <1>1, <1>2, <1>3, <1>4 DEF Init, TypeOK, DlgRecords

(* The variables the services keep. *)
PendingType == DOMAIN pending = Services /\ \A s \in Services : IsCopies(pending[s])

FlightType ==
  /\ DOMAIN flight = Services
  /\ \A s \in Services : /\ DOMAIN flight[s] \subseteq Slots
                         /\ \A i \in DOMAIN flight[s] : flight[s][i] \in Request

HandleType == handle \in [Services -> [{"reply", "tqsl"} -> 0..Stillborn]]

LEMMA TypeParts ==
  TypeOK <=> /\ IsCopies(db) /\ IsCopies(dlg.held) /\ dlg \in DlgRecords(dlg.held)
             /\ PendingType /\ FlightType /\ HandleType
             /\ dated \in SUBSET Services /\ crashed \in BOOLEAN
             /\ refused \in SUBSET Qsos
BY DEF TypeOK, DlgRecords, PendingType, FlightType, HandleType

LEMMA IssueTypes ==
  ASSUME TypeOK, NEW s \in Services, NEW kind \in {"upload", "page", "download"},
         NEW rows \in SUBSET Qsos, Issue(s, kind, rows)
  PROVE  FlightType' /\ HandleType'
<1>1. PICK new \in Slots :
        /\ DOMAIN flight' = Services /\ DOMAIN flight'[s] = DOMAIN flight[s] \cup {new}
        /\ flight'[s][new] = NewRequest(kind, rows)
        /\ \A i \in DOMAIN flight[s] : flight'[s][i] = Overtaken(s, Via(s, kind))[i]
        /\ \A t \in Services \ {s} : flight'[t] = flight[t]
        /\ handle' = [handle EXCEPT ![s][Via(s, kind)] = new]
  BY IssueRequest
<1>2. FlightType /\ HandleType
  BY TypeParts
<1>3. HandleType'
  <2>1. new \in 0..Stillborn /\ Via(s, kind) \in {"reply", "tqsl"}
    BY SlotTypes, ViaType
  <2>2. QED
    BY <1>1, <1>2, <2>1 DEF HandleType
<1>4. NewRequest(kind, rows) \in Request
  BY NewRequestType
<1>5. FlightType'
  <2>1. \A i \in DOMAIN flight[s] : flight'[s][i] \in Request
    BY <1>1, OvertakenRequest
  <2>2. QED
    BY <1>1, <1>2, <1>4, <2>1 DEF FlightType
<1>6. QED
  BY <1>3, <1>5

LEMMA StillbirthTypes ==
  ASSUME TypeOK, NEW s \in Services, Stillbirth(s)
  PROVE  FlightType' /\ HandleType'
<1>1. FlightType /\ HandleType
  BY TypeParts
<1>2. HandleType'
  BY <1>1, SlotTypes DEF HandleType, Stillbirth
<1>3. \A i \in DOMAIN flight[s] : flight'[s][i] \in Request
  BY StillbirthLeaves, OvertakenRequest
<1>4. FlightType'
  BY <1>1, <1>3, StillbirthLeaves DEF FlightType
<1>5. QED
  BY <1>2, <1>4

(* startUpload takes the rows without the flag, and sends them or nothing. *)
LEMMA UploadStarts ==
  ASSUME TypeOK, NEW s \in Services, NEW copies, IsCopies(copies), StartUpload(s, copies)
  PROVE  /\ \E running \in BOOLEAN : dlg' = [dlg EXCEPT !.running = running]
         /\ PendingType'
         /\ \A t \in Services \ {s} : pending'[t] = pending[t]
         /\ \A q \in DOMAIN pending'[s] : q \in DOMAIN copies /\ pending'[s][q] = copies[q]
         /\ \/ ~dlg'.running /\ UNCHANGED <<flight, handle>>
            \/ dlg'.running /\ Issue(s, "upload", DOMAIN pending'[s])
            \/ Stillbirth(s)
<1> DEFINE fresh == {q \in DOMAIN copies : s \notin copies[q].sent}
           some  == [q \in fresh |-> copies[q]]
<1>1. PICK outcome \in {"refused", "sent", "stillborn"} :
        /\ pending' = [pending EXCEPT ![s] = IF outcome = "refused" \/ fresh = {} THEN None ELSE some]
        /\ dlg' = [dlg EXCEPT !.running = outcome # "refused" /\ fresh # {}]
        /\ CASE outcome = "refused" \/ fresh = {} -> UNCHANGED <<flight, handle>>
             [] outcome = "sent" /\ fresh # {} -> Issue(s, "upload", fresh)
             [] outcome = "stillborn" /\ fresh # {} -> Stillbirth(s)
  BY DEF StartUpload, Stillbirth
<1>2. IsCopies(some) /\ DOMAIN some = fresh /\ \A q \in fresh : some[q] = copies[q]
  BY DEF IsCopies
<1>3. DOMAIN pending = Services /\ PendingType
  BY TypeParts DEF PendingType
<1>4. \A t \in Services \ {s} : pending'[t] = pending[t]
  BY <1>1, <1>3
<1>5. CASE outcome = "refused" \/ fresh = {}
  <2>1. pending'[s] = None /\ DOMAIN pending' = Services
    BY <1>1, <1>3, <1>5
  <2>2. PendingType'
    BY <2>1, <1>3, <1>4, NoneIsCopies DEF PendingType
  <2>3. UNCHANGED <<flight, handle>> /\ dlg' = [dlg EXCEPT !.running = FALSE]
    BY <1>1, <1>5
  <2>4. ~dlg'.running
    BY <2>3, DlgRunning
  <2>5. QED
    BY <1>1, <1>4, <2>1, <2>2, <2>3, <2>4, NoneIsCopies
<1>6. CASE ~(outcome = "refused" \/ fresh = {})
  <2>1. pending'[s] = some /\ DOMAIN pending' = Services
    BY <1>1, <1>3, <1>6
  <2>2. PendingType'
    BY <2>1, <1>2, <1>3, <1>4 DEF PendingType
  <2>3. DOMAIN pending'[s] = fresh
    BY <1>2, <2>1
  <2>4. dlg' = [dlg EXCEPT !.running = TRUE]
    BY <1>1, <1>6
  <2>5. dlg'.running
    BY <2>4, DlgRunning
  <2>6. \/ Issue(s, "upload", DOMAIN pending'[s])
        \/ Stillbirth(s)
    BY <1>1, <1>6, <2>3
  <2>7. QED
    BY <1>2, <1>4, <2>1, <2>2, <2>3, <2>4, <2>5, <2>6
<1>7. QED
  BY <1>5, <1>6

LEMMA DownloadStarts ==
  ASSUME TypeOK, NEW s \in Services, StartDownload(s)
  PROVE  /\ \E running \in BOOLEAN : dlg' = [dlg EXCEPT !.running = running]
         /\ UNCHANGED pending
         /\ \/ UNCHANGED <<flight, handle>>
            \/ /\ dlg'.running
               /\ \E kind \in {"page", "download"} : Issue(s, kind, {})
<1>1. PICK outcome \in {"refused", "sent"} :
        /\ dlg' = [dlg EXCEPT !.running = outcome = "sent"]
        /\ UNCHANGED pending
        /\ IF outcome = "sent"
           THEN Issue(s, IF s = "eQSL" THEN "page" ELSE "download", {})
           ELSE UNCHANGED <<flight, handle>>
  BY DEF StartDownload
<1>2. dlg'.running = (outcome = "sent")
  BY <1>1, DlgRunning
<1>3. CASE outcome = "sent"
  <2>1. Issue(s, IF s = "eQSL" THEN "page" ELSE "download", {})
    BY <1>1, <1>3
  <2>2. \E kind \in {"page", "download"} : Issue(s, kind, {})
    BY <2>1
  <2>3. QED
    BY <1>1, <1>2, <1>3, <2>2
<1>4. QED
  BY <1>1, <1>3

(* abort: the service keeps no request but those it was waiting for in vain. *)
LEMMA AbortLeaves ==
  ASSUME TypeOK, NEW s \in Services, Abort(s)
  PROVE  /\ FlightType' /\ HandleType' /\ PendingType'
         /\ DOMAIN pending'[s] = {} /\ \A t \in Services \ {s} : pending'[t] = pending[t]
         /\ \A t \in Services \ {s} : flight'[t] = flight[t]
         /\ DOMAIN flight'[s] = DOMAIN flight[s] \ {handle[s]["reply"]}
         /\ \A i \in DOMAIN flight'[s] :
              flight'[s][i] = [flight[s][i] EXCEPT !.killed = @ \/ i = handle[s]["tqsl"]]
         /\ handle' = [handle EXCEPT ![s]["reply"] = 0]
<1> DEFINE left == Less(flight[s], {handle[s]["reply"]})
<1>1. /\ flight' = [flight EXCEPT ![s] =
           [i \in DOMAIN left |-> [left[i] EXCEPT !.killed = @ \/ i = handle[s]["tqsl"]]]]
      /\ handle' = [handle EXCEPT ![s]["reply"] = 0]
      /\ pending' = [pending EXCEPT ![s] = None]
  BY DEF Abort
<1>2. FlightType /\ HandleType /\ PendingType
  BY TypeParts
<1>3. /\ DOMAIN left = DOMAIN flight[s] \ {handle[s]["reply"]}
      /\ \A i \in DOMAIN left : left[i] = flight[s][i]
  BY DEF Less
<1> HIDE DEF left
<1>4. HandleType'
  BY <1>1, <1>2, SlotTypes DEF HandleType
<1>5. /\ DOMAIN pending' = Services /\ pending'[s] = None
      /\ \A t \in Services \ {s} : pending'[t] = pending[t]
  BY <1>1, <1>2 DEF PendingType
<1>6. PendingType'
  BY <1>2, <1>5, NoneIsCopies DEF PendingType
<1>7. /\ DOMAIN flight' = Services
      /\ \A t \in Services \ {s} : flight'[t] = flight[t]
      /\ flight'[s] = [i \in DOMAIN left |-> [left[i] EXCEPT !.killed = @ \/ i = handle[s]["tqsl"]]]
  BY <1>1, <1>2 DEF FlightType
<1>8. /\ DOMAIN flight'[s] = DOMAIN flight[s] \ {handle[s]["reply"]}
      /\ \A i \in DOMAIN flight'[s] :
           flight'[s][i] = [flight[s][i] EXCEPT !.killed = @ \/ i = handle[s]["tqsl"]]
  BY <1>3, <1>7
<1>9. FlightType'
  <2>1. ASSUME NEW i \in DOMAIN flight'[s] PROVE i \in Slots /\ flight'[s][i] \in Request
    <3>1. flight[s][i] \in Request /\ i \in Slots
      BY <1>2, <1>8 DEF FlightType
    <3>2. flight'[s][i] = [flight[s][i] EXCEPT !.killed = flight[s][i].killed \/ i = handle[s]["tqsl"]]
      BY <1>8
    <3>3. QED
      BY <3>1, <3>2 DEF Request
  <2>2. QED
    BY <1>2, <1>7, <2>1 DEF FlightType
<1>10. QED
  BY <1>1, <1>4, <1>5, <1>6, <1>7, <1>8, <1>9, NoneIsCopies

(* What the handler of an upload's end writes. *)
LEMMA UploadEnds ==
  ASSUME TypeOK, NEW updated, IsCopies(updated), OnUploadFinished(updated)
  PROVE  /\ Write(updated) /\ UNCHANGED dated
         /\ dlg' = [dlg EXCEPT !.running = FALSE, !.held = dlg'.held]
         /\ dlg' \in DlgRecords(dlg'.held)
         /\ dlg'.kind = dlg.kind /\ dlg'.svc = dlg.svc /\ ~dlg'.running
         /\ dlg'.held \in {dlg.held, Unsent(dlg.svc)}
         /\ IsCopies(dlg'.held)
<1>1. PICK table \in {dlg.held, Unsent(dlg.svc)} :
        /\ dlg' = [dlg EXCEPT !.running = FALSE, !.held = table]
        /\ Write(updated)
        /\ UNCHANGED dated
  BY DEF OnUploadFinished
<1>2. /\ dlg'.kind = dlg.kind /\ dlg'.svc = dlg.svc /\ dlg'.held = table
      /\ ~dlg'.running /\ dlg' \in DlgRecords(table)
  BY <1>1, DlgHeld
<1>3. IsCopies(table)
  BY <1>1, DlgFields, UnsentIsCopies, TypeParts
<1>4. QED
  BY <1>1, <1>2, <1>3

(* What the handler of a download's end writes: copies with the sent flags of
   those the dialog was opened with. *)
LEMMA DownloadEnds ==
  ASSUME TypeOK, NEW stubs \in SUBSET Stub, NEW clean \in BOOLEAN, OnDownloadFinished(stubs, clean)
  PROVE  /\ dlg' = [dlg EXCEPT !.running = FALSE]
         /\ dated' \in SUBSET Services
         /\ \E copies :
              /\ IsCopies(copies) /\ Write(copies)
              /\ DOMAIN copies \subseteq DOMAIN dlg.held
              /\ \A q \in DOMAIN copies : copies[q].sent = dlg.held[q].sent
<1> DEFINE matched == {c.qso : c \in New(stubs)}
           Flags(q) == UNION {c.flags : c \in {d \in New(stubs) : d.qso = q}}
           copies == [q \in matched |-> [dlg.held[q] EXCEPT !.rcvd = @ \cup Flags(q)]]
<1>1. /\ dlg' = [dlg EXCEPT !.running = FALSE]
      /\ dated' = IF clean \/ stubs # {} THEN dated \cup {dlg.svc} ELSE dated
      /\ Write(copies)
  BY DEF OnDownloadFinished
<1>2. IsCopies(dlg.held) /\ dlg.svc \in Services /\ dated \in SUBSET Services
  BY TypeParts, DlgFields
<1>3. dated' \in SUBSET Services
  BY <1>1, <1>2
<1>4. \A c \in New(stubs) : c.qso \in DOMAIN dlg.held /\ c \in Stub
  BY DEF New
<1>5. \A q : Flags(q) \in SUBSET Services
  BY <1>4 DEF Stub
<1>6. matched \subseteq DOMAIN dlg.held
  BY <1>4
<1>7. ASSUME NEW q \in matched
      PROVE  copies[q] \in Row /\ copies[q].sent = dlg.held[q].sent /\ q \in Qsos
  <2>1. dlg.held[q] \in Row /\ q \in Qsos
    BY <1>2, <1>6, CopyIsRow
  <2>2. copies[q] = [dlg.held[q] EXCEPT !.rcvd = @ \cup Flags(q)]
    OBVIOUS
  <2> HIDE DEF copies, matched, Flags
  <2>3. \A flags \in SUBSET Services : copies[q] = [dlg.held[q] EXCEPT !.rcvd = @ \cup flags] =>
          copies[q] \in Row /\ copies[q].sent = dlg.held[q].sent
    BY <2>1, FlaggedRow
  <2>4. QED
    BY <1>5, <2>1, <2>2, <2>3
<1>8. IsCopies(copies)
  BY <1>7 DEF IsCopies
<1>9. QED
  BY <1>1, <1>3, <1>6, <1>7, <1>8

(* The variables the dialogs and their handlers change. *)
DialogType ==
  /\ IsCopies(db) /\ IsCopies(dlg.held) /\ dlg \in DlgRecords(dlg.held)
  /\ dated \in SUBSET Services /\ refused \in SUBSET Qsos

LEMMA SameDialogType ==
  ASSUME TypeOK, UNCHANGED <<db, dlg, dated>>, Quiet
  PROVE  DialogType'
<1>1. dlg'.held = dlg.held
  OBVIOUS
<1>2. QED
  BY <1>1, TypeParts DEF DialogType, Quiet, IsCopies, DlgRecords

LEMMA UploadReplies ==
  ASSUME TypeOK, NEW s \in Services, NEW ok \in BOOLEAN, UploadReply(s, ok)
  PROVE  /\ DialogType' /\ PendingType'
         /\ DOMAIN pending'[s] = {} /\ \A t \in Services \ {s} : pending'[t] = pending[t]
         /\ \/ /\ Hears("upload", s)
               /\ OnUploadFinished(IF ok THEN MarkedSent(s) ELSE None)
               /\ IsCopies(IF ok THEN MarkedSent(s) ELSE None)
            \/ /\ ~Hears("upload", s) /\ UNCHANGED <<dlg, db, dated>> /\ Quiet
<1>1. pending' = [pending EXCEPT ![s] = None]
  BY DEF UploadReply
<1>2. PendingType /\ IsCopies(pending[s])
  BY TypeParts DEF PendingType
<1>3. /\ DOMAIN pending' = Services /\ pending'[s] = None
      /\ \A t \in Services \ {s} : pending'[t] = pending[t]
  BY <1>1, <1>2 DEF PendingType
<1>4. PendingType' /\ DOMAIN pending'[s] = {}
  BY <1>2, <1>3, NoneIsCopies DEF PendingType
<1>5. IsCopies(IF ok THEN MarkedSent(s) ELSE None)
  BY <1>2, MarkedIsCopies, NoneIsCopies
<1>6. CASE Hears("upload", s)
  <2> DEFINE updated == IF ok THEN MarkedSent(s) ELSE None
  <2>1. OnUploadFinished(updated)
    BY <1>6 DEF UploadReply
  <2> HIDE DEF updated
  <2>2. IsCopies(updated)
    BY <1>5 DEF updated
  <2>3. /\ Write(updated) /\ UNCHANGED dated
        /\ dlg' \in DlgRecords(dlg'.held) /\ IsCopies(dlg'.held)
    BY <2>1, <2>2, UploadEnds
  <2>4. IsCopies(db') /\ refused' \in SUBSET DOMAIN updated /\ DOMAIN updated \subseteq Qsos
    BY <2>2, <2>3, WriteRows, TypeParts DEF IsCopies
  <2>5. DialogType'
    BY <2>3, <2>4, TypeParts DEF DialogType, IsCopies, DlgRecords
  <2>6. QED
    BY <1>3, <1>4, <1>5, <1>6, <2>1, <2>5 DEF updated
<1>7. CASE ~Hears("upload", s)
  <2>1. UNCHANGED <<dlg, db, dated>> /\ Quiet
    BY <1>7 DEF UploadReply
  <2>2. QED
    BY <1>3, <1>4, <1>7, <2>1, SameDialogType
<1>8. QED
  BY <1>6, <1>7

LEMMA DownloadReplies ==
  ASSUME TypeOK, NEW s \in Services, NEW stubs \in SUBSET Stub, NEW answer,
         DownloadReply(s, stubs, answer)
  PROVE  /\ DialogType' /\ UNCHANGED pending
         /\ \/ /\ Hears("download", s)
               /\ dlg' = [dlg EXCEPT !.running = FALSE]
               /\ \E copies :
                    /\ IsCopies(copies) /\ Write(copies)
                    /\ DOMAIN copies \subseteq DOMAIN dlg.held
                    /\ \A q \in DOMAIN copies : copies[q].sent = dlg.held[q].sent
            \/ /\ ~Hears("download", s) /\ UNCHANGED <<dlg, db, dated>> /\ Quiet
<1>1. UNCHANGED pending
  BY DEF DownloadReply
<1>2. CASE Hears("download", s)
  <2> DEFINE kept == IF answer = "error" THEN {} ELSE stubs
  <2>1. OnDownloadFinished(kept, answer = "ok")
    BY <1>2 DEF DownloadReply
  <2>2. kept \in SUBSET Stub /\ (answer = "ok") \in BOOLEAN
    OBVIOUS
  <2> HIDE DEF kept
  <2>3. /\ dlg' = [dlg EXCEPT !.running = FALSE] /\ dated' \in SUBSET Services
        /\ \E copies :
             /\ IsCopies(copies) /\ Write(copies)
             /\ DOMAIN copies \subseteq DOMAIN dlg.held
             /\ \A q \in DOMAIN copies : copies[q].sent = dlg.held[q].sent
    BY <2>1, <2>2, DownloadEnds
  <2>4. PICK copies : IsCopies(copies) /\ Write(copies)
    BY <2>3
  <2>5. IsCopies(db') /\ refused' \in SUBSET DOMAIN copies /\ DOMAIN copies \subseteq Qsos
    BY <2>4, WriteRows, TypeParts DEF IsCopies
  <2>6. dlg' \in DlgRecords(dlg'.held) /\ dlg'.held = dlg.held
    BY <2>3, DlgRunning
  <2>7. DialogType'
    BY <2>3, <2>5, <2>6, TypeParts DEF DialogType, IsCopies, DlgRecords
  <2>8. QED
    BY <1>1, <1>2, <2>3, <2>7
<1>3. CASE ~Hears("download", s)
  <2>1. UNCHANGED <<dlg, db, dated>> /\ Quiet
    BY <1>3 DEF DownloadReply
  <2>2. QED
    BY <1>1, <1>3, <2>1, SameDialogType
<1>4. QED
  BY <1>2, <1>3

(* The second request of eQSL's download r. *)
FileRequest(r) == [NewRequest("download", {}) EXCEPT !.stray = r.stray]

LEMMA FileRequestType ==
  ASSUME NEW r \in Request
  PROVE  /\ FileRequest(r) \in Request /\ FileRequest(r).kind = "download"
         /\ ~FileRequest(r).killed /\ FileRequest(r).stray = r.stray
BY DEF FileRequest, NewRequest, Request

(* The members and the requests that are left once the slot of i has run. The
   index page of eQSL is followed by the file it links to. *)
LEMMA FinishedLeaves ==
  ASSUME TypeOK, NEW s \in Services, NEW i \in DOMAIN flight[s], Finished(s, i),
         handle[s][Via(s, flight[s][i].kind)] # 0
  PROVE  LET r == flight[s][i]
             p == handle[s][Via(s, r.kind)]
             gone == DOMAIN flight[s] \ {i, p}
         IN
         /\ FlightType' /\ HandleType' /\ UNCHANGED crashed
         /\ DOMAIN flight' = Services
         /\ \A t \in Services \ {s} : flight'[t] = flight[t]
         /\ \A j \in gone : j \in DOMAIN flight'[s] /\ flight'[s][j] = flight[s][j]
         /\ r.answer # "none"
         /\ \/ \E next \in Slots :
                 /\ r.kind = "page" /\ next \notin gone
                 /\ DOMAIN flight'[s] = gone \cup {next}
                 /\ flight'[s][next] = FileRequest(r)
                 /\ handle' = [handle EXCEPT ![s][Via(s, r.kind)] = next]
                 /\ UNCHANGED <<db, dlg, pending, dated>> /\ Quiet
            \/ /\ DOMAIN flight'[s] = gone
               /\ handle' = [handle EXCEPT ![s][Via(s, r.kind)] = 0]
               /\ \E answer \in AnswerRead(s, i, p) :
                    \/ r.kind = "upload" /\ UploadReply(s, answer = "ok")
                    \/ /\ r.kind # "upload"
                       /\ \E stubs \in SUBSET Stub : DownloadReply(s, stubs, answer)
<1> DEFINE r == flight[s][i]
           p == handle[s][Via(s, r.kind)]
           rest == Less(flight[s], {i, p})
           gone == DOMAIN flight[s] \ {i, p}
           next == CHOOSE j \in Slots : j \notin DOMAIN rest
<1>1. /\ r.answer # "none" /\ UNCHANGED crashed
      /\ \E answer \in AnswerRead(s, i, p) :
           LET file == r.kind = "page" /\ answer # "error" IN
           /\ flight' = [flight EXCEPT ![s] =
                IF file THEN With(rest, next, FileRequest(r)) ELSE rest]
           /\ handle' = [handle EXCEPT ![s][Via(s, r.kind)] = IF file THEN next ELSE 0]
           /\ CASE r.kind = "upload" -> UploadReply(s, answer = "ok")
                [] file -> UNCHANGED <<db, dlg, pending, dated>> /\ Quiet
                [] OTHER -> DownloadReply(s, IF p \in DOMAIN flight[s] THEN flight[s][p].stubs
                                             ELSE {}, answer)
  BY DEF Finished, FileRequest
<1>2. FlightType /\ HandleType /\ r \in Request /\ i \in Slots
  BY TypeParts DEF FlightType
<1>3. /\ DOMAIN rest = gone /\ \A j \in gone : rest[j] = flight[s][j]
  BY DEF Less
<1>4. next \in Slots /\ next \notin gone
  BY <1>2, <1>3
<1>5. Via(s, r.kind) \in {"reply", "tqsl"}
  BY ViaType
<1>6. PICK answer \in AnswerRead(s, i, p) :
           LET file == r.kind = "page" /\ answer # "error" IN
           /\ flight' = [flight EXCEPT ![s] =
                IF file THEN With(rest, next, FileRequest(r)) ELSE rest]
           /\ handle' = [handle EXCEPT ![s][Via(s, r.kind)] = IF file THEN next ELSE 0]
           /\ CASE r.kind = "upload" -> UploadReply(s, answer = "ok")
                [] file -> UNCHANGED <<db, dlg, pending, dated>> /\ Quiet
                [] OTHER -> DownloadReply(s, IF p \in DOMAIN flight[s] THEN flight[s][p].stubs
                                             ELSE {}, answer)
  BY <1>1
<1> DEFINE stubs == IF p \in DOMAIN flight[s] THEN flight[s][p].stubs ELSE {}
<1>7. stubs \in SUBSET Stub
  BY <1>2 DEF FlightType, Request
<1>8. FileRequest(r) \in Request
  BY <1>2, FileRequestType
<1> HIDE DEF rest, next, stubs
<1>9. CASE r.kind = "page" /\ answer # "error"
  <2>1. /\ flight' = [flight EXCEPT ![s] = With(rest, next, FileRequest(r))]
        /\ handle' = [handle EXCEPT ![s][Via(s, r.kind)] = next]
        /\ UNCHANGED <<db, dlg, pending, dated>> /\ Quiet
    BY <1>6, <1>9
  <2>2. /\ DOMAIN flight' = Services
        /\ flight'[s] = With(rest, next, FileRequest(r))
        /\ \A t \in Services \ {s} : flight'[t] = flight[t]
    BY <2>1, <1>2 DEF FlightType
  <2>3. /\ DOMAIN flight'[s] = gone \cup {next}
        /\ flight'[s][next] = FileRequest(r)
        /\ \A j \in gone : flight'[s][j] = flight[s][j]
    BY <2>2, <1>3, <1>4 DEF With
  <2>4. FlightType'
    BY <1>2, <1>4, <1>8, <2>2, <2>3 DEF FlightType
  <2>5. HandleType'
    BY <1>2, <1>4, <1>5, <2>1, SlotTypes DEF HandleType
  <2>6. QED
    BY <1>1, <1>4, <1>9, <2>1, <2>2, <2>3, <2>4, <2>5
<1>10. CASE ~(r.kind = "page" /\ answer # "error")
  <2>1. /\ flight' = [flight EXCEPT ![s] = rest]
        /\ handle' = [handle EXCEPT ![s][Via(s, r.kind)] = 0]
    BY <1>6, <1>10
  <2>2. /\ DOMAIN flight' = Services
        /\ flight'[s] = rest
        /\ \A t \in Services \ {s} : flight'[t] = flight[t]
    BY <2>1, <1>2 DEF FlightType
  <2>3. FlightType'
    BY <1>2, <1>3, <2>2 DEF FlightType
  <2>4. HandleType'
    BY <1>2, <1>5, <2>1, SlotTypes DEF HandleType
  <2>5. CASE r.kind = "upload"
    <3>1. UploadReply(s, answer = "ok")
      BY <1>6, <2>5
    <3>2. QED
      BY <1>1, <1>3, <2>1, <2>2, <2>3, <2>4, <2>5, <3>1
  <2>6. CASE r.kind # "upload"
    <3>1. DownloadReply(s, stubs, answer)
      BY <1>6, <1>10, <2>6 DEF stubs
    <3>2. QED
      BY <1>1, <1>3, <1>7, <2>1, <2>2, <2>3, <2>4, <2>6, <3>1
  <2>7. QED
    BY <2>5, <2>6
<1>11. QED
  BY <1>9, <1>10

LEMMA AnswersLeave ==
  ASSUME TypeOK, NEW s \in Services, NEW i \in DOMAIN flight[s], ServerAnswers(s, i)
  PROVE  /\ TypeOK' /\ UNCHANGED <<db, dlg, pending, handle, dated, crashed>> /\ ~crashed
         /\ \A t \in Services : DOMAIN flight'[t] = DOMAIN flight[t]
         /\ \A t \in Services : \A j \in DOMAIN flight[t] :
              /\ flight'[t][j].kind = flight[t][j].kind
              /\ flight'[t][j].rows = flight[t][j].rows
              /\ flight'[t][j].killed = flight[t][j].killed
              /\ flight'[t][j].stray = flight[t][j].stray
<1> DEFINE r == flight[s][i]
<1>1. /\ UNCHANGED <<db, dlg, pending, handle, dated, crashed>> /\ refused' = {} /\ ~crashed
      /\ \E answer \in {"ok", "warned", "error"}, stubs \in SUBSET Stubs(s) :
           flight' = [flight EXCEPT ![s][i].answer = answer, ![s][i].stubs = stubs]
  BY DEF ServerAnswers, Quiet
<1>2. PICK answer \in {"ok", "warned", "error"}, stubs \in SUBSET Stubs(s) :
           flight' = [flight EXCEPT ![s][i].answer = answer, ![s][i].stubs = stubs]
  BY <1>1
<1>3. FlightType /\ r \in Request /\ i \in Slots
  BY TypeParts DEF FlightType
<1>4. /\ DOMAIN flight' = Services
      /\ \A t \in Services \ {s} : flight'[t] = flight[t]
      /\ DOMAIN flight'[s] = DOMAIN flight[s]
      /\ \A j \in DOMAIN flight[s] \ {i} : flight'[s][j] = flight[s][j]
      /\ flight'[s][i] = [r EXCEPT !.answer = answer, !.stubs = stubs]
  BY <1>2, <1>3 DEF FlightType
<1>5. /\ flight'[s][i] \in Request
      /\ flight'[s][i].kind = r.kind /\ flight'[s][i].rows = r.rows
      /\ flight'[s][i].killed = r.killed /\ flight'[s][i].stray = r.stray
  <2>1. stubs \in SUBSET Stub
    BY <1>2 DEF Stubs
  <2>2. QED
    BY <1>3, <1>4, <2>1 DEF Request
<1>6. FlightType'
  BY <1>3, <1>4, <1>5 DEF FlightType
<1>7. TypeOK'
  <2>1. HandleType' /\ PendingType'
    BY <1>1, TypeParts DEF HandleType, PendingType, IsCopies
  <2>2. DialogType'
    BY <1>1, SameDialogType DEF Quiet
  <2>3. crashed' \in BOOLEAN
    BY <1>1, TypeParts
  <2>4. QED
    BY <1>6, <2>1, <2>2, <2>3, TypeParts DEF TypeOK, DialogType, HandleType, PendingType, FlightType, DlgRecords
<1>8. QED
  BY <1>1, <1>4, <1>5, <1>7

----------------------------------------------------------------------------
(* The copies stay recent, and with them the sent flags of the log         *)

(* No row of the log loses a sent flag in this step. *)
SentKept == \A q \in DOMAIN db : q \in DOMAIN db' /\ db[q].sent \subseteq db'[q].sent

(* A step that leaves rows and dialog alone, and the contacts a service is
   uploading while that dialog waits for it. *)
LEMMA SameCopies ==
  ASSUME CopiesAreRecent, UNCHANGED <<db, dlg>>,
         \A s \in Services : Hears("upload", s) => pending'[s] = pending[s]
  PROVE  CopiesAreRecent' /\ SentKept
BY DEF CopiesAreRecent, HeldIsRecent, PendingIsRecent, ClosedIsIdle, LaggingSet, Lags, Hears, SentKept

(* Copies that are as recent as that, written back whole. *)
LEMMA WriteKeeps ==
  ASSUME NEW copies, IsCopies(copies), IsCopies(db), Write(copies), NEW s,
         \A q \in DOMAIN copies \cap DOMAIN db :
           db[q].sent \subseteq copies[q].sent /\ copies[q].sent \subseteq db[q].sent \cup s
  PROVE  /\ SentKept /\ DOMAIN db' = DOMAIN db
         /\ \A q \in DOMAIN db : db'[q].sent \subseteq db[q].sent \cup s
BY WriteRows DEF SentKept

LEMMA UploadReplyKeepsCopies ==
  ASSUME CopyInv, NEW s \in Services, NEW ok \in BOOLEAN, UploadReply(s, ok)
  PROVE  CopiesAreRecent' /\ SentKept
<1> DEFINE updated == IF ok THEN MarkedSent(s) ELSE None
<1>1. TypeOK /\ CopiesAreRecent
  BY DEF CopyInv
<1>2. IsCopies(db) /\ IsCopies(pending[s])
  BY <1>1, TypeParts DEF PendingType
<1>3. /\ \A t \in Services \ {s} : pending'[t] = pending[t]
      /\ \/ Hears("upload", s) /\ OnUploadFinished(updated) /\ IsCopies(updated)
         \/ ~Hears("upload", s) /\ UNCHANGED <<dlg, db, dated>>
  BY <1>1, UploadReplies
<1>4. CASE ~Hears("upload", s)
  <2>1. \A t \in Services : Hears("upload", t) => pending'[t] = pending[t]
    BY <1>3, <1>4
  <2>2. QED
    BY <1>1, <1>3, <1>4, <2>1, SameCopies
<1>5. CASE Hears("upload", s)
  <2>1. \A q \in DOMAIN updated :
          /\ q \in DOMAIN db
          /\ db[q].sent \subseteq updated[q].sent /\ updated[q].sent \subseteq db[q].sent \cup {s}
    <3>1. CASE ok
      <4>1. ASSUME NEW q \in DOMAIN pending[s]
            PROVE  /\ q \in DOMAIN db /\ updated[q].sent = pending[s][q].sent \cup {s}
                   /\ pending[s][q].sent \subseteq db[q].sent
                   /\ db[q].sent \subseteq pending[s][q].sent \cup {s}
        BY <1>1, <1>2, <1>5, <3>1, MarkedIsCopies DEF CopiesAreRecent, PendingIsRecent, Lags
      <4>2. DOMAIN updated = DOMAIN pending[s]
        BY <1>2, <3>1, MarkedIsCopies
      <4> HIDE DEF updated
      <4>3. QED
        BY <4>1, <4>2
    <3>2. CASE ~ok
      BY <3>2, NoneIsCopies
    <3>3. QED
      BY <3>1, <3>2
  <2> HIDE DEF updated
  <2>2. OnUploadFinished(updated) /\ IsCopies(updated)
    BY <1>3, <1>5
  <2>3. /\ Write(updated)
        /\ dlg'.kind = dlg.kind /\ dlg'.svc = dlg.svc /\ ~dlg'.running
        /\ dlg'.held \in {dlg.held, Unsent(dlg.svc)}
    BY <1>1, <2>2, UploadEnds
  <2>4. /\ SentKept /\ DOMAIN db' = DOMAIN db
        /\ \A q \in DOMAIN db : db'[q].sent \subseteq db[q].sent \cup {s}
    BY <1>2, <2>1, <2>2, <2>3, WriteKeeps
  <2>5. dlg.kind = "upload" /\ dlg.svc = s
    BY <1>5 DEF Hears
  <2>6. LaggingSet = {s} /\ LaggingSet' = {s}
    BY <2>3, <2>5 DEF LaggingSet
  <2>7. \A q \in DOMAIN dlg'.held : q \in DOMAIN db /\ Lags(dlg'.held[q], db[q], {s})
    <3>1. CASE dlg'.held = dlg.held
      BY <1>1, <2>6, <3>1 DEF CopiesAreRecent, HeldIsRecent
    <3>2. CASE dlg'.held = Unsent(dlg.svc)
      BY <1>2, <2>5, <3>2, UnsentIsCopies DEF Lags
    <3>3. QED
      BY <2>3, <3>1, <3>2
  <2>8. HeldIsRecent'
    BY <2>4, <2>6, <2>7 DEF HeldIsRecent, Lags, SentKept
  <2>9. PendingIsRecent' /\ ClosedIsIdle'
    BY <2>3, <2>5 DEF PendingIsRecent, ClosedIsIdle, Hears
  <2>10. QED
    BY <2>4, <2>8, <2>9 DEF CopiesAreRecent
<1>6. QED
  BY <1>4, <1>5

LEMMA DownloadReplyKeepsCopies ==
  ASSUME CopyInv, NEW s \in Services, NEW stubs \in SUBSET Stub, NEW answer,
         DownloadReply(s, stubs, answer)
  PROVE  CopiesAreRecent' /\ SentKept
<1>1. TypeOK /\ CopiesAreRecent /\ IsCopies(db)
  BY TypeParts DEF CopyInv
<1>2. /\ UNCHANGED pending
      /\ \/ /\ Hears("download", s)
            /\ dlg' = [dlg EXCEPT !.running = FALSE]
            /\ \E copies :
                 /\ IsCopies(copies) /\ Write(copies)
                 /\ DOMAIN copies \subseteq DOMAIN dlg.held
                 /\ \A q \in DOMAIN copies : copies[q].sent = dlg.held[q].sent
         \/ /\ ~Hears("download", s) /\ UNCHANGED <<dlg, db, dated>>
  BY <1>1, DownloadReplies
<1>3. CASE ~Hears("download", s)
  BY <1>1, <1>2, <1>3, SameCopies
<1>4. CASE Hears("download", s)
  <2>1. PICK copies : /\ IsCopies(copies) /\ Write(copies)
                      /\ DOMAIN copies \subseteq DOMAIN dlg.held
                      /\ \A q \in DOMAIN copies : copies[q].sent = dlg.held[q].sent
    BY <1>2, <1>4
  <2>2. dlg.kind = "download" /\ LaggingSet = {}
    BY <1>4 DEF Hears, LaggingSet
  <2>3. \A q \in DOMAIN dlg.held : q \in DOMAIN db /\ dlg.held[q].sent = db[q].sent
    BY <1>1, <2>2 DEF CopiesAreRecent, HeldIsRecent, Lags
  <2>4. \A q \in DOMAIN copies \cap DOMAIN db :
          db[q].sent \subseteq copies[q].sent /\ copies[q].sent \subseteq db[q].sent \cup {}
    BY <2>1, <2>3
  <2>5. /\ SentKept /\ DOMAIN db' = DOMAIN db
        /\ \A q \in DOMAIN db : db'[q].sent \subseteq db[q].sent \cup {}
    BY <1>1, <2>1, <2>4, WriteKeeps
  <2>6. /\ dlg'.kind = dlg.kind /\ dlg'.svc = dlg.svc /\ dlg'.held = dlg.held
        /\ ~dlg'.running
    BY <1>1, <1>2, <1>4, DlgRunning
  <2>7. HeldIsRecent'
    BY <2>2, <2>3, <2>5, <2>6 DEF HeldIsRecent, Lags, SentKept, LaggingSet
  <2>8. PendingIsRecent' /\ ClosedIsIdle'
    BY <2>2, <2>6 DEF PendingIsRecent, ClosedIsIdle, Hears
  <2>9. QED
    BY <2>5, <2>7, <2>8 DEF CopiesAreRecent
<1>5. QED
  BY <1>2, <1>3, <1>4

LEMMA LogContactKeeps ==
  ASSUME CopyInv, NEW q \in Qsos, LogContact(q)
  PROVE  CopyInv' /\ SentKept
<1>1. TypeOK /\ CopiesAreRecent
  BY DEF CopyInv
<1>2. /\ q \notin DOMAIN db
      /\ db' = [p \in DOMAIN db \cup {q} |-> IF p = q THEN [sent |-> {}, rcvd |-> {}] ELSE db[p]]
      /\ UNCHANGED <<dlg, pending, flight, handle, dated, crashed>> /\ refused' = {}
  BY DEF LogContact, Quiet
<1>3. DOMAIN db' = DOMAIN db \cup {q} /\ \A p \in DOMAIN db : db'[p] = db[p]
  BY <1>2
<1>4. IsCopies(db')
  BY <1>1, <1>2, TypeParts DEF IsCopies, Row
<1>5. TypeOK'
  BY <1>1, <1>2, <1>4 DEF TypeOK, IsCopies
<1>6. CopiesAreRecent' /\ SentKept
  BY <1>1, <1>2, <1>3
  DEF CopiesAreRecent, HeldIsRecent, PendingIsRecent, ClosedIsIdle, LaggingSet, Lags, Hears, SentKept
<1>7. QED
  BY <1>5, <1>6 DEF CopyInv

(* The dialogs open, choose their service and read the rows not yet sent. *)
DialogStep ==
  \/ OpenDownload \/ OpenUpload \/ OnSelectRequired
  \/ \E s \in Services : OnServiceChanged(s)

LEMMA DialogStepKeeps ==
  ASSUME CopyInv, DialogStep
  PROVE  /\ CopyInv' /\ SentKept /\ ~dlg.running /\ ~dlg'.running
         /\ UNCHANGED <<db, pending, flight, handle, dated, crashed>>
<1>1. TypeOK /\ CopiesAreRecent
  BY DEF CopyInv
<1>2. /\ UNCHANGED <<db, pending, flight, handle, dated, crashed>> /\ refused' = {}
      /\ ~dlg.running
  BY DEF DialogStep, OpenDownload, OpenUpload, OnSelectRequired, OnServiceChanged, Idle, Quiet
<1>3. IsCopies(db)
  BY <1>1, TypeParts
<1>4. /\ dlg' \in DlgRecords(dlg'.held) /\ IsCopies(dlg'.held) /\ ~dlg'.running
      /\ dlg'.kind # "none"
      /\ \A q \in DOMAIN dlg'.held :
           /\ q \in DOMAIN db
           /\ Lags(dlg'.held[q], db[q], IF dlg'.kind = "upload" THEN {dlg'.svc} ELSE {})
  <2>1. CASE OpenDownload
    <3>1. PICK snapshot \in {db, None} : dlg' = [NoDialog EXCEPT !.kind = "download", !.held = snapshot]
      BY <2>1 DEF OpenDownload
    <3>2. /\ dlg' \in DlgRecords(snapshot) /\ dlg'.held = snapshot /\ ~dlg'.running
          /\ dlg'.kind = "download"
      BY <3>1, NoDialogType DEF DlgRecords
    <3>3. IsCopies(snapshot)
      BY <1>3, NoneIsCopies
    <3>4. \A q \in DOMAIN snapshot : q \in DOMAIN db /\ snapshot[q] = db[q]
      BY NoneIsCopies
    <3>5. QED
      BY <3>2, <3>3, <3>4 DEF Lags
  <2>2. CASE OpenUpload
    <3>1. dlg' = [NoDialog EXCEPT !.kind = "upload"]
      BY <2>2 DEF OpenUpload
    <3>2. /\ dlg' \in DlgRecords(None) /\ dlg'.held = None /\ ~dlg'.running
          /\ dlg'.kind = "upload"
      BY <3>1, NoDialogType DEF DlgRecords
    <3>3. QED
      BY <3>2, NoneIsCopies
  <2>3. CASE OnSelectRequired
    <3>1. dlg' = [dlg EXCEPT !.held = Unsent(dlg.svc)] /\ dlg.kind = "upload" /\ ~dlg.running
      BY <2>3 DEF OnSelectRequired, Idle
    <3>2. /\ dlg' \in DlgRecords(Unsent(dlg.svc)) /\ dlg'.held = Unsent(dlg.svc) /\ ~dlg'.running
          /\ dlg'.kind = "upload"
      BY <1>1, <3>1, TypeParts DEF DlgRecords
    <3>3. /\ IsCopies(Unsent(dlg.svc))
          /\ \A q \in DOMAIN Unsent(dlg.svc) : q \in DOMAIN db /\ Unsent(dlg.svc)[q] = db[q]
      BY <1>1, <1>3, DlgFields, UnsentIsCopies
    <3>4. QED
      BY <3>2, <3>3 DEF Lags
  <2>4. CASE \E s \in Services : OnServiceChanged(s)
    <3>1. PICK s \in Services :
            /\ dlg' = [dlg EXCEPT !.svc = s, !.held = IF dlg.kind = "upload" THEN None ELSE @]
            /\ dlg.kind \in {"upload", "download"} /\ ~dlg.running
      BY <2>4 DEF OnServiceChanged, Idle
    <3>2. /\ dlg' \in DlgRecords(dlg'.held) /\ dlg'.kind = dlg.kind /\ ~dlg'.running
          /\ dlg'.held = IF dlg.kind = "upload" THEN None ELSE dlg.held
      BY <1>1, <3>1, TypeParts DEF DlgRecords
    <3>3. CASE dlg.kind = "upload"
      BY <3>2, <3>3, NoneIsCopies
    <3>4. CASE dlg.kind = "download"
      <4>1. \A q \in DOMAIN dlg.held : q \in DOMAIN db /\ Lags(dlg.held[q], db[q], {})
        BY <1>1, <3>4 DEF CopiesAreRecent, HeldIsRecent, LaggingSet
      <4>2. dlg'.held = dlg.held /\ dlg'.kind = "download" /\ IsCopies(dlg.held)
        BY <1>1, <3>2, <3>4, DlgFields
      <4>3. QED
        BY <3>2, <4>1, <4>2
    <3>5. QED
      BY <3>1, <3>3, <3>4
  <2>5. QED
    BY <2>1, <2>2, <2>3, <2>4 DEF DialogStep
<1>5. TypeOK'
  BY <1>1, <1>2, <1>4 DEF TypeOK, IsCopies, DlgRecords
<1>6. HeldIsRecent' /\ PendingIsRecent' /\ ClosedIsIdle'
  BY <1>2, <1>4 DEF HeldIsRecent, LaggingSet, PendingIsRecent, ClosedIsIdle, Lags, Hears
<1>7. SentKept
  BY <1>2 DEF SentKept
<1>8. QED
  BY <1>2, <1>4, <1>5, <1>6, <1>7 DEF CopyInv, CopiesAreRecent

LEMMA UploadClickKeeps ==
  ASSUME CopyInv, NEW checked \in SUBSET Qsos, OnUploadClicked(checked)
  PROVE  CopyInv' /\ SentKept
<1> DEFINE s == dlg.svc
           copies == [q \in checked |-> dlg.held[q]]
<1>1. TypeOK /\ CopiesAreRecent /\ s \in Services
  BY DlgFields DEF CopyInv
<1>2. /\ StartUpload(s, copies) /\ checked \subseteq DOMAIN dlg.held
      /\ dlg.kind = "upload"
      /\ UNCHANGED <<db, dated, crashed>> /\ refused' = {}
  BY DEF OnUploadClicked, Idle, Quiet
<1>3. IsCopies(copies)
  BY <1>1, <1>2, DlgFields DEF IsCopies
<1> HIDE DEF copies
<1>4. /\ \E running \in BOOLEAN : dlg' = [dlg EXCEPT !.running = running]
      /\ PendingType'
      /\ \A q \in DOMAIN pending'[s] : q \in DOMAIN copies /\ pending'[s][q] = copies[q]
      /\ \/ UNCHANGED <<flight, handle>>
         \/ Issue(s, "upload", DOMAIN pending'[s])
         \/ Stillbirth(s)
  BY <1>1, <1>2, <1>3, UploadStarts
<1>5. FlightType' /\ HandleType'
  <2>1. CASE UNCHANGED <<flight, handle>>
    BY <1>1, <2>1, TypeParts DEF FlightType, HandleType
  <2>2. CASE Issue(s, "upload", DOMAIN pending'[s])
    <3>1. DOMAIN pending'[s] \in SUBSET Qsos
      BY <1>1, <1>4 DEF PendingType, IsCopies
    <3>2. QED
      BY <1>1, <2>2, <3>1, IssueTypes
  <2>3. CASE Stillbirth(s)
    BY <1>1, <2>3, StillbirthTypes
  <2>4. QED
    BY <1>4, <2>1, <2>2, <2>3
<1>6. /\ dlg'.kind = dlg.kind /\ dlg'.svc = dlg.svc /\ dlg'.held = dlg.held
      /\ dlg' \in DlgRecords(dlg'.held)
  BY <1>1, <1>4, DlgRunning
<1>7. TypeOK'
  BY <1>1, <1>2, <1>4, <1>5, <1>6, TypeParts
  DEF TypeOK, IsCopies, DlgRecords, PendingType, FlightType, HandleType
<1>8. HeldIsRecent' /\ ClosedIsIdle' /\ SentKept
  BY <1>1, <1>2, <1>6
  DEF CopiesAreRecent, HeldIsRecent, LaggingSet, ClosedIsIdle, SentKept, Lags
<1>9. PendingIsRecent'
  <2>1. \A q \in DOMAIN dlg.held : q \in DOMAIN db /\ Lags(dlg.held[q], db[q], {s})
    BY <1>1, <1>2 DEF CopiesAreRecent, HeldIsRecent, LaggingSet
  <2>2. \A q \in DOMAIN copies : q \in DOMAIN dlg.held /\ copies[q] = dlg.held[q]
    BY <1>2 DEF copies
  <2>3. \A q \in DOMAIN pending'[s] : q \in DOMAIN db /\ Lags(pending'[s][q], db[q], {s})
    BY <1>4, <2>1, <2>2
  <2>4. \A t \in Services : Hears("upload", t)' => t = s
    BY <1>6 DEF Hears
  <2>5. QED
    BY <1>2, <2>3, <2>4 DEF PendingIsRecent, Lags
<1>10. QED
  BY <1>7, <1>8, <1>9 DEF CopyInv, CopiesAreRecent

LEMMA DownloadClickKeeps ==
  ASSUME CopyInv, OnDownloadClicked
  PROVE  CopyInv' /\ SentKept
<1> DEFINE s == dlg.svc
<1>1. TypeOK /\ CopiesAreRecent /\ s \in Services
  BY DlgFields DEF CopyInv
<1>2. /\ StartDownload(s) /\ dlg.kind = "download"
      /\ UNCHANGED <<db, dated, crashed>> /\ refused' = {}
  BY DEF OnDownloadClicked, Idle, Quiet
<1>3. /\ \E running \in BOOLEAN : dlg' = [dlg EXCEPT !.running = running]
      /\ UNCHANGED pending
      /\ \/ UNCHANGED <<flight, handle>>
         \/ \E kind \in {"page", "download"} : Issue(s, kind, {})
  BY <1>1, <1>2, DownloadStarts
<1>4. FlightType' /\ HandleType'
  BY <1>1, <1>3, TypeParts, IssueTypes DEF FlightType, HandleType
<1>5. /\ dlg'.kind = dlg.kind /\ dlg'.svc = dlg.svc /\ dlg'.held = dlg.held
      /\ dlg' \in DlgRecords(dlg'.held)
  BY <1>1, <1>3, DlgRunning
<1>6. TypeOK'
  BY <1>1, <1>2, <1>3, <1>4, <1>5, TypeParts
  DEF TypeOK, IsCopies, DlgRecords, PendingType, FlightType, HandleType
<1>7. CopiesAreRecent' /\ SentKept
  BY <1>1, <1>2, <1>3, <1>5
  DEF CopiesAreRecent, HeldIsRecent, LaggingSet, PendingIsRecent, Hears, ClosedIsIdle, SentKept, Lags
<1>8. QED
  BY <1>6, <1>7 DEF CopyInv

LEMMA LeaveKeeps ==
  ASSUME CopyInv, LeaveDialog
  PROVE  CopyInv' /\ SentKept /\ dlg'.kind = "none" /\ dlg.kind # "none"
<1>1. TypeOK /\ CopiesAreRecent /\ dlg.svc \in Services
  BY DlgFields DEF CopyInv
<1>2. /\ dlg' = NoDialog /\ dlg.kind # "none"
      /\ UNCHANGED <<db, dated, crashed>> /\ refused' = {}
      /\ Abort(dlg.svc) \/ UNCHANGED <<pending, flight, handle>>
  BY DEF LeaveDialog, Quiet
<1>3. FlightType' /\ HandleType' /\ PendingType'
  <2>1. CASE Abort(dlg.svc)
    BY <1>1, <2>1, AbortLeaves
  <2>2. CASE UNCHANGED <<pending, flight, handle>>
    BY <1>1, <2>2, TypeParts DEF FlightType, HandleType, PendingType, IsCopies
  <2>3. QED
    BY <1>2, <2>1, <2>2
<1>4. /\ dlg'.kind = "none" /\ ~dlg'.running /\ dlg'.held = None /\ DOMAIN dlg'.held = {}
      /\ dlg' \in DlgRecords(dlg'.held) /\ IsCopies(dlg'.held)
  BY <1>2, NoDialogType, NoneIsCopies
<1>5. TypeOK'
  BY <1>1, <1>2, <1>3, <1>4, TypeParts
  DEF TypeOK, IsCopies, DlgRecords, PendingType, FlightType, HandleType
<1>6. CopiesAreRecent' /\ SentKept
  BY <1>1, <1>2, <1>4
  DEF CopiesAreRecent, HeldIsRecent, PendingIsRecent, Hears, ClosedIsIdle, SentKept
<1>7. QED
  BY <1>2, <1>4, <1>5, <1>6 DEF CopyInv

(* What Escape makes of the requests of the dialog's service. *)
LEMMA EscapeLeaves ==
  ASSUME TypeOK, EscapeDialog
  PROVE  /\ DOMAIN flight' = Services
         /\ DOMAIN flight'[dlg.svc] = DOMAIN flight[dlg.svc]
         /\ \A t \in Services \ {dlg.svc} : flight'[t] = flight[t]
         /\ \A i \in DOMAIN flight[dlg.svc] :
              LET old == flight[dlg.svc][i]
                  new == flight'[dlg.svc][i]
              IN
              /\ new \in Request
              /\ new.kind = old.kind /\ new.rows = old.rows /\ new.killed = old.killed
              /\ new.stray = (old.stray \/ ~old.killed)
<1>1. DOMAIN flight = Services /\ dlg.svc \in Services
  BY DlgFields DEF TypeOK
<1>2. flight' = [flight EXCEPT ![dlg.svc] = Abandoned(dlg.svc)]
  BY DEF EscapeDialog
<1>3. /\ DOMAIN flight' = Services /\ \A t \in Services \ {dlg.svc} : flight'[t] = flight[t]
      /\ flight'[dlg.svc] = Abandoned(dlg.svc)
  BY <1>1, <1>2
<1>4. ASSUME NEW i \in DOMAIN flight[dlg.svc]
      PROVE  LET old == flight[dlg.svc][i]
                 new == Abandoned(dlg.svc)[i]
             IN
             /\ new \in Request
             /\ new.kind = old.kind /\ new.rows = old.rows /\ new.killed = old.killed
             /\ new.stray = (old.stray \/ ~old.killed)
  <2> PICK old \in Request : old = flight[dlg.svc][i]
    BY <1>1 DEF TypeOK
  <2>1. Abandoned(dlg.svc)[i] = [old EXCEPT !.stray = old.stray \/ ~old.killed]
    BY DEF Abandoned
  <2>2. QED
    BY <2>1 DEF Request
<1>5. DOMAIN Abandoned(dlg.svc) = DOMAIN flight[dlg.svc]
  BY DEF Abandoned
<1>6. QED
  BY <1>3, <1>4, <1>5

LEMMA EscapeKeeps ==
  ASSUME CopyInv, EscapeDialog
  PROVE  CopyInv' /\ SentKept
<1>1. TypeOK /\ CopiesAreRecent /\ dlg.svc \in Services
  BY DlgFields DEF CopyInv
<1>2. /\ dlg' = NoDialog
      /\ UNCHANGED <<db, dated, crashed, pending, handle>> /\ refused' = {}
  BY DEF EscapeDialog, Quiet
<1>3. FlightType'
  BY <1>1, EscapeLeaves, TypeParts DEF FlightType
<1>4. /\ dlg'.kind = "none" /\ ~dlg'.running /\ dlg'.held = None /\ DOMAIN dlg'.held = {}
      /\ dlg' \in DlgRecords(dlg'.held) /\ IsCopies(dlg'.held)
  BY <1>2, NoDialogType, NoneIsCopies
<1>5. TypeOK'
  BY <1>1, <1>2, <1>3, <1>4, TypeParts
  DEF TypeOK, IsCopies, DlgRecords, PendingType, FlightType, HandleType
<1>6. CopiesAreRecent' /\ SentKept
  BY <1>1, <1>2, <1>4
  DEF CopiesAreRecent, HeldIsRecent, PendingIsRecent, Hears, ClosedIsIdle, SentKept
<1>7. QED
  BY <1>5, <1>6 DEF CopyInv

LEMMA FinishedKeeps ==
  ASSUME CopyInv, NEW s \in Services, NEW i \in DOMAIN flight[s], Finished(s, i)
  PROVE  CopyInv' /\ SentKept
<1> DEFINE r == flight[s][i]
           p == handle[s][Via(s, r.kind)]
<1>1. TypeOK /\ CopiesAreRecent
  BY DEF CopyInv
<1>2. CASE p = 0
  <2>1. /\ crashed' = TRUE /\ UNCHANGED <<db, dlg, pending, flight, handle, dated>>
        /\ refused' = {}
    BY <1>2 DEF Finished, Quiet
  <2>2. TypeOK'
    BY <1>1, <2>1 DEF TypeOK, IsCopies
  <2>3. CopiesAreRecent' /\ SentKept
    BY <1>1, <2>1, SameCopies
  <2>4. QED
    BY <2>2, <2>3 DEF CopyInv
<1>3. CASE p # 0
  <2>1. /\ FlightType' /\ HandleType' /\ UNCHANGED crashed
        /\ \/ UNCHANGED <<db, dlg, pending, dated>> /\ Quiet
           \/ \E answer \in AnswerRead(s, i, p) : UploadReply(s, answer = "ok")
           \/ \E answer \in AnswerRead(s, i, p) :
                \E stubs \in SUBSET Stub : DownloadReply(s, stubs, answer)
    BY <1>1, <1>3, FinishedLeaves
  <2>2. DialogType' /\ PendingType' /\ CopiesAreRecent' /\ SentKept
    <3>1. CASE UNCHANGED <<db, dlg, pending, dated>> /\ Quiet
      <4>1. PendingType'
        BY <1>1, <3>1, TypeParts DEF PendingType, IsCopies
      <4>2. QED
        BY <1>1, <3>1, <4>1, SameDialogType, SameCopies
    <3>2. ASSUME NEW answer \in AnswerRead(s, i, p), UploadReply(s, answer = "ok")
          PROVE  DialogType' /\ PendingType' /\ CopiesAreRecent' /\ SentKept
      <4>1. (answer = "ok") \in BOOLEAN
        OBVIOUS
      <4>2. QED
        BY <1>1, <3>2, <4>1, UploadReplies, UploadReplyKeepsCopies
    <3>3. ASSUME NEW answer \in AnswerRead(s, i, p), NEW stubs \in SUBSET Stub,
                 DownloadReply(s, stubs, answer)
          PROVE  DialogType' /\ PendingType' /\ CopiesAreRecent' /\ SentKept
      <4>1. DialogType' /\ UNCHANGED pending
        BY <1>1, <3>3, DownloadReplies
      <4>2. PendingType'
        BY <1>1, <4>1, TypeParts DEF PendingType, IsCopies
      <4>3. QED
        BY <3>3, <4>1, <4>2, DownloadReplyKeepsCopies
    <3>4. QED
      BY <2>1, <3>1, <3>2, <3>3
  <2>3. TypeOK'
    BY <1>1, <2>1, <2>2, TypeParts
    DEF TypeOK, DialogType, DlgRecords, PendingType, FlightType, HandleType
  <2>4. QED
    BY <2>2, <2>3 DEF CopyInv
<1>4. QED
  BY <1>2, <1>3

LEMMA NextKeepsCopies == CopyInv /\ [Next]_vars => CopyInv' /\ SentKept
<1> SUFFICES ASSUME CopyInv, [Next]_vars PROVE CopyInv' /\ SentKept
  OBVIOUS
<1>1. ASSUME NEW q \in Qsos, LogContact(q) PROVE CopyInv' /\ SentKept
  BY <1>1, LogContactKeeps
<1>2. ASSUME DialogStep PROVE CopyInv' /\ SentKept
  BY <1>2, DialogStepKeeps
<1>3. ASSUME NEW checked \in SUBSET Qsos, OnUploadClicked(checked) PROVE CopyInv' /\ SentKept
  BY <1>3, UploadClickKeeps
<1>4. ASSUME OnDownloadClicked PROVE CopyInv' /\ SentKept
  BY <1>4, DownloadClickKeeps
<1>5. ASSUME LeaveDialog PROVE CopyInv' /\ SentKept
  BY <1>5, LeaveKeeps
<1>10. ASSUME EscapeDialog PROVE CopyInv' /\ SentKept
  BY <1>10, EscapeKeeps
<1>6. ASSUME NEW s \in Services, NEW i \in DOMAIN flight[s], ServerAnswers(s, i)
      PROVE  CopyInv' /\ SentKept
  <2>1. TypeOK' /\ UNCHANGED <<db, dlg, pending>>
    BY <1>6, AnswersLeave DEF CopyInv
  <2>2. CopiesAreRecent' /\ SentKept
    BY <2>1, SameCopies DEF CopyInv
  <2>3. QED
    BY <2>1, <2>2 DEF CopyInv
<1>7. ASSUME NEW s \in Services, NEW i \in DOMAIN flight[s], Finished(s, i)
      PROVE  CopyInv' /\ SentKept
  BY <1>7, FinishedKeeps
<1>8. ASSUME UNCHANGED vars PROVE CopyInv' /\ SentKept
  <2>1. TypeOK'
    BY <1>8 DEF CopyInv, TypeOK, IsCopies, vars
  <2>2. CopiesAreRecent' /\ SentKept
    BY <1>8, SameCopies DEF CopyInv, vars
  <2>3. QED
    BY <2>1, <2>2 DEF CopyInv
<1>9. QED
  BY <1>1, <1>2, <1>3, <1>4, <1>5, <1>6, <1>7, <1>8, <1>10 DEF Next, DialogStep

LEMMA InitCopies == Init => CopyInv
<1> SUFFICES ASSUME Init PROVE CopyInv
  OBVIOUS
<1>1. TypeOK
  BY InitTypes
<1>2. dlg.kind = "none" /\ ~dlg.running /\ DOMAIN dlg.held = {}
  BY NoDialogType, NoneIsCopies DEF Init
<1>3. CopiesAreRecent
  BY <1>2 DEF CopiesAreRecent, HeldIsRecent, PendingIsRecent, ClosedIsIdle, Hears
<1>4. QED
  BY <1>1, <1>3 DEF CopyInv

(***************************************************************************)
(* The variables have their types, however dialogs are left.               *)
(***************************************************************************)
THEOREM SyncTypes == Spec => []TypeOK
<1>1. CopyInv /\ [Next]_vars => CopyInv'
  BY NextKeepsCopies
<1>2. CopyInv => TypeOK
  BY DEF CopyInv
<1>3. QED
  BY InitCopies, <1>1, <1>2, PTL DEF Spec

(***************************************************************************)
(* No write of a dialog takes a sent flag away, whatever fails and however *)
(* dialogs are left: the copies written back whole are never older than    *)
(* the flags in the log (QslUploadDialog::onServiceChanged,                *)
(* onUploadFinished, MainWindow::onQslDownload).                           *)
(***************************************************************************)
THEOREM FlagsStick == Spec => SentSticks
<1>1. CopyInv /\ [Next]_vars => CopyInv'
  BY NextKeepsCopies
<1>2. CopyInv /\ [Next]_vars => \A q \in DOMAIN db : db[q].sent \subseteq db'[q].sent
  BY NextKeepsCopies DEF SentKept
<1>3. CopyInv /\ [Next]_vars => [\A q \in DOMAIN db : db[q].sent \subseteq db'[q].sent]_vars
  BY <1>2
<1>4. QED
  BY InitCopies, <1>1, <1>3, PTL DEF Spec, SentSticks

----------------------------------------------------------------------------
(* Requests are known to both ends                                         *)

(* What a request is known by is left alone. *)
LEMMA KnownStays ==
  ASSUME NEW s \in Services, NEW i \in DOMAIN flight[s], RequestIsKnown(s, i),
         flight'[s][i].kind = flight[s][i].kind, flight'[s][i].rows = flight[s][i].rows,
         flight'[s][i].killed = flight[s][i].killed,
         flight[s][i].stray => flight'[s][i].stray,
         ~flight[s][i].stray =>
           /\ handle'[s][Via(s, flight[s][i].kind)] = handle[s][Via(s, flight[s][i].kind)]
           /\ flight[s][i].killed => ~Hears("upload", s)'
           /\ ~flight[s][i].killed => dlg' = dlg
           /\ ~flight[s][i].killed /\ flight[s][i].kind = "upload" =>
                DOMAIN pending'[s] = DOMAIN pending[s]
  PROVE  RequestIsKnown(s, i)'
BY DEF RequestIsKnown, Hears

(* What no running dialog waits for has been killed or left. *)
LEMMA UnheardIsKilled ==
  ASSUME RequestsAreKnown, NEW s \in Services, NEW i \in DOMAIN flight[s],
         ~dlg.running \/ dlg.svc # s
  PROVE  flight[s][i].killed \/ flight[s][i].stray
BY DEF RequestsAreKnown, RequestIsKnown, Hears

LEMMA KilledIsUpload ==
  ASSUME RequestsAreKnown, NEW s \in Services, NEW i \in DOMAIN flight[s],
         flight[s][i].killed, ~flight[s][i].stray
  PROVE  /\ s = "LoTW" /\ flight[s][i].kind = "upload" /\ ~Hears("upload", s)
         /\ Via(s, flight[s][i].kind) = "tqsl"
BY DEF RequestsAreKnown, RequestIsKnown, Via

(* The slot of a request that nobody has left goes through its own member. *)
LEMMA OwnSlot ==
  ASSUME RequestsAreKnown, NEW s \in Services, NEW i \in DOMAIN flight[s], ~flight[s][i].stray
  PROVE  /\ handle[s][Via(s, flight[s][i].kind)] = i
         /\ AnswerRead(s, i, i) = {flight[s][i].answer}
BY DEF RequestsAreKnown, RequestIsKnown, AnswerRead

LEMMA DialogStepKnown ==
  ASSUME Inv, DialogStep
  PROVE  RequestsAreKnown'
<1>1. /\ ~dlg.running /\ ~dlg'.running
      /\ UNCHANGED <<db, pending, flight, handle, dated, crashed>>
  BY DialogStepKeeps DEF Inv
<1>2. RequestsAreKnown
  BY DEF Inv
<1>3. ASSUME NEW s \in Services, NEW i \in DOMAIN flight[s]
      PROVE  RequestIsKnown(s, i)'
  <2>1. RequestIsKnown(s, i) /\ (flight[s][i].killed \/ flight[s][i].stray)
    BY <1>1, <1>2, UnheardIsKilled DEF RequestsAreKnown
  <2>2. ~Hears("upload", s)'
    BY <1>1 DEF Hears
  <2>3. QED
    BY <1>1, <2>1, <2>2, KnownStays
<1>4. QED
  BY <1>1, <1>3 DEF RequestsAreKnown

LEMMA UploadClickKnown ==
  ASSUME Inv, NEW checked \in SUBSET Qsos, OnUploadClicked(checked)
  PROVE  RequestsAreKnown'
<1> DEFINE copies == [q \in checked |-> dlg.held[q]]
<1>1. TypeOK /\ RequestsAreKnown /\ HandleType
  BY TypeParts DEF Inv, CopyInv
<1> PICK s \in Services : s = dlg.svc
  BY <1>1, DlgFields
<1>2. /\ StartUpload(s, copies) /\ checked \subseteq DOMAIN dlg.held
      /\ dlg.kind = "upload" /\ ~dlg.running
  BY DEF OnUploadClicked, Idle
<1>3. IsCopies(copies)
  BY <1>1, <1>2, DlgFields DEF IsCopies
<1> HIDE DEF copies
<1>4. /\ \E running \in BOOLEAN : dlg' = [dlg EXCEPT !.running = running]
      /\ PendingType'
      /\ \/ ~dlg'.running /\ UNCHANGED <<flight, handle>>
         \/ dlg'.running /\ Issue(s, "upload", DOMAIN pending'[s])
         \/ Stillbirth(s)
  BY <1>1, <1>2, <1>3, UploadStarts
<1>5. dlg'.kind = "upload" /\ dlg'.svc = s
  BY <1>1, <1>2, <1>4, DlgRunning
<1>6. ASSUME NEW t \in Services, NEW i \in DOMAIN flight[t],
             flight'[t] = flight[t], handle'[t] = handle[t], t # s \/ ~dlg'.running
      PROVE  RequestIsKnown(t, i)'
  <2>1. RequestIsKnown(t, i) /\ (flight[t][i].killed \/ flight[t][i].stray)
    BY <1>1, <1>2, UnheardIsKilled DEF RequestsAreKnown
  <2>2. ~Hears("upload", t)'
    BY <1>5, <1>6 DEF Hears
  <2>3. QED
    BY <1>6, <2>1, <2>2, KnownStays
<1>7. CASE ~dlg'.running /\ UNCHANGED <<flight, handle>>
  BY <1>6, <1>7 DEF RequestsAreKnown
<1>8. ASSUME NEW member \in {"reply", "tqsl"}, Via(s, "upload") = member \/ member = "tqsl",
             NEW i \in DOMAIN flight[s], flight'[s][i] = Overtaken(s, member)[i]
      PROVE  RequestIsKnown(s, i)'
  <2>1. flight[s][i].killed \/ flight[s][i].stray
    BY <1>1, <1>2, UnheardIsKilled
  <2>2. flight[s][i].stray \/ (member = "tqsl" /\ flight[s][i].killed)
    BY <1>1, <1>8, <2>1, KilledIsUpload
  <2>3. Overtaken(s, member)[i].stray
          = (flight[s][i].stray \/ (member = "tqsl" /\ flight[s][i].killed))
    BY <1>1, OvertakenRequest
  <2>4. flight'[s][i].stray
    BY <1>8, <2>2, <2>3
  <2>5. QED
    BY <2>4 DEF RequestIsKnown
<1>9. CASE dlg'.running /\ Issue(s, "upload", DOMAIN pending'[s])
  <2>1. DOMAIN pending'[s] \in SUBSET Qsos
    BY <1>4 DEF PendingType, IsCopies
  <2>2. PICK new \in Slots :
          /\ DOMAIN flight' = Services /\ DOMAIN flight'[s] = DOMAIN flight[s] \cup {new}
          /\ flight'[s][new] = NewRequest("upload", DOMAIN pending'[s])
          /\ \A i \in DOMAIN flight[s] : flight'[s][i] = Overtaken(s, Via(s, "upload"))[i]
          /\ \A t \in Services \ {s} : flight'[t] = flight[t]
          /\ handle' = [handle EXCEPT ![s][Via(s, "upload")] = new]
    BY <1>1, <1>9, <2>1, IssueRequest
  <2>3. /\ handle'[s][Via(s, "upload")] = new
        /\ \A t \in Services \ {s} : handle'[t] = handle[t]
    BY <1>1, <2>2, ViaType DEF HandleType
  <2>4. Hears("upload", s)'
    BY <1>5, <1>9 DEF Hears
  <2>5. RequestIsKnown(s, new)'
    BY <2>2, <2>3, <2>4 DEF RequestIsKnown, NewRequest
  <2>6. \A i \in DOMAIN flight[s] : RequestIsKnown(s, i)'
    BY <1>8, <2>2, ViaType
  <2>7. \A t \in Services \ {s} : \A i \in DOMAIN flight[t] : RequestIsKnown(t, i)'
    BY <1>6, <2>2, <2>3
  <2>8. QED
    BY <2>2, <2>5, <2>6, <2>7 DEF RequestsAreKnown
<1>10. CASE Stillbirth(s)
  <2>1. /\ DOMAIN flight' = Services /\ DOMAIN flight'[s] = DOMAIN flight[s]
        /\ \A i \in DOMAIN flight[s] : flight'[s][i] = Overtaken(s, "tqsl")[i]
        /\ \A t \in Services \ {s} : flight'[t] = flight[t]
    BY <1>1, <1>10, StillbirthLeaves
  <2>2. \A t \in Services \ {s} : handle'[t] = handle[t]
    BY <1>1, <1>10 DEF HandleType, Stillbirth
  <2>3. \A i \in DOMAIN flight[s] : RequestIsKnown(s, i)'
    BY <1>8, <2>1
  <2>4. \A t \in Services \ {s} : \A i \in DOMAIN flight[t] : RequestIsKnown(t, i)'
    BY <1>6, <2>1, <2>2
  <2>5. QED
    BY <2>1, <2>3, <2>4 DEF RequestsAreKnown
<1>11. QED
  BY <1>4, <1>7, <1>9, <1>10

LEMMA DownloadClickKnown ==
  ASSUME Inv, OnDownloadClicked
  PROVE  RequestsAreKnown'
<1>1. TypeOK /\ RequestsAreKnown /\ HandleType
  BY TypeParts DEF Inv, CopyInv
<1> PICK s \in Services : s = dlg.svc
  BY <1>1, DlgFields
<1>2. StartDownload(s) /\ dlg.kind = "download" /\ ~dlg.running
  BY DEF OnDownloadClicked, Idle
<1>3. /\ \E running \in BOOLEAN : dlg' = [dlg EXCEPT !.running = running]
      /\ UNCHANGED pending
      /\ \/ UNCHANGED <<flight, handle>>
         \/ dlg'.running /\ \E kind \in {"page", "download"} : Issue(s, kind, {})
  BY <1>1, <1>2, DownloadStarts
<1>4. dlg'.kind = "download" /\ dlg'.svc = s
  BY <1>1, <1>2, <1>3, DlgRunning
<1>5. ASSUME NEW t \in Services, NEW i \in DOMAIN flight[t],
             flight'[t][i] = flight[t][i] \/ (t = s /\ flight'[t][i] = Overtaken(s, "reply")[i]),
             handle'[t]["tqsl"] = handle[t]["tqsl"]
      PROVE  RequestIsKnown(t, i)'
  <2>1. RequestIsKnown(t, i) /\ (flight[t][i].killed \/ flight[t][i].stray)
    BY <1>1, <1>2, UnheardIsKilled DEF RequestsAreKnown
  <2>2. ~flight[t][i].stray => Via(t, flight[t][i].kind) = "tqsl"
    BY <1>1, <2>1, KilledIsUpload
  <2>3. ~Hears("upload", t)'
    BY <1>4 DEF Hears
  <2>4. /\ flight'[t][i].kind = flight[t][i].kind /\ flight'[t][i].rows = flight[t][i].rows
        /\ flight'[t][i].killed = flight[t][i].killed
        /\ flight[t][i].stray => flight'[t][i].stray
    <3>1. CASE flight'[t][i] = flight[t][i]
      BY <3>1
    <3>2. CASE t = s /\ flight'[t][i] = Overtaken(s, "reply")[i]
      <4>1. LET old == flight[s][i]
                new == Overtaken(s, "reply")[i]
            IN
            /\ new.kind = old.kind /\ new.rows = old.rows /\ new.killed = old.killed
            /\ new.stray = (old.stray \/ ("reply" = "tqsl" /\ old.killed))
        BY <1>1, <3>2, OvertakenRequest
      <4>2. QED
        BY <3>2, <4>1
    <3>3. QED
      BY <1>5, <3>1, <3>2
  <2>5. QED
    BY <1>5, <2>1, <2>2, <2>3, <2>4, KnownStays
<1>6. CASE UNCHANGED <<flight, handle>>
  BY <1>5, <1>6 DEF RequestsAreKnown
<1>7. ASSUME NEW kind \in {"page", "download"}, Issue(s, kind, {}), dlg'.running
      PROVE  RequestsAreKnown'
  <2>1. Via(s, kind) = "reply"
    BY <1>7 DEF Via
  <2>2. PICK new \in Slots :
          /\ DOMAIN flight' = Services /\ DOMAIN flight'[s] = DOMAIN flight[s] \cup {new}
          /\ flight'[s][new] = NewRequest(kind, {})
          /\ \A i \in DOMAIN flight[s] : flight'[s][i] = Overtaken(s, "reply")[i]
          /\ \A t \in Services \ {s} : flight'[t] = flight[t]
          /\ handle' = [handle EXCEPT ![s]["reply"] = new]
    BY <1>1, <1>7, <2>1, IssueRequest
  <2>3. /\ handle'[s]["reply"] = new
        /\ \A t \in Services : handle'[t]["tqsl"] = handle[t]["tqsl"]
    BY <1>1, <2>2 DEF HandleType
  <2>4. \A t \in Services : \A i \in DOMAIN flight[t] : RequestIsKnown(t, i)'
    BY <1>5, <2>2, <2>3
  <2>5. Hears("download", s)'
    BY <1>4, <1>7 DEF Hears
  <2>6. RequestIsKnown(s, new)'
    BY <1>7, <2>1, <2>2, <2>3, <2>5 DEF RequestIsKnown, NewRequest
  <2>7. QED
    BY <2>2, <2>4, <2>6 DEF RequestsAreKnown
<1>8. QED
  BY <1>3, <1>6, <1>7

(* Closed: the reply is gone, the process is being killed. *)
LEMMA LeaveKnown ==
  ASSUME Inv, LeaveDialog
  PROVE  RequestsAreKnown'
<1>1. TypeOK /\ RequestsAreKnown /\ HandleType /\ dlg.svc \in Services
  BY TypeParts, DlgFields DEF Inv, CopyInv
<1>2. /\ dlg' = NoDialog
      /\ IF dlg.running THEN Abort(dlg.svc) ELSE UNCHANGED <<pending, flight, handle>>
  BY DEF LeaveDialog
<1>3. \A kind \in {"upload", "download"}, t \in Services : ~Hears(kind, t)'
  BY <1>2, NoDialogType DEF Hears
<1>4. ASSUME NEW t \in Services, NEW i \in DOMAIN flight[t],
             flight[t][i].killed \/ flight[t][i].stray,
             flight'[t][i] = flight[t][i], handle'[t]["tqsl"] = handle[t]["tqsl"]
      PROVE  RequestIsKnown(t, i)'
  <2>1. RequestIsKnown(t, i)
    BY <1>1 DEF RequestsAreKnown
  <2>2. ~flight[t][i].stray => Via(t, flight[t][i].kind) = "tqsl"
    BY <1>1, <1>4, KilledIsUpload
  <2>3. QED
    BY <1>3, <1>4, <2>1, <2>2, KnownStays
<1>5. CASE ~dlg.running
  <2>1. UNCHANGED <<flight, handle>>
    BY <1>2, <1>5
  <2>2. \A t \in Services : \A i \in DOMAIN flight[t] : RequestIsKnown(t, i)'
    BY <1>1, <1>4, <1>5, <2>1, UnheardIsKilled
  <2>3. QED
    BY <2>1, <2>2 DEF RequestsAreKnown
<1>6. CASE dlg.running
  <2> PICK s \in Services : s = dlg.svc
    BY <1>1
  <2>1. Abort(s)
    BY <1>2, <1>6
  <2>2. /\ \A t \in Services \ {s} : flight'[t] = flight[t]
        /\ DOMAIN flight'[s] = DOMAIN flight[s] \ {handle[s]["reply"]}
        /\ \A i \in DOMAIN flight'[s] :
             flight'[s][i] = [flight[s][i] EXCEPT !.killed = @ \/ i = handle[s]["tqsl"]]
        /\ handle' = [handle EXCEPT ![s]["reply"] = 0]
        /\ FlightType'
    BY <1>1, <2>1, AbortLeaves
  <2>3. \A t \in Services : handle'[t]["tqsl"] = handle[t]["tqsl"]
    BY <1>1, <2>2 DEF HandleType
  <2>4. \A t \in Services \ {s} : \A i \in DOMAIN flight[t] : RequestIsKnown(t, i)'
    BY <1>1, <1>4, <2>2, <2>3, UnheardIsKilled
  <2>5. ASSUME NEW i \in DOMAIN flight'[s] PROVE RequestIsKnown(s, i)'
    <3>1. RequestIsKnown(s, i) /\ i \in DOMAIN flight[s] /\ i # handle[s]["reply"]
      BY <1>1, <2>2 DEF RequestsAreKnown
    <3> PICK old \in Request : old = flight[s][i]
      BY <1>1, <3>1, TypeParts DEF FlightType
    <3>2. flight'[s][i] = [old EXCEPT !.killed = old.killed \/ i = handle[s]["tqsl"]]
      BY <2>2
    <3>3. /\ flight'[s][i].kind = old.kind /\ flight'[s][i].rows = old.rows
          /\ flight'[s][i].stray = old.stray
          /\ flight'[s][i].killed = (old.killed \/ i = handle[s]["tqsl"])
      BY <3>2 DEF Request
    <3>4. CASE old.stray
      BY <3>3, <3>4 DEF RequestIsKnown
    <3>5. CASE ~old.stray
      <4>1. Via(s, old.kind) = "tqsl"
        BY <3>1, <3>5, ViaType DEF RequestIsKnown
      <4>2. handle[s]["tqsl"] = i /\ s = "LoTW" /\ old.kind = "upload"
        BY <3>1, <3>5, <4>1 DEF RequestIsKnown, Via
      <4>3. QED
        BY <1>3, <2>3, <3>3, <4>1, <4>2 DEF RequestIsKnown
    <3>6. QED
      BY <3>4, <3>5
  <2>6. QED
    BY <2>2, <2>4, <2>5 DEF RequestsAreKnown, FlightType
<1>7. QED
  BY <1>5, <1>6

(* Escape: what the service has under way goes on without the user. *)
LEMMA EscapeKnown ==
  ASSUME Inv, EscapeDialog
  PROVE  RequestsAreKnown'
<1>1. TypeOK /\ RequestsAreKnown /\ dlg.svc \in Services
  BY DlgFields DEF Inv, CopyInv
<1>2. dlg' = NoDialog /\ UNCHANGED <<pending, handle>>
  BY DEF EscapeDialog
<1>3. \A t \in Services : ~Hears("upload", t)'
  BY <1>2, NoDialogType DEF Hears
<1>4. /\ DOMAIN flight' = Services /\ \A t \in Services : DOMAIN flight'[t] = DOMAIN flight[t]
      /\ \A t \in Services \ {dlg.svc} : flight'[t] = flight[t]
  BY EscapeLeaves, <1>1
<1>5. ASSUME NEW t \in Services, NEW i \in DOMAIN flight[t]
      PROVE  RequestIsKnown(t, i)'
  <2>1. RequestIsKnown(t, i)
    BY <1>1 DEF RequestsAreKnown
  <2>2. CASE t # dlg.svc
    <3>1. flight[t][i].killed \/ flight[t][i].stray
      BY <1>1, <2>2, UnheardIsKilled
    <3>2. QED
      BY <1>2, <1>3, <1>4, <2>1, <2>2, <3>1, KnownStays
  <2>3. CASE t = dlg.svc
    <3>1. /\ flight'[t][i].kind = flight[t][i].kind /\ flight'[t][i].rows = flight[t][i].rows
          /\ flight'[t][i].killed = flight[t][i].killed
          /\ flight'[t][i].stray = (flight[t][i].stray \/ ~flight[t][i].killed)
      BY <1>1, <2>3, EscapeLeaves
    <3>2. CASE ~flight[t][i].killed
      BY <3>1, <3>2 DEF RequestIsKnown
    <3>3. CASE flight[t][i].killed
      BY <1>2, <1>3, <2>1, <3>1, <3>3, KnownStays
    <3>4. QED
      BY <3>2, <3>3
  <2>4. QED
    BY <2>2, <2>3
<1>6. QED
  BY <1>4, <1>5 DEF RequestsAreKnown

LEMMA AnswersKnown ==
  ASSUME Inv, NEW s \in Services, NEW i \in DOMAIN flight[s], ServerAnswers(s, i)
  PROVE  RequestsAreKnown'
<1>1. TypeOK /\ RequestsAreKnown
  BY DEF Inv, CopyInv
<1>2. /\ UNCHANGED <<db, dlg, pending, handle, dated, crashed>>
      /\ \A t \in Services : DOMAIN flight'[t] = DOMAIN flight[t]
      /\ \A t \in Services : \A j \in DOMAIN flight[t] :
           /\ flight'[t][j].kind = flight[t][j].kind
           /\ flight'[t][j].rows = flight[t][j].rows
           /\ flight'[t][j].killed = flight[t][j].killed
           /\ flight'[t][j].stray = flight[t][j].stray
  BY <1>1, AnswersLeave
<1>3. ASSUME NEW t \in Services, NEW j \in DOMAIN flight[t]
      PROVE  RequestIsKnown(t, j)'
  BY <1>1, <1>2 DEF RequestsAreKnown, RequestIsKnown, Hears
<1>4. QED
  BY <1>2, <1>3 DEF RequestsAreKnown

(* A finished() slot deletes what its member points at; every other request
   nobody has left goes by another member or another service, and stays known. *)
LEMMA FinishedKnown ==
  ASSUME Inv, NEW s \in Services, NEW i \in DOMAIN flight[s], Finished(s, i)
  PROVE  RequestsAreKnown'
<1> DEFINE r == flight[s][i]
           p == handle[s][Via(s, r.kind)]
           gone == DOMAIN flight[s] \ {i, p}
<1>1. TypeOK /\ RequestsAreKnown /\ HandleType /\ IsCopies(pending[s])
  BY TypeParts DEF Inv, CopyInv, PendingType
<1>2. CASE p = 0
  BY <1>1, <1>2 DEF Finished, RequestsAreKnown, RequestIsKnown, Hears
<1>3. CASE p # 0
  <2>1. /\ DOMAIN flight' = Services
        /\ \A t \in Services \ {s} : flight'[t] = flight[t]
        /\ \A j \in gone : j \in DOMAIN flight'[s] /\ flight'[s][j] = flight[s][j]
        /\ \/ \E next \in Slots :
                /\ r.kind = "page" /\ next \notin gone
                /\ DOMAIN flight'[s] = gone \cup {next}
                /\ flight'[s][next] = FileRequest(r)
                /\ handle' = [handle EXCEPT ![s][Via(s, r.kind)] = next]
                /\ UNCHANGED <<db, dlg, pending, dated>> /\ Quiet
           \/ /\ DOMAIN flight'[s] = gone
              /\ handle' = [handle EXCEPT ![s][Via(s, r.kind)] = 0]
              /\ \E answer \in AnswerRead(s, i, p) :
                   \/ r.kind = "upload" /\ UploadReply(s, answer = "ok")
                   \/ /\ r.kind # "upload"
                      /\ \E stubs \in SUBSET Stub : DownloadReply(s, stubs, answer)
    BY <1>1, <1>3, FinishedLeaves
  <2>2. Via(s, r.kind) \in {"reply", "tqsl"}
    BY ViaType
  <2>3. \A t \in Services : \A member \in {"reply", "tqsl"} :
          t # s \/ member # Via(s, r.kind) => handle'[t][member] = handle[t][member]
    BY <1>1, <2>1, <2>2 DEF HandleType
  (* The dialog is as it was, or has just been told the end of a request of
     this service and kind. *)
  <2>4. /\ \A t \in Services \ {s} : pending'[t] = pending[t]
        /\ r.kind # "upload" => pending' = pending
        /\ \/ dlg' = dlg
           \/ /\ Hears(IF r.kind = "upload" THEN "upload" ELSE "download", s)
              /\ dlg'.svc = dlg.svc /\ ~dlg'.running
    <3>1. CASE UNCHANGED <<db, dlg, pending, dated>>
      BY <3>1
    <3>2. ASSUME NEW answer, r.kind = "upload", UploadReply(s, answer = "ok")
          PROVE  /\ \A t \in Services \ {s} : pending'[t] = pending[t]
                 /\ \/ dlg' = dlg
                    \/ Hears("upload", s) /\ dlg'.svc = dlg.svc /\ ~dlg'.running
      <4> PICK ok \in BOOLEAN : ok = (answer = "ok")
        OBVIOUS
      <4>1. UploadReply(s, ok)
        BY <3>2
      <4>2. /\ \A t \in Services \ {s} : pending'[t] = pending[t]
            /\ \/ /\ Hears("upload", s)
                  /\ OnUploadFinished(IF ok THEN MarkedSent(s) ELSE None)
                  /\ IsCopies(IF ok THEN MarkedSent(s) ELSE None)
               \/ UNCHANGED <<dlg, db, dated>>
        BY <1>1, <4>1, UploadReplies
      <4>3. QED
        BY <1>1, <4>2, UploadEnds
    <3>3. ASSUME NEW answer, NEW stubs \in SUBSET Stub, r.kind # "upload",
                 DownloadReply(s, stubs, answer)
          PROVE  /\ UNCHANGED pending
                 /\ \/ dlg' = dlg
                    \/ Hears("download", s) /\ dlg'.svc = dlg.svc /\ ~dlg'.running
      <4>1. /\ UNCHANGED pending
            /\ \/ Hears("download", s) /\ dlg' = [dlg EXCEPT !.running = FALSE]
               \/ UNCHANGED <<dlg, db, dated>>
        BY <1>1, <3>3, DownloadReplies
      <4>2. QED
        BY <1>1, <4>1, DlgRunning
    <3>4. QED
      BY <2>1, <3>1, <3>2, <3>3
  <2>5. ASSUME NEW t \in Services, NEW j \in DOMAIN flight[t], t # s \/ j \in gone
        PROVE  RequestIsKnown(t, j)'
    <3> DEFINE old == flight[t][j]
    <3>1. RequestIsKnown(t, j) /\ flight'[t][j] = old
      BY <1>1, <2>1, <2>5 DEF RequestsAreKnown
    <3>2. CASE old.stray
      BY <3>1, <3>2, KnownStays
    <3>3. CASE ~old.stray
      <4>1. handle[t][Via(t, old.kind)] = j
        BY <1>1, <3>3, OwnSlot
      <4>2. t # s \/ Via(t, old.kind) # Via(s, r.kind)
        BY <2>5, <4>1
      <4>3. handle'[t][Via(t, old.kind)] = handle[t][Via(t, old.kind)]
        BY <2>3, <4>2, ViaType
      <4>4. old.killed => ~Hears("upload", t)'
        <5>1. SUFFICES ASSUME old.killed PROVE ~Hears("upload", t)'
          OBVIOUS
        <5>2. ~Hears("upload", t)
          BY <1>1, <3>3, <5>1, KilledIsUpload
        <5>3. QED
          BY <2>4, <5>2 DEF Hears
      <4>5. ~old.killed => dlg' = dlg /\ (old.kind = "upload" => pending'[t] = pending[t])
        <5>1. SUFFICES ASSUME ~old.killed
                       PROVE  dlg' = dlg /\ (old.kind = "upload" => pending'[t] = pending[t])
          OBVIOUS
        <5>2. Hears(IF old.kind = "upload" THEN "upload" ELSE "download", t)
          BY <3>1, <3>3, <5>1 DEF RequestIsKnown
        <5>3. t = s => (old.kind = "upload") # (r.kind = "upload")
          BY <4>2 DEF Via
        <5>4. dlg' = dlg
          BY <2>4, <5>2, <5>3 DEF Hears
        <5>5. QED
          BY <2>4, <5>3, <5>4
      <4>6. QED
        BY <3>1, <3>3, <4>3, <4>4, <4>5, KnownStays
    <3>4. QED
      BY <3>2, <3>3
  <2>6. ASSUME NEW next \in Slots, r.kind = "page", next \notin gone,
               DOMAIN flight'[s] = gone \cup {next}, flight'[s][next] = FileRequest(r),
               handle' = [handle EXCEPT ![s][Via(s, r.kind)] = next],
               UNCHANGED <<db, dlg, pending, dated>>
        PROVE  RequestIsKnown(s, next)'
    <3>1. r \in Request
      BY <1>1, TypeParts DEF FlightType
    <3>2. /\ flight'[s][next].kind = "download" /\ ~flight'[s][next].killed
          /\ flight'[s][next].stray = r.stray
      BY <2>6, <3>1, FileRequestType
    <3>3. CASE r.stray
      BY <3>2, <3>3 DEF RequestIsKnown
    <3>4. CASE ~r.stray
      <4>1. ~r.killed
        BY <1>1, <2>6, <3>4, KilledIsUpload
      <4>2. Hears("download", s)
        BY <1>1, <2>6, <3>4, <4>1 DEF RequestsAreKnown, RequestIsKnown
      <4>3. Via(s, r.kind) = "reply" /\ Via(s, "download") = "reply"
        BY <2>6 DEF Via
      <4>4. handle'[s]["reply"] = next
        BY <1>1, <2>6, <4>3 DEF HandleType
      <4>5. Hears("download", s)'
        BY <2>6, <4>2 DEF Hears
      <4>6. QED
        BY <3>2, <4>3, <4>4, <4>5 DEF RequestIsKnown
    <3>5. QED
      BY <3>3, <3>4
  <2>7. \A t \in Services : \A j \in DOMAIN flight'[t] : RequestIsKnown(t, j)'
    BY <2>1, <2>5, <2>6
  <2>8. QED
    BY <2>1, <2>7 DEF RequestsAreKnown
<1>4. QED
  BY <1>2, <1>3

(* Only a stray request can find nullptr in its member. *)
LEMMA FinishedCrash ==
  ASSUME Inv, NEW s \in Services, NEW i \in DOMAIN flight[s], Finished(s, i)
  PROVE  CrashIsOfStray'
<1> DEFINE p == handle[s][Via(s, flight[s][i].kind)]
<1>1. RequestsAreKnown /\ TypeOK /\ i # 0
  BY SlotTypes, TypeParts DEF Inv, CopyInv, FlightType
<1>2. CASE p = 0
  <2>1. flight[s][i].stray
    BY <1>1, <1>2, OwnSlot
  <2>2. flight' = flight
    BY <1>2 DEF Finished
  <2>3. QED
    BY <2>1, <2>2 DEF CrashIsOfStray, Undisturbed
<1>3. CASE p # 0
  <2>1. UNCHANGED crashed /\ ~crashed
    BY <1>1, <1>3, FinishedLeaves DEF Finished
  <2>2. QED
    BY <2>1 DEF CrashIsOfStray
<1>4. QED
  BY <1>2, <1>3

LEMMA InitInv == Init => Inv
<1> SUFFICES ASSUME Init PROVE Inv
  OBVIOUS
<1>1. CopyInv
  BY InitCopies
<1>2. RequestsAreKnown /\ CrashIsOfStray
  BY DEF Init, RequestsAreKnown, CrashIsOfStray
<1>3. QED
  BY <1>1, <1>2 DEF Inv

LEMMA NextKeepsInv == Inv /\ [Next]_vars => Inv'
<1> SUFFICES ASSUME Inv, [Next]_vars
             PROVE  RequestsAreKnown' /\ CrashIsOfStray'
  BY NextKeepsCopies DEF Inv
<1> DEFINE goal == RequestsAreKnown' /\ CrashIsOfStray'
<1>1. ASSUME NEW q \in Qsos, LogContact(q) PROVE goal
  <2>1. UNCHANGED <<dlg, pending, flight, handle, crashed>> /\ ~crashed
    BY <1>1 DEF LogContact
  <2>2. QED
    BY <2>1 DEF Inv, RequestsAreKnown, RequestIsKnown, Hears, CrashIsOfStray
<1>2. ASSUME DialogStep PROVE goal
  <2>1. ~crashed'
    BY <1>2 DEF DialogStep, OpenDownload, OpenUpload, OnSelectRequired, OnServiceChanged, Idle
  <2>2. QED
    BY <1>2, <2>1, DialogStepKnown DEF CrashIsOfStray
<1>3. ASSUME NEW checked \in SUBSET Qsos, OnUploadClicked(checked) PROVE goal
  <2>1. ~crashed'
    BY <1>3 DEF OnUploadClicked, Idle
  <2>2. QED
    BY <1>3, <2>1, UploadClickKnown DEF CrashIsOfStray
<1>4. ASSUME OnDownloadClicked PROVE goal
  <2>1. ~crashed'
    BY <1>4 DEF OnDownloadClicked, Idle
  <2>2. QED
    BY <1>4, <2>1, DownloadClickKnown DEF CrashIsOfStray
<1>5. ASSUME LeaveDialog PROVE goal
  <2>1. ~crashed'
    BY <1>5 DEF LeaveDialog
  <2>2. QED
    BY <1>5, <2>1, LeaveKnown DEF CrashIsOfStray
<1>6. ASSUME EscapeDialog PROVE goal
  <2>1. ~crashed'
    BY <1>6 DEF EscapeDialog
  <2>2. QED
    BY <1>6, <2>1, EscapeKnown DEF CrashIsOfStray
<1>7. ASSUME NEW s \in Services, NEW i \in DOMAIN flight[s], ServerAnswers(s, i) PROVE goal
  <2>1. ~crashed'
    BY <1>7, AnswersLeave DEF Inv, CopyInv
  <2>2. QED
    BY <1>7, <2>1, AnswersKnown DEF CrashIsOfStray
<1>8. ASSUME NEW s \in Services, NEW i \in DOMAIN flight[s], Finished(s, i) PROVE goal
  BY <1>8, FinishedKnown, FinishedCrash
<1>9. ASSUME UNCHANGED vars PROVE goal
  BY <1>9 DEF vars, Inv, RequestsAreKnown, RequestIsKnown, Hears, CrashIsOfStray, Undisturbed
<1>10. QED
  BY <1>1, <1>2, <1>3, <1>4, <1>5, <1>6, <1>7, <1>8, <1>9 DEF Next, DialogStep

LEMMA SyncInvariance == Spec => []Inv
  BY InitInv, NextKeepsInv, PTL DEF Spec

(***************************************************************************)
(* Whatever a service has under way, and the user has not killed or left   *)
(* with Escape, the open dialog waits for, whatever stray requests of      *)
(* earlier dialogs finish beside it (closeEvent of both dialogs).          *)
(***************************************************************************)
THEOREM RunsAreSeen == Spec => []NothingRunsUnseen
<1>1. Inv => NothingRunsUnseen
  BY DEF Inv, RequestsAreKnown, RequestIsKnown, NothingRunsUnseen
<1>2. QED
  BY SyncInvariance, <1>1, PTL

(***************************************************************************)
(* A request that the user has not gone on without is finished through the *)
(* member that points at it, and the program goes through a null pointer   *)
(* only where a stray request is about (onTqslFinished, onDownloadReply    *)
(* and the like).                                                          *)
(***************************************************************************)
THEOREM SlotsAreOwn == Spec => []SlotsReadTheirOwn
<1>1. Inv => SlotsReadTheirOwn
  BY DEF Inv, RequestsAreKnown, RequestIsKnown, CrashIsOfStray, SlotsReadTheirOwn
<1>2. QED
  BY SyncInvariance, <1>1, PTL

----------------------------------------------------------------------------
(* What an upload records                                                  *)

(* The end of an upload of a service without stray requests. *)
LEMMA UploadIsOver ==
  ASSUME Inv, NEW s \in Services, NEW i \in DOMAIN flight[s], Finished(s, i),
         Undisturbed(s), flight[s][i].kind = "upload"
  PROVE  LET r == flight[s][i] IN
         /\ DOMAIN flight'[s] = DOMAIN flight[s] \ {i}
         /\ r.killed => UNCHANGED db
         /\ ~r.killed =>
              /\ r.rows = DOMAIN pending[s]
              /\ Hears("upload", s)
              /\ r.answer = "ok" => Write(MarkedSent(s)) /\ IsCopies(MarkedSent(s))
              /\ r.answer # "ok" => UNCHANGED db
<1> DEFINE r == flight[s][i]
<1>1. /\ TypeOK /\ RequestsAreKnown /\ RequestIsKnown(s, i) /\ ~r.stray
      /\ IsCopies(pending[s]) /\ IsCopies(db)
  BY TypeParts DEF Inv, CopyInv, RequestsAreKnown, Undisturbed, PendingType
<1>2. handle[s][Via(s, r.kind)] = i /\ AnswerRead(s, i, i) = {r.answer} /\ i # 0
  BY <1>1, OwnSlot, SlotTypes, TypeParts DEF FlightType
<1>3. /\ DOMAIN flight'[s] = DOMAIN flight[s] \ {i}
      /\ UploadReply(s, r.answer = "ok")
  BY <1>1, <1>2, FinishedLeaves
<1> PICK ok \in BOOLEAN : ok = (r.answer = "ok")
  OBVIOUS
<1>4. \/ /\ Hears("upload", s)
         /\ OnUploadFinished(IF ok THEN MarkedSent(s) ELSE None)
         /\ IsCopies(IF ok THEN MarkedSent(s) ELSE None)
      \/ /\ ~Hears("upload", s) /\ UNCHANGED <<dlg, db, dated>>
  BY <1>1, <1>3, UploadReplies
<1>5. r.killed => UNCHANGED db
  BY <1>1, <1>4, KilledIsUpload
<1>6. ~r.killed => r.rows = DOMAIN pending[s] /\ Hears("upload", s)
  BY <1>1 DEF RequestIsKnown
<1>7. ASSUME ~r.killed, ok PROVE Write(MarkedSent(s)) /\ IsCopies(MarkedSent(s))
  BY <1>1, <1>4, <1>6, <1>7, UploadEnds
<1>8. ASSUME ~r.killed, ~ok PROVE UNCHANGED db
  <2>1. Write(None)
    BY <1>1, <1>4, <1>6, <1>8, UploadEnds, NoneIsCopies
  <2>2. DOMAIN db' = DOMAIN db /\ \A q \in DOMAIN db : db'[q] = db[q]
    BY <1>1, <2>1, WriteRows, NoneIsCopies
  <2>3. IsCopies(db')
    BY <1>1, <2>1, WriteRows, NoneIsCopies
  <2>4. QED
    BY <1>1, <2>2, <2>3 DEF IsCopies
<1>9. QED
  BY <1>3, <1>5, <1>6, <1>7, <1>8

(* What MarkedSent writes back. *)
LEMMA MarkedIsRecent ==
  ASSUME Inv, NEW s \in Services, Hears("upload", s), Write(MarkedSent(s)), IsCopies(MarkedSent(s))
  PROVE  /\ \A q \in DOMAIN pending[s] \ refused' : q \in DOMAIN db /\ s \in db'[q].sent
         /\ \A q \in DOMAIN db : q \in DOMAIN pending[s] \/ db'[q].sent = db[q].sent
         /\ \A q \in DOMAIN db : db'[q].sent \subseteq db[q].sent \cup {s}
<1>1. IsCopies(db) /\ IsCopies(pending[s])
  BY TypeParts DEF Inv, CopyInv, PendingType
<1>2. /\ DOMAIN MarkedSent(s) = DOMAIN pending[s]
      /\ \A q \in DOMAIN pending[s] : MarkedSent(s)[q].sent = pending[s][q].sent \cup {s}
  BY <1>1, MarkedIsCopies
<1>3. \A q \in DOMAIN pending[s] : q \in DOMAIN db /\ pending[s][q].sent \subseteq db[q].sent
  BY DEF Inv, CopyInv, CopiesAreRecent, PendingIsRecent, Lags
<1>4. \A q \in DOMAIN db :
        db'[q] = IF q \in DOMAIN MarkedSent(s) \ refused' THEN MarkedSent(s)[q] ELSE db[q]
  BY <1>1, WriteRows
<1>5. QED
  BY <1>2, <1>3, <1>4

(* Records of a download change received flags alone. *)
LEMMA DownloadLeavesSent ==
  ASSUME Inv, NEW s \in Services, NEW i \in DOMAIN flight[s], Finished(s, i),
         flight[s][i].kind # "upload", NEW q \in DOMAIN db
  PROVE  db'[q].sent = db[q].sent
<1> DEFINE r == flight[s][i]
           p == handle[s][Via(s, r.kind)]
<1>1. TypeOK /\ IsCopies(db)
  BY TypeParts DEF Inv, CopyInv
<1>2. CASE p = 0
  BY <1>2 DEF Finished
<1>3. CASE p # 0
  <2>1. \/ UNCHANGED <<db, dlg, pending, dated>> /\ Quiet
        \/ \E answer \in AnswerRead(s, i, p) :
             \/ r.kind = "upload" /\ UploadReply(s, answer = "ok")
             \/ /\ r.kind # "upload"
                /\ \E stubs \in SUBSET Stub : DownloadReply(s, stubs, answer)
    BY <1>1, <1>3, FinishedLeaves
  <2>2. ASSUME NEW answer \in AnswerRead(s, i, p), NEW stubs \in SUBSET Stub, DownloadReply(s, stubs, answer)
        PROVE  db'[q].sent = db[q].sent
    <3>1. CASE UNCHANGED <<dlg, db, dated>>
      BY <3>1
    <3>2. CASE ~UNCHANGED <<dlg, db, dated>>
      <4>1. PICK copies : /\ IsCopies(copies) /\ Write(copies)
                          /\ DOMAIN copies \subseteq DOMAIN dlg.held
                          /\ \A c \in DOMAIN copies : copies[c].sent = dlg.held[c].sent
        BY <1>1, <2>2, <3>2, DownloadReplies
      <4>2. dlg.kind = "download"
        BY <1>1, <2>2, <3>2, DownloadReplies DEF Hears
      <4>3. \A c \in DOMAIN dlg.held : c \in DOMAIN db /\ dlg.held[c].sent = db[c].sent
        BY <4>2 DEF Inv, CopyInv, CopiesAreRecent, HeldIsRecent, LaggingSet, Lags
      <4>4. db'[q] = IF q \in DOMAIN copies \ refused' THEN copies[q] ELSE db[q]
        BY <1>1, <4>1, WriteRows
      <4>5. QED
        BY <4>1, <4>3, <4>4
    <3>3. QED
      BY <3>1, <3>2
  <2>3. QED
    BY <2>1, <2>2
<1>4. QED
  BY <1>2, <1>3

(* The flag an upload sets is its service's own. *)
LEMMA UploadFlagsItsOwn ==
  ASSUME Inv, NEW t \in Services, NEW i \in DOMAIN flight[t], Finished(t, i),
         flight[t][i].kind = "upload", NEW q \in DOMAIN db, NEW s \in db'[q].sent \ db[q].sent
  PROVE  s = t
<1> DEFINE p == handle[t][Via(t, flight[t][i].kind)]
<1>1. TypeOK /\ IsCopies(db)
  BY TypeParts DEF Inv, CopyInv
<1>2. p # 0
  BY DEF Finished
<1>8. \/ flight[t][i].kind = "page"
      \/ \E answer \in AnswerRead(t, i, p) :
           \/ flight[t][i].kind = "upload" /\ UploadReply(t, answer = "ok")
           \/ /\ flight[t][i].kind # "upload"
              /\ \E stubs \in SUBSET Stub : DownloadReply(t, stubs, answer)
  BY <1>1, <1>2, FinishedLeaves
<1>3. PICK answer \in AnswerRead(t, i, p) : UploadReply(t, answer = "ok")
  BY <1>8
<1> PICK ok \in BOOLEAN : ok = (answer = "ok")
  OBVIOUS
<1>4. /\ Hears("upload", t)
      /\ OnUploadFinished(IF ok THEN MarkedSent(t) ELSE None)
      /\ IsCopies(IF ok THEN MarkedSent(t) ELSE None)
  BY <1>1, <1>3, UploadReplies
<1>5. CASE ok
  <2>1. Write(MarkedSent(t)) /\ IsCopies(MarkedSent(t))
    BY <1>1, <1>4, <1>5, UploadEnds
  <2>2. QED
    BY <1>4, <2>1, MarkedIsRecent
<1>6. CASE ~ok
  <2>1. Write(None)
    BY <1>1, <1>4, <1>6, UploadEnds, NoneIsCopies
  <2>2. db'[q] = db[q]
    BY <1>1, <2>1, WriteRows, NoneIsCopies
  <2>3. QED
    BY <2>2
<1>7. QED
  BY <1>5, <1>6

(* In a service without stray requests a slot deletes its own request. *)
LEMMA FinishedDeletesItsOwn ==
  ASSUME Inv, NEW s \in Services, Undisturbed(s), NEW i \in DOMAIN flight[s] \ DOMAIN flight'[s],
         NEW t \in Services, NEW j \in DOMAIN flight[t], Finished(t, j)
  PROVE  t = s /\ j = i
<1> DEFINE p == handle[t][Via(t, flight[t][j].kind)]
<1>1. TypeOK /\ RequestsAreKnown
  BY DEF Inv, CopyInv
<1>2. p # 0
  BY DEF Finished
<1>3. /\ \A u \in Services \ {t} : flight'[u] = flight[u]
      /\ \A k \in DOMAIN flight[t] \ {j, p} : k \in DOMAIN flight'[t]
  BY <1>1, <1>2, FinishedLeaves
<1>4. t = s
  BY <1>3
<1>5. p = j
  BY <1>1, <1>4, OwnSlot DEF Undisturbed
<1>6. QED
  BY <1>3, <1>4, <1>5

(* No other step touches the sent flags, or ends an upload of a dialog that
   stays open. *)
LEMMA OnlyFinishedRecords ==
  ASSUME Inv, [Next]_vars, \A s \in Services : \A i \in DOMAIN flight[s] : ~Finished(s, i)
  PROVE  /\ \A q \in DOMAIN db : db'[q] = db[q]
         /\ dlg'.kind = dlg.kind => \A s \in Services : DOMAIN flight[s] \subseteq DOMAIN flight'[s]
<1> DEFINE goal == /\ \A q \in DOMAIN db : db'[q] = db[q]
                   /\ dlg'.kind = dlg.kind =>
                        \A s \in Services : DOMAIN flight[s] \subseteq DOMAIN flight'[s]
<1>1. TypeOK /\ CopyInv /\ FlightType
  BY TypeParts DEF Inv, CopyInv
<1>2. ASSUME NEW q \in Qsos, LogContact(q) PROVE goal
  BY <1>2 DEF LogContact
<1>3. ASSUME DialogStep PROVE goal
  BY <1>1, <1>3, DialogStepKeeps
<1>4. ASSUME NEW checked \in SUBSET Qsos, OnUploadClicked(checked) PROVE goal
  <2> PICK s \in Services : s = dlg.svc
    BY <1>1, DlgFields
  <2> DEFINE copies == [q \in checked |-> dlg.held[q]]
  <2>1. StartUpload(s, copies) /\ checked \subseteq DOMAIN dlg.held /\ UNCHANGED db
    BY <1>4 DEF OnUploadClicked
  <2>2. IsCopies(copies)
    BY <1>1, <2>1, DlgFields DEF IsCopies
  <2> HIDE DEF copies
  <2>3. /\ PendingType'
        /\ \/ UNCHANGED <<flight, handle>>
           \/ Issue(s, "upload", DOMAIN pending'[s])
           \/ Stillbirth(s)
    BY <1>1, <2>1, <2>2, UploadStarts
  <2>4. DOMAIN pending'[s] \in SUBSET Qsos
    BY <2>3 DEF PendingType, IsCopies
  <2>5. \A t \in Services : DOMAIN flight[t] \subseteq DOMAIN flight'[t]
    BY <1>1, <2>3, <2>4, IssueRequest, StillbirthLeaves
  <2>6. QED
    BY <2>1, <2>5
<1>5. ASSUME OnDownloadClicked PROVE goal
  <2> PICK s \in Services : s = dlg.svc
    BY <1>1, DlgFields
  <2>1. StartDownload(s) /\ UNCHANGED db
    BY <1>5 DEF OnDownloadClicked
  <2>2. \/ UNCHANGED <<flight, handle>>
        \/ \E kind \in {"page", "download"} : Issue(s, kind, {})
    BY <1>1, <2>1, DownloadStarts
  <2>3. \A t \in Services : DOMAIN flight[t] \subseteq DOMAIN flight'[t]
    BY <1>1, <2>2, IssueRequest
  <2>4. QED
    BY <2>1, <2>3
<1>6. ASSUME LeaveDialog PROVE goal
  BY <1>1, <1>6, LeaveKeeps DEF LeaveDialog
<1>7. ASSUME EscapeDialog PROVE goal
  <2>1. UNCHANGED db /\ dlg.svc \in Services
    BY <1>1, <1>7, DlgFields DEF EscapeDialog
  <2>2. \A t \in Services : DOMAIN flight'[t] = DOMAIN flight[t]
    BY <1>1, <1>7, <2>1, EscapeLeaves
  <2>3. QED
    BY <2>1, <2>2
<1>8. ASSUME NEW t \in Services, NEW j \in DOMAIN flight[t], ServerAnswers(t, j) PROVE goal
  BY <1>1, <1>8, AnswersLeave
<1>9. CASE UNCHANGED vars
  BY <1>9 DEF vars
<1>10. QED
  BY <1>2, <1>3, <1>4, <1>5, <1>6, <1>7, <1>8, <1>9 DEF Next, DialogStep

(***************************************************************************)
(* While no stray request of the service is about, a contact becomes       *)
(* flagged as sent only by a success answer to an upload that carried it:  *)
(* no refused, aborted or failed upload marks a row (onTqslFinished,       *)
(* onUploadReply).                                                         *)
(***************************************************************************)
THEOREM SentIsAcknowledged == Spec => SentMeansAcknowledged
<1> DEFINE Acknowledged ==
      \A q \in DOMAIN db : \A s \in db'[q].sent \ db[q].sent :
        Undisturbed(s) =>
          \E i \in DOMAIN flight[s] \ DOMAIN flight'[s] :
            LET r == flight[s][i] IN
            r.kind = "upload" /\ r.answer = "ok" /\ q \in r.rows
<1>1. ASSUME Inv, [Next]_vars PROVE Acknowledged
  <2> SUFFICES ASSUME NEW q \in DOMAIN db, NEW s \in db'[q].sent \ db[q].sent, Undisturbed(s)
               PROVE  \E i \in DOMAIN flight[s] \ DOMAIN flight'[s] :
                        LET r == flight[s][i] IN
                        r.kind = "upload" /\ r.answer = "ok" /\ q \in r.rows
    OBVIOUS
  <2>1. PICK t \in Services : \E i \in DOMAIN flight[t] : Finished(t, i)
    BY <1>1, OnlyFinishedRecords
  <2>2. PICK i \in DOMAIN flight[t] : Finished(t, i)
    BY <2>1
  <2>3. flight[t][i].kind = "upload"
    BY <1>1, <2>2, DownloadLeavesSent
  <2>4. t = s
    BY <1>1, <2>2, <2>3, UploadFlagsItsOwn
  <2>5. /\ DOMAIN flight'[s] = DOMAIN flight[s] \ {i}
        /\ ~flight[s][i].killed /\ flight[s][i].answer = "ok"
        /\ flight[s][i].rows = DOMAIN pending[s]
        /\ Hears("upload", s) /\ Write(MarkedSent(s)) /\ IsCopies(MarkedSent(s))
    BY <1>1, <2>2, <2>3, <2>4, UploadIsOver
  <2>6. q \in DOMAIN pending[s]
    BY <1>1, <2>4, <2>5, MarkedIsRecent
  <2>7. QED
    BY <2>2, <2>3, <2>4, <2>5, <2>6
<1>2. Inv /\ [Next]_vars => [Acknowledged]_vars
  BY <1>1
<1>3. QED
  BY SyncInvariance, <1>2, PTL DEF Spec, SentMeansAcknowledged

(***************************************************************************)
(* While no stray request of the service is about, an upload answered with *)
(* success and not aborted is recorded by the step that ends it, for every *)
(* contact whose row the database does not refuse to update                *)
(* (QslUploadDialog.h:30).                                                 *)
(***************************************************************************)
THEOREM UploadsAreRecorded == Spec => CompletionIsRecorded
<1> DEFINE Recorded == dlg'.kind = dlg.kind =>
             \A s \in Services : Undisturbed(s) => Unrecorded(s) = {}
<1>1. ASSUME Inv, [Next]_vars PROVE Recorded
  <2> SUFFICES ASSUME dlg'.kind = dlg.kind, NEW s \in Services, Undisturbed(s),
                      NEW i \in DOMAIN flight[s], i \notin DOMAIN flight'[s],
                      flight[s][i].kind = "upload", flight[s][i].answer = "ok",
                      ~flight[s][i].killed
               PROVE  \A q \in flight[s][i].rows \ refused' : s \in db'[q].sent
    BY DEF Unrecorded
  <2>1. PICK t \in Services : \E j \in DOMAIN flight[t] : Finished(t, j)
    BY <1>1, OnlyFinishedRecords
  <2>2. PICK j \in DOMAIN flight[t] : Finished(t, j)
    BY <2>1
  <2>3. t = s /\ j = i
    BY <1>1, <2>2, FinishedDeletesItsOwn
  <2>4. /\ flight[s][i].rows = DOMAIN pending[s]
        /\ Hears("upload", s) /\ Write(MarkedSent(s)) /\ IsCopies(MarkedSent(s))
    BY <1>1, <2>2, <2>3, UploadIsOver
  <2>5. QED
    BY <1>1, <2>4, MarkedIsRecent
<1>2. Inv /\ [Next]_vars => [Recorded]_vars
  BY <1>1
<1>3. QED
  BY SyncInvariance, <1>2, PTL DEF Spec, CompletionIsRecorded

=============================================================================
