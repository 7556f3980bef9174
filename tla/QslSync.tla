------------------------------ MODULE QslSync ------------------------------
(***************************************************************************)
(* The QSL upload and download dialogs, the services behind them and the   *)
(* log they write to.                                                      *)
(*                                                                         *)
(* Both dialogs are modal, so at most one is open and rows of the log are  *)
(* changed by its results alone, although WSJT-X may log new contacts      *)
(* meanwhile. The services outlive the dialogs: a service keeps the        *)
(* contacts it is uploading, one QNetworkReply pointer and, LoTW only, one *)
(* pointer to the TQSL process, and their finished() slots read whatever   *)
(* these members point at when they run. A dialog works on copies of the   *)
(* rows, and MainWindow writes these copies back whole.                    *)
(***************************************************************************)
EXTENDS Naturals, FiniteSets

CONSTANTS
  Qsos,       (* the contacts of the log, those WSJT-X will still log included *)
  Services,   (* of "LoTW", "eQSL", "QRZ", those in m_qslServices              *)
  MaxFlight,  (* bound: requests under way at a time                           *)
  MaxStray,   (* bound: of these, requests that the user has gone on without   *)
  Inboxes,    (* bound: the services whose downloads hold records              *)
  Faults      (* the calls that may fail: "fetch", "update", "launch"          *)

ASSUME QslSyncAssumption ==
  /\ Services \subseteq {"LoTW", "eQSL", "QRZ"}
  /\ Services # {}
  /\ MaxFlight \in Nat \ {0}
  /\ MaxStray \in Nat

Slots == 1..MaxFlight

(***************************************************************************)
(* A row as far as the dialogs change it: the services with a sent flag,   *)
(* and those with a received flag. A flag stands for its date too, and a   *)
(* received flag for the fields backfilled with it.                        *)
(***************************************************************************)
Row    == [sent : SUBSET Services, rcvd : SUBSET Services]
IsCopies(f) == DOMAIN f \subseteq Qsos /\ f \in [DOMAIN f -> Row]
None   == [q \in {} |-> [sent |-> {}, rcvd |-> {}]]

(* What a record of a service's answer says: a contact and received flags.
   The service sets its own; the ADIF of a QRZ logbook holds the others too. *)
Stub     == [qso : Qsos, flags : SUBSET Services]
Stubs(s) == {c \in Stub : s \in c.flags /\ (s # "QRZ" => c.flags = {s})}

(***************************************************************************)
(* A request: an upload, a download, or the two steps of an eQSL download  *)
(* (the index page, then the ADIF file it links to).                       *)
(***************************************************************************)
Request == [kind   : {"upload", "page", "download"},
            rows   : SUBSET Qsos,
            answer : {"none", "ok", "warned", "error"},
            stubs  : SUBSET Stub,
            killed : BOOLEAN,   \* TQSL was told to end
            stray  : BOOLEAN]   \* history: the user has gone on without it

VARIABLES
  db,        (* the qsos table                                                 *)
  dlg,       (* the open dialog: its service, m_running, and m_localQsos or
                m_tableQsos in held                                            *)
  pending,   (* m_pendingUpload of each service                                *)
  flight,    (* the requests of each service that have not finished            *)
  handle,    (* what m_reply and m_tqsl point at: a slot of flight, 0 for
                nullptr, Stillborn for a process that never started            *)
  dated,     (* the services whose last download date was moved to today       *)
  crashed,   (* a slot went through a null pointer                             *)
  refused    (* history: the contacts whose update failed in the last step     *)

vars == <<db, dlg, pending, flight, handle, dated, crashed, refused>>

Stillborn == MaxFlight + 1
NoDialog  == [kind |-> "none", svc |-> CHOOSE s \in Services : TRUE,
              running |-> FALSE, held |-> None]

May(what) == what \in Faults

----------------------------------------------------------------------------
(* The database                                                            *)

(* QsoFilter::lotwUnsent and its siblings *)
Unsent(s) == [q \in {p \in DOMAIN db : s \notin db[p].sent} |-> db[q]]

(* updateQso of each copy, a failure ignored: whole rows are written *)
Write(copies) ==
  \E kept \in IF May("update") THEN SUBSET DOMAIN copies ELSE {DOMAIN copies} :
    /\ db' = [q \in DOMAIN db |-> IF q \in kept \cap DOMAIN copies THEN copies[q] ELSE db[q]]
    /\ refused' = DOMAIN copies \ kept

Quiet == refused' = {}   \* a step that writes no rows

(* WSJT-X, or the user between two dialogs, logs a contact. *)
LogContact(q) ==
  /\ ~crashed
  /\ q \notin DOMAIN db
  /\ db' = [p \in DOMAIN db \cup {q} |->
              IF p = q THEN [sent |-> {}, rcvd |-> {}] ELSE db[p]]
  /\ UNCHANGED <<dlg, pending, flight, handle, dated, crashed>>
  /\ Quiet

----------------------------------------------------------------------------
(* Requests                                                                *)

Via(s, kind) == IF s = "LoTW" /\ kind = "upload" THEN "tqsl" ELSE "reply"

FreeSlots(s) == Slots \ DOMAIN flight[s]
NextSlot(s)  == CHOOSE i \in FreeSlots(s) : TRUE

NewRequest(kind, rows) ==
  [kind |-> kind, rows |-> rows, answer |-> "none", stubs |-> {},
   killed |-> FALSE, stray |-> FALSE]

With(reqs, i, r)  == [j \in DOMAIN reqs \cup {i} |-> IF j = i THEN r ELSE reqs[j]]
Less(reqs, gone)  == [j \in DOMAIN reqs \ gone |-> reqs[j]]

(* The requests under way, and the room for more and for more strays. *)
UnderWay == {ref \in Services \X Slots : ref[2] \in DOMAIN flight[ref[1]]}
MayIssue == Cardinality(UnderWay) < MaxFlight
MayStray == Cardinality({ref \in UnderWay : flight[ref[1]][ref[2]].stray}) < MaxStray

(* A killed process that has not reported by the time the member is given
   to another one goes astray. *)
Overtaken(s, member) ==
  [i \in DOMAIN flight[s] |->
     [flight[s][i] EXCEPT !.stray = @ \/ (member = "tqsl" /\ flight[s][i].killed)]]

(* m_reply = m_nam->get() or post(), m_tqsl->start(): the member is
   overwritten, an older request keeps running. *)
Issue(s, kind, rows) ==
  /\ FreeSlots(s) # {}
  /\ MayIssue
  /\ flight' = [flight EXCEPT ![s] =
       With(Overtaken(s, Via(s, kind)), NextSlot(s), NewRequest(kind, rows))]
  /\ handle' = [handle EXCEPT ![s][Via(s, kind)] = NextSlot(s)]

(***************************************************************************)
(* startUpload: the rows without the flag become m_pendingUpload. With     *)
(* none, or with settings missing, uploadFinished({}, error) is emitted at *)
(* once. A TQSL that cannot be started never emits finished().             *)
(***************************************************************************)
StartUpload(s, copies) ==
  LET fresh == {q \in DOMAIN copies : s \notin copies[q].sent} IN
  \E outcome \in {"refused", "sent"} \cup
                 (IF s = "LoTW" /\ May("launch") THEN {"stillborn"} ELSE {}) :
    /\ pending' = [pending EXCEPT ![s] =
                     IF outcome = "refused" \/ fresh = {} THEN None
                     ELSE [q \in fresh |-> copies[q]]]
    /\ dlg' = [dlg EXCEPT !.running = outcome # "refused" /\ fresh # {}]
    /\ CASE outcome = "refused" \/ fresh = {} -> UNCHANGED <<flight, handle>>
         [] outcome = "sent" /\ fresh # {} -> Issue(s, "upload", fresh)
         [] outcome = "stillborn" /\ fresh # {} ->
              /\ handle' = [handle EXCEPT ![s]["tqsl"] = Stillborn]
              /\ flight' = [flight EXCEPT ![s] = Overtaken(s, "tqsl")]

(* startDownload *)
StartDownload(s) ==
  \E outcome \in {"refused", "sent"} :
    /\ dlg' = [dlg EXCEPT !.running = outcome = "sent"]
    /\ UNCHANGED pending
    /\ IF outcome = "sent"
       THEN Issue(s, IF s = "eQSL" THEN "page" ELSE "download", {})
       ELSE UNCHANGED <<flight, handle>>

(* Wrong: the reply is left to itself. *)
WrongAbort(s) ==
  /\ pending' = [pending EXCEPT ![s] = None]
  /\ UNCHANGED <<flight, handle>>

(***************************************************************************)
(* abort: QNetworkReply::abort emits finished at once, and the slot clears *)
(* m_reply; kill() only asks, and finished comes when the process is gone. *)
(***************************************************************************)
Abort(s) ==
  LET reply == handle[s]["reply"]
      tqsl  == handle[s]["tqsl"]
      left  == Less(flight[s], {reply})
  IN
  /\ flight' = [flight EXCEPT ![s] =
       [i \in DOMAIN left |-> [left[i] EXCEPT !.killed = @ \/ i = tqsl]]]
  /\ handle' = [handle EXCEPT ![s]["reply"] = 0]
  /\ pending' = [pending EXCEPT ![s] = None]

----------------------------------------------------------------------------
(* The dialogs                                                             *)

Idle(kind) == ~crashed /\ dlg.kind = kind /\ ~dlg.running

(* MainWindow::onQslDownload reads the log once, an empty one if it cannot *)
OpenDownload ==
  /\ Idle("none")
  /\ \E snapshot \in {db} \cup (IF May("fetch") THEN {None} ELSE {}) :
       dlg' = [NoDialog EXCEPT !.kind = "download", !.held = snapshot]
  /\ UNCHANGED <<db, pending, flight, handle, dated, crashed>>
  /\ Quiet

OpenUpload ==
  /\ Idle("none")
  /\ dlg' = [NoDialog EXCEPT !.kind = "upload"]
  /\ UNCHANGED <<db, pending, flight, handle, dated, crashed>>
  /\ Quiet

(* Wrong: the table keeps the rows selected for the other service. *)
WrongOnServiceChanged(s) ==
  /\ Idle("upload") \/ Idle("download")
  /\ dlg' = [dlg EXCEPT !.svc = s]
  /\ Quiet
  /\ UNCHANGED <<db, pending, flight, handle, dated, crashed>>

(* Both dialogs have one; the upload dialog's clears its table. *)
OnServiceChanged(s) ==
  /\ Idle("upload") \/ Idle("download")
  /\ dlg' = [dlg EXCEPT !.svc = s,
                        !.held = IF dlg.kind = "upload" THEN None ELSE @]
  /\ UNCHANGED <<db, pending, flight, handle, dated, crashed>>
  /\ Quiet

OnSelectRequired ==
  /\ Idle("upload")
  /\ dlg' = [dlg EXCEPT !.held = Unsent(dlg.svc)]
  /\ UNCHANGED <<db, pending, flight, handle, dated, crashed>>
  /\ Quiet

OnUploadClicked(checked) ==
  /\ Idle("upload")
  /\ checked # {}
  /\ checked \subseteq DOMAIN dlg.held
  /\ MayStray \/ \A i \in DOMAIN flight[dlg.svc] : ~flight[dlg.svc][i].killed
  /\ StartUpload(dlg.svc, [q \in checked |-> dlg.held[q]])
  /\ UNCHANGED <<db, dated, crashed>>
  /\ Quiet

OnDownloadClicked ==
  /\ Idle("download")
  /\ StartDownload(dlg.svc)
  /\ UNCHANGED <<db, dated, crashed>>
  /\ Quiet

(* Wrong: closed without aborting. *)
WrongLeaveDialog ==
  /\ ~crashed
  /\ dlg.kind # "none"
  /\ dlg' = NoDialog
  /\ Quiet
  /\ UNCHANGED <<db, pending, flight, handle, dated, crashed>>

(* The dialog is closed: closeEvent disconnects and aborts a busy service. *)
LeaveDialog ==
  /\ ~crashed
  /\ dlg.kind # "none"
  /\ IF dlg.running THEN Abort(dlg.svc) ELSE UNCHANGED <<pending, flight, handle>>
  /\ dlg' = NoDialog
  /\ UNCHANGED <<db, dated, crashed>>
  /\ Quiet

Abandoned(s) ==
  [i \in DOMAIN flight[s] |->
     [flight[s][i] EXCEPT !.stray = @ \/ ~flight[s][i].killed]]

(* Escape in a busy dialog ends QDialog::exec through reject(), which calls
   no closeEvent of the subclass: the service goes on, nobody connected. *)
EscapeDialog ==
  /\ ~crashed
  /\ dlg.running
  /\ MayStray
  /\ flight' = [flight EXCEPT ![dlg.svc] = Abandoned(dlg.svc)]
  /\ UNCHANGED <<pending, handle>>
  /\ dlg' = NoDialog
  /\ UNCHANGED <<db, dated, crashed>>
  /\ Quiet

(* onUploadFinished: the table is read again before uploadCompleted has had
   the flags written; reading may fail, which leaves the table. *)
OnUploadFinished(updated) ==
  /\ \E table \in (IF DOMAIN updated = {} THEN {dlg.held} ELSE {Unsent(dlg.svc)})
                  \cup (IF May("fetch") THEN {dlg.held} ELSE {}) :
       dlg' = [dlg EXCEPT !.running = FALSE, !.held = table]
  /\ Write(updated)
  /\ UNCHANGED dated

(* The stubs onDownloadFinished matches to one of the copies the dialog was
   opened with; one that carries any flag the copy has is skipped. *)
New(stubs) == {c \in stubs : /\ c.qso \in DOMAIN dlg.held
                             /\ c.flags \cap dlg.held[c.qso].rcvd = {}}

OnDownloadFinished(stubs, clean) ==
  LET matched == {c.qso : c \in New(stubs)}
      Flags(q) == UNION {c.flags : c \in {d \in New(stubs) : d.qso = q}}
  IN
  /\ dlg' = [dlg EXCEPT !.running = FALSE]
  /\ dated' = IF clean \/ stubs # {} THEN dated \cup {dlg.svc} ELSE dated
  /\ Write([q \in matched |-> [dlg.held[q] EXCEPT !.rcvd = @ \cup Flags(q)]])

----------------------------------------------------------------------------
(* The servers                                                             *)

(* A server answers, or the connection fails. To an upload, "ok" is what the
   slot takes for success: exit code 0 of TQSL, RESULT=OK or REPLACE of QRZ,
   and of eQSL any body that does not speak of an Error, or does of "0
   Duplicate", whatever eQSL did with the contacts. A record may carry another
   service's flag as well. *)
ServerAnswers(s, i) ==
  LET r == flight[s][i] IN
  /\ ~crashed
  /\ i \in DOMAIN flight[s]
  /\ r.answer = "none"
  /\ \E answer \in {"ok", "warned", "error"}, stubs \in SUBSET Stubs(s) :
       /\ r.killed => answer = "error"
       /\ answer = "warned" => r.kind = "download"
       /\ stubs # {} => /\ r.kind = "download"
                        /\ answer = "ok"   \* warnings beside records change nothing
                        /\ s \in Inboxes
       /\ \A c, d \in stubs : c.qso = d.qso => c = d
       /\ flight' = [flight EXCEPT ![s][i].answer = answer, ![s][i].stubs = stubs]
  /\ UNCHANGED <<db, dlg, pending, handle, dated, crashed>>
  /\ Quiet

(***************************************************************************)
(* What a finished() slot reads. TQSL's exit code is an argument; a reply  *)
(* is read through m_reply, which may be a later request that has received *)
(* nothing: no error, and an empty body. To eQSL's upload slot that is     *)
(* success, to LoTW's and eQSL's ADIF parsers a file without records.      *)
(***************************************************************************)
EmptyBodyIsFine(s, kind) ==
  <<s, kind>> \in {<<"eQSL", "upload">>, <<"eQSL", "download">>, <<"LoTW", "download">>}

AnswerRead(s, i, p) ==
  LET kind == flight[s][i].kind IN
  CASE p = i \/ Via(s, kind) = "tqsl" -> {flight[s][i].answer}
    [] p # i /\ Via(s, kind) = "reply" /\ flight[s][p].answer = "none" ->
         {IF EmptyBodyIsFine(s, kind) THEN "ok" ELSE "error"}
    [] OTHER -> {"ok", "error"}

Hears(kind, s) == dlg.kind = kind /\ dlg.running /\ dlg.svc = s

MarkedSent(s) == [q \in DOMAIN pending[s] |-> [pending[s][q] EXCEPT !.sent = @ \cup {s}]]

(* Wrong: the answer is not looked at. *)
WrongUploadReply(s, ok) ==
  /\ IF Hears("upload", s) THEN OnUploadFinished(MarkedSent(s))
                           ELSE UNCHANGED <<dlg, db, dated>> /\ Quiet
  /\ pending' = [pending EXCEPT ![s] = None]

(* Wrong: m_pendingUpload is cleared before uploadFinished carries it. *)
WrongClearsFirst(s, ok) ==
  /\ IF Hears("upload", s) THEN OnUploadFinished(None)
                           ELSE UNCHANGED <<dlg, db, dated>> /\ Quiet
  /\ pending' = [pending EXCEPT ![s] = None]

(* onTqslFinished, onUploadReply *)
UploadReply(s, ok) ==
  /\ IF Hears("upload", s) THEN OnUploadFinished(IF ok THEN MarkedSent(s) ELSE None)
                           ELSE UNCHANGED <<dlg, db, dated>> /\ Quiet
  /\ pending' = [pending EXCEPT ![s] = None]

(* onDownloadReply of LoTW and QRZ, onAdifFileReply *)
DownloadReply(s, stubs, answer) ==
  /\ IF Hears("download", s)
     THEN OnDownloadFinished(IF answer = "error" THEN {} ELSE stubs, answer = "ok")
     ELSE UNCHANGED <<dlg, db, dated>> /\ Quiet
  /\ UNCHANGED pending

(***************************************************************************)
(* finished() of request i is delivered: its slot takes the member as its  *)
(* own, deletes the request it points at and sets it to nullptr.           *)
(***************************************************************************)
Finished(s, i) ==
  LET r    == flight[s][i]
      p    == handle[s][Via(s, r.kind)]
      rest == Less(flight[s], {i, p})
  IN
  /\ ~crashed
  /\ i \in DOMAIN flight[s]
  /\ r.answer # "none"
  /\ IF p = 0
     THEN /\ crashed' = TRUE
          /\ UNCHANGED <<db, dlg, pending, flight, handle, dated>>
          /\ Quiet
     ELSE /\ \E answer \in AnswerRead(s, i, p) :
               LET file == r.kind = "page" /\ answer # "error"   \* onDownloadReply of eQSL goes on
                   next == CHOOSE j \in Slots : j \notin DOMAIN rest
                   more == [NewRequest("download", {}) EXCEPT !.stray = r.stray]
               IN
               /\ flight' = [flight EXCEPT ![s] =
                    IF file THEN With(rest, next, more) ELSE rest]
               /\ handle' = [handle EXCEPT ![s][Via(s, r.kind)] = IF file THEN next ELSE 0]
               /\ CASE r.kind = "upload" -> UploadReply(s, answer = "ok")
                    [] file -> UNCHANGED <<db, dlg, pending, dated>> /\ Quiet
                    [] OTHER -> DownloadReply(s, IF p \in DOMAIN flight[s] THEN flight[s][p].stubs
                                                 ELSE {}, answer)
          /\ UNCHANGED crashed

----------------------------------------------------------------------------
Init ==
  /\ db \in {[q \in S |-> [sent |-> {}, rcvd |-> {}]] : S \in SUBSET Qsos}
  /\ dlg = NoDialog
  /\ pending = [s \in Services |-> None]
  /\ flight = [s \in Services |-> [i \in {} |-> NewRequest("page", {})]]
  /\ handle = [s \in Services |-> [m \in {"reply", "tqsl"} |-> 0]]
  /\ dated = {}
  /\ crashed = FALSE
  /\ refused = {}

Next ==
  \/ \E q \in Qsos : LogContact(q)
  \/ OpenDownload
  \/ OpenUpload
  \/ \E s \in Services : OnServiceChanged(s)
  \/ OnSelectRequired
  \/ \E checked \in SUBSET Qsos : OnUploadClicked(checked)
  \/ OnDownloadClicked
  \/ LeaveDialog
  \/ EscapeDialog
  \/ \E s \in Services : \E i \in DOMAIN flight[s] : ServerAnswers(s, i)
  \/ \E s \in Services : \E i \in DOMAIN flight[s] : Finished(s, i)

Spec == Init /\ [][Next]_vars

----------------------------------------------------------------------------
TypeOK ==
  /\ IsCopies(db)
  /\ IsCopies(dlg.held)
  /\ dlg \in [kind : {"none", "upload", "download"}, svc : Services,
              running : BOOLEAN, held : {dlg.held}]
  /\ DOMAIN pending = Services
  /\ DOMAIN flight = Services
  /\ \A s \in Services : /\ IsCopies(pending[s])
                          /\ DOMAIN flight[s] \subseteq Slots
                          /\ \A i \in DOMAIN flight[s] : flight[s][i] \in Request
  /\ handle \in [Services -> [{"reply", "tqsl"} -> 0..Stillborn]]
  /\ dated \in SUBSET Services
  /\ crashed \in BOOLEAN
  /\ refused \in SUBSET Qsos

(***************************************************************************)
(* Whatever a service has under way, and the user has not killed or left   *)
(* with Escape, the open dialog is waiting for: closing a dialog leaves    *)
(* nothing behind that would finish with nobody connected, and no stray    *)
(* request makes the dialog give up one that still runs                    *)
(* (QslUploadDialog::closeEvent, QslDownloadDialog::closeEvent).           *)
(***************************************************************************)
NothingRunsUnseen ==
  \A s \in Services : \A i \in DOMAIN flight[s] :
    LET r == flight[s][i] IN
    r.killed \/ r.stray \/ Hears(IF r.kind = "upload" THEN "upload" ELSE "download", s)

(***************************************************************************)
(* A finished() slot works on its own request: the member it goes through  *)
(* points at the request that has finished, never at a later one and never *)
(* at nothing. Only a request that the user left with Escape, or a TQSL    *)
(* that outlives its kill and the next upload's start, can find another in *)
(* its place, or nothing and crash (LoTwService::onTqslFinished,           *)
(* onDownloadReply and the like).                                          *)
(***************************************************************************)
Undisturbed(s) == \A i \in DOMAIN flight[s] : ~flight[s][i].stray

SlotsReadTheirOwn ==
  /\ crashed => \E s \in Services : ~Undisturbed(s)
  /\ \A s \in Services : \A i \in DOMAIN flight[s] :
       flight[s][i].stray \/ handle[s][Via(s, flight[s][i].kind)] = i

(***************************************************************************)
(* A contact becomes flagged as sent to a service only in the step that    *)
(* handles a success answer to an upload that carried this very contact:   *)
(* no refused, aborted or overtaken upload, and no other service's, marks  *)
(* a row. While a stray request of the service is about, it may.           *)
(***************************************************************************)
SentMeansAcknowledged ==
  [][\A q \in DOMAIN db : \A s \in db'[q].sent \ db[q].sent :
       Undisturbed(s) =>
         \E i \in DOMAIN flight[s] \ DOMAIN flight'[s] :
           LET r == flight[s][i] IN
           r.kind = "upload" /\ r.answer = "ok" /\ q \in r.rows]_vars

(***************************************************************************)
(* No later write takes a sent flag away: the copies the dialogs hold,     *)
(* written back whole, are never older than the flags in the log           *)
(* (onServiceChanged clears the table, a download dialog reads anew).      *)
(***************************************************************************)
SentSticks ==
  [][\A q \in DOMAIN db : db[q].sent \subseteq db'[q].sent]_vars

(***************************************************************************)
(* An upload answered with success, and not aborted, is recorded: the step *)
(* that handles the answer flags every contact of the request the database *)
(* does not refuse to update, unless that step is the user closing the     *)
(* dialog. "On completion, uploadCompleted() is emitted so MainWindow can  *)
(* update the DB" (QslUploadDialog.h:30). It holds while no request of the *)
(* service has been left with Escape (CompletionIsRecorded), and not       *)
(* otherwise (EveryCompletionIsRecorded, MCQslSyncEscape.cfg).             *)
(***************************************************************************)
Unrecorded(s) ==
  {r \in {flight[s][i] : i \in DOMAIN flight[s] \ DOMAIN flight'[s]} :
     /\ r.kind = "upload" /\ r.answer = "ok" /\ ~r.killed
     /\ \E q \in r.rows \ refused' : s \notin db'[q].sent}

CompletionIsRecorded ==
  [][dlg'.kind = dlg.kind =>
       \A s \in Services : Undisturbed(s) => Unrecorded(s) = {}]_vars

EveryCompletionIsRecorded ==
  [][dlg'.kind = dlg.kind => \A s \in Services : Unrecorded(s) = {}]_vars

(***************************************************************************)
(* A confirmation once in the log stays: "matched contains the local Qso   *)
(* records with rcvd fields updated -- ready for direct DB write"          *)
(* (QslDownloadDialog.h:38-39).                                            *)
(***************************************************************************)
ConfirmationsStick ==
  [][\A q \in DOMAIN db : db[q].rcvd \subseteq db'[q].rcvd]_vars

=============================================================================
