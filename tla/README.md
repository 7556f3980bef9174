# NF0T-Logger: specifications, model checking and proofs

NF0T-Logger is a Qt 6 logbook for radio amateurs. This directory holds TLA+ models of the
parts of it whose correctness depends on the order of things: handlers that run under an
open dialog, queues between threads, sockets that come and go, answers that arrive late,
programs that die half-way; and of the conversions a contact goes through on its ways
between form, row, file and foreign log, each written in its own code.
TLC checks the models on small instances; TLAPS proves the most important safety
properties for every value of the constants. `PROJECT.json` lists, for every definition,
the source lines it stands for. Paths below are relative to the repository root
(`src/...` is the C++ tree).

## 1. The system

The program has one GUI thread with an event loop. Modal dialogs (`exec()`,
`QMessageBox::question`) run a *nested* event loop inside a handler: input to the main
window is blocked, but timers, sockets and queued signals are delivered. Two other threads
exist: the Hamlib worker, for the life of the program, and a worker for the time of an ADIF
import.

| Component | State | Operations | Talks to |
|---|---|---|---|
| Logbook window (`app/MainWindow`, `core/logbook/QsoTableModel`, `ui/LogFilterBar`) | the table's rows, the filter widgets, a 300 ms debounce timer, the frames of open dialogs | log, auto-log, edit, delete one or many, New Log, filter | database (calls), entry panel and listeners (signals) |
| Database (`database/*`) | the `qsos` table with UNIQUE(callsign, datetime_on, band, mode), schema version | insert, update, delete, clear, fetch, transactions, open and upgrade | called by window, import worker, migration |
| Hamlib backend (`radio/HamlibBackend`, `HamlibWorker`) | rig handle, poll timer, failure count, last values reported; `m_connected` on both threads | connect, disconnect, poll | window, by signals queued across threads |
| TCI backend (`radio/TciBackend`) | web socket, reconnect timer, tracked TRX, last values reported | connect, disconnect, parse, retry | server (socket), window (signals) |
| Radio panel and Connect actions (`ui/RadioPanel`, `MainWindow::wireRadioBackend`) | connected, frequency, TX pill, enabled actions | slots for the backends' signals, and WSJT-X's frequency | all radio backends |
| WSJT-X listener (`wsjtx/WsjtxService`) | UDP socket, last station | status, clear, QSO logged, logged ADIF | window (signals) |
| Entry panel and full dialog (`ui/entrypanel/*`, `ui/QsoFullEntryDialog`) | the fields, the lookup and station layers; the contact being edited | enter, log, clear, load, save | radio and WSJT-X (write to the fields), window |
| Callsign lookup (`lookup/*`, wiring in `MainWindow`) | QRZ session key, cached result, debounce | authenticate, look up, CTY prefix match | entry panel, auto-log |
| QSL services and dialogs (`qsl/*`, `ui/QslDownloadDialog`, `ui/QslUploadDialog`) | running transfer, selected rows, log snapshot | upload, download, match, abort | window writes the results back |
| ADIF import and export (`core/adif/*`, `MainWindow::runAdifImport`) | progress, locks on the actions, transaction | parse, import in a worker, cancel, export | database, window |
| Migration dialog (`ui/MigrateDatabaseDialog`) | source, target, dry-run result | dry run, migrate, switch backend | both databases, window locks |
| Settings and secrets (`app/settings/*`) | key-value pairs, key chain | read, write, `changed` | everyone |
| Pure helpers (`core/Callsign`, `Maidenhead`, `BandPlan`) | none | conversions | everyone |
| `tools/log4om-migrate` | none between rows | batch conversion | a separate program |

What is hard, and what makes each part correct:

* *Logbook.* Row numbers captured before a question are used after it, while WSJT-X may
  insert rows and the debounce may reload the table. Correct means: the table shows what
  the database holds and the filter asks for; a deletion deletes what was confirmed; an
  edit reaches its own contact; a log is not cleared unless its archive holds it.
* *Radio links.* The GUI acts on an old picture of the worker, and the other way round;
  only changes are reported, so a value remembered too long is never reported again;
  Connect is disabled before the answer is known; closing blocks one thread on the other.
  Correct means: the panel catches up, a reading never outlives its connection, the actions
  never get stuck, a dead link is noticed or retried, an ended one stays ended, and the
  program ends with the rig closed.
* *QSL.* Two downloads over one snapshot of the log; sent flags written after the table is
  refreshed; an abort racing the end of a process; a dialog left while its transfer goes on.
  Correct means: no confirmation and no sent flag is lost, a flag is set by an answer to an upload
  of the contact only, a completed upload is recorded.
* *Lookup.* Late answers for a callsign that has changed meanwhile; an expired session.
  Correct means: a contact is only enriched with its own station's data.
* *Import, migration, locks.* Writers outside the GUI thread; failures in the middle.
  Correct means: no two of them at once, no action enabled that would collide, a summary that
  is true of the log that is open, a copy that is of the log, and nothing lost by a switch.
* *Entry form.* Operator, radio and WSJT-X write to the same fields, which set each other.
  Correct means: band and frequency agree, a radio's report is not overwritten by another
  program, what WSJT-X tells of a station stays with it.
* *Ways of a contact.* The UNIQUE key is compared as text, and six places write it. Correct
  means: what a file has room for comes back from it, a log is recognised in its own export,
  and editing one field of a contact leaves the others alone.
* *Schema.* Statements without a transaction, by several programs at once, each of which may
  die. Correct means: a recorded version is earned, and no contact lost or altered.
* *WSJT-X.* One contact in two datagrams, over UDP, possibly during an import or a
  migration. Correct means: logged at most once, and never to a log that is being replaced.

The hazards, each at its line, are in `PROJECT.json`, with the properties that cover them.

## 2. Modules

| Module | Is about | Role |
|---|---|---|
| `LogTable` | the logbook window over the database | specification |
| `LogTable_proofs` | | theorems |
| `RadioLink` | what a radio backend promises the window | abstract specification |
| `RadioWindow` | panel, actions and slots shared by the backends | actions, extended by the next three |
| `HamlibLink` | two threads, two queues, one rig | specification, implements `RadioLink` |
| `HamlibLink_proofs` | | theorems |
| `TciLink` | socket, timer, parser, server | specification, implements `RadioLink` |
| `RadioDesk` | both backends over the one panel and the one set of actions | specification |
| `RadioDesk_proofs` | `RadioDesk`, `TciLink`, and that the second is a backend of the first | theorems |
| `QslSync` | the QSL dialogs, the services behind them, the rows they write | specification |
| `QslSync_proofs` | | theorems |
| `QrzSession` | the QRZ provider: key, login, one request, one retry | state and actions, extended by the next |
| `CallLookup` | the entry form's callsign and the data shown and cached for it | specification |
| `CallLookup_proofs` | | theorems |
| `LogStore` | the databases, which one is open, the two locks and what they disable | state and helpers, extended by the next two |
| `ImportJob` | the ADIF import's worker and its watcher | actions |
| `MigrateDialog` | the migration's dry run, copy and switch | actions |
| `LogWriters` | both of them with the operator and WSJT-X | specification |
| `SchemaUpgrade` | `initSchema` of both backends, by several programs | specification |
| `Database_proofs` | `LogWriters` and `SchemaUpgrade` | theorems |
| `ContactRow` | a contact and the row it is stored as | conversions, used by the next four |
| `AdifRecord` | a contact as a record of an ADIF file, and back | conversions |
| `EntryDialog` | a contact in the widgets of the full dialog, and back | conversions |
| `Log4OmRow` | a row of Log4OM's database as a contact | conversions |
| `ContactTravels` | logging, editing, exporting, importing and copying over them | specification |
| `ContactTravels_proofs` | | theorems |
| `BandPlan` | the tables of bands and modes and their functions | helpers of the next |
| `EntryForm` | the entry panel's fields and the three who write to them | specification |
| `EntryForm_proofs` | | theorems |
| `MC...`, one for each specification | instances for TLC | model checking |

Operators named `Wrong...` are plausible mistakes in the definition that follows them;
nothing uses them. Replacing the definition by the mistake must make a property fail,
which is how each property is known to say something about the code.

### LogTable

`db` is the `qsos` table, `table` is `QsoTableModel::m_qsos`, `filter` and `debounce` the
filter bar, `modal` the stack frame of the handler whose dialog is open. A contact is a
record of its id, its UNIQUE key (ordered as `datetime_on` is, because the table is fetched
in that order) and the rest of its columns (`val`). A filter is the set of keys it matches.

Each handler is one action, up to the point where it opens a dialog; what it read before
is kept in `modal` and used by the action that answers the dialog. In between every event
that a nested loop delivers may happen: `AutoLog` (a WSJT-X contact) and `DebounceFires`.
`modal.moved` records that the table changed meanwhile. The batch delete's loop runs no
event loop, so nothing else is enabled while `modal.kind = "deleting"`.

Database calls fail when their name is in `Faults`. The single delete reads the contact's
id through a reference into the model's list; if the list changed under the question the
reference dangles, and the model lets any id come out. `suspect` then marks the table as
untrusted until the next successful reload; the same holds after a failed fetch and after
an answer applied to a table that moved.

Properties: `TableMirrorsLog` (table = matching rows of the log, once each, newest first or
with new contacts on top, unless suspect), `DeletionOnCourse` (the loop deletes the
confirmed contacts, all of them but failed ones, and no other), `FilterIsPending` (a filter
not yet shown has a timer running, whatever a reset or a combo box overtakes) and the step
property `EditTouchesOnlyItsContact`. `ArchiveHoldsLog` (the log is cleared only if the archive
holds it) is false, see section 5.

### RadioLink, RadioWindow, HamlibLink, TciLink

`RadioLink` is the promise of the interface `RadioBackend.h`: connected and disconnected
alternate; readings come only while connected; nothing of an old connection is left on the
panel; a Connect that was asked for is answered. `RadioWindow` translates the slots of
`wireRadioBackend` and the setters of `RadioPanel`.

`HamlibLink` has the GUI thread (`backendUp`, `panel`, `actions`, `window`), the worker
(`workerUp`, `failures`, `last`) and the two queues (`calls` to the worker, `signals`
back). A queue keeps its order; a thread takes its next entry whenever it is scheduled. A
signal carries, as history, what the worker knew when it was emitted (`after`); only the
argument of a frequency signal is taken from it. Closing has three stages: `closeEvent`
cuts the window's own slots off and queues a disconnect (the panel's and the entry panel's
connections are *not* cut, and the model keeps them), the destructor queues a blocking
second one, and the thread is joined. A poll reads frequency, mode and PTT, each of which
may fail; the mode is left out except that it counts as an answer.

`TciLink` has the backend's flags, the socket, what the server has announced and the socket
not yet read (`unread`, a set: later news of the same kind replaces earlier news, which the
backend, reporting the present value only, cannot tell apart), and the server, which comes
and goes. `QWebSocket::open` drops whatever the socket still has without a signal; a failed
connect reports an error and a disconnect in either order. That is Qt's behaviour as
`TciBackend.cpp` relies on it.

Both modules say in a definition `Link` how their state is seen as `RadioLink`'s, and
`ImplementsRadioLink` is the abstract specification, fairness included. `NoTxWithoutRadio`
(Hamlib) and `DisconnectSticks` (TCI) are proved and in no run.

### RadioDesk

Both backends beside each other, as they are on the GUI thread: the calls each was given and
has not answered (`calls`: a queue for Hamlib, for the web socket only the last), `up`, which
is `isConnected()`, TCI's reconnect timer (`retry`) and the PTT state last reported. What the
worker and the socket do in detail is the subject of the two modules above. The slots of
`wireRadioBackend` ask all backends (`AnyRadioConnected`), Connect calls one and Disconnect
all of them; any of them may be enabled in the settings and connect when the program starts.

Properties: `DeskIsTrue` (panel and Disconnect show whether any radio is connected; Connect
is withheld without one only while an answer is awaited) and `DisconnectEndsAll` (after
Disconnect nothing is left that would bring a radio back). Two more are false, see section 5:
`NoSecondConnect` and `PillIsOfRadio`. What does hold of the pill, that some radio is connected
while it is lit, is proved (`PillIsOfSomeRadio`). Specification and types are called `DeskSpec`
and `DeskTypeOK`, those of `SchemaUpgrade` `UpgradeSpec` and `UpgradeTypeOK`, because their
proofs share a module with another component's.

### QslSync

`dlg` is the open dialog (both are modal, so there is one at most) with the copies of rows
it works on: `m_localQsos`, read once when a download dialog opens, or `m_tableQsos`, read
by Select Required. A service has its `m_pendingUpload` (`pending`), its requests on the
network or TQSL processes that have not finished (`flight`), and the members `m_reply` and
`m_tqsl` through which its slots reach them (`handle`). The two are kept apart because
the code does: a slot connected to one request reads whatever the member points at when it
runs. A row is the set of services it was sent to and the set it was confirmed by; which
contact a downloaded record matches is part of the record.

`ServerAnswers` is the environment, as the slots read it: `"ok"` is what they take for success,
which for eQSL is any body that does not speak of an error, or that speaks of a duplicate,
whatever eQSL did with the contacts. No property says that a service has a contact; they speak
of the answer. `Finished` is the delivery of `finished()`, with everything the slot, the
dialog's slot and the main window's write-back do in that event. `LeaveDialog` is the Close
button, which runs `closeEvent`. `EscapeDialog` is Escape, which does not (`QDialog::reject`
reaches no `closeEvent` of the subclass): the requests under way go `stray`, as does a TQSL that
was killed and has not ended when the member is given to the next one. A pointer that is null
when a slot uses it ends the program (`crashed`). `AnswerRead` is what a slot reads through a
member that points at another request; an empty body is a success to eQSL.

Properties: `NothingRunsUnseen` (what is under way, and neither killed nor stray, the open
dialog waits for), `SlotsReadTheirOwn` (a request that is not stray is found by its slot, and
the program does not crash while none is), and the step properties `SentMeansAcknowledged` (a
flag comes only from a success answer to an upload of this very contact), `SentSticks` (no
write-back of a stale copy takes a sent flag away: true because the upload table is cleared with
each change of the service) and `CompletionIsRecorded`. Stray requests are part of the runs; the
first two say what they cannot do, `SentMeansAcknowledged` and `CompletionIsRecorded` exempt
their service while they are about, because there the code does go wrong:
`EveryCompletionIsRecorded`, without the exemption, is false. So is `ConfirmationsStick`, the
same as `SentSticks` for confirmations.

### QrzSession, CallLookup

`QrzSession` is `QrzXmlLookupProvider`: whether it has a session key, the login under way
(`authenticating`, `authReply`) with the one call that waits for it, where the latest wins,
and the one lookup request with the call it is for and whether it carries a key. An expired
key is given up, a login started and the lookup repeated, unless it was repeated already
(`lookupRetried`). `logins` counts the logins of a lookup, as history.

`CallLookup` is the wiring around it. A change of the callsign field is one action with all
that its signal does: empty, a fragment or a call (`OnCallsignCleared`, `OnFragment`,
`OnNewCall`). `DebounceFires` is the 600 ms timer, which asks QRZ for the *base* of the call,
`OnResultReady` and `OnLookupFailed` are the window's slots, which compare the call that was
asked for with the one that is typed. What is known of a station is reduced to whose it is:
the call of the country record and that of the QRZ record. `SetLookupResult` leaves the form's
layer alone when a result is empty, as the code does. The full entry dialog blocks the operator
while WSJT-X, the timer and the network go on; the contact it edits is a copy. Left out:
changes of the settings while a form is in use (`available` is fixed from the start), the
contents of the country file (a set of calls it matches, `CtyMatched`) and how a base call is
found (`Base`, a function).

Properties: `CacheIsOfLastCall`, `FormHasOwnData`, `PhotoIsOfLayer`, `SessionIsCoherent`
(which bounds the logins of a lookup) and the liveness property `LookupIsShown`.
`EmptyFormIsBlank` and the step property `CacheOutlivesForm` are proved and in no run.
`PortableIsShown`, the same for calls such as W1AW/P, is false. `FormHasOwnData` speaks of
the calls the country file matches: a call that neither it nor QRZ knows keeps the layer of
the station before it, which is listed as a hazard.

### LogStore, ImportJob, MigrateDialog, LogWriters

`LogStore` has the databases (`rows`, the committed contacts of each, by their UNIQUE key),
the one `m_db` is connected to (`active`), the one the settings name (`configured`), the two
locks, the actions that are enabled and whether WSJT-X is listened to. The open database and
the settings' one differ after a change in the settings, which takes effect at the next start.

`ImportJob` is `runAdifImport` on its thread: it opens a connection, begins a transaction,
inserts, commits each `BatchSize` contacts, and looks at the future's cancellation before
each insert. Begin and commit may fail unnoticed (a commit that fails leaves the transaction
open or rolls it back; what is lost in the end is remembered in `lost`, as history), an insert
may fail and is counted. While
the worker has a transaction open, a write by the window waits for it (`Waits`) and gives up
after SQLite's busy timeout (`"busy"` in `Faults`): an auto-logged contact is lost then. A
future canceled before a thread takes it up never runs. The first insert of the next
batch is kept apart from the commit before it; `BatchIsFull` says which is due.

`MigrateDialog` has the dialog's pages. The dry run inserts into the target and rolls back, so
it is one step without effect on the rows; the copy inserts one contact at a time, because
the dialog handles events in between. It handles no input, so its Cancel button cannot be
used while it runs, and is hidden when it has ended: `m_cancelled` stays false, and there is
no action for it. A target that cannot count its contacts answers -1 and is taken for an empty
one; `mixed` remembers what it held. The switch is not one step. Each setter of the settings emits
`Settings::changed`, whose slot starts the listener although the lock is on; when the copy can be
opened the window is unlocked in the same event, but when it cannot a message box handles events
(page `"error"`), with the listener running, the lock on and no database, until it is dismissed
(`DismissError`).

`LogWriters` composes them with the operator (`LogContact`, `NewLog`, `ChangeSettings`,
`Restart`) and WSJT-X, which announces a contact in two datagrams that UDP may lose, repeat
or reorder. The one of type 5 carries no band, which the table's NOT NULL refuses; the ADIF
one is logged (`OnQsoReady`). Dialogs that a handler opens and closes (file choosers,
messages, settings, New QSO, New Log) are part of the handler's step: they are modal, and
what runs under them changes nothing the handler's guards have read. Auto-log is taken to be
on. The table and the count label are `LogTable`'s; a crash is not modelled.

Properties: `WritersExclude` (the locks are held exactly while their work runs, never both,
and leave enabled only what may run beside it; whoever is listened to during a migration finds no
database to write to), `ActionsComeBack`, `ImportIsReported` (what the summary counts is in the
log that is open, but for contacts whose commit failed; no errors means the whole file is
counted), `CopyIsOfLog` (the copy holds nothing but the log, and what a target that could not be
counted held), the step property `SwitchKeepsLog` (the contacts of the log that was open are
in the one that replaces it, but for those counted as errors) and the liveness property
`ImportEnds`.

### SchemaUpgrade

`initSchema` of `SqliteBackend` and `MariaDbBackend`, statement by statement: open, read
MAX(version), create the table, record version 1, send the statements of `kModeMap` one by
one, record version 2. A program may stop or die between any two of them (`Stop`), several
may work on one database, and one that is through goes on to log contacts (`Log`). SQLite
sets version 1 up again whenever it reads less than 2, MariaDB only below 1. A query that
fails reads as no version. Each UPDATE is undone as a whole when it would break the UNIQUE key
or is not run (`unrun`), and its result is ignored.

Properties: `VersionsAreEarned`, `ContactIsKept` (no step loses a contact or changes what it
was made in) and `UpgradeIsThorough` (when version 2 is recorded, an obsolete mode is left
only where its statement failed or clashed). One contact that exists under both modes makes
the key refuse the UPDATE for all contacts of that mode: the model shows it, the property
has to say so.

### ContactRow, AdifRecord, EntryDialog, Log4OmRow, ContactTravels

The ninety members of `Qso` fall into classes that the program converts in the same way; a
`Contact` has one field of each (`ContactRow` lists them). What a conversion does to a text
is a function on texts (`Upper`, `Trim`, `Cut`, ...), to a number rounding, clipping or zero
for nothing: numbers are in tenths of the last decimal that ADIF has for them, so that the
writer (`Written`), the spin boxes (`Spun`) and MariaDB's frequency columns (`InColumn`) round
where the code does. `report` stands for the texts a widget may cut or change (reports,
exchanges, notes), `sfi` for the numbers that are read only when positive. So the model says in few lines what `bindQso`, `AdifWriter::record`,
`AdifParser::parseString`, `QsoFullEntryDialog::loadQso` and the migrator's `rowToQso` do to
all of them, and where they disagree.

`ContactTravels` composes them: a contact is logged (`LogQuick`), opened in the full dialog
as a new or a stored one, changed there (`Enter`) and saved, exported, imported (`TakeUp` is
one insert), copied to another backend, or brought in from Log4OM. Position is derived from
the locator on every way in (`Enrich`).

Properties: `FileKeepsContact` (a contact without what ADIF has no room for comes back from a
file as it was), `ReimportAddsNothing` (an export is recognised as what the log has) and the
step property `EditKeepsTheRest`. `TripsSettle` (a second trip changes nothing more) is
proved. `HeaderlessIsRead` is false, see section 5. Exempt in `FileKeepsContact`, because the
code does lose them: fractions of a second, a section beside a check (both are written as
ARRL_SECT), small letters in the fields the parser capitalises, a zero where only positive
numbers are read, decimals beyond ADIF's, and callsigns with blanks around them
(`PaddedCalls`). These come from Log4OM alone, whose migration does not trim them as every other
way in does; contacts with one are imported again, too. In `EditKeepsTheRest` each entry is
exempt by itself when its widget cannot show what is stored (`Fits`): a report is cut at its
line edit's length, a number clipped to the spin box's range or rounded to its decimals, zero
becomes none, an unlisted mode becomes the first of the list. The other entries of such a
contact are kept.

### BandPlan, EntryForm

`BandPlan` has the two tables as constants, with what holds of the code's tables: bands in
ascending order that share an edge at most, a default within each band, no blank names.
`EntryForm` is the left column of the entry panel: what each slot makes of the form is an
operator (`WithBand`, `WithFreq`, `WithMode`, `WithRadioMode`), with the slots that the code
blocks while it sets another field left out of it, and each signal an action. `told` is what
the connected radio has reported, `own` the fields somebody else has set since: the radio
reports changes only. WSJT-X sends Status datagrams with what it pleases, each as often as it
pleases, so that lost, doubled and reordered ones are covered; its listener tells of a station
only when it changes.

Properties: `BandHoldsFrequency`, `FormFollowsRadio`, `GridIsOfStation` and the step property
`StatusKeepsText`. What the model shows beside them: out of the bands the form keeps the band
it had; the default of 5 m, 54 MHz, is a frequency of 6 m; a report the operator has emptied
is filled in again by the next Status; after a contact is logged the submode is the list's
first, and a radio that reports changes only does not set it right; a changed mode keeps the
report of the mode before; a contact that the database refuses is cleared from the form all
the same.

## 3. Runs

| Run | Instance | Shows |
|---|---|---|
| `log_table` | 3 keys, 2 contents, 3 ids, 2 filters, delete, fetch and clear may fail | the four properties |
| `batch_delete` (violation) | no faults | a contact auto-logged while the question is open makes the batch delete remove a contact nobody selected (`MainWindow.cpp:1348`) |
| `hamlib_link` | 2 frequencies, 2 waiting calls, polls while at most 1 signal waits | safety, liveness, refinement |
| `tci_link` | 2 TRXs, 2 frequencies (and none: a TRX that is off) | safety, liveness, refinement |
| `radio_desk` | a queued and a retrying backend, every set of them enabled at the start, 3 waiting calls | the two properties |
| `qsl_sync` | 2 contacts, LoTW and eQSL, up to 3 requests, one of them stray; fetch, update and TQSL's start may fail | the five properties |
| `qsl_lost_update` (violation) | no faults | a second download in one dialog erases what the first confirmed (`QslDownloadDialog.cpp:298`) |
| `lookup` | a call, its portable form, a call the country file does not know, a fragment; QRZ on and off | the five properties |
| `log_writers` | 3 contacts, one of them live; a SQLite file and a server; files of up to 3 contacts, one with a duplicate; batches of 2; opening, fetching, counting, inserting, beginning and committing a transaction and the busy timeout may fail | the six properties |
| `schema` | 2 programs, 3 ids, both backends; every table of two rows that the map rewrites, leaves or finds in each other's way | the three properties |
| `contact_travels` | a SQLite and a MariaDB log of 2 contacts, 3 operations, foreign files and Log4OM rows, 14 texts | the three properties |
| `entry_form` | 2 bands with a common edge and a frequency outside, a mode with submodes, one without, one that is not in the list; 2 stations | the four properties |

Further configurations, each of one property that the code does not have, are in the
directory without being runs; section 5 names them. `tlc -config X.cfg M` shows a
counterexample.

Bounds. *LogTable:* three ids allow a batch of two, one row that is not selected and one
contact that arrives late; a second filter makes the table differ from the log. `MaxId`
bounds how many contacts are ever logged. *HamlibLink:* `MaxCalls` bounds what the user
leaves waiting (closing and the destructor still add theirs), `MaxSignals` how many signals
wait when a poll *starts*, so up to three more queue up behind: a poll emits at most two,
a lost rig an error and a disconnect. Two frequencies tell old from new. *TciLink:* two
TRXs give one that is tracked and one that must be ignored. There is no counter to bound.
*QslSync:* LoTW has the TQSL process and eQSL the download in two steps; QRZ is eQSL without
the index page. Two contacts give one that is uploaded and one that is not, or one that is
logged while a dialog is open. `MaxFlight` = 3 leaves room for a stray request, a killed TQSL and
one of the open dialog; `MaxStray` = 1 bounds the strays, for one is what a slot can find in its
place. `Inboxes` names the service whose downloads hold records: the other's end in an answer
without any. The contacts are symmetric. `SyncView` leaves out what no step reads again: the
members of an upload while none is under way, the download dates, and `refused`, which tells
of the last step. Deadlock is not checked, because a crashed program stops.
*CallLookup:* two stations tell a late answer from one that is wanted, one of them is asked
for under two texts. Nothing needs a bound: `logins` stays below 3 because the code retries
once.

*RadioDesk:* three waiting calls are a connect, a disconnect and a connect again; Hamlib
and TCI are the only backends there are. *SchemaUpgrade:* two statements of the map lead to one
mode and one only renames, as in `kModeMap`; three ids leave one for a contact that the faster
program logs while the other still upgrades. The programs are symmetric.
*ContactTravels:* the texts are those that the conversions tell apart: small, capital, padded,
too long for a column or a widget. Three operations are an entry or a file, an edit or a copy,
and an export or an import; a log holds two contacts, and one entry is changed in a dialog.
Deadlock is not checked, for the operations are bounded. *EntryForm:* nothing needs a bound.

*LogWriters:* a file of three contacts and batches of two give a full batch, a rest and a
cancellation in between; two databases give a migration each way and settings that name the
other one. The order in which contacts are copied is left open. Left out of `Faults` is
`"bind"` alone, with which the listener may just not run.

Deadlock is checked except in `hamlib_link`, where the program ends for good (`window =
"gone"`), `qsl_sync` and `contact_travels`.

Fairness. *HamlibLink:* weak fairness of the worker's event loop (`RunCall`), its poll
timer, the GUI's event loop (`Deliver`) and the steps of shutting down; the user and the
rig owe nothing. *TciLink:* weak fairness of the socket's events, the timer and the reading
of each announcement; a connect attempt ends one way or the other, even if the server comes
and goes all the time, because a handshake succeeds, is refused or times out. *LogTable*,
*QslSync*, *RadioDesk*, *SchemaUpgrade*, *ContactTravels* and *EntryForm* have safety
properties only: a server need not answer, for no transfer timeout is set, and the user owes
nothing. *CallLookup:* weak fairness of the debounce timer, of the end of a login and of the end
of a lookup. `QNetworkAccessManager` ends a request with an answer or an error, and the code
handles both; that a silent server is given up in the end is the network's doing, since no
transfer timeout is set here either. *LogWriters:* weak fairness of the worker's
thread and of the event loop that hears of its end.

Liveness: `DeadRigIsNoticed` (a rig that stays silent is given up, and the window told),
`CloseReturns` (the two threads never wait for each other), `LinkRecovers` (a TCI link
lost, or never made, is there again if the server stays), `LookupIsShown`, `ImportEnds`, and
`RadioLink`'s answer to every Connect.

## 4. Proofs

All proofs are hierarchical and checked by TLAPS; each proof module extends the modules it is
about. The assumptions are those on the constants (`LogTableAssumption`,
`HamlibLinkAssumption`, `TciLinkAssumption`, `RadioDeskAssumption`, `QslSyncAssumption`,
`QrzSessionAssumption`, `CallLookupAssumption`, `LogStoreAssumption`, `ImportJobAssumption`,
`LogWritersAssumption`, `UpgradeAssumption`, `TextAssumption`, `LocatorAssumption`,
`DialogAssumption`, `RenamesAssumption`, `TravelsAssumption`, `PlanAssumption`,
`ModesAssumption`, `FormAssumption`): keys and frequencies are numbers, 0 is no frequency,
`None` is no TRX, a backend that retries by itself has no queue of calls, a base call is its own
base, the empty text is no call, no database is no database, a batch holds at least one contact;
no statement of the mode map undoes another's work (none rewrites what another writes, and no
two rewrite the same mode); capitals, trimming and small letters are settled by one application;
the centre of a locator's square is a whole number of thousandths of a minute; the dialog's
lists are written as the parser writes them; the bands overlap at their edges at most.

*LogTable_proofs.* `SpecInv` proves an invariant of six parts inductive. `TableMirrorsLog`
is not inductive alone: a deletion keeps table and log together only because ids are never
shown twice (`LogIsKeyed`), and a batch only because the rows still to go lie above the one
removed and show what the user confirmed (`DeletionOnCourse`, `DialogShowsTable`). From it:
`SpecTypeOK`, `SpecTableMirrorsLog`, `SpecDeletionOnCourse`, `SpecFilterIsPending`,
`SpecEditTouchesOnlyItsContact`, for any keys, contents, filters, faults and ids.
`BatchDeletesOnlySelected` is false (finding 1); `UndisturbedBatchDeletesSelected` says what is left of it: the table has
not moved since the question and mirrors the log.

*HamlibLink_proofs.* The heart is `SignalsLeadToWorker`: the queued signals are a chain of
legal steps that leads from what the GUI thread was told of the connection (`Told`) to what
the worker knows of it (`Knows`). Emitting appends to the chain (`ChainGrows`), delivering
takes its first link (`ChainShrinks`), and an empty chain means both sides agree. With it,
`ConnectIsAwaited` says that a disabled Connect has a call or signal under way that will
enable it, and `LastCallDisconnects` that the last call a blocked GUI thread waits for
closes the rig. From these: `SpecTypeOK`, `SpecWindowCatchesUp`, `SpecNoTxWithoutRadio`,
`SpecRigClosedAtExit`, for queues of any length.

*RadioDesk_proofs*, of the desk. `DeskIsTrue` is inductive with the types: whoever connects, fails
or ends, the slot looks at all backends. `DisconnectEndsAll` is not. A Connect that fails arms
the reconnect timer, and might do so after a Disconnect that is still waiting behind it; that it
does not rests on `SocketKnowsOne`: the web socket, which retries, remembers its last call only,
so that a Disconnect behind a Connect waits in a queue, and what queues its calls does not retry.
From these, for any number of backends and any queues: `DeskTypes`, `DeskShowsTruth`,
`DisconnectEndsEverything`, `PillIsOfSomeRadio`.

*RadioDesk_proofs*, of the TCI backend. `FlagsMatchSocket` ties the backend's flags to the
socket's states, `WindowIsTold` the window to the backend, `TrackedIsShown` the panel to the
frequency the backend remembers. From these: `SpecTypeOK`, `SpecPanelShowsTrackedTrx`,
`SpecDisconnectSticks`, and the step property `LinkIsNotForgotten`, the safety behind
`LinkRecovers`: no step drops a link that was begun without a timer or the user's will.
`TciIsOfDesk` is a refinement: as long as the window is open, each step of `TciLink` is a step
of `RadioDesk` with one backend, which retries and has no queue, or changes nothing the desk
sees. So `RadioDesk` allows that backend all that the detailed module shows it doing. `Desk`
gives the mapping: the call under way is what the socket's state says, the history variable
`ended` is `m_intentionalClose`. After `closeEvent` the window's slots are cut off, which the
desk does not model; the theorem therefore speaks of the steps that leave the window open. The
Hamlib backend has no such theorem: a disconnect that finds no connection is dropped in silence
while earlier signals are still on their way to the GUI, where the desk would answer calls in
order; what it promises the window is stated against `RadioLink`.

*QslSync_proofs.* Two halves. The first (`CopyInv`) is about copies: of the sent flags in the log, a
dialog's copy of a row lacks at most the flag of the service the dialog uploads to, which is the
one it is about to add. It holds because the upload table is cleared with each change of the
service; from it `SyncTypes` and `FlagsStick`. The second (`Inv`) is about requests: one that the
user has not gone on without is what its service's member points at, either the open dialog waits
for it or it is a killed TQSL, and an upload carries the pending rows (`RequestIsKnown`). Escape
and the next upload's start are the steps that make strays. A stray's slot may delete the request
that has taken its place, and gives the dialog its answer; what it must not do, and does not, is to
leave a request behind that nobody waits for. From it `RunsAreSeen`,
`SlotsAreOwn`, `SentIsAcknowledged` and `UploadsAreRecorded`. No theorem has a hypothesis: they
hold for any contacts, services, number of requests and faults, however dialogs are left.

*CallLookup_proofs.* `Invariance` proves the session's part and the form's part together. The
session's part adds to `SessionIsCoherent` that a second login is a retry
(`RetriesAreCounted`). The form's part needs that the window's idea of the field is right
(`PendingIsText`): a slot compares with what it remembers, so an answer that is let through
is for the call in the field only then; and that what the country file says of the call in
the field is in the cache (`CtyIsCached`), because an answer of QRZ is merged into the cache
before it is shown. The parts meet in one point: a request always names a call, so no answer
is for an empty field. From these: `TypeCorrectness`, `SessionSafety`, `CacheIsOwn`,
`DataAreOwn`, `PhotoIsOwn`, `BlankForm`, `CacheSafety`, for any calls, bases and country file.

*Database_proofs*, of the writers. `Invariance` has three parts. That of the locks (`LocksInv`)
needs nothing else: the guards of the two handlers and the enabled actions keep import and
migration apart. That of the import (`JobInv`) rests on it: rows only grow while the worker
runs, so what is counted is in the log or in its transaction (`CountedIsThere`), and each
contact of the file is counted, still to do, or behind a reported error (`FileIsAccounted`).
That of the copy (`CopyInv`) rests on it too: nobody else writes, so each contact of the log is
copied, still left, or counted as failed (`CopyIsComplete`). While the message box of a switch
that failed is open, no database is (`LocksInv`), so the listener that runs under the lock writes
nothing. `lost` and `mixed` enter the invariant where a commit or a count may fail. All theorems
(`TypeCorrectness`, `Exclusion`, `LocksComeOff`, `ImportReports`, `CopyIsClean`, `SwitchSafety`)
hold whatever fails, for any databases, contacts, files and batch size.

*Database_proofs*, of the upgrade. The invariant `Safe` (`UpgradeSafe`) adds two parts to the
properties. `Fresh`: a program that has to set up the table starts the map at its head, and
records version 1 after the table. `Sent`: as long as version 2 is not recorded, each statement
that some program has behind it has left only rows that it could not rewrite; a second program's
statements do not disturb that, because no statement makes rows for another and none removes the
contact that another clashes with. From it: `UpgradeTypeCorrect`, `UpgradeEarnsVersions`,
`UpgradeKeepsContacts`, `UpgradeThorough`, for any number of programs and any map.

*ContactTravels_proofs.* The UNIQUE key of an export is recognised only if all ways into the
log write it alike, which no single conversion shows. `LogsInv` and `TodoInv` say so of what
is stored and of what is under way: callsign, band and mode are as the parser writes them
(`NormalKey`). `DialogInv` says that an entry the user has not touched stands in the dialog as
it was loaded. Below them are lemmas on the conversions, one for each pair: a row and its
contact, a record and its contact, a form and its contact. From these: `TravelsTypes`,
`EditKeeps`, `Settles`, `FileKeeps` and `Reimport`, without a hypothesis: `NormalKey` exempts the
callsigns that the migrator does not trim, and so do the properties.

*EntryForm_proofs.* `FormIsTuned` rests on what a frequency and a band mean in any plan that
satisfies `PlanAssumption`: the band found for a frequency has it, and a band's default is in
the band. That the default may lie on an edge and belong to the band below is why
`BandHoldsFrequency` asks whether the band has the frequency, not whether it is the band
found. `FormFollows` needs that nothing counts as told without a connection (`Untold`).
`FormTypes`, `GridIsOwn` and `TextIsKept` are inductive as they stand.

`SpecStepsAreRadioLink`, in both radio modules, is the safety half of the refinement: initial
states map to initial states, every step to a step or a stutter.

Every safety property of every passing run is a theorem, and none has a hypothesis beyond the
assumptions on the constants. Left
to TLC is all liveness (`DeadRigIsNoticed`, `CloseReturns`, `LinkRecovers`, `LookupIsShown`,
`ImportEnds`, the answer to a Connect), because ENABLED and fairness are beyond the prover.

## 5. Findings

`PROJECT.json` has for each the line and the document it contradicts; here each is given with
the configuration that shows it (the first two are runs).

1. `MainWindow::onDeleteSelectedQso` deletes contacts that were not selected when the table
   changes under its question (`BatchDeletesOnlySelected`). `MCLogTableBatch`.
2. `QslDownloadDialog::onDownloadFinished` matches against the log as it was when the dialog
   opened: the second download of a dialog erases the confirmations of the first.
   `MCQslSyncLost`.
3. `MainWindow::onNewLog` archives an empty list when the fetch fails, then clears the log.
   `MCLogTableArchive`.
4. `TciBackend::connectRadio` (and `HamlibWorker::doConnect`) forget the last frequency but
   not the last PTT state: the TX pill is wrong after a reconnect during a transmission.
   `MCTciLinkTx`.
5. The panel is cleared only when the last radio is gone: a TX pill lit by one backend stays
   lit when that one is lost beside another. `MCRadioDeskPill`.
6. An error of one backend enables both Connect actions while the other is still connecting,
   and the reconnect timer connects with them enabled: a second Connect reaches a backend in
   the middle of the first, which the comment at `MainWindow.cpp:938` means to prevent.
   `MCRadioDeskSecond`.
7. `QslUploadDialog` left with Escape does not abort: its upload goes on unheard, and what the
   server has taken in stays unsent. With another transfer of the same service started meanwhile
   the slots work on the wrong request, mark contacts that were not sent, or go through a null
   pointer. `MCQslSyncEscape`.
8. The QRZ slots of `MainWindow::wireCallsignLookup` compare the base callsign that was asked
   for with the callsign that was typed: every answer and failure for a portable call is
   dropped, and "Looking up ..." stays. `MCCallLookupPortable`.
9. `AdifParser` drops the first record of a file without a header, which it says it reads.
   `MCContactTravelsHeaderless`.

What the models show as well, without a configuration of its own: the listener is started under the
migration's lock when the settings are switched, although the comment at `MainWindow.cpp:539` has the
digital listeners paused for the whole time (`WritersExclude` says what is left of it); eQSL's
upload slot takes every body without "Error" for success, and so "Result: 0 records added" too,
which the comment at `EqslService.cpp:102` names beside an error description (`ServerAnswers`); saving the full dialog cuts, clips or
rounds what its widgets cannot show (`LoadQso`, `Fits`); Log4OM's padded callsigns are
imported twice (`PaddedCalls`).

Observed while reading, and in no model: `AdifWriter::writeFile` does not look at the
stream's state, so that a full disk yields a short archive; the migrator's query with OFFSET
and no LIMIT is no SQL.

## 6. Not modelled

*Settings and secrets.* Storage of keys and values; those that decide something are constants
or choices of the modules that read them. *ClubLog.* Constructed, but in no list that a dialog
offers. *Columns, What's New, password dialogs.* Formatting that nothing reads back. *The
country file and the callsign's base.* Parsing and search without state; `CtyMatched` and
`Base` stand for them, as `PosOf` stands for the arithmetic of locators. *Of the radio
backends:* the mode (latched and reported as the frequency is; in the form it is), and
`setFreq` and `setMode`, which nothing calls. *Of the QSL part:* how a record is matched to a
contact, the date range, the temporary file; a record that carries the flag of another service
is skipped as confirmed (`QslDownloadDialog.cpp:315`), which `New` has and no run shows, for the
instance is without QRZ. *Of the ways of a
contact:* the characters of an ADIF file, offsets of time zones, the distance, and the latitude
that an edited locator leaves behind when it is no locator any more. *Of WSJT-X:* the bytes of a
datagram.

## 7. Plan

In this order, each with its instance, its properties and, where marked, proofs:

1. `CtyDat`: the country file's longest-prefix match and `Callsign`'s base call as functions,
   checked against their definitions, in place of `CtyMatched` and `Base`.
2. Matching of downloaded records: call, band, day, time window and mode over small logs, with
   the record of another service's flag.
3. Once the settings were changed, New Log is enabled by a backend that is not the open one:
   a property that says otherwise, against `ROADMAP.md`.
4. Proofs of the safety behind the other liveness properties, as `LinkIsNotForgotten` is for
   `LinkRecovers`: that a lookup of the call in the field is never dropped without a timer, a
   request or a result, and that a running import always has a step or its end before it.
