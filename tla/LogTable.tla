------------------------------ MODULE LogTable ------------------------------
(***************************************************************************)
(* The logbook as the main window works on it: the rows of the qsos table  *)
(* in the database, the rows QsoTableModel shows, the filter bar with its  *)
(* debounce timer, and the dialogs that hold row numbers while their       *)
(* nested event loop keeps delivering datagrams and timers.                *)
(*                                                                         *)
(* All of it runs on the GUI thread, so a handler is one atomic step,      *)
(* except where it opens a dialog: what it read before exec() is kept in   *)
(* modal and used when the dialog is answered, and between the two any     *)
(* timer or WSJT-X datagram may be handled. User input to the main window  *)
(* is blocked while a dialog is open.                                      *)
(***************************************************************************)
EXTENDS Naturals, Sequences, FiniteSets

CONSTANTS
  Keys,      (* UNIQUE(callsign, datetime_on, band, mode), in order of datetime_on *)
  Vals,      (* what the remaining columns may hold                                *)
  MaxId,     (* bound: the last AUTOINCREMENT id handed out                        *)
  Filters,   (* the filters the user sets, each the set of keys it matches         *)
  Faults     (* the database and file calls that may fail                          *)

ASSUME LogTableAssumption ==
  /\ Keys \subseteq Nat
  /\ MaxId \in Nat
  /\ Filters \subseteq SUBSET Keys
  /\ Keys \in Filters

Row   == [id : 1..MaxId, key : Keys, val : Vals]
Kinds == {"none", "edit", "deleteOne", "deleteMany", "deleting", "newLog", "archived"}

(***************************************************************************)
(* What an open dialog's handler holds in its stack frame. rows: the row   *)
(* numbers it will use; held: the contacts those rows showed when it       *)
(* opened, which is what the user is asked about, or the contacts New Log  *)
(* has written to its archive file; moved: the table has changed since;    *)
(* failed: a delete of this batch failed.                                  *)
(***************************************************************************)
Modal == [kind : Kinds, rows : SUBSET Nat, held : SUBSET Row,
          moved : BOOLEAN, failed : BOOLEAN]

VARIABLES
  db,           (* the rows stored in the qsos table                                *)
  nextId,       (* sqlite_sequence + 1: ids are never handed out again              *)
  table,        (* QsoTableModel::m_qsos                                            *)
  filter,       (* what LogFilterBar::currentFilter() reads from its widgets        *)
  debounce,     (* LogFilterBar::m_debounce is running                              *)
  modal,        (* the open dialog                                                  *)
  fetched,      (* history: the filter of the last successful reload                *)
  suspect       (* history: an answer was applied to a moved table, or a fetch failed,
                   and no reload has succeeded since                                *)

data    == <<db, nextId, table>>
bar     == <<filter, debounce>>
history == <<fetched, suspect>>
vars    == <<data, bar, modal, history>>

NoModal == [kind |-> "none", rows |-> {}, held |-> {}, moved |-> FALSE, failed |-> FALSE]

(* The same dialog, its table changed under it. *)
Stirred(m) == IF m.kind = "none" THEN m ELSE [m EXCEPT !.moved = TRUE]

Open(kind, rows) ==
  [kind |-> kind, rows |-> rows, held |-> {table[i] : i \in rows},
   moved |-> FALSE, failed |-> FALSE]

May(fault) == fault \in Faults

(* table without its row i: QList::removeAt *)
Without(t, i) == [j \in 1..(Len(t) - 1) |-> IF j < i THEN t[j] ELSE t[j + 1]]

----------------------------------------------------------------------------
(* SqlBackendBase                                                          *)

Matching(rows, f) == {r \in rows : r.key \in f}

(* SELECT ... WHERE f ORDER BY datetime_on DESC *)
FetchQsos(rows, f) ==
  LET found == Matching(rows, f)
      n     == Cardinality(found)
  IN  {t \in [1..n -> found] :
         /\ \A i, j \in 1..n : i < j => t[i].key > t[j].key
         /\ \A r \in found : \E i \in 1..n : t[i] = r}

(* The UNIQUE constraint lets r into rows. *)
Fits(r, rows) == \A s \in rows : s.id # r.id => s.key # r.key

(* UPDATE qsos SET <every column> WHERE id = r.id: no such row is no error. *)
Updated(rows, r) ==
  IF \E s \in rows : s.id = r.id THEN {s \in rows : s.id # r.id} \cup {r} ELSE rows

----------------------------------------------------------------------------
(* The handlers                                                            *)

Init ==
  /\ db = {} /\ nextId = 1 /\ table = <<>>
  /\ filter = Keys /\ debounce = FALSE
  /\ modal = NoModal
  /\ fetched = Keys /\ suspect = FALSE

(* reloadLog over the rows d with the filter f: a failed fetch leaves the table. *)
ReloadLog(d, f) ==
  \/ /\ table' \in FetchQsos(d, f)
     /\ fetched' = f
     /\ suspect' = FALSE
     /\ modal' = Stirred(modal)
  \/ /\ May("fetch")
     /\ suspect' = TRUE
     /\ UNCHANGED <<table, fetched, modal>>

(* onQsoReady: a refused insert (duplicate key, database error) changes nothing. *)
OnQsoReady(key, val) ==
  LET qso == [id |-> nextId, key |-> key, val |-> val]
  IN  /\ nextId <= MaxId
      /\ Fits(qso, db)
      /\ db' = db \cup {qso}
      /\ nextId' = nextId + 1
      /\ table' = <<qso>> \o table
      /\ modal' = Stirred(modal)
      /\ UNCHANGED <<bar, history>>

(* The quick entry panel, or a full entry dialog, which holds no row. *)
LogContact(key, val) == modal.kind = "none" /\ OnQsoReady(key, val)

(* A WSJT-X datagram with auto-log on: handled by whatever event loop runs. *)
AutoLog(key, val) == modal.kind \notin {"deleting", "archived"} /\ OnQsoReady(key, val)

(* onEditQso: a copy of the row is taken, then the dialog runs. *)
OpenEdit(row) ==
  /\ modal.kind = "none"
  /\ modal' = Open("edit", {row})
  /\ UNCHANGED <<data, bar, history>>

(* updateQso(row, updated) of the model: a row out of range is ignored. *)
ShowAt(t, row, qso) == IF row \in DOMAIN t THEN [t EXCEPT ![row] = qso] ELSE t

(* Wrong: writes to the contact the row shows now. *)
WrongSaveEdit(row, qso) ==
  db' = IF row \in DOMAIN table
        THEN Updated(db, [qso EXCEPT !.id = table[row].id]) ELSE db

(* updateQso of the database goes by the id in the copy. *)
SaveEdit(row, qso) == db' = Updated(db, qso)

AcceptEdit(key, val) ==
  \E row \in modal.rows, original \in modal.held :
    LET updated == [original EXCEPT !.key = key, !.val = val]
    IN  /\ modal.kind = "edit"
        /\ Fits(updated, db)
        /\ SaveEdit(row, updated)
        /\ table' = ShowAt(table, row, updated)
        /\ modal' = NoModal
        /\ suspect' = (suspect \/ modal.moved)
        /\ UNCHANGED <<nextId, bar, fetched>>

(* onDeleteSelectedQso, up to the question. *)
OpenDelete(rows) ==
  /\ modal.kind = "none"
  /\ rows # {}
  /\ modal' = Open(IF \E row \in rows : rows = {row} THEN "deleteOne" ELSE "deleteMany", rows)
  /\ UNCHANGED <<data, bar, history>>

(* A dialog cancelled, a question answered No, an edit or delete refused by the database. *)
Dismiss ==
  /\ modal.kind \in {"edit", "deleteOne", "deleteMany", "newLog"}
  /\ modal' = NoModal
  /\ UNCHANGED <<data, bar, history>>

(* DELETE FROM qsos WHERE id *)
Remove(id) == db' = {r \in db : r.id # id}

(***************************************************************************)
(* The one selected row. The handler keeps a reference into the model's    *)
(* list while the question is open: once the list has changed, what it     *)
(* reads there is undefined, and any id may come out.                      *)
(***************************************************************************)
ReadThroughReference ==
  IF modal.moved THEN 0..MaxId ELSE {h.id : h \in modal.held}

ConfirmDeleteOne ==
  /\ modal.kind = "deleteOne"
  /\ \E row \in modal.rows, id \in ReadThroughReference :
       /\ Remove(id)
       /\ table' = IF row \in DOMAIN table THEN Without(table, row) ELSE table
  /\ modal' = NoModal
  /\ suspect' = (suspect \/ modal.moved)
  /\ UNCHANGED <<nextId, bar, fetched>>

(***************************************************************************)
(* Several rows: their numbers are taken from the indexes captured before  *)
(* the question, and worked off from the bottom of the table upwards. The  *)
(* loop opens no event loop: no other action is enabled while it runs.     *)
(***************************************************************************)
ConfirmDeleteMany ==
  /\ modal.kind = "deleteMany"
  /\ modal' = [modal EXCEPT !.kind = "deleting"]
  /\ UNCHANGED <<data, bar, history>>

(* Wrong: from the top downwards. *)
WrongNextRow(row, rows) == row \in rows /\ \A other \in rows : row <= other

(* The next row of the loop, sorted with std::greater. *)
NextRow(row, rows) == row \in rows /\ \A other \in rows : other <= row

(* deleteQso and removeQso for one row. A row beyond the table reads any id. *)
DeleteRow(row) ==
  /\ modal.kind = "deleting"
  /\ NextRow(row, modal.rows)
  /\ \/ /\ row \in DOMAIN table
        /\ Remove(table[row].id)
        /\ table' = Without(table, row)
        /\ modal' = [modal EXCEPT !.rows = @ \ {row}]
        /\ suspect' = suspect
     \/ /\ row \notin DOMAIN table
        /\ \E id \in 0..MaxId : Remove(id)
        /\ table' = table
        /\ modal' = [modal EXCEPT !.rows = @ \ {row}]
        /\ suspect' = TRUE
     \/ /\ May("delete")
        /\ modal' = [modal EXCEPT !.rows = @ \ {row}, !.failed = TRUE]
        /\ UNCHANGED <<db, table, suspect>>
  /\ UNCHANGED <<nextId, bar, fetched>>

FinishDelete ==
  /\ modal.kind = "deleting"
  /\ modal.rows = {}
  /\ modal' = NoModal
  /\ UNCHANGED <<data, bar, history>>

OpenNewLog ==
  /\ modal.kind = "none"
  /\ modal' = Open("newLog", {})
  /\ UNCHANGED <<data, bar, history>>

(***************************************************************************)
(* onNewLog. Archive mode writes every contact to the file first and       *)
(* returns when the write fails; no event loop runs between the write and  *)
(* the clear. A failed fetch is not a failed write: value_or({}) writes an *)
(* empty archive.                                                          *)
(***************************************************************************)
Archive(contacts) ==
  /\ modal.kind = "newLog"
  /\ modal' = [modal EXCEPT !.kind = "archived", !.held = contacts]
  /\ UNCHANGED <<data, bar, history>>

FetchedForArchive == {db} \cup {none \in {{}} : May("fetch")}

WriteArchive == \E contacts \in FetchedForArchive : Archive(contacts)

(* Wrong: leaves out the reload. *)
WrongClearLog ==
  /\ modal.kind \in {"newLog", "archived"}
  /\ db' = {}
  /\ modal' = NoModal
  /\ UNCHANGED <<nextId, table, bar, history>>

(* clearQsos, then reloadLog; the log of the discard mode is not archived. *)
ClearLog ==
  /\ modal.kind \in {"newLog", "archived"}
  /\ \/ /\ db' = {}
        /\ \/ table' = <<>> /\ fetched' = filter /\ suspect' = FALSE
           \/ May("fetch") /\ suspect' = TRUE /\ UNCHANGED <<table, fetched>>
     \/ May("clear") /\ UNCHANGED <<db, table, fetched, suspect>>
  /\ modal' = NoModal
  /\ UNCHANGED <<nextId, bar>>

(* A character typed into the filter's callsign field restarts the timer. *)
TypeFilter(f) ==
  /\ modal.kind = "none"
  /\ filter' = f
  /\ debounce' = TRUE
  /\ UNCHANGED <<data, modal, history>>

(* A combo box or date of the filter bar emits filterChanged at once. *)
PickFilter(f) ==
  /\ modal.kind = "none"
  /\ filter' = f
  /\ ReloadLog(db, f)
  /\ UNCHANGED <<db, nextId, debounce>>

(* Wrong: the widgets' signals are blocked, and nothing is emitted after them. *)
WrongClearFilter ==
  /\ modal.kind = "none"
  /\ filter' = Keys
  /\ debounce' = FALSE
  /\ UNCHANGED <<data, modal, history>>

(* LogFilterBar::reset: stops the timer, blocks the widgets' signals, emits once. *)
ClearFilter ==
  /\ modal.kind = "none"
  /\ filter' = Keys
  /\ debounce' = FALSE
  /\ ReloadLog(db, Keys)
  /\ UNCHANGED <<db, nextId>>

(* The single-shot timer fires, under a dialog too. *)
DebounceFires ==
  /\ debounce
  /\ modal.kind \notin {"deleting", "archived"}
  /\ debounce' = FALSE
  /\ ReloadLog(db, filter)
  /\ UNCHANGED <<db, nextId, filter>>

Next ==
  \/ \E k \in Keys, v \in Vals : LogContact(k, v) \/ AutoLog(k, v) \/ AcceptEdit(k, v)
  \/ \E row \in DOMAIN table : OpenEdit(row)
  \/ \E rows \in SUBSET (DOMAIN table) : OpenDelete(rows)
  \/ Dismiss
  \/ ConfirmDeleteOne
  \/ ConfirmDeleteMany
  \/ \E row \in modal.rows : DeleteRow(row)
  \/ FinishDelete
  \/ OpenNewLog \/ WriteArchive \/ ClearLog
  \/ \E f \in Filters : TypeFilter(f) \/ PickFilter(f)
  \/ ClearFilter
  \/ DebounceFires

Spec == Init /\ [][Next]_vars

----------------------------------------------------------------------------
(* Properties                                                              *)

(* The variables hold what the code's types and the UNIQUE constraint allow. *)
TypeOK ==
  /\ db \subseteq Row
  /\ IsFiniteSet(db)
  /\ nextId \in 1..(MaxId + 1)
  /\ table \in Seq(Row)
  /\ filter \in Filters
  /\ debounce \in BOOLEAN
  /\ modal \in Modal
  /\ fetched \in Filters
  /\ suspect \in BOOLEAN

(* No two stored contacts share an id or a key, and ids are below the sequence:
   an edit or an insert that would break the UNIQUE constraint is refused. *)
LogIsKeyed ==
  \A r \in db : /\ r.id < nextId
                /\ \A s \in db : r.id = s.id \/ r.key = s.key => r = s

(* Unless an answer was applied to a moved table or a fetch failed, and until the next
   reload heals it, the table shows stored contacts only, as stored, each once, and
   every stored contact its filter matched. *)
TableMirrorsLog ==
  ~suspect =>
    /\ \A i \in DOMAIN table : table[i] \in db
    /\ \A i, j \in DOMAIN table : table[i].id = table[j].id => i = j
    /\ \A r \in Matching(db, fetched) : \E i \in DOMAIN table : table[i] = r

(* While a batch delete works off an undisturbed selection, the rows still to do show
   confirmed contacts only, and every confirmed contact that is still stored is one of
   them, unless its delete failed. *)
DeletionOnCourse ==
  modal.kind = "deleting" /\ ~modal.moved /\ ~suspect =>
    /\ \A i \in modal.rows : i \in DOMAIN table /\ table[i] \in modal.held
    /\ ~modal.failed =>
         \A r \in modal.held : r \in db => \E i \in modal.rows : table[i] = r

(* No filter change is lost on the way to the table: once a filter was read without fail,
   one that is not shown yet has its debounce timer running, whichever of typing, combo
   boxes, Clear and reloads by other handlers overtook which (LogFilterBar.cpp:96-110). *)
FilterIsPending == ~suspect /\ filter # fetched => debounce

(* Once New Log's archive is written, and before the log is cleared, it holds every
   contact of the log. A fetch that fails breaks it (MCLogTableArchive.cfg): its empty
   list is written as the archive (MainWindow.cpp:634). *)
ArchiveHoldsLog == modal.kind = "archived" => db \subseteq modal.held

(* A confirmed batch delete deletes no contact that was not selected when it was asked for. *)
BatchDeletesOnlySelected ==
  [][modal.kind = "deleting" =>
       \A r \in db : r \in db' \/ \E h \in modal.held : h.id = r.id]_vars

(* Accepting an edit changes no contact but the one the dialog was opened on, even when
   the table moved under it. *)
EditTouchesOnlyItsContact ==
  [][modal.kind = "edit" /\ modal'.kind = "none" =>
       \A r \in db : (\A h \in modal.held : h.id # r.id) => r \in db']_vars

=============================================================================
