----------------------------- MODULE ImportJob -----------------------------
(***************************************************************************)
(* An ADIF import: a worker thread that inserts the contacts of a file     *)
(* through a connection of its own, in transactions of BatchSize, and the  *)
(* watcher through which the window follows, cancels and ends it. Whether  *)
(* a transaction could begin or was committed is not looked at.            *)
(***************************************************************************)
EXTENDS LogStore, Sequences

CONSTANTS
  Files,       (* what the files hold that may be imported          *)
  BatchSize    (* kImportBatchSize                                  *)

ASSUME ImportJobAssumption ==
  /\ Files \subseteq Seq(Contacts)
  /\ BatchSize \in Nat \ {0}

VARIABLES
  phase,           (* where the worker is; "none" is no m_adifImportWatcher      *)
  target,          (* the database it writes to                                  *)
  todo,            (* the parsed contacts it has not come to                     *)
  uncommitted,     (* inserted in its open transaction                           *)
  inTransaction,
  sinceCommit,
  canceled,        (* the future's Canceled state                                *)
  counted,         (* result.imported and result.duplicates: which contacts      *)
  errors,          (* result.errors is not 0                                     *)
  lost,            (* history: the contacts of batches whose commit failed       *)
  file             (* history: all contacts of the file                          *)

progress == <<todo, uncommitted, inTransaction, sinceCommit, counted, errors, lost>>
job      == <<phase, target, progress, canceled, file>>

(* A write to the log by the window waits for the worker's transaction: on
   SQLite any write does, on MariaDB that of the same key. *)
Waits(contact) ==
  /\ uncommitted # {} /\ target = active
  /\ active \in SqliteFiles \/ contact \in uncommitted

NoJob ==
  /\ phase = "none"
  /\ target = NoDatabase
  /\ todo = <<>> /\ uncommitted = {} /\ inTransaction = FALSE /\ sinceCommit = 0
  /\ canceled = FALSE
  /\ counted = {} /\ errors = FALSE /\ lost = {} /\ file = {}

(* The worker's stack and the watcher are gone. *)
DropJob ==
  /\ phase' = "none"
  /\ target' = NoDatabase
  /\ todo' = <<>> /\ uncommitted' = {} /\ inTransaction' = FALSE /\ sinceCommit' = 0
  /\ canceled' = FALSE
  /\ counted' = {} /\ errors' = FALSE /\ lost' = {} /\ file' = {}

(* m_activeDbConfig: what m_db is connected to, whatever the settings say now *)
ImportTarget == active

(* The guards of the handler, and its action enabled. *)
MayImport ==
  "import" \in enabled /\ active # NoDatabase /\ ~migrationLock /\ ~importLock /\ phase = "none"

(* The operator has chosen a file that holds these contacts. *)
StartImport(contacts) ==
  /\ MayImport
  /\ SetImportLock(TRUE)
  /\ phase' = "opening"
  /\ target' = ImportTarget
  /\ todo' = contacts
  /\ file' = {contacts[i] : i \in DOMAIN contacts}
  /\ UNCHANGED <<rows, hold, migrationLock, listening, uncommitted, inTransaction,
                 sinceCommit, canceled, counted, errors, lost>>

----------------------------------------------------------------------------
(* runAdifImport, on the worker's thread                                   *)

(* A future that is canceled before a thread takes it up never runs. *)
WorkerOpens ==
  /\ phase = "opening"
  /\ \/ canceled /\ phase' = "done" /\ UNCHANGED <<errors, inTransaction>>
     \/ May("open") /\ phase' = "done" /\ errors' = TRUE /\ UNCHANGED inTransaction
     \/ phase' = "inserting" /\ inTransaction' \in {TRUE, ~May("begin")} /\ UNCHANGED errors
  /\ UNCHANGED <<store, target, todo, uncommitted, sinceCommit, counted, lost, canceled, file>>

(* Without a transaction every insert is committed on its own. *)
Insert(contact) ==
  IF inTransaction
  THEN uncommitted' = uncommitted \cup {contact} /\ UNCHANGED rows
  ELSE rows' = [rows EXCEPT ![target] = @ \cup {contact}] /\ UNCHANGED uncommitted

BatchIsFull == sinceCommit >= BatchSize

(* A duplicate is already there, and counted as one. *)
WorkerInserts ==
  /\ phase = "inserting" /\ todo # <<>> /\ ~canceled /\ ~BatchIsFull
  /\ todo' = Tail(todo)
  /\ sinceCommit' = sinceCommit + 1
  /\ \/ Insert(Head(todo)) /\ counted' = counted \cup {Head(todo)} /\ UNCHANGED errors
     \/ May("insert") /\ errors' = TRUE /\ UNCHANGED <<rows, uncommitted, counted>>
  /\ UNCHANGED <<hold, locks, listening, phase, target, inTransaction, lost, canceled, file>>

Committed == [rows EXCEPT ![target] = @ \cup uncommitted]

(* What a commit may leave as rows, uncommitted and lost. One that fails leaves
   the transaction open or rolls it back; the worker looks at neither. *)
Commits ==
  {[rows |-> Committed, open |-> {}, lost |-> lost]}
    \cup IF May("commit")
         THEN {[rows |-> rows, open |-> uncommitted, lost |-> lost],
               [rows |-> rows, open |-> {}, lost |-> lost \cup uncommitted]}
         ELSE {}

(* The batch is full: commit, and begin the next one. *)
WorkerCommits ==
  /\ phase = "inserting" /\ BatchIsFull
  /\ \E after \in Commits : /\ rows' = after.rows
                           /\ uncommitted' = after.open
                           /\ lost' = after.lost
  /\ inTransaction' \in {TRUE, ~May("begin") \/ uncommitted' # {}}
  /\ sinceCommit' = 0
  /\ UNCHANGED <<hold, locks, listening, phase, target, todo, counted, errors, canceled, file>>

(* The file is at its end, or the import canceled: what was inserted is kept.
   Closing the connection rolls back what is not committed. *)
WorkerEnds ==
  /\ phase = "inserting" /\ ~BatchIsFull
  /\ todo = <<>> \/ canceled
  /\ \E after \in Commits : rows' = after.rows /\ lost' = after.lost \cup after.open
  /\ uncommitted' = {}
  /\ phase' = "done"
  /\ UNCHANGED <<hold, locks, listening, target, todo, inTransaction, sinceCommit, counted,
                 errors, canceled, file>>

----------------------------------------------------------------------------
(* The watcher and the progress dialog, on the GUI thread                  *)

CancelImport ==
  /\ phase # "none" /\ ~canceled
  /\ canceled' = TRUE
  /\ UNCHANGED <<store, phase, target, progress, file>>

(* Wrong: has nothing to clear up when the import was canceled. *)
WrongImportFinished ==
  /\ phase = "done" /\ ~canceled
  /\ SetImportLock(FALSE)
  /\ DropJob
  /\ UNCHANGED <<rows, hold, migrationLock, listening>>

(* The summary of a canceled import is discarded, that of another one shown. *)
ImportFinished ==
  /\ phase = "done"
  /\ SetImportLock(FALSE)
  /\ DropJob
  /\ UNCHANGED <<rows, hold, migrationLock, listening>>

WorkerRuns == WorkerOpens \/ WorkerInserts \/ WorkerCommits \/ WorkerEnds

=============================================================================
