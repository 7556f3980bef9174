----------------------------- MODULE LogWriters -----------------------------
(***************************************************************************)
(* All that writes to a log, together: the operator, the contacts WSJT-X   *)
(* announces, the ADIF import and the migration, kept apart by the two     *)
(* locks and the actions that are enabled.                                 *)
(*                                                                         *)
(* What a handler asks in a dialog of its own is part of its step: the     *)
(* dialogs are modal, and nothing else that runs under them changes what   *)
(* its guards have read. The migration dialog's pages are steps.           *)
(***************************************************************************)
EXTENDS ImportJob, MigrateDialog

CONSTANT LiveContacts    (* the contacts made with WSJT-X *)

ASSUME LogWritersAssumption == LiveContacts \subseteq Contacts

VARIABLE air             (* WSJT-X's datagrams under way *)

vars == <<store, job, migration, air>>

(* WSJT-X announces a contact twice: in a datagram of its own format (type 5)
   and as an ADIF record (type 12). *)
Datagrams == [kind : {"qsoLogged", "loggedAdif"}, contact : LiveContacts]

Announce(contact) == {[kind |-> k, contact |-> contact] : k \in {"qsoLogged", "loggedAdif"}}

(* No migration dialog blocks the window. *)
InputFree == page = "none"

----------------------------------------------------------------------------
(* onQsoReady: without a database, or during a migration, the contact is
   dropped, and it is refused if it is there. The worker's transaction is
   waited for until it ends, or the busy timeout. *)
OnQsoReady(contact) ==
  \/ /\ active = NoDatabase \/ migrationLock
     /\ UNCHANGED rows
  \/ /\ active # NoDatabase /\ ~migrationLock
     /\ ~Waits(contact)
     /\ rows' = [rows EXCEPT ![active] = @ \cup {contact}]
  \/ /\ active # NoDatabase /\ ~migrationLock
     /\ May("insert") \/ (Waits(contact) /\ May("busy"))
     /\ UNCHANGED rows

LogContact(contact) ==
  /\ InputFree /\ enabled \cap {"entry", "newQso"} # {}
  /\ OnQsoReady(contact)
  /\ UNCHANGED <<hold, locks, listening, job, migration, air>>

(* onNewLog, whose archive is the matter of LogTable *)
NewLog ==
  /\ InputFree /\ "newLog" \in enabled /\ active # NoDatabase
  /\ uncommitted = {}
  /\ rows' = [rows EXCEPT ![active] = {}]
  /\ UNCHANGED <<hold, locks, listening, job, migration, air>>

(* Database settings take effect when the program is started again. *)
ChangeSettings(database) ==
  /\ InputFree /\ "settings" \in enabled
  /\ configured' = database
  /\ UNCHANGED <<rows, active, locks, listening, job, migration, air>>

(* closeEvent refuses while there is a watcher. *)
Restart ==
  /\ InputFree /\ phase = "none"
  /\ OpenDefaultDatabase(configured)
  /\ enabled' = Actions \ Withheld(configured)
  /\ importLock' = FALSE /\ migrationLock' = FALSE
  /\ StartListener
  /\ UNCHANGED <<rows, configured, job, migration, air>>

Import(contacts) == InputFree /\ StartImport(contacts) /\ UNCHANGED <<migration, air>>

Cancel == CancelImport /\ UNCHANGED <<migration, air>>

Worker == WorkerRuns /\ UNCHANGED <<migration, air>>

Finished == ImportFinished /\ UNCHANGED <<migration, air>>

Dialog ==
  /\ \/ OnMigrateDatabase \/ OnBack \/ OnMigrate \/ OnMigrateFails
     \/ CopyEnds \/ ToggleSwitch \/ CloseMigrate \/ DismissError
     \/ \E database \in Databases : OnDryRun(database)
     \/ \E contact \in Contacts : CopyNext(contact)
  /\ UNCHANGED <<job, air>>

WsjtxLogs(contact) ==
  /\ air' = air \cup Announce(contact)
  /\ UNCHANGED <<store, job, migration>>

Lose(datagram) ==
  /\ datagram \in air
  /\ air' = air \ {datagram}
  /\ UNCHANGED <<store, job, migration>>

(* A contact of type 5 has no band, and the table's NOT NULL refuses it. A
   datagram may come again. *)
OnDatagramReady(datagram) ==
  /\ datagram \in air /\ listening
  /\ air' \in {air, air \ {datagram}}
  /\ IF datagram.kind = "loggedAdif" THEN OnQsoReady(datagram.contact) ELSE UNCHANGED rows
  /\ UNCHANGED <<hold, locks, listening, job, migration>>

----------------------------------------------------------------------------
Init == InitStore /\ NoJob /\ NoMigration /\ air = {}

Next ==
  \/ \E contact \in Contacts : LogContact(contact)
  \/ NewLog \/ Restart
  \/ \E database \in Databases : ChangeSettings(database)
  \/ \E contacts \in Files : Import(contacts)
  \/ Cancel \/ Worker \/ Finished
  \/ Dialog
  \/ \E contact \in LiveContacts : WsjtxLogs(contact)
  \/ \E datagram \in Datagrams : Lose(datagram) \/ OnDatagramReady(datagram)

(* The worker's thread runs, and the window's event loop hears that it ended. *)
Fairness == WF_vars(Worker) /\ WF_vars(Finished)

Spec == Init /\ [][Next]_vars /\ Fairness

----------------------------------------------------------------------------
(* Properties                                                              *)

(* Every variable has its type; a batch is never overfull. *)
TypeOK ==
  /\ rows \in [Databases -> SUBSET Contacts]
  /\ active \in Databases \cup {NoDatabase} /\ configured \in Databases
  /\ enabled \subseteq Actions
  /\ importLock \in BOOLEAN /\ migrationLock \in BOOLEAN /\ listening \in BOOLEAN
  /\ phase \in {"none", "opening", "inserting", "done"}
  /\ target \in Databases \cup {NoDatabase}
  /\ todo \in Seq(Contacts)
  /\ uncommitted \subseteq Contacts
  /\ sinceCommit \in 0..BatchSize
  /\ inTransaction \in BOOLEAN /\ canceled \in BOOLEAN /\ errors \in BOOLEAN
  /\ counted \subseteq Contacts /\ lost \subseteq Contacts /\ file \subseteq Contacts
  /\ page \in {"none", "configure", "dryRun", "copying", "result", "error"}
  /\ dest \in Databases \cup {NoDatabase}
  /\ offered \in BOOLEAN /\ done \in BOOLEAN /\ switch \in BOOLEAN
  /\ left \subseteq Contacts /\ failed \subseteq Contacts /\ mixed \subseteq Contacts
  /\ air \subseteq Datagrams

(* An import and a migration never overlap, and a lock is held exactly while
   its work is under way ("the two operations exclude each other"). During a
   migration nothing is enabled, and no contact is listened for until the window
   switches to the copy; then the listener may run already, but there is no
   database for what it hears. During an import nothing is enabled that reads the
   log while it grows, clears it or replaces it. *)
WritersExclude ==
  /\ importLock <=> phase # "none"
  /\ migrationLock <=> page # "none"
  /\ ~(importLock /\ migrationLock)
  /\ migrationLock => enabled = {} /\ (listening => active = NoDatabase)
  /\ importLock => enabled = {"newQso", "import"}

(* However an import or a migration ends - finished, canceled, failed, switched
   or closed half-way - every action is there again, and the listener runs
   (setImportLock(false) and setMigrationLock(false) at the end of each handler). *)
ActionsComeBack ==
  ~importLock /\ ~migrationLock =>
    /\ Actions \ {"newLog"} \subseteq enabled
    /\ listening \/ May("bind")

(* What an import counts as imported or duplicate is in the log the window has
   open when it ends, "not whatever Settings currently says", canceled or not
   ("Records inserted before cancellation were kept"), but for contacts whose
   commit failed, which the worker counts all the same. One that was not canceled
   and reports no error has counted the whole file, whatever else was logged
   meanwhile. *)
ImportIsReported ==
  phase = "done" =>
    /\ active # NoDatabase /\ counted \subseteq rows[active] \cup lost
    /\ ~canceled /\ ~errors => file \subseteq counted

(* "Migration requires a clean target": the copy is never mixed with contacts
   that are not in the log it is a copy of, but for those of a target that could
   not count them, which is taken for an empty one. *)
CopyIsOfLog ==
  page \in {"copying", "result"} => rows[dest] \subseteq rows[active] \cup mixed

(* Switching to the copy loses no contact but those the result page counted as
   errors: nothing was logged while the copy was made. *)
SwitchKeepsLog ==
  [][page # "none" /\ active' # active /\ active' # NoDatabase
       => rows[active] \ failed \subseteq rows'[active']]_vars

(* An import ends and gives its lock back. *)
ImportEnds == importLock ~> ~importLock

=============================================================================
