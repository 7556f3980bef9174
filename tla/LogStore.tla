------------------------------ MODULE LogStore ------------------------------
(***************************************************************************)
(* The databases that can hold the log, the one the main window has open,  *)
(* and the two locks under which an ADIF import or a migration writes to   *)
(* one of them while the window stays open.                                *)
(*                                                                         *)
(* A contact is its UNIQUE key; a database is the set of the contacts that *)
(* are committed to it.                                                    *)
(***************************************************************************)
EXTENDS Naturals

CONSTANTS
  Databases,     (* what the settings can name: SQLite files, MariaDB servers *)
  SqliteFiles,
  NoDatabase,    (* m_db is null                                              *)
  Contacts,
  Faults         (* the calls that may fail                                   *)

ASSUME LogStoreAssumption ==
  /\ SqliteFiles \subseteq Databases
  /\ NoDatabase \notin Databases

VARIABLES
  rows,            (* the contacts committed to each database                  *)
  active,          (* what m_db is connected to                                *)
  configured,      (* what the settings name                                   *)
  enabled,         (* the actions and widgets the operator can use             *)
  importLock,      (* m_importLock                                             *)
  migrationLock,   (* m_migrationLock                                          *)
  listening        (* the WSJT-X listener has its socket bound                 *)

hold  == <<active, configured>>
locks == <<enabled, importLock, migrationLock>>
store == <<rows, hold, locks, listening>>

(* The entry panel, the log's view and filter, and the window's actions; both
   QSL actions go together. *)
Actions == {"entry", "logView", "newQso", "newLog", "import", "export", "qsl",
            "migrate", "settings"}

May(fault) == fault \in Faults

(* New Log is for SQLite only, by what the settings name. *)
Withheld(database) == IF database \in SqliteFiles THEN {} ELSE {"newLog"}

(* Wrong: a listener that was stopped stays so. *)
WrongStartListener == UNCHANGED listening

(* isEnabled() holds; binding the port may fail. *)
StartListener == listening' \in {TRUE, ~May("bind")}

(* Wrong: locks the actions as an import does, whose contacts keep coming. *)
WrongSetMigrationLock(locked, database) ==
  /\ enabled' = IF locked THEN {} ELSE Actions \ Withheld(database)
  /\ UNCHANGED <<migrationLock, listening>>

SetMigrationLock(locked, database) ==
  /\ migrationLock' = locked
  /\ enabled' = IF locked THEN {} ELSE Actions \ Withheld(database)
  /\ IF locked THEN listening' = FALSE ELSE StartListener

LockedByImport == Actions \ {"newQso", "import"}

(* Wrong: leaves New Log to its own question. *)
WrongSetImportLock(locked) ==
  /\ importLock' = locked
  /\ enabled' = IF locked THEN enabled \ (LockedByImport \ {"newLog"})
                ELSE (enabled \cup LockedByImport) \ Withheld(configured)

(* New QSO and Import stay enabled: the worker has a connection of its own. *)
SetImportLock(locked) ==
  /\ importLock' = locked
  /\ enabled' = IF locked THEN enabled \ LockedByImport
                ELSE (enabled \cup LockedByImport) \ Withheld(configured)

(* Opening or setting up the schema may fail: then there is no database. *)
OpenDefaultDatabase(database) ==
  active' \in {database} \cup IF May("open") THEN {NoDatabase} ELSE {}

InitStore ==
  /\ rows \in [Databases -> SUBSET Contacts]
  /\ configured \in Databases
  /\ active \in {configured} \cup IF May("open") THEN {NoDatabase} ELSE {}
  /\ enabled = Actions \ Withheld(configured)
  /\ importLock = FALSE /\ migrationLock = FALSE
  /\ listening \in {TRUE, ~May("bind")}

=============================================================================
