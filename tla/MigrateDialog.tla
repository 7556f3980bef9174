--------------------------- MODULE MigrateDialog ---------------------------
(***************************************************************************)
(* The dialog that copies the log to another database: a dry run in a      *)
(* transaction that is rolled back, the copy, contact by contact and       *)
(* without a transaction, and the switch of the window to the copy.        *)
(*                                                                         *)
(* The copy handles events now and then, but no user input, so its Cancel  *)
(* button cannot be pressed while it runs, and is hidden afterwards.       *)
(***************************************************************************)
EXTENDS LogStore

VARIABLES
  page,      (* of the dialog; "copying" is the result page while it fills,
                "error" the box that tells the target could not be opened       *)
  dest,      (* m_targetKey and m_targetConfig, of the last dry run             *)
  offered,   (* m_migrateBtn is enabled                                         *)
  left,      (* the contacts still to copy                                      *)
  failed,    (* the contacts the target refused                                 *)
  done,      (* m_migrationDone                                                 *)
  switch,    (* m_switchCheckBox                                                *)
  mixed      (* history: what dest held when its contacts could not be counted  *)

migration == <<page, dest, offered, left, failed, done, switch, mixed>>

NoMigration ==
  /\ page = "none"
  /\ dest = NoDatabase /\ offered = FALSE
  /\ left = {} /\ failed = {}
  /\ done = FALSE /\ switch = FALSE /\ mixed = {}

(* Wrong: relies on the dialogs to keep other actions away. *)
WrongMayMigrate == active # NoDatabase

(* The guards of the handler, and its action enabled. *)
MayMigrate == "migrate" \in enabled /\ active # NoDatabase /\ ~importLock

OnMigrateDatabase ==
  /\ MayMigrate /\ page = "none"
  /\ SetMigrationLock(TRUE, configured)
  /\ page' = "configure"
  /\ UNCHANGED <<rows, hold, importLock, dest, offered, left, failed, done, switch, mixed>>

(* Wrong: leaves it to the UNIQUE constraint. *)
WrongMayFill(database, known) == TRUE

(* A target that holds contacts is refused; one that cannot count them, and
   answers -1, is not. *)
MayFill(database, known) == known => rows[database] = {}

(* A dry run that cannot open the target, begin or read the log leaves the page
   as it is. Errors, or nothing to transfer, leave Migrate disabled. *)
OnDryRun(database) ==
  /\ page = "configure"
  /\ \E known \in {TRUE, ~May("count")} :
       /\ MayFill(database, known)
       /\ mixed' = IF known THEN {} ELSE rows[database]
  /\ page' = "dryRun"
  /\ dest' = database
  /\ offered' \in {rows[active] \ rows[database] # {},
                   rows[active] \ rows[database] # {} /\ ~May("insert")}
  /\ UNCHANGED <<store, left, failed, done, switch>>

OnBack ==
  /\ page = "dryRun"
  /\ page' = "configure"
  /\ UNCHANGED <<store, dest, offered, left, failed, done, switch, mixed>>

OnMigrate ==
  /\ page = "dryRun" /\ offered
  /\ page' = "copying" /\ left' = rows[active]
  /\ UNCHANGED <<store, dest, offered, failed, done, switch, mixed>>

(* The target cannot be opened any more, or the log not be read. *)
OnMigrateFails ==
  /\ page = "dryRun" /\ offered
  /\ May("open") \/ May("fetch")
  /\ page' = "result"
  /\ UNCHANGED <<store, dest, offered, left, failed, done, switch, mixed>>

(* A duplicate is there already, like a contact that was inserted. *)
CopyNext(contact) ==
  /\ page = "copying" /\ contact \in left
  /\ left' = left \ {contact}
  /\ \/ rows' = [rows EXCEPT ![dest] = @ \cup {contact}] /\ UNCHANGED failed
     \/ May("insert") /\ failed' = failed \cup {contact} /\ UNCHANGED rows
  /\ UNCHANGED <<hold, locks, listening, page, dest, offered, done, switch, mixed>>

CopyEnds ==
  /\ page = "copying" /\ left = {}
  /\ page' = "result"
  /\ done' = TRUE
  /\ switch' = (failed = {})
  /\ UNCHANGED <<store, dest, offered, left, failed, mixed>>

ToggleSwitch ==
  /\ page = "result" /\ done
  /\ switch' = ~switch
  /\ UNCHANGED <<store, page, dest, offered, left, failed, done, mixed>>

ShouldSwitchBackend == done /\ switch

(* The dialog object is gone and the window unlocked. *)
Unlock(database) ==
  /\ SetMigrationLock(FALSE, database)
  /\ page' = "none"
  /\ dest' = NoDatabase /\ offered' = FALSE
  /\ left' = {} /\ failed' = {}
  /\ done' = FALSE /\ switch' = FALSE /\ mixed' = {}

(***************************************************************************)
(* The settings name the target from now on. Each setter emits             *)
(* Settings::changed, whose slot starts a listener that does not run, lock *)
(* or no lock. The window opens the target; a message box tells that it    *)
(* could not, and its event loop runs with the lock on, the listener too   *)
(* and no database.                                                        *)
(***************************************************************************)
SwitchBackend ==
  /\ configured' = dest
  /\ OpenDefaultDatabase(dest)
  /\ \/ active' = dest /\ Unlock(dest)
     \/ /\ active' = NoDatabase
        /\ StartListener
        /\ page' = "error"
        /\ UNCHANGED <<enabled, migrationLock, dest, offered, left, failed, done, switch, mixed>>

(* Finish, or the dialog is closed: the same to onMigrateDatabase. *)
CloseMigrate ==
  /\ page \in {"configure", "dryRun", "result"}
  /\ IF ShouldSwitchBackend THEN SwitchBackend ELSE UNCHANGED hold /\ Unlock(configured)
  /\ UNCHANGED <<rows, importLock>>

(* The message box is closed. *)
DismissError ==
  /\ page = "error"
  /\ Unlock(configured)
  /\ UNCHANGED <<rows, hold, importLock>>

=============================================================================
