--------------------------- MODULE ContactTravels ---------------------------
(***************************************************************************)
(* The ways of a contact through the program: logged from the entry panel  *)
(* or the full dialog, edited there, exported to an ADIF file, imported    *)
(* from one, copied to another backend, or brought in from Log4OM. Each    *)
(* converts it, and the duplicates of one way are recognised by the key    *)
(* that another has written.                                               *)
(*                                                                         *)
(* Imports and copies take up one contact after the other; their batches,  *)
(* failures and locks are the subject of LogWriters.                       *)
(***************************************************************************)
EXTENDS AdifRecord, EntryDialog, Log4OmRow, FiniteSets

CONSTANTS
  Logs, KindOf,  (* the databases, and the backend of each                     *)
  Quick,         (* contacts as the entry panel builds them                    *)
  Typed,         (* what the user may enter in each entry of the dialog         *)
  DefaultPower,  (* equipmentTxPwr of the settings; 0 is not set               *)
  ForeignFiles,  (* ADIF files of other programs                               *)
  Log4OmLog,     (* the rows of a Log4OM database, by qsodate                  *)
  MaxRows,       (* bound: the contacts of one log                             *)
  MaxOps,        (* bound: operations of the user                              *)
  MaxEntered     (* bound: entries changed in one dialog                       *)

File == [header : BOOLEAN, records : Seq(Record)]

ASSUME TravelsAssumption ==
  /\ KindOf \in [Logs -> {"sqlite", "mariadb"}]
  /\ Quick \subseteq Contact
  /\ \A c \in Quick : Trim[Upper[c.call]] = c.call /\ Lower[c.band] = c.band /\ Upper[c.mode] = c.mode
  /\ ForeignFiles \subseteq File
  /\ Log4OmLog \in Seq(Log4OmRows)
  /\ DefaultPower \in Nat /\ {MaxRows, MaxOps, MaxEntered} \subseteq Nat
  /\ Typed \in [call : SUBSET Text, time : SUBSET Nat, ms : SUBSET (0 .. 999),
                band : SUBSET Bands, mode : SUBSET Modes,
                text : SUBSET Text, report : SUBSET Text, state : SUBSET Text, grid : SUBSET Text,
                sect : SUBSET Text, check : SUBSET Text, rx : SUBSET Nat,
                sfi : SUBSET Nat, power : SUBSET Nat, zone : SUBSET Nat, qsl : SUBSET Statuses]

VARIABLES
  logs,      (* the rows of each database                                      *)
  todo,      (* the contacts an import or a copy has still to insert in a log;
                None for a record that was skipped                             *)
  file,      (* the ADIF file, None before there is one                        *)
  dialog,    (* the full dialog, or None                                       *)
  ops        (* operations so far                                              *)

vars == <<logs, todo, file, dialog, ops>>

Idle(l) == todo[l] = <<>>

Stored(l) == {Extract(row) : row \in logs[l]}

Operation == ops < MaxOps /\ ops' = ops + 1

-----------------------------------------------------------------------------
Init ==
  /\ logs = [l \in Logs |-> {}]
  /\ todo = [l \in Logs |-> <<>>]
  /\ file = None
  /\ dialog = None
  /\ ops = 0

Put(l, c) == logs' = [logs EXCEPT ![l] = Insert(KindOf[l], @, Enrich(c))]

(* onQsoReady, from the entry panel *)
LogQuick(l) ==
  /\ Operation /\ dialog = None
  /\ Cardinality(logs[l]) < MaxRows
  /\ \E c \in Quick : Put(l, c)
  /\ UNCHANGED <<todo, file, dialog>>

ShowDialog(l, c, isNew) ==
  dialog' = [log |-> l, isNew |-> isNew, original |-> c, form |-> LoadQso(c, isNew), entered |-> {}]

(* fullEntryRequested: what the panel holds, completed from the settings. *)
OpenNew(l) ==
  /\ Operation /\ dialog = None
  /\ Cardinality(logs[l]) < MaxRows
  /\ \E c \in Quick :
       ShowDialog(l, [c EXCEPT !.power = IF @ = None THEN NullIfZero(DefaultPower) ELSE @], TRUE)
  /\ UNCHANGED <<logs, todo, file>>

(* onEditQso, refused during an import *)
OpenEdit(l) ==
  /\ Operation /\ dialog = None /\ Idle(l)
  /\ \E row \in logs[l] : ShowDialog(l, Extract(row), FALSE)
  /\ UNCHANGED <<logs, todo, file>>

Enter(entry) ==
  /\ dialog # None
  /\ Cardinality(dialog.entered) < MaxEntered
  /\ \E value \in IF entry = "submode" THEN Items(SubmodesOf[dialog.form.mode]) ELSE Typed[entry] :
       /\ value # dialog.form[entry]
       /\ dialog' = [dialog EXCEPT
                       !.form = EnterIn(@, entry, value),
                       !.entered = @ \cup IF entry = "mode" THEN {"mode", "submode"} ELSE {entry}]
  /\ UNCHANGED <<logs, todo, file, ops>>

(* Save: the row of the original is the one with its key. *)
Accept ==
  /\ dialog # None
  /\ LET l == dialog.log
         c == ReadQso(dialog.form, dialog.original)
     IN  IF dialog.isNew
         THEN Put(l, c)
         ELSE logs' = [logs EXCEPT ![l] = Update(KindOf[l], @, Bind(KindOf[l], dialog.original),
                                                 Enrich(c))]
  /\ dialog' = None
  /\ UNCHANGED <<todo, file, ops>>

Reject ==
  /\ dialog # None /\ dialog' = None
  /\ UNCHANGED <<logs, todo, file, ops>>

(* The contacts of a set in some order. *)
Orders(set) == {s \in [1 .. Cardinality(set) -> set] : \A c \in set : \E i \in DOMAIN s : s[i] = c}

(* onExportAdif *)
Export(l) ==
  /\ Operation /\ dialog = None /\ Idle(l) /\ logs[l] # {}
  /\ \E s \in Orders(Stored(l)) :
       file' = [header |-> TRUE, records |-> [i \in DOMAIN s |-> WriteRecord(s[i])]]
  /\ UNCHANGED <<logs, todo, dialog>>

(* Another program's file. *)
Receive ==
  /\ Operation
  /\ file' \in ForeignFiles
  /\ UNCHANGED <<logs, todo, dialog>>

(* runAdifImport: the file is read as a whole, then inserted contact by contact. *)
Import(l) ==
  /\ Operation /\ dialog = None /\ Idle(l) /\ file # None
  /\ LET read == ParseFile(file)
     IN  todo' = [todo EXCEPT ![l] = [i \in DOMAIN read |->
                                        IF read[i] = None THEN None ELSE Enrich(read[i])]]
  /\ UNCHANGED <<logs, file, dialog>>

(* MigrateDatabaseDialog::onMigrate, into an empty database; the program logs
   nothing meanwhile. Of contacts that get the same key there, one is copied. *)
Migrate(l, m) ==
  /\ Operation /\ dialog = None /\ Idle(l) /\ Idle(m)
  /\ l # m /\ logs[l] # {} /\ logs[m] = {}
  /\ LET rows == {row \in {Bind(KindOf[m], c) : c \in Stored(l)} : ~Refused(KindOf[m], row)}
     IN  \E kept \in SUBSET rows :
           /\ \A row \in rows : \E k \in kept : Key(k) = Key(row)
           /\ KeysUnique(kept)
           /\ logs' = [logs EXCEPT ![m] = kept]
  /\ UNCHANGED <<todo, file, dialog>>

(* log4om-migrate, which writes SQLite files only. *)
MigrateLog4Om(l) ==
  /\ Operation /\ Idle(l) /\ KindOf[l] = "sqlite"
  /\ todo' = [todo EXCEPT ![l] = [i \in DOMAIN Log4OmLog |-> RowToQso(Log4OmLog[i])]]
  /\ UNCHANGED <<logs, file, dialog>>

TakeUp(l) ==
  /\ ~Idle(l)
  /\ LET c == Head(todo[l])
     IN  logs' = IF c = None THEN logs ELSE [logs EXCEPT ![l] = Insert(KindOf[l], @, c)]
  /\ todo' = [todo EXCEPT ![l] = Tail(@)]
  /\ UNCHANGED <<file, dialog, ops>>

Next ==
  \/ \E l \in Logs :
       \/ LogQuick(l) \/ OpenNew(l) \/ OpenEdit(l)
       \/ Export(l) \/ Import(l) \/ MigrateLog4Om(l) \/ TakeUp(l)
       \/ \E m \in Logs : Migrate(l, m)
  \/ \E entry \in Entries : Enter(entry)
  \/ Accept \/ Reject \/ Receive

Spec == Init /\ [][Next]_vars

-----------------------------------------------------------------------------
TypeOK ==
  /\ logs \in [Logs -> SUBSET Row]
  /\ todo \in [Logs -> Seq(Contact \cup {None})]
  /\ file \in File \cup {None}
  /\ dialog # None => dialog.original \in Contact /\ dialog.log \in Logs
  /\ ops \in 0 .. MaxOps

(* Saving an edited contact changes what the user has changed and nothing else,
   whatever of it the dialog does not show, or shows in a list it had to pick
   from; a position may be added. An entry whose widget cannot show what is
   stored does change, and is exempt, it alone: a text is cut or trimmed, a number
   clipped or rounded, a mode or a submode becomes the first of the list. *)
EditKeepsTheRest ==
  [][Accept /\ ~dialog.isNew =>
       \A l \in Logs : \A row \in logs'[l] \ logs[l] :
         \A f \in DOMAIN dialog.original \ (dialog.entered \cup {"pos"}) :
           Fits(dialog.original, f) => Extract(row)[f] = dialog.original[f]]_vars

(* The callsigns with blanks around them of the Log4OM database, which
   log4om-migrate takes over with the blanks; no other way into a log does. *)
PaddedCalls ==
  {t \in {Upper[BlankIfNull(Log4OmLog[i].call)] : i \in DOMAIN Log4OmLog} : Trim[t] # t}

(* What ADIF files, as this program writes them, have no room for. *)
Lossless(c) ==
  /\ c.ms = 0 /\ c.call # Blank /\ c.call \notin PaddedCalls
  /\ c.sect = c.check
  /\ \A f \in {"submode", "state", "grid", "sect"} : Upper[c[f]] = c[f]
  /\ c.rx # 0 /\ c.sfi # 0
  /\ \A f \in {"rx", "sfi", "power", "pos"} : c[f] # None => Rounded(c[f]) = c[f]
  /\ Enrich(c) = c

(* A contact goes through a file unchanged, by whatever way it came into the
   log, but for what a file has no room for. *)
FileKeepsContact ==
  \A l \in Logs : \A c \in Stored(l) : Lossless(c) => Trip(c) = c

(* An export read back into the log it was made of is recognised as what is
   there already: every way into the log writes the UNIQUE key as the parser
   does. Contacts with a fraction of a second, without a callsign, or with the
   padded one of a Log4OM database are not recognised. *)
ReimportAddsNothing ==
  \A l \in Logs : \A c \in Stored(l) :
    c.ms = 0 /\ c.call \notin PaddedCalls \cup {Blank} => Insert(KindOf[l], logs[l], Trip(c)) = logs[l]

(* What a file has no room for is lost at the first trip; from then on a
   contact can go from log to log and stays as it is. *)
TripsSettle ==
  \A l \in Logs : \A c \in Stored(l) : c.call # Blank => Trip(Trip(c)) = Trip(c)

(* What the comment in parseString says, "If no <EOH> was found we still process
   (headerless files)": every complete record of a file is taken up. *)
HeaderlessIsRead ==
  [][\A l \in Logs : Import(l) =>
       \A i \in DOMAIN file.records :
         Complete(file.records[i]) => todo'[l][i] # None]_vars

=============================================================================
