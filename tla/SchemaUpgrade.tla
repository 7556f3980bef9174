---------------------------- MODULE SchemaUpgrade ----------------------------
(***************************************************************************)
(* initSchema() of both database backends: what a program does to a        *)
(* database that an earlier version left behind, statement by statement.   *)
(* No transaction spans the statements: a program may die, or be refused,  *)
(* between any two of them, and several programs may open the same         *)
(* database at once (one MariaDB server, one SQLite file).                 *)
(*                                                                         *)
(* A contact is its callsign, time and band; with the mode it is the       *)
(* table's UNIQUE key. Version 2 rewrites obsolete modes by a table of     *)
(* statements, kModeMap, which both backends share.                        *)
(***************************************************************************)
EXTENDS Naturals, Sequences

CONSTANTS
  Programs,
  Ids,           (* the table's primary keys                                  *)
  Qsos, Modes, Submodes,
  NoSubmode,     (* a NULL submode; in the map, nullptr: the submode stays     *)
  NoRow,
  Map,           (* kModeMap: what to rewrite, in order                        *)
  Stored,        (* the tables an earlier program may have left               *)
  Loggable,      (* the rows that programs add                                *)
  Kinds          (* of the backends: "sqlite", "mariadb"                       *)

Row == [contact : Qsos, mode : Modes, submode : Submodes]

Steps == 1 .. Len(Map)

ASSUME UpgradeAssumption ==
  /\ NoSubmode \in Submodes
  /\ NoRow \notin Row
  /\ Map \in Seq([old : Modes, new : Modes, sub : Submodes])
  /\ \A i, j \in Steps : Map[i].old # Map[j].new /\ (i # j => Map[i].old # Map[j].old)
  /\ Stored \subseteq [Ids -> Row \cup {NoRow}]
  /\ Loggable \subseteq Row
  /\ Kinds \subseteq {"sqlite", "mariadb"}

VARIABLES
  kind,          (* which backend serves the database                          *)
  hasTable,      (* the table qsos exists                                      *)
  versions,      (* the numbers in schema_version                              *)
  qsoTable,      (* the table qsos                                             *)
  pc,            (* where each program is in initSchema                        *)
  at,            (* the statement of the map it sends next                     *)
  unrun          (* statements of the map that the database refused to run     *)

table       == <<kind, hasTable, versions, qsoTable, unrun>>
upgradeVars == <<kind, hasTable, versions, qsoTable, pc, at, unrun>>

Taken(r) == {id \in Ids : r[id] # NoRow}

(* The UNIQUE constraint. *)
KeysUnique(r) ==
  \A a, b \in Taken(r) :
    r[a].contact = r[b].contact /\ r[a].mode = r[b].mode => a = b

Holds(v) == v \in versions

(* Wrong: a row that has a submode already is rewritten as well. *)
WrongPending(r, step) == {id \in Taken(r) : r[id].mode = step.old}

(* The rows a statement of the map is about. *)
Pending(r, step) ==
  {id \in Taken(r) : /\ r[id].mode = step.old
                     /\ step.sub # NoSubmode => r[id].submode = NoSubmode}

Rewritten(row, step) ==
  [row EXCEPT !.mode = step.new,
              !.submode = IF step.sub = NoSubmode THEN @ ELSE step.sub]

Rewrite(r, step) ==
  [id \in Ids |-> IF id \in Pending(r, step) THEN Rewritten(r[id], step) ELSE r[id]]

-----------------------------------------------------------------------------
UpgradeInit ==
  /\ kind \in Kinds
  /\ hasTable \in BOOLEAN
  /\ versions \in {{}, {1}, {1, 2}}
  /\ qsoTable \in Stored
  /\ KeysUnique(qsoTable)
  /\ ~hasTable => versions = {} /\ Taken(qsoTable) = {}
  /\ pc = [p \in Programs |-> "closed"]
  /\ at = [p \in Programs |-> 1]
  /\ unrun = {}

Goto(p, place) == pc' = [pc EXCEPT ![p] = place]

(* The connection is made and schema_version created where it is missing. *)
Open(p) ==
  /\ pc[p] = "closed"
  /\ Goto(p, "version")
  /\ UNCHANGED <<table, at>>

(* Wrong: MariaDB trusts the table to be there with schema_version. *)
WrongAfterRead(read) ==
  CASE read = 2                      -> "open"
    [] read < 2 /\ kind = "mariadb"  -> "modes"
    [] OTHER                         -> "table"

(* MAX(version); a query that fails counts as no version at all. SQLite sets
   up version 1 again below 2, MariaDB only below 1. *)
AfterRead(read) ==
  CASE read = 2                      -> "open"
    [] read = 1 /\ kind = "mariadb"  -> "modes"
    [] OTHER                         -> "table"

Highest == IF Holds(2) THEN 2 ELSE IF Holds(1) THEN 1 ELSE 0

ReadVersion(p) ==
  /\ pc[p] = "version"
  /\ \E read \in {Highest, 0} : Goto(p, AfterRead(read))
  /\ at' = [at EXCEPT ![p] = 1]
  /\ UNCHANGED table

(* CREATE TABLE IF NOT EXISTS, and the indexes. *)
CreateTable(p) ==
  /\ pc[p] = "table"
  /\ hasTable' = TRUE
  /\ Goto(p, "one")
  /\ UNCHANGED <<kind, versions, qsoTable, at, unrun>>

RecordOne(p) ==
  /\ pc[p] = "one"
  /\ versions' = versions \cup {1}
  /\ Goto(p, "modes")
  /\ UNCHANGED <<kind, hasTable, qsoTable, at, unrun>>

(* One UPDATE of the map: it is undone as a whole when it would break the
   UNIQUE key, or when the database does not run it; its result is ignored. *)
Normalise(p) ==
  /\ pc[p] = "modes" /\ at[p] \in Steps
  /\ LET after == Rewrite(qsoTable, Map[at[p]])
     IN  \/ /\ qsoTable' = IF KeysUnique(after) THEN after ELSE qsoTable
            /\ UNCHANGED unrun
         \/ /\ unrun' = unrun \cup {at[p]}
            /\ UNCHANGED qsoTable
  /\ at' = [at EXCEPT ![p] = @ + 1]
  /\ UNCHANGED <<kind, hasTable, versions, pc>>

(* Wrong: the version is recorded before the last statement is sent. *)
WrongMapSent(p) == at[p] >= Len(Map)

MapSent(p) == at[p] > Len(Map)

RecordTwo(p) ==
  /\ pc[p] = "modes" /\ MapSent(p)
  /\ versions' = versions \cup {2}
  /\ Goto(p, "open")
  /\ UNCHANGED <<kind, hasTable, qsoTable, at, unrun>>

(* A checked statement fails and the program goes without a database, or it
   dies, or it is closed. *)
Stop(p) ==
  /\ pc[p] # "closed"
  /\ Goto(p, "closed")
  /\ UNCHANGED <<table, at>>

(* A program that has the database open stores a contact, under any mode: the
   entry panel and ADIF files still offer the obsolete ones. *)
Log(p) ==
  /\ pc[p] = "open"
  /\ \E id \in Ids \ Taken(qsoTable), row \in Loggable :
       LET after == [qsoTable EXCEPT ![id] = row]
       IN  KeysUnique(after) /\ qsoTable' = after
  /\ UNCHANGED <<kind, hasTable, versions, pc, at, unrun>>

UpgradeNext ==
  \E p \in Programs :
    \/ Open(p) \/ ReadVersion(p) \/ CreateTable(p) \/ RecordOne(p)
    \/ Normalise(p) \/ RecordTwo(p) \/ Stop(p) \/ Log(p)

UpgradeSpec == UpgradeInit /\ [][UpgradeNext]_upgradeVars

-----------------------------------------------------------------------------
UpgradeTypeOK ==
  /\ kind \in Kinds
  /\ hasTable \in BOOLEAN
  /\ versions \subseteq {1, 2}
  /\ qsoTable \in [Ids -> Row \cup {NoRow}]
  /\ pc \in [Programs -> {"closed", "version", "table", "one", "modes", "open"}]
  /\ at \in [Programs -> 1 .. Len(Map) + 1]
  /\ unrun \subseteq Steps

(* Whatever programs died on the way, a recorded version means that its table
   is there: MariaDB's initSchema skips the table on the word of version 1, and
   nobody works on a database without one or below version 2. *)
VersionsAreEarned ==
  /\ versions # {} => hasTable
  /\ \A p \in Programs :
       /\ pc[p] \in {"modes", "open"} => hasTable
       /\ pc[p] = "open" => Holds(2)

(* What a contact was made in, by whichever of its two names. *)
Meaning(row) ==
  IF \E i \in Steps : /\ row.mode = Map[i].old
                      /\ Map[i].sub # NoSubmode => row.submode = NoSubmode
  THEN Rewritten(row, CHOOSE step \in {Map[i] : i \in Steps} : step.old = row.mode)
  ELSE row

(* An upgrade, however often it is cut off, repeated or run by two programs at
   once, loses no contact and changes only how its mode is written. *)
ContactIsKept ==
  [][\A id \in Taken(qsoTable) :
       id \in Taken(qsoTable') /\ Meaning(qsoTable'[id]) = Meaning(qsoTable[id])]_upgradeVars

(* The rows of a statement may be left as they were only where it was never
   run, or where one of them stands for a contact that the log has under the
   new mode too: then the UNIQUE key refuses the whole statement. *)
LeftoverClashes(i) ==
  Pending(qsoTable, Map[i]) # {} =>
    \/ i \in unrun
    \/ \E old \in Pending(qsoTable, Map[i]), new \in Taken(qsoTable) :
         qsoTable[new].contact = qsoTable[old].contact /\ qsoTable[new].mode = Map[i].new

FirstTwo == ~Holds(2) /\ 2 \in versions'

(* Version 2 is recorded for good, so this is the last chance of every contact
   that was stored before: none with an obsolete mode is passed over but those. *)
UpgradeIsThorough == [][FirstTwo => \A i \in Steps : LeftoverClashes(i)]_upgradeVars

=============================================================================
