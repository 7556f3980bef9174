--------------------------- MODULE Database_proofs ---------------------------
(***************************************************************************)
(* What is proved about the databases: their upgrade when they are opened  *)
(* (SchemaUpgrade), and all that writes to an open log (LogWriters).       *)
(***************************************************************************)
EXTENDS LogWriters, SchemaUpgrade, TLAPS

(***************************************************************************)
(* SchemaUpgrade, for every map of modes, every set of programs and every  *)
(* table that an earlier version left: what a recorded version stands for, *)
(* that no contact is lost or changes its meaning, and which rows may keep *)
(* an obsolete mode.                                                       *)
(*                                                                         *)
(* The last needs what the statements sent so far have achieved, Sent,     *)
(* which holds up only until version 2 is recorded: from then on programs  *)
(* log contacts under any mode.                                            *)
(***************************************************************************)

(* A program that has to set up the table starts the map from its head, and
   records version 1 only after the table. *)
Fresh ==
  \A p \in Programs :
    /\ pc[p] \in {"table", "one"} => at[p] = 1
    /\ pc[p] = "one" => hasTable

(* Until version 2 is recorded, every statement that a program has behind it
   has left only rows it could not rewrite. *)
Sent ==
  ~Holds(2) => \A p \in Programs : pc[p] = "modes" =>
    \A i \in Steps : i < at[p] => LeftoverClashes(i)

Safe ==
  /\ UpgradeTypeOK
  /\ KeysUnique(qsoTable)
  /\ VersionsAreEarned
  /\ Fresh
  /\ Sent

(* What the map's assumption says of one statement, and of two. *)
LEMMA MapType ==
  /\ Len(Map) \in Nat
  /\ \A i \in Steps : Map[i].old \in Modes /\ Map[i].new \in Modes /\ Map[i].sub \in Submodes
<1> DEFINE Statement == [old : Modes, new : Modes, sub : Submodes]
<1>1. Map \in Seq(Statement)
  BY UpgradeAssumption
<1>2. Len(Map) \in Nat /\ \A i \in Steps : Map[i] \in Statement
  <2> HIDE DEF Statement
  <2> QED
    BY <1>1 DEF Steps
<1> QED
  BY <1>2

LEMMA MapDisjoint ==
  ASSUME NEW i \in Steps, NEW j \in Steps
  PROVE  Map[i].old # Map[j].new /\ (i # j => Map[i].old # Map[j].old)
  BY UpgradeAssumption

(* A rewritten row is a row, of the same contact, in the statement's mode. *)
LEMMA RewrittenRow ==
  ASSUME NEW row \in Row, NEW i \in Steps
  PROVE  /\ Rewritten(row, Map[i]) \in Row
         /\ Rewritten(row, Map[i]) # NoRow
         /\ Rewritten(row, Map[i]).contact = row.contact
         /\ Rewritten(row, Map[i]).mode = Map[i].new
  BY MapType, UpgradeAssumption DEF Rewritten, Row

(* A statement rewrites the pending rows in place and touches no other. *)
LEMMA RewriteTable ==
  ASSUME NEW i \in Steps, qsoTable \in [Ids -> Row \cup {NoRow}]
  PROVE  /\ Rewrite(qsoTable, Map[i]) \in [Ids -> Row \cup {NoRow}]
         /\ Taken(Rewrite(qsoTable, Map[i])) = Taken(qsoTable)
         /\ \A id \in Pending(qsoTable, Map[i]) :
              /\ id \in Taken(qsoTable) /\ qsoTable[id] \in Row
              /\ Rewrite(qsoTable, Map[i])[id] = Rewritten(qsoTable[id], Map[i])
         /\ \A id \in Ids \ Pending(qsoTable, Map[i]) :
              Rewrite(qsoTable, Map[i])[id] = qsoTable[id]
<1>1. \A id \in Pending(qsoTable, Map[i]) : id \in Taken(qsoTable) /\ id \in Ids /\ qsoTable[id] \in Row
  BY DEF Pending, Taken
<1>2. \A id \in Pending(qsoTable, Map[i]) :
         /\ Rewritten(qsoTable[id], Map[i]) \in Row
         /\ Rewritten(qsoTable[id], Map[i]) # NoRow
  BY <1>1, RewrittenRow
<1> QED
  BY <1>1, <1>2 DEF Rewrite, Taken

(* The statement that the UNIQUE key refuses has a pending row in the way of a
   row that is there under the new mode. *)
LEMMA RefusedClashes ==
  ASSUME NEW i \in Steps, qsoTable \in [Ids -> Row \cup {NoRow}], KeysUnique(qsoTable),
         ~KeysUnique(Rewrite(qsoTable, Map[i]))
  PROVE  \E old \in Pending(qsoTable, Map[i]), new \in Taken(qsoTable) :
            qsoTable[new].contact = qsoTable[old].contact /\ qsoTable[new].mode = Map[i].new
<1> DEFINE after == Rewrite(qsoTable, Map[i])
           due   == Pending(qsoTable, Map[i])
<1>1. PICK a \in Taken(qsoTable), b \in Taken(qsoTable) :
         after[a].contact = after[b].contact /\ after[a].mode = after[b].mode /\ a # b
  BY RewriteTable DEF KeysUnique
<1>2. a \in Ids /\ b \in Ids /\ qsoTable[a] \in Row /\ qsoTable[b] \in Row
  BY DEF Taken
<1>3. CASE a \notin due /\ b \notin due
  <2>1. after[a] = qsoTable[a] /\ after[b] = qsoTable[b]
    BY <1>2, <1>3, RewriteTable
  <2> QED
    BY <1>1, <2>1 DEF KeysUnique
<1>4. CASE a \in due /\ b \in due
  <2>1. qsoTable[a].mode = qsoTable[b].mode
    BY <1>4 DEF Pending
  <2>2. qsoTable[a].contact = qsoTable[b].contact
    BY <1>1, <1>2, <1>4, RewriteTable, RewrittenRow
  <2> QED
    BY <1>1, <2>1, <2>2 DEF KeysUnique
<1>5. CASE a \in due /\ b \notin due
  <2>1. qsoTable[b].contact = qsoTable[a].contact /\ qsoTable[b].mode = Map[i].new
    BY <1>1, <1>2, <1>5, RewriteTable, RewrittenRow
  <2> QED
    BY <1>5, <2>1
<1>6. CASE a \notin due /\ b \in due
  <2>1. qsoTable[a].contact = qsoTable[b].contact /\ qsoTable[a].mode = Map[i].new
    BY <1>1, <1>2, <1>6, RewriteTable, RewrittenRow
  <2> QED
    BY <1>6, <2>1
<1> QED
  BY <1>3, <1>4, <1>5, <1>6

(* Another statement of the map neither adds to the rows of this one nor takes
   away what stands in their way. *)
LEMMA LeftoversLast ==
  ASSUME NEW i \in Steps, NEW j \in Steps, qsoTable \in [Ids -> Row \cup {NoRow}],
         LeftoverClashes(i), qsoTable' = Rewrite(qsoTable, Map[j]), unrun \subseteq unrun'
  PROVE  LeftoverClashes(i)'
<1>1. qsoTable' \in [Ids -> Row \cup {NoRow}] /\ Taken(qsoTable') = Taken(qsoTable)
  BY RewriteTable
<1>2. \A id \in Pending(qsoTable, Map[j]) :
         /\ qsoTable[id].mode = Map[j].old
         /\ qsoTable'[id].contact = qsoTable[id].contact /\ qsoTable'[id].mode = Map[j].new
  BY RewriteTable, RewrittenRow DEF Pending
<1>3. \A id \in Ids \ Pending(qsoTable, Map[j]) : qsoTable'[id] = qsoTable[id]
  BY RewriteTable
<1>4. Pending(qsoTable', Map[i]) \subseteq Pending(qsoTable, Map[i])
  BY <1>1, <1>2, <1>3, MapDisjoint DEF Pending, Taken
<1>5. CASE i = j
  <2>1. Pending(qsoTable', Map[i]) = {}
    BY <1>1, <1>2, <1>3, <1>5, MapDisjoint DEF Pending, Taken
  <2> QED
    BY <2>1 DEF LeftoverClashes
<1>6. CASE i # j
  <2>1. Pending(qsoTable, Map[i]) \subseteq Pending(qsoTable', Map[i])
    BY <1>1, <1>2, <1>3, <1>6, MapDisjoint DEF Pending, Taken
  <2>2. \A new \in Taken(qsoTable) : qsoTable[new].mode = Map[i].new => qsoTable'[new] = qsoTable[new]
    BY <1>2, <1>3, MapDisjoint DEF Taken
  <2>3. \A old \in Pending(qsoTable, Map[i]) : qsoTable'[old] = qsoTable[old]
    BY <1>2, <1>3, <1>6, MapDisjoint DEF Pending, Taken
  <2> QED
    BY <1>1, <1>4, <2>1, <2>2, <2>3 DEF LeftoverClashes
<1> QED
  BY <1>5, <1>6

LEMMA SafeInit == UpgradeInit => Safe
<1> SUFFICES ASSUME UpgradeInit PROVE Safe
  OBVIOUS
<1> USE DEF UpgradeInit
<1>1. UpgradeTypeOK
  BY UpgradeAssumption DEF UpgradeTypeOK, Steps
<1>2. VersionsAreEarned
  BY DEF VersionsAreEarned
<1> QED
  BY <1>1, <1>2 DEF Safe, Fresh, Sent

(* A step that leaves the table and the refusals alone keeps what the
   statements behind each program have achieved. *)
LEMMA LeftoversSame ==
  ASSUME NEW i \in Steps, qsoTable' = qsoTable, unrun \subseteq unrun', LeftoverClashes(i)
  PROVE  LeftoverClashes(i)'
  BY DEF LeftoverClashes

LEMMA SafeNormalise ==
  ASSUME Safe, NEW p \in Programs, Normalise(p)
  PROVE  Safe'
<1> DEFINE now == at[p]
<1> USE DEF Safe
<1>1. now \in Steps /\ pc[p] = "modes" /\ Len(Map) \in Nat /\ at \in [Programs -> 1 .. Len(Map) + 1]
  BY MapType DEF Normalise, UpgradeTypeOK
<1>2. /\ at' = [at EXCEPT ![p] = now + 1]
      /\ kind' = kind /\ hasTable' = hasTable /\ versions' = versions /\ pc' = pc
  BY DEF Normalise
<1>3. qsoTable \in [Ids -> Row \cup {NoRow}] /\ unrun \subseteq Steps
  BY DEF UpgradeTypeOK
<1>4. \/ qsoTable' = Rewrite(qsoTable, Map[now]) /\ KeysUnique(qsoTable') /\ unrun' = unrun
      \/ qsoTable' = qsoTable /\ unrun' = unrun /\ ~KeysUnique(Rewrite(qsoTable, Map[now]))
      \/ qsoTable' = qsoTable /\ unrun' = unrun \cup {now}
  BY DEF Normalise
<1>5. qsoTable' \in [Ids -> Row \cup {NoRow}] /\ KeysUnique(qsoTable') /\ unrun' \subseteq Steps
      /\ unrun \subseteq unrun'
  BY <1>1, <1>3, <1>4, RewriteTable
<1>6. UpgradeTypeOK'
  <2>1. now + 1 \in 1 .. Len(Map) + 1
    BY <1>1 DEF Steps
  <2> QED
    BY <1>1, <1>2, <1>5, <2>1 DEF UpgradeTypeOK
<1>7. VersionsAreEarned' /\ Fresh'
  BY <1>1, <1>2 DEF VersionsAreEarned, Fresh, Holds, UpgradeTypeOK
<1>8. Sent'
  <2> SUFFICES ASSUME ~Holds(2)', NEW q \in Programs, pc'[q] = "modes",
                      NEW i \in Steps, i < at'[q]
               PROVE  LeftoverClashes(i)'
    BY DEF Sent
  <2>1. ~Holds(2) /\ pc[q] = "modes"
    BY <1>2 DEF Holds
  <2>2. CASE i < at[q]
    <3>1. LeftoverClashes(i)
      BY <2>1, <2>2 DEF Sent
    <3> QED
      BY <1>1, <1>3, <1>4, <1>5, <3>1, LeftoversLast, LeftoversSame
  <2>3. CASE ~(i < at[q])
    <3>1. q = p /\ i = now
      BY <1>1, <1>2, <2>3 DEF Steps
    <3>2. CASE qsoTable' = Rewrite(qsoTable, Map[now])
      <4>1. Pending(qsoTable', Map[now]) = {}
        <5>1. \A id \in Pending(qsoTable, Map[now]) : qsoTable'[id].mode = Map[now].new
          BY <1>1, <1>3, <3>2, RewriteTable, RewrittenRow
        <5>2. \A id \in Ids \ Pending(qsoTable, Map[now]) : qsoTable'[id] = qsoTable[id]
          BY <1>1, <1>3, <3>2, RewriteTable
        <5>3. Taken(qsoTable') = Taken(qsoTable)
          BY <1>1, <1>3, <3>2, RewriteTable
        <5> QED
          BY <1>1, <5>1, <5>2, <5>3, MapDisjoint DEF Pending, Taken
      <4> QED
        BY <3>1, <4>1 DEF LeftoverClashes
    <3>3. CASE qsoTable' = qsoTable /\ unrun' = unrun /\ ~KeysUnique(Rewrite(qsoTable, Map[now]))
      <4>1. LeftoverClashes(now)
        BY <1>1, <1>3, <3>3, RefusedClashes DEF LeftoverClashes
      <4> QED
        BY <3>1, <3>3, <4>1, LeftoversSame
    <3>4. CASE unrun' = unrun \cup {now}
      BY <3>1, <3>4 DEF LeftoverClashes
    <3> QED
      BY <1>4, <3>2, <3>3, <3>4
  <2> QED
    BY <2>2, <2>3
<1> QED
  BY <1>5, <1>6, <1>7, <1>8

(* The steps that leave rows and refusals alone. *)
Quiet(p) ==
  Open(p) \/ ReadVersion(p) \/ CreateTable(p) \/ RecordOne(p) \/ RecordTwo(p) \/ Stop(p)

LEMMA QuietType ==
  ASSUME UpgradeTypeOK, NEW p \in Programs, Quiet(p)
  PROVE  UpgradeTypeOK'
<1> USE DEF UpgradeTypeOK, Goto, table
<1>1. Len(Map) \in Nat
  BY MapType
<1>2. CASE Open(p)
  BY <1>2 DEF Open
<1>3. CASE ReadVersion(p)
  <2>1. 1 \in 1 .. Len(Map) + 1
    BY <1>1
  <2>2. \A read \in {Highest, 0} :
          AfterRead(read) \in {"closed", "version", "table", "one", "modes", "open"}
    BY DEF AfterRead
  <2> QED
    BY <1>3, <2>1, <2>2 DEF ReadVersion
<1>4. CASE CreateTable(p)
  BY <1>4 DEF CreateTable
<1>5. CASE RecordOne(p)
  BY <1>5 DEF RecordOne
<1>6. CASE RecordTwo(p)
  BY <1>6 DEF RecordTwo
<1>7. CASE Stop(p)
  BY <1>7 DEF Stop
<1> QED
  BY <1>2, <1>3, <1>4, <1>5, <1>6, <1>7 DEF Quiet

LEMMA QuietVersions ==
  ASSUME UpgradeTypeOK, VersionsAreEarned, Fresh, NEW p \in Programs, Quiet(p)
  PROVE  VersionsAreEarned'
<1> USE DEF UpgradeTypeOK, VersionsAreEarned, Holds, Goto, table
<1>1. CASE Open(p)
  BY <1>1 DEF Open
<1>2. CASE ReadVersion(p)
  <2>1. PICK read \in {Highest, 0} : pc' = [pc EXCEPT ![p] = AfterRead(read)]
    BY <1>2 DEF ReadVersion
  <2>2. /\ AfterRead(read) = "modes" => 1 \in versions
        /\ AfterRead(read) = "open" => 2 \in versions
    BY DEF AfterRead, Highest
  <2> QED
    BY <1>2, <2>1, <2>2 DEF ReadVersion
<1>3. CASE CreateTable(p)
  BY <1>3 DEF CreateTable
<1>4. CASE RecordOne(p)
  <2>1. hasTable
    BY <1>4 DEF RecordOne, Fresh
  <2> QED
    BY <1>4, <2>1 DEF RecordOne
<1>5. CASE RecordTwo(p)
  BY <1>5 DEF RecordTwo
<1>6. CASE Stop(p)
  BY <1>6 DEF Stop
<1> QED
  BY <1>1, <1>2, <1>3, <1>4, <1>5, <1>6 DEF Quiet

LEMMA SafeQuiet ==
  ASSUME Safe, NEW p \in Programs, Quiet(p)
  PROVE  Safe'
<1> USE DEF Safe
<1>1. qsoTable' = qsoTable /\ unrun' = unrun /\ kind' = kind
  BY DEF Quiet, Open, ReadVersion, CreateTable, RecordOne, RecordTwo, Stop, table
<1>2. UpgradeTypeOK'
  BY QuietType
<1>3. KeysUnique(qsoTable')
  BY <1>1
<1>4. VersionsAreEarned'
  BY QuietVersions
<1>5. Fresh'
  BY DEF UpgradeTypeOK, Fresh, Quiet, Open, ReadVersion, CreateTable, RecordOne, RecordTwo, Stop, Goto,
         AfterRead, table
<1>6. Sent'
  <2> SUFFICES ASSUME ~Holds(2)', NEW q \in Programs, pc'[q] = "modes",
                      NEW i \in Steps, i < at'[q]
               PROVE  LeftoverClashes(i)'
    BY DEF Sent
  <2>1. ~Holds(2)
    BY DEF Holds, Quiet, Open, ReadVersion, CreateTable, RecordOne, RecordTwo, Stop, table
  <2>2. pc[q] = "modes" /\ i < at[q]
    <3>1. i >= 1 /\ i \in Nat
      BY MapType DEF Steps
    <3>2. q # p => pc'[q] = pc[q] /\ at'[q] = at[q]
      BY DEF UpgradeTypeOK, Quiet, Open, ReadVersion, CreateTable, RecordOne, RecordTwo, Stop, Goto
    <3>3. ~(q = p /\ ReadVersion(p))
      BY <3>1 DEF UpgradeTypeOK, ReadVersion
    <3>4. ~(q = p /\ RecordOne(p))
      BY <3>1 DEF UpgradeTypeOK, Fresh, RecordOne
    <3>5. ~(q = p /\ (Open(p) \/ CreateTable(p) \/ RecordTwo(p) \/ Stop(p)))
      BY DEF UpgradeTypeOK, Open, CreateTable, RecordTwo, Stop, Goto
    <3> QED
      BY <3>2, <3>3, <3>4, <3>5 DEF Quiet
  <2>3. LeftoverClashes(i)
    BY <2>1, <2>2 DEF Sent
  <2> QED
    BY <1>1, <2>3, LeftoversSame
<1> QED
  BY <1>2, <1>3, <1>4, <1>5, <1>6

LEMMA SafeLog ==
  ASSUME Safe, NEW p \in Programs, Log(p)
  PROVE  Safe'
<1> USE DEF Safe
<1>1. Holds(2) /\ Holds(2)'
  BY DEF Log, VersionsAreEarned, Holds
<1>2. UpgradeTypeOK'
  BY UpgradeAssumption DEF UpgradeTypeOK, Log
<1>3. KeysUnique(qsoTable')
  BY DEF Log
<1> QED
  BY <1>1, <1>2, <1>3 DEF Log, VersionsAreEarned, Fresh, Sent, Holds

LEMMA SafeNext == Safe /\ [UpgradeNext]_upgradeVars => Safe'
<1> SUFFICES ASSUME Safe, [UpgradeNext]_upgradeVars PROVE Safe'
  OBVIOUS
<1>1. CASE UNCHANGED upgradeVars
  BY <1>1 DEF upgradeVars, Safe, UpgradeTypeOK, KeysUnique, Taken, VersionsAreEarned, Holds, Fresh, Sent,
              LeftoverClashes, Pending
<1>2. CASE UpgradeNext
  <2>1. PICK p \in Programs :
           \/ Open(p) \/ ReadVersion(p) \/ CreateTable(p) \/ RecordOne(p)
           \/ Normalise(p) \/ RecordTwo(p) \/ Stop(p) \/ Log(p)
    BY <1>2 DEF UpgradeNext
  <2> QED
    BY <2>1, SafeQuiet, SafeNormalise, SafeLog DEF Quiet
<1> QED
  BY <1>1, <1>2

(* Every state of every behaviour satisfies the strengthened invariant. *)
THEOREM UpgradeSafe == UpgradeSpec => []Safe
  BY SafeInit, SafeNext, PTL DEF UpgradeSpec

(* The variables keep their types. *)
THEOREM UpgradeTypeCorrect == UpgradeSpec => []UpgradeTypeOK
<1>1. Safe => UpgradeTypeOK
  BY DEF Safe
<1> QED
  BY <1>1, UpgradeSafe, PTL

(* A recorded version means that its table is there, and nobody has the
   database open without one. *)
THEOREM UpgradeEarnsVersions == UpgradeSpec => []VersionsAreEarned
<1>1. Safe => VersionsAreEarned
  BY DEF Safe
<1> QED
  BY <1>1, UpgradeSafe, PTL

(* The meaning of a pending row is its rewritten form, and that of a rewritten
   row is itself: no new mode is an obsolete one. *)
LEMMA MeaningKept ==
  ASSUME NEW row \in Row, NEW i \in Steps, row.mode = Map[i].old,
         Map[i].sub # NoSubmode => row.submode = NoSubmode
  PROVE  Meaning(Rewritten(row, Map[i])) = Meaning(row)
<1>1. \A j \in Steps : Map[j].old = row.mode => Map[j] = Map[i]
  BY MapDisjoint
<1>2. (CHOOSE step \in {Map[j] : j \in Steps} : step.old = row.mode) = Map[i]
  BY <1>1
<1>3. Meaning(row) = Rewritten(row, Map[i])
  BY <1>2 DEF Meaning
<1>4. Rewritten(row, Map[i]).mode = Map[i].new
  BY RewrittenRow
<1>5. Meaning(Rewritten(row, Map[i])) = Rewritten(row, Map[i])
  BY <1>4, MapDisjoint DEF Meaning
<1> QED
  BY <1>3, <1>5

(* No step of any program loses a contact or changes what it was made in. *)
THEOREM UpgradeKeepsContacts == UpgradeSpec => ContactIsKept
<1> DEFINE kept == \A id \in Taken(qsoTable) :
                     id \in Taken(qsoTable') /\ Meaning(qsoTable'[id]) = Meaning(qsoTable[id])
<1>1. ASSUME Safe, [UpgradeNext]_upgradeVars PROVE kept
  <2>1. qsoTable \in [Ids -> Row \cup {NoRow}]
    BY <1>1 DEF Safe, UpgradeTypeOK
  <2>2. CASE qsoTable' = qsoTable
    BY <2>2
  <2>3. ASSUME NEW p \in Programs, Normalise(p), qsoTable' # qsoTable PROVE kept
    <3>1. at[p] \in Steps /\ qsoTable' = Rewrite(qsoTable, Map[at[p]])
      BY <2>3 DEF Normalise
    <3>2. \A id \in Pending(qsoTable, Map[at[p]]) :
             /\ qsoTable[id] \in Row /\ qsoTable[id].mode = Map[at[p]].old
             /\ Map[at[p]].sub # NoSubmode => qsoTable[id].submode = NoSubmode
      BY <2>1, <3>1, RewriteTable DEF Pending
    <3>3. \A id \in Pending(qsoTable, Map[at[p]]) : Meaning(qsoTable'[id]) = Meaning(qsoTable[id])
      BY <2>1, <3>1, <3>2, RewriteTable, MeaningKept
    <3>4. Taken(qsoTable') = Taken(qsoTable)
      BY <2>1, <3>1, RewriteTable
    <3>5. \A id \in Ids \ Pending(qsoTable, Map[at[p]]) : qsoTable'[id] = qsoTable[id]
      BY <2>1, <3>1, RewriteTable
    <3> QED
      BY <3>3, <3>4, <3>5 DEF Taken
  <2>4. ASSUME NEW p \in Programs, Log(p) PROVE kept
    <3>1. PICK new \in Ids \ Taken(qsoTable), row \in Loggable : qsoTable' = [qsoTable EXCEPT ![new] = row]
      BY <2>4 DEF Log
    <3>2. \A id \in Taken(qsoTable) : id \in Ids /\ qsoTable'[id] = qsoTable[id]
      BY <2>1, <3>1 DEF Taken
    <3> QED
      BY <3>2 DEF Taken
  <2>5. qsoTable' = qsoTable \/ \E p \in Programs : Normalise(p) \/ Log(p)
    BY <1>1 DEF upgradeVars, UpgradeNext, Open, ReadVersion, CreateTable, RecordOne, RecordTwo, Stop, table
  <2> QED
    BY <2>2, <2>3, <2>4, <2>5
<1>2. Safe /\ [UpgradeNext]_upgradeVars => [kept]_upgradeVars
  BY <1>1
<1> QED
  BY <1>2, UpgradeSafe, PTL DEF UpgradeSpec, ContactIsKept

(* When version 2 is recorded for the first time, rows with an obsolete mode
   are left only where the statement was refused. *)
THEOREM UpgradeThorough == UpgradeSpec => UpgradeIsThorough
<1> DEFINE thorough == FirstTwo => \A i \in Steps : LeftoverClashes(i)
<1>1. ASSUME Safe, [UpgradeNext]_upgradeVars PROVE thorough
  <2> SUFFICES ASSUME FirstTwo, NEW i \in Steps PROVE LeftoverClashes(i)
    OBVIOUS
  <2>1. ~Holds(2) /\ 2 \in versions'
    BY DEF FirstTwo
  <2>2. PICK p \in Programs : RecordTwo(p)
    BY <1>1, <2>1 DEF Holds, upgradeVars, UpgradeNext, Open, ReadVersion, CreateTable, RecordOne, Normalise,
                      Stop, Log, table
  <2>3. pc[p] = "modes" /\ at[p] > Len(Map)
    BY <2>2 DEF RecordTwo, MapSent
  <2>4. i < at[p]
    BY <1>1, <2>3, MapType DEF Safe, UpgradeTypeOK, Steps
  <2> QED
    BY <1>1, <2>1, <2>3, <2>4 DEF Safe, Sent
<1>2. Safe /\ [UpgradeNext]_upgradeVars => [thorough]_upgradeVars
  BY <1>1
<1> QED
  BY <1>2, UpgradeSafe, PTL DEF UpgradeSpec, UpgradeIsThorough

----------------------------------------------------------------------------
(***************************************************************************)
(* LogWriters: import, migration, WSJT-X and the operator keep out of each *)
(* other's way, for any databases, contacts, files and batch size.         *)
(*                                                                         *)
(* The invariant has a part for the locks, which needs nothing else, one   *)
(* for the import and one for the copy. Those rest on the locks: while the *)
(* worker inserts, rows are only added, and while a copy is made, nobody   *)
(* else writes.                                                            *)
(***************************************************************************)

LocksTypeOK ==
  /\ active \in Databases \cup {NoDatabase} /\ configured \in Databases
  /\ enabled \subseteq Actions
  /\ importLock \in BOOLEAN /\ migrationLock \in BOOLEAN /\ listening \in BOOLEAN
  /\ phase \in {"none", "opening", "inserting", "done"}
  /\ target \in Databases \cup {NoDatabase}
  /\ page \in {"none", "configure", "dryRun", "copying", "result", "error"}

(* The listener is off for a migration only, or for want of a port. *)
ListenerRuns == migrationLock \/ listening \/ May("bind")

(* A migration has a log to copy, until a switch finds the target shut. *)
MigrationHasLog ==
  /\ page \in {"configure", "dryRun", "copying", "result"} => active # NoDatabase
  /\ page = "error" => active = NoDatabase

(* An import writes to the database that is open, to its end (m_activeDbConfig). *)
ImportStaysWithLog == phase # "none" => target = active /\ target # NoDatabase

LocksInv ==
  LocksTypeOK /\ WritersExclude /\ ActionsComeBack /\ ImportStaysWithLog
    /\ ListenerRuns /\ MigrationHasLog

RowsOK == rows \in [Databases -> SUBSET Contacts]

JobTypeOK ==
  /\ todo \in Seq(Contacts)
  /\ uncommitted \subseteq Contacts
  /\ sinceCommit \in 0..BatchSize
  /\ inTransaction \in BOOLEAN /\ canceled \in BOOLEAN /\ errors \in BOOLEAN
  /\ counted \subseteq Contacts /\ lost \subseteq Contacts /\ file \subseteq Contacts

Elements(s) == {s[i] : i \in DOMAIN s}

(* Outside its inserting phase the worker has no transaction. *)
NothingHeld == phase # "inserting" => uncommitted = {}

(* Before it inserts, nothing is counted and no error is known. *)
NothingCounted == phase \in {"none", "opening"} => counted = {} /\ errors = FALSE /\ sinceCommit = 0

(* What is counted is in the log or in the transaction, or was lost by a commit. *)
CountedIsThere ==
  /\ phase = "inserting" => counted \subseteq rows[target] \cup uncommitted \cup lost
  /\ phase = "done" => counted \subseteq rows[target] \cup lost

(* What is not counted is still to come, or an error. *)
FileIsAccounted ==
  /\ phase \in {"opening", "inserting"} /\ ~errors => file \subseteq counted \cup Elements(todo)
  /\ phase = "done" /\ ~canceled /\ ~errors => file \subseteq counted

JobInv == JobTypeOK /\ NothingHeld /\ NothingCounted /\ CountedIsThere /\ FileIsAccounted

CopyTypeOK ==
  /\ dest \in Databases \cup {NoDatabase}
  /\ offered \in BOOLEAN /\ done \in BOOLEAN /\ switch \in BOOLEAN
  /\ left \subseteq Contacts /\ failed \subseteq Contacts /\ mixed \subseteq Contacts
  /\ page \in {"dryRun", "copying", "result"} => dest \in Databases

(* Nothing is done, left over or failed before the copy. *)
CopyIsFresh ==
  page \in {"none", "configure", "dryRun"} => ~done /\ failed = {} /\ left = {}

(* The copy starts with what the target held when it was not counted. *)
CopyStartsClean ==
  /\ page = "dryRun" => rows[dest] \subseteq mixed
  /\ page \in {"copying", "result"} => rows[dest] \subseteq rows[active] \cup mixed

(* What was not copied is still to come or has failed. *)
CopyIsComplete ==
  /\ page = "copying" => /\ left \subseteq rows[active]
                         /\ rows[active] \ (left \cup failed) \subseteq rows[dest]
                         /\ ~done
  /\ done => page \in {"result", "error"}
  /\ page = "result" /\ done => rows[active] \ failed \subseteq rows[dest]

CopyInv == CopyTypeOK /\ CopyIsFresh /\ CopyStartsClean /\ CopyIsComplete

IInv == LocksInv /\ RowsOK /\ JobInv /\ CopyInv /\ air \subseteq Datagrams

USE LogStoreAssumption, ImportJobAssumption, LogWritersAssumption

----------------------------------------------------------------------------
(* The locks                                                               *)

LEMMA ImportLocks ==
  ASSUME enabled \subseteq Actions, Actions \ {"newLog"} \subseteq enabled
  PROVE  enabled \ LockedByImport = {"newQso", "import"}
BY DEF Actions, LockedByImport

LEMMA ImportUnlocks ==
  ASSUME NEW database, enabled = {"newQso", "import"}
  PROVE  /\ (enabled \cup LockedByImport) \ Withheld(database) \subseteq Actions
         /\ Actions \ {"newLog"} \subseteq (enabled \cup LockedByImport) \ Withheld(database)
BY DEF Actions, LockedByImport, Withheld

LEMMA AllButWithheld ==
  ASSUME NEW database
  PROVE  /\ Actions \ Withheld(database) \subseteq Actions
         /\ Actions \ {"newLog"} \subseteq Actions \ Withheld(database)
BY DEF Withheld

LEMMA UntouchedLocks ==
  ASSUME LocksInv, UNCHANGED <<hold, locks, listening, phase, target, page>>
  PROVE  LocksInv'
BY DEF LocksInv, LocksTypeOK, WritersExclude, ActionsComeBack, ImportStaysWithLog,
       ListenerRuns, MigrationHasLog, hold, locks

(* Another page of the dialog, or another stage of the worker, under its lock *)
LEMMA NextStageKeepsLocks ==
  ASSUME LocksInv, UNCHANGED <<hold, locks, listening, target>>,
         phase' = "none" <=> phase = "none", page' = "none" <=> page = "none",
         phase' \in {"none", "opening", "inserting", "done"},
         page' \in {"configure", "dryRun", "copying", "result"}
           <=> page \in {"configure", "dryRun", "copying", "result"},
         page' \in {"none", "configure", "dryRun", "copying", "result", "error"}
  PROVE  LocksInv'
BY DEF LocksInv, LocksTypeOK, WritersExclude, ActionsComeBack, ImportStaysWithLog,
       ListenerRuns, MigrationHasLog, hold, locks

LEMMA ImportKeepsLocks ==
  ASSUME LocksInv, NEW contacts \in Files, StartImport(contacts), UNCHANGED page
  PROVE  LocksInv'
<1>1. /\ "import" \in enabled /\ active # NoDatabase /\ ~migrationLock /\ ~importLock
      /\ phase = "none"
  BY DEF StartImport, MayImport
<1>2. /\ importLock' = TRUE /\ enabled' = enabled \ LockedByImport
      /\ phase' = "opening" /\ target' = active
      /\ UNCHANGED <<active, configured, migrationLock, listening, page>>
  BY DEF StartImport, SetImportLock, ImportTarget, hold
<1>3. enabled' = {"newQso", "import"}
  BY <1>1, <1>2, ImportLocks DEF LocksInv, LocksTypeOK, ActionsComeBack
<1> QED BY <1>1, <1>2, <1>3
    DEF LocksInv, LocksTypeOK, WritersExclude, ActionsComeBack, ImportStaysWithLog,
        ListenerRuns, MigrationHasLog, Actions

LEMMA FinishedKeepsLocks ==
  ASSUME LocksInv, ImportFinished, UNCHANGED page
  PROVE  LocksInv'
<1>1. /\ importLock /\ ~migrationLock /\ page = "none" /\ enabled = {"newQso", "import"}
  BY DEF ImportFinished, LocksInv, WritersExclude, LocksTypeOK
<1>2. /\ importLock' = FALSE
      /\ enabled' = (enabled \cup LockedByImport) \ Withheld(configured)
      /\ phase' = "none" /\ target' = NoDatabase
      /\ UNCHANGED <<active, configured, migrationLock, listening, page>>
  BY DEF ImportFinished, SetImportLock, DropJob, hold
<1>3. enabled' \subseteq Actions /\ Actions \ {"newLog"} \subseteq enabled'
  BY <1>1, <1>2, ImportUnlocks
<1> QED BY <1>1, <1>2, <1>3
    DEF LocksInv, LocksTypeOK, WritersExclude, ActionsComeBack, ImportStaysWithLog,
        ListenerRuns, MigrationHasLog

LEMMA MigrateKeepsLocks ==
  ASSUME LocksInv, OnMigrateDatabase, UNCHANGED <<phase, target>>
  PROVE  LocksInv'
<1>1. active # NoDatabase /\ ~importLock /\ phase = "none"
  BY DEF OnMigrateDatabase, MayMigrate, LocksInv, WritersExclude
<1>2. /\ migrationLock' = TRUE /\ enabled' = {} /\ listening' = FALSE
      /\ page' = "configure"
      /\ UNCHANGED <<active, configured, importLock, phase, target>>
  BY DEF OnMigrateDatabase, SetMigrationLock, hold
<1> QED BY <1>1, <1>2
    DEF LocksInv, LocksTypeOK, WritersExclude, ActionsComeBack, ImportStaysWithLog,
        ListenerRuns, MigrationHasLog

(* The dialog is gone, whatever database is open and configured then. *)
LEMMA UnlockKeepsLocks ==
  ASSUME LocksInv, page # "none", Unlock(configured'), UNCHANGED <<importLock, phase, target>>,
         active' \in Databases \cup {NoDatabase}, configured' \in Databases
  PROVE  LocksInv'
<1>1. migrationLock /\ ~importLock /\ phase = "none"
  BY DEF LocksInv, WritersExclude
<1>2. /\ migrationLock' = FALSE /\ enabled' = Actions \ Withheld(configured')
      /\ listening' \in {TRUE, ~May("bind")}
      /\ page' = "none"
  BY DEF Unlock, SetMigrationLock, StartListener
<1>3. listening' \in BOOLEAN /\ (listening' \/ May("bind"))
  BY <1>2 DEF May
<1> QED BY <1>1, <1>2, <1>3, AllButWithheld
    DEF LocksInv, LocksTypeOK, WritersExclude, ActionsComeBack, ImportStaysWithLog,
        ListenerRuns, MigrationHasLog, May

(* A switch that fails: the listener runs, and there is no database. *)
LEMMA CloseKeepsLocks ==
  ASSUME LocksInv, CopyInv, CloseMigrate, UNCHANGED <<phase, target>>
  PROVE  LocksInv'
<1>1. /\ migrationLock /\ ~importLock /\ phase = "none" /\ enabled = {}
      /\ page \in {"configure", "dryRun", "result"} /\ UNCHANGED importLock
  BY DEF CloseMigrate, LocksInv, WritersExclude, LocksTypeOK
<1>2. CASE ~ShouldSwitchBackend
  BY <1>1, <1>2, UnlockKeepsLocks DEF CloseMigrate, hold, LocksInv, LocksTypeOK
<1>3. CASE ShouldSwitchBackend
  <2>1. dest \in Databases /\ configured' = dest
    BY <1>1, <1>3 DEF CloseMigrate, SwitchBackend, ShouldSwitchBackend, CopyInv, CopyTypeOK,
       CopyIsComplete
  <2>2. CASE active' = dest /\ Unlock(dest)
    BY <1>1, <2>1, <2>2, UnlockKeepsLocks
  <2>3. CASE /\ active' = NoDatabase
             /\ StartListener
             /\ page' = "error"
             /\ UNCHANGED <<enabled, migrationLock>>
    <3>1. listening' \in BOOLEAN
      BY <2>3 DEF StartListener, May
    <3> QED BY <1>1, <2>1, <2>3, <3>1
        DEF LocksInv, LocksTypeOK, WritersExclude, ActionsComeBack, ImportStaysWithLog,
            ListenerRuns, MigrationHasLog
  <2> QED BY <1>3, <2>2, <2>3 DEF CloseMigrate, SwitchBackend
<1> QED BY <1>2, <1>3

LEMMA DismissKeepsLocks ==
  ASSUME LocksInv, DismissError, UNCHANGED <<phase, target>>
  PROVE  LocksInv'
BY UnlockKeepsLocks DEF DismissError, hold, LocksInv, LocksTypeOK

LEMMA RestartKeepsLocks ==
  ASSUME LocksInv, Restart
  PROVE  LocksInv'
<1>1. page = "none" /\ phase = "none"
  BY DEF Restart, InputFree
<1>2. /\ active' \in Databases \cup {NoDatabase}
      /\ enabled' = Actions \ Withheld(configured)
      /\ importLock' = FALSE /\ migrationLock' = FALSE
      /\ listening' \in {TRUE, ~May("bind")}
      /\ UNCHANGED <<configured, phase, target, page>>
  BY DEF Restart, OpenDefaultDatabase, StartListener, job, migration, LocksInv, LocksTypeOK
<1>3. listening' \in BOOLEAN /\ (listening' \/ May("bind"))
  BY <1>2 DEF May
<1> QED BY <1>1, <1>2, <1>3, AllButWithheld
    DEF LocksInv, LocksTypeOK, WritersExclude, ActionsComeBack, ImportStaysWithLog,
        ListenerRuns, MigrationHasLog, May

LEMMA SettingsKeepLocks ==
  ASSUME LocksInv, NEW database \in Databases, ChangeSettings(database)
  PROVE  LocksInv'
BY DEF ChangeSettings, LocksInv, LocksTypeOK, WritersExclude, ActionsComeBack,
       ImportStaysWithLog, ListenerRuns, MigrationHasLog, locks, job, migration

----------------------------------------------------------------------------
(* The import                                                              *)

LEMMA HeadOrTail ==
  ASSUME NEW s \in Seq(Contacts), s # <<>>
  PROVE  /\ Head(s) \in Contacts /\ Tail(s) \in Seq(Contacts)
         /\ Elements(s) \subseteq {Head(s)} \cup Elements(Tail(s))
<1>1. /\ Head(s) \in Contacts /\ Tail(s) \in Seq(Contacts)
      /\ Len(Tail(s)) = Len(s) - 1 /\ Len(s) \in Nat \ {0}
  OBVIOUS
<1>2. ASSUME NEW i \in DOMAIN s PROVE s[i] \in {Head(s)} \cup Elements(Tail(s))
  <2>1. CASE i = 1
    BY <2>1
  <2>2. CASE i # 1
    <3>1. i - 1 \in DOMAIN Tail(s) /\ Tail(s)[i - 1] = s[i]
      BY <1>1, <2>2
    <3> QED BY <3>1 DEF Elements
  <2> QED BY <2>1, <2>2
<1> QED BY <1>1, <1>2 DEF Elements

(* The window adds contacts to the log, and none during a migration. *)
LEMMA QsoReadyAdds ==
  ASSUME RowsOK, LocksInv, NEW contact \in Contacts, OnQsoReady(contact)
  PROVE  /\ RowsOK'
         /\ \A d \in Databases : rows[d] \subseteq rows'[d]
BY DEF OnQsoReady, RowsOK, LocksInv, LocksTypeOK

(* Others may add to the log while the import runs. *)
LEMMA OthersKeepJob ==
  ASSUME JobInv, UNCHANGED job, phase = "none" \/ rows[target] \subseteq rows'[target]
  PROVE  JobInv'
<1>1. UNCHANGED <<phase, target, todo, uncommitted, sinceCommit, inTransaction, canceled,
                  counted, errors, lost, file>>
  BY DEF job, progress
<1>2. JobTypeOK' /\ NothingHeld' /\ NothingCounted' /\ FileIsAccounted'
  BY <1>1 DEF JobInv, JobTypeOK, NothingHeld, NothingCounted, FileIsAccounted, Elements
<1>3. CountedIsThere'
  BY <1>1 DEF JobInv, CountedIsThere
<1> QED BY <1>2, <1>3 DEF JobInv

LEMMA StartKeepsJob ==
  ASSUME JobInv, LocksInv, NEW contacts \in Files, StartImport(contacts)
  PROVE  JobInv'
<1>1. phase = "none"
  BY DEF StartImport, MayImport
<1>2. counted = {} /\ errors = FALSE /\ sinceCommit = 0 /\ uncommitted = {}
  BY <1>1 DEF JobInv, NothingHeld, NothingCounted
<1>3. /\ phase' = "opening" /\ todo' = contacts /\ file' = Elements(contacts)
      /\ UNCHANGED <<uncommitted, inTransaction, sinceCommit, canceled, counted, errors, lost>>
  BY DEF StartImport, Elements
<1>4. contacts \in Seq(Contacts) /\ Elements(contacts) \subseteq Contacts
  BY DEF Elements
<1>5. JobTypeOK'
  BY <1>2, <1>3, <1>4 DEF JobInv, JobTypeOK
<1>6. FileIsAccounted'
  BY <1>3 DEF FileIsAccounted, Elements
<1> QED BY <1>2, <1>3, <1>5, <1>6 DEF JobInv, NothingHeld, NothingCounted, CountedIsThere

LEMMA OpenKeepsJob ==
  ASSUME JobInv, RowsOK, LocksInv, WorkerOpens
  PROVE  JobInv' /\ RowsOK'
<1>1. /\ phase = "opening"
      /\ UNCHANGED <<rows, target, todo, uncommitted, sinceCommit, counted, lost, canceled, file>>
  BY DEF WorkerOpens, store
<1>2. counted = {} /\ errors = FALSE /\ uncommitted = {}
  BY <1>1 DEF JobInv, NothingHeld, NothingCounted
<1>3. phase' \in {"done", "inserting"} /\ errors' \in BOOLEAN /\ inTransaction' \in BOOLEAN
  BY <1>2 DEF WorkerOpens, JobInv, JobTypeOK
<1>4. JobTypeOK' /\ RowsOK'
  BY <1>1, <1>3 DEF JobInv, JobTypeOK, RowsOK
<1>5. NothingHeld' /\ NothingCounted' /\ CountedIsThere'
  BY <1>1, <1>2, <1>3 DEF NothingHeld, NothingCounted, CountedIsThere
<1>6. FileIsAccounted'
  <2>1. CASE phase' = "done"
    BY <1>1, <2>1 DEF WorkerOpens, FileIsAccounted
  <2>2. CASE phase' = "inserting"
    BY <1>1, <2>2 DEF WorkerOpens, JobInv, FileIsAccounted, Elements
  <2> QED BY <1>3, <2>1, <2>2
<1> QED BY <1>4, <1>5, <1>6 DEF JobInv

LEMMA InsertKeepsJob ==
  ASSUME JobInv, RowsOK, LocksInv, WorkerInserts
  PROVE  JobInv' /\ RowsOK'
<1> DEFINE c == Head(todo)
<1>1. /\ phase = "inserting" /\ todo # <<>> /\ ~canceled /\ sinceCommit < BatchSize
      /\ todo' = Tail(todo) /\ sinceCommit' = sinceCommit + 1
      /\ UNCHANGED <<phase, target, inTransaction, lost, canceled, file>>
  BY DEF WorkerInserts, BatchIsFull, JobInv, JobTypeOK
<1>2. c \in Contacts /\ todo' \in Seq(Contacts)
      /\ Elements(todo) \subseteq {c} \cup Elements(todo')
  BY <1>1, HeadOrTail DEF JobInv, JobTypeOK
<1>3. target \in Databases
  BY <1>1 DEF LocksInv, LocksTypeOK, ImportStaysWithLog
<1>4. sinceCommit' \in 0..BatchSize
  BY <1>1 DEF JobInv, JobTypeOK
<1>5. CASE Insert(c) /\ counted' = counted \cup {c} /\ UNCHANGED errors
  <2>1. /\ RowsOK' /\ uncommitted' \subseteq Contacts
        /\ rows[target] \cup uncommitted \cup {c} \subseteq rows'[target] \cup uncommitted'
    BY <1>2, <1>3, <1>5 DEF Insert, RowsOK, JobInv, JobTypeOK
  <2>2. JobTypeOK'
    BY <1>1, <1>2, <1>4, <1>5, <2>1 DEF JobInv, JobTypeOK
  <2>3. CountedIsThere'
    BY <1>1, <1>5, <2>1 DEF JobInv, CountedIsThere
  <2>4. FileIsAccounted'
    BY <1>1, <1>2, <1>5 DEF JobInv, FileIsAccounted
  <2> QED BY <1>1, <2>1, <2>2, <2>3, <2>4 DEF JobInv, NothingHeld, NothingCounted
<1>6. CASE errors' = TRUE /\ UNCHANGED <<rows, uncommitted, counted>>
  <2>1. JobTypeOK' /\ RowsOK'
    BY <1>1, <1>2, <1>4, <1>6 DEF JobInv, JobTypeOK, RowsOK
  <2>2. CountedIsThere' /\ FileIsAccounted'
    BY <1>1, <1>6 DEF JobInv, CountedIsThere, FileIsAccounted
  <2> QED BY <1>1, <2>1, <2>2 DEF JobInv, NothingHeld, NothingCounted
<1> QED BY <1>5, <1>6 DEF WorkerInserts

(* A commit moves the transaction's contacts into the log, leaves them or loses them. *)
LEMMA CommitMoves ==
  ASSUME RowsOK, uncommitted \subseteq Contacts, target \in Databases,
         NEW after \in Commits
  PROVE  /\ after.rows \in [Databases -> SUBSET Contacts]
         /\ after.open \subseteq uncommitted
         /\ after.lost \subseteq lost \cup uncommitted
         /\ rows[target] \cup uncommitted \cup lost
              \subseteq after.rows[target] \cup after.open \cup after.lost
<1>1. Committed \in [Databases -> SUBSET Contacts]
      /\ Committed[target] = rows[target] \cup uncommitted
  BY DEF Committed, RowsOK
<1>2. CASE after = [rows |-> Committed, open |-> {}, lost |-> lost]
  BY <1>1, <1>2
<1>3. CASE after = [rows |-> rows, open |-> uncommitted, lost |-> lost]
  BY <1>3 DEF RowsOK
<1>4. CASE after = [rows |-> rows, open |-> {}, lost |-> lost \cup uncommitted]
  BY <1>4 DEF RowsOK
<1> QED BY <1>2, <1>3, <1>4 DEF Commits

LEMMA CommitKeepsJob ==
  ASSUME JobInv, RowsOK, LocksInv, WorkerCommits \/ WorkerEnds
  PROVE  JobInv' /\ RowsOK'
<1>1. /\ phase = "inserting"
      /\ UNCHANGED <<target, todo, counted, errors, canceled, file>>
  BY DEF WorkerCommits, WorkerEnds
<1>2. target \in Databases
  BY <1>1 DEF LocksInv, LocksTypeOK, ImportStaysWithLog
<1>3. uncommitted \subseteq Contacts /\ lost \subseteq Contacts
  BY DEF JobInv, JobTypeOK
<1>4. CASE WorkerCommits
  <2>1. PICK after \in Commits : rows' = after.rows /\ uncommitted' = after.open
                                     /\ lost' = after.lost
    BY <1>4 DEF WorkerCommits
  <2>2. phase' = phase /\ sinceCommit' = 0 /\ inTransaction' \in BOOLEAN
    BY <1>4 DEF WorkerCommits
  <2>3. JobTypeOK' /\ RowsOK'
    BY <1>1, <1>2, <1>3, <2>1, <2>2, CommitMoves DEF JobInv, JobTypeOK, RowsOK
  <2>4. CountedIsThere'
    BY <1>1, <1>2, <1>3, <2>1, <2>2, CommitMoves DEF JobInv, CountedIsThere
  <2>5. FileIsAccounted'
    BY <1>1, <2>2 DEF JobInv, FileIsAccounted
  <2> QED BY <1>1, <2>2, <2>3, <2>4, <2>5 DEF JobInv, NothingHeld, NothingCounted
<1>5. CASE WorkerEnds
  <2>1. PICK after \in Commits : rows' = after.rows /\ lost' = after.lost \cup after.open
    BY <1>5 DEF WorkerEnds
  <2>2. /\ todo = <<>> \/ canceled
        /\ phase' = "done" /\ uncommitted' = {} /\ UNCHANGED <<sinceCommit, inTransaction>>
    BY <1>5 DEF WorkerEnds
  <2>3. JobTypeOK' /\ RowsOK'
    BY <1>1, <1>2, <1>3, <2>1, <2>2, CommitMoves DEF JobInv, JobTypeOK, RowsOK
  <2>4. CountedIsThere'
    BY <1>1, <1>2, <1>3, <2>1, <2>2, CommitMoves DEF JobInv, CountedIsThere
  <2>5. FileIsAccounted'
    <3>1. todo = <<>> => Elements(todo) = {}
      BY DEF Elements
    <3> QED BY <1>1, <2>2, <3>1 DEF JobInv, FileIsAccounted
  <2> QED BY <2>2, <2>3, <2>4, <2>5 DEF JobInv, NothingHeld, NothingCounted
<1> QED BY <1>4, <1>5

LEMMA CancelKeepsJob ==
  ASSUME JobInv, CancelImport
  PROVE  JobInv'
<1>1. /\ canceled' = TRUE
      /\ UNCHANGED <<rows, phase, target, todo, uncommitted, sinceCommit, inTransaction,
                     counted, errors, lost, file>>
  BY DEF CancelImport, store, progress
<1>2. JobTypeOK' /\ NothingHeld' /\ NothingCounted' /\ CountedIsThere'
  BY <1>1 DEF JobInv, JobTypeOK, NothingHeld, NothingCounted, CountedIsThere
<1>3. FileIsAccounted'
  BY <1>1 DEF JobInv, FileIsAccounted, Elements
<1> QED BY <1>2, <1>3 DEF JobInv

LEMMA FinishedKeepsJob ==
  ASSUME ImportFinished
  PROVE  JobInv'
<1>1. DropJob
  BY DEF ImportFinished
<1>2. 0 \in 0..BatchSize /\ <<>> \in Seq(Contacts)
  OBVIOUS
<1> QED BY <1>1, <1>2 DEF DropJob, JobInv, JobTypeOK, NothingHeld, NothingCounted,
                         CountedIsThere, FileIsAccounted

----------------------------------------------------------------------------
(* The copy                                                                *)

LEMMA OthersKeepCopy ==
  ASSUME CopyInv, UNCHANGED migration, page = "none" \/ UNCHANGED <<rows, active>>
  PROVE  CopyInv'
<1>1. UNCHANGED <<page, dest, offered, left, failed, done, switch, mixed>>
  BY DEF migration
<1>2. CopyTypeOK' /\ CopyIsFresh'
  BY <1>1 DEF CopyInv, CopyTypeOK, CopyIsFresh
<1>3. CopyStartsClean' /\ CopyIsComplete'
  BY <1>1 DEF CopyInv, CopyStartsClean, CopyIsComplete
<1> QED BY <1>2, <1>3 DEF CopyInv

(* The dialog's pages before and after the copy write nothing. *)
LEMMA PagesKeepCopy ==
  ASSUME CopyInv, OnMigrateDatabase \/ OnBack \/ OnMigrateFails \/ ToggleSwitch
  PROVE  CopyInv' /\ UNCHANGED rows
<1>1. CASE OnMigrateDatabase
  BY <1>1 DEF OnMigrateDatabase, CopyInv, CopyTypeOK, CopyIsFresh, CopyStartsClean,
              CopyIsComplete
<1>2. CASE OnBack
  BY <1>2 DEF OnBack, store, CopyInv, CopyTypeOK, CopyIsFresh, CopyStartsClean, CopyIsComplete
<1>3. CASE OnMigrateFails
  BY <1>3 DEF OnMigrateFails, store, hold, CopyInv, CopyTypeOK, CopyIsFresh, CopyStartsClean,
              CopyIsComplete
<1>4. CASE ToggleSwitch
  BY <1>4 DEF ToggleSwitch, store, hold, CopyInv, CopyTypeOK, CopyIsFresh, CopyStartsClean,
              CopyIsComplete
<1> QED BY <1>1, <1>2, <1>3, <1>4

LEMMA DryRunKeepsCopy ==
  ASSUME CopyInv, RowsOK, NEW database \in Databases, OnDryRun(database)
  PROVE  CopyInv' /\ UNCHANGED rows
<1>1. /\ page = "configure"
      /\ page' = "dryRun" /\ dest' = database /\ offered' \in BOOLEAN
      /\ UNCHANGED <<rows, active, left, failed, done, switch>>
  BY DEF OnDryRun, store, hold
<1>2. rows[database] \subseteq mixed' /\ mixed' \subseteq Contacts
  BY DEF OnDryRun, MayFill, RowsOK
<1>3. CopyTypeOK' /\ CopyIsFresh' /\ CopyIsComplete'
  BY <1>1, <1>2 DEF CopyInv, CopyTypeOK, CopyIsFresh, CopyIsComplete
<1>4. CopyStartsClean'
  BY <1>1, <1>2 DEF CopyStartsClean
<1> QED BY <1>1, <1>3, <1>4 DEF CopyInv

LEMMA MigrateKeepsCopy ==
  ASSUME CopyInv, RowsOK, LocksInv, OnMigrate
  PROVE  CopyInv' /\ UNCHANGED rows
<1>1. /\ page = "dryRun" /\ page' = "copying" /\ left' = rows[active]
      /\ UNCHANGED <<rows, active, dest, offered, failed, done, switch, mixed>>
  BY DEF OnMigrate, store, hold
<1>2. active \in Databases
  BY <1>1 DEF LocksInv, LocksTypeOK, MigrationHasLog
<1>3. CopyTypeOK' /\ CopyIsFresh'
  BY <1>1, <1>2 DEF CopyInv, CopyTypeOK, CopyIsFresh, RowsOK
<1>4. CopyStartsClean' /\ CopyIsComplete'
  BY <1>1 DEF CopyInv, CopyStartsClean, CopyIsFresh, CopyIsComplete
<1> QED BY <1>1, <1>3, <1>4 DEF CopyInv

LEMMA CopyNextKeepsCopy ==
  ASSUME CopyInv, RowsOK, LocksInv, NEW contact \in Contacts, CopyNext(contact)
  PROVE  CopyInv' /\ RowsOK'
<1>1. /\ page = "copying" /\ contact \in left /\ left' = left \ {contact}
      /\ UNCHANGED <<active, page, dest, offered, done, switch, mixed>>
  BY DEF CopyNext, hold
<1>2. active \in Databases /\ dest \in Databases
  BY <1>1 DEF LocksInv, LocksTypeOK, MigrationHasLog, CopyInv, CopyTypeOK
<1>3. contact \in rows[active] /\ ~done
  BY <1>1 DEF CopyInv, CopyIsComplete
<1>4. CASE rows' = [rows EXCEPT ![dest] = @ \cup {contact}] /\ UNCHANGED failed
  <2>1. RowsOK' /\ rows'[dest] = rows[dest] \cup {contact} /\ rows'[active] = rows[active]
    BY <1>2, <1>3, <1>4 DEF RowsOK
  <2>2. CopyTypeOK' /\ CopyIsFresh'
    BY <1>1, <1>4 DEF CopyInv, CopyTypeOK, CopyIsFresh
  <2>3. CopyStartsClean' /\ CopyIsComplete'
    BY <1>1, <1>3, <1>4, <2>1 DEF CopyInv, CopyStartsClean, CopyIsComplete
  <2> QED BY <2>1, <2>2, <2>3 DEF CopyInv
<1>5. CASE failed' = failed \cup {contact} /\ UNCHANGED rows
  <2>1. CopyTypeOK' /\ CopyIsFresh' /\ RowsOK'
    BY <1>1, <1>5 DEF CopyInv, CopyTypeOK, CopyIsFresh, RowsOK
  <2>2. CopyStartsClean' /\ CopyIsComplete'
    BY <1>1, <1>3, <1>5 DEF CopyInv, CopyStartsClean, CopyIsComplete
  <2> QED BY <2>1, <2>2 DEF CopyInv
<1> QED BY <1>4, <1>5 DEF CopyNext

LEMMA CopyEndsKeepsCopy ==
  ASSUME CopyInv, CopyEnds
  PROVE  CopyInv' /\ UNCHANGED rows
<1>1. /\ page = "copying" /\ left = {} /\ page' = "result" /\ done' = TRUE
      /\ switch' \in BOOLEAN
      /\ UNCHANGED <<rows, active, dest, offered, left, failed, mixed>>
  BY DEF CopyEnds, store, hold
<1>2. CopyTypeOK' /\ CopyIsFresh'
  BY <1>1 DEF CopyInv, CopyTypeOK, CopyIsFresh
<1>3. CopyStartsClean' /\ CopyIsComplete'
  BY <1>1 DEF CopyInv, CopyStartsClean, CopyIsComplete
<1> QED BY <1>1, <1>2, <1>3 DEF CopyInv

LEMMA UnlockKeepsCopy ==
  ASSUME NEW database, Unlock(database)
  PROVE  CopyInv'
BY DEF Unlock, CopyInv, CopyTypeOK, CopyIsFresh, CopyStartsClean, CopyIsComplete

LEMMA CloseKeepsCopy ==
  ASSUME CopyInv, CloseMigrate \/ DismissError
  PROVE  CopyInv' /\ UNCHANGED rows
<1>1. UNCHANGED rows
  BY DEF CloseMigrate, DismissError
<1>2. CASE \E database : Unlock(database)
  BY <1>1, <1>2, UnlockKeepsCopy
<1>3. CASE /\ page' = "error"
           /\ UNCHANGED <<dest, offered, left, failed, done, switch, mixed>>
  BY <1>1, <1>3 DEF CopyInv, CopyTypeOK, CopyIsFresh, CopyStartsClean, CopyIsComplete
<1> QED BY <1>1, <1>2, <1>3 DEF CloseMigrate, SwitchBackend, DismissError

----------------------------------------------------------------------------
(* All of it                                                               *)

(* A step of the operator or of WSJT-X: only while no copy is made. *)
LEMMA WindowStep ==
  ASSUME IInv, UNCHANGED <<job, migration>>, RowsOK', LocksInv', air' \subseteq Datagrams,
         page = "none" \/ UNCHANGED <<rows, active>>,
         phase = "none" \/ rows[target] \subseteq rows'[target]
  PROVE  IInv'
BY OthersKeepJob, OthersKeepCopy DEF IInv

LEMMA QsoReadyStep ==
  ASSUME IInv, NEW contact \in Contacts, OnQsoReady(contact), page = "none",
         UNCHANGED <<hold, locks, listening, job, migration>>, air' \subseteq Datagrams
  PROVE  IInv'
<1>1. RowsOK' /\ \A d \in Databases : rows[d] \subseteq rows'[d]
  BY QsoReadyAdds DEF IInv
<1>2. phase = "none" \/ target \in Databases
  BY DEF IInv, LocksInv, LocksTypeOK, ImportStaysWithLog
<1>3. LocksInv'
  BY UntouchedLocks DEF IInv, job, migration
<1> QED BY <1>1, <1>2, <1>3, WindowStep

(* A step of the import: there is no migration then. *)
LEMMA ImportStep ==
  ASSUME IInv, phase # "none", JobInv', RowsOK', LocksInv', UNCHANGED <<migration, air>>
  PROVE  IInv'
<1>1. page = "none"
  BY DEF IInv, LocksInv, WritersExclude
<1> QED BY <1>1, OthersKeepCopy DEF IInv

(* A step of the migration: there is no import then. *)
LEMMA DialogStep ==
  ASSUME IInv, phase = "none", CopyInv', RowsOK', LocksInv', UNCHANGED <<job, air>>
  PROVE  IInv'
BY OthersKeepJob DEF IInv

LEMMA Initially == Init => IInv
<1> SUFFICES ASSUME Init PROVE IInv
  OBVIOUS
<1> USE DEF Init, InitStore, NoJob, NoMigration
<1>1. active \in Databases \cup {NoDatabase} /\ listening \in BOOLEAN
      /\ (listening \/ May("bind"))
  BY DEF May
<1>2. LocksTypeOK /\ ActionsComeBack
  BY <1>1, AllButWithheld DEF LocksTypeOK, ActionsComeBack
<1>3. WritersExclude /\ ImportStaysWithLog /\ ListenerRuns /\ MigrationHasLog
  BY <1>1 DEF WritersExclude, ImportStaysWithLog, ListenerRuns, MigrationHasLog
<1>4. RowsOK
  BY DEF RowsOK
<1>5. JobInv
  <2>1. 0 \in 0..BatchSize /\ <<>> \in Seq(Contacts)
    OBVIOUS
  <2> QED BY <2>1 DEF JobInv, JobTypeOK, NothingHeld, NothingCounted, CountedIsThere,
                      FileIsAccounted
<1>6. CopyInv
  BY DEF CopyInv, CopyTypeOK, CopyIsFresh, CopyStartsClean, CopyIsComplete
<1> QED BY <1>2, <1>3, <1>4, <1>5, <1>6 DEF IInv, LocksInv

LEMMA Inductive == IInv /\ [Next]_vars => IInv'
<1> SUFFICES ASSUME IInv, [Next]_vars PROVE IInv'
  OBVIOUS
<1> USE DEF IInv
<1>1. ASSUME NEW c \in Contacts, LogContact(c) PROVE IInv'
  BY <1>1, QsoReadyStep DEF LogContact, InputFree
<1>2. CASE NewLog
  <2>1. page = "none" /\ phase = "none"
    BY <1>2 DEF NewLog, InputFree, LocksInv, LocksTypeOK, WritersExclude
  <2>2. LocksInv' /\ RowsOK'
    BY <1>2, UntouchedLocks DEF NewLog, job, migration, RowsOK
  <2> QED BY <1>2, <2>1, <2>2, WindowStep DEF NewLog
<1>3. CASE Restart
  <2>1. page = "none" /\ phase = "none" /\ RowsOK'
    BY <1>3 DEF Restart, InputFree, RowsOK
  <2> QED BY <1>3, <2>1, RestartKeepsLocks, WindowStep DEF Restart
<1>4. ASSUME NEW d \in Databases, ChangeSettings(d) PROVE IInv'
  <2>1. page = "none" /\ RowsOK' /\ UNCHANGED rows
    BY <1>4 DEF ChangeSettings, InputFree, RowsOK
  <2> QED BY <1>4, <2>1, SettingsKeepLocks, WindowStep DEF ChangeSettings
<1>5. ASSUME NEW f \in Files, Import(f) PROVE IInv'
  <2>1. StartImport(f) /\ page = "none" /\ UNCHANGED <<rows, page>>
    BY <1>5 DEF Import, InputFree, migration, StartImport
  <2>2. LocksInv' /\ JobInv' /\ RowsOK'
    BY <2>1, ImportKeepsLocks, StartKeepsJob DEF RowsOK
  <2> QED BY <1>5, <2>1, <2>2, OthersKeepCopy DEF Import
<1>6. CASE Cancel
  <2>1. phase # "none" /\ UNCHANGED <<store, phase, target, page>>
    BY <1>6 DEF Cancel, CancelImport, migration
  <2>2. LocksInv' /\ RowsOK'
    BY <2>1, UntouchedLocks DEF store, RowsOK
  <2> QED BY <1>6, <2>1, <2>2, CancelKeepsJob, ImportStep DEF Cancel
<1>7. CASE Worker
  <2>1. /\ phase # "none" /\ phase' \in {"inserting", "done"}
        /\ UNCHANGED <<hold, locks, listening, target, page>>
    BY <1>7 DEF Worker, WorkerRuns, WorkerOpens, WorkerInserts, WorkerCommits, WorkerEnds,
                store, migration
  <2>2. LocksInv'
    BY <2>1, NextStageKeepsLocks DEF LocksInv, LocksTypeOK
  <2>3. JobInv' /\ RowsOK'
    BY <1>7, OpenKeepsJob, InsertKeepsJob, CommitKeepsJob DEF Worker, WorkerRuns
  <2> QED BY <1>7, <2>1, <2>2, <2>3, ImportStep DEF Worker
<1>8. CASE Finished
  <2>1. phase # "none" /\ UNCHANGED <<page, rows>>
    BY <1>8 DEF Finished, ImportFinished, migration
  <2>2. LocksInv' /\ JobInv' /\ RowsOK'
    BY <1>8, <2>1, FinishedKeepsLocks, FinishedKeepsJob DEF Finished, RowsOK
  <2> QED BY <1>8, <2>1, <2>2, ImportStep DEF Finished
<1>9. CASE Dialog
  <2>1. UNCHANGED <<phase, target>> /\ UNCHANGED <<job, air>>
    BY <1>9 DEF Dialog, job
  <2>2. phase = "none"
    BY <1>9 DEF Dialog, OnMigrateDatabase, MayMigrate, OnBack, OnMigrate, OnMigrateFails,
       CopyEnds, ToggleSwitch, CloseMigrate, DismissError, OnDryRun, CopyNext, LocksInv,
       WritersExclude
  <2>3. CASE OnMigrateDatabase
    BY <2>1, <2>2, <2>3, MigrateKeepsLocks, PagesKeepCopy, DialogStep DEF RowsOK
  <2>4. CASE CloseMigrate
    BY <2>1, <2>2, <2>4, CloseKeepsLocks, CloseKeepsCopy, DialogStep DEF RowsOK
  <2>5. CASE DismissError
    BY <2>1, <2>2, <2>5, DismissKeepsLocks, CloseKeepsCopy, DialogStep DEF RowsOK
  <2>6. CASE ~OnMigrateDatabase /\ ~CloseMigrate /\ ~DismissError
    <3>1. /\ UNCHANGED <<hold, locks, listening>>
          /\ page \in {"configure", "dryRun", "copying", "result"}
          /\ page' \in {"configure", "dryRun", "copying", "result"}
      BY <1>9, <2>6 DEF Dialog, OnBack, OnMigrate, OnMigrateFails, CopyEnds, ToggleSwitch,
         OnDryRun, CopyNext, store
    <3>2. LocksInv'
      BY <2>1, <3>1, NextStageKeepsLocks DEF LocksInv, LocksTypeOK
    <3>3. CopyInv' /\ RowsOK'
      BY <1>9, <2>6, PagesKeepCopy, DryRunKeepsCopy, MigrateKeepsCopy, CopyNextKeepsCopy,
         CopyEndsKeepsCopy DEF Dialog, RowsOK
    <3> QED BY <2>1, <2>2, <3>2, <3>3, DialogStep
  <2> QED BY <2>3, <2>4, <2>5, <2>6
<1>10. ASSUME NEW c \in LiveContacts, WsjtxLogs(c) PROVE IInv'
  <2>1. UNCHANGED <<rows, active, hold, locks, listening, phase, target, page>>
    BY <1>10 DEF WsjtxLogs, store, hold, job, migration
  <2>2. air' \subseteq Datagrams
    BY <1>10 DEF WsjtxLogs, Announce, Datagrams
  <2> QED BY <1>10, <2>1, <2>2, UntouchedLocks, WindowStep DEF WsjtxLogs, RowsOK
<1>11. ASSUME NEW d \in Datagrams, Lose(d) PROVE IInv'
  <2>1. UNCHANGED <<rows, active, hold, locks, listening, phase, target, page>>
    BY <1>11 DEF Lose, store, hold, job, migration
  <2>2. air' \subseteq Datagrams
    BY <1>11 DEF Lose
  <2> QED BY <1>11, <2>1, <2>2, UntouchedLocks, WindowStep DEF Lose, RowsOK
<1>12. ASSUME NEW d \in Datagrams, OnDatagramReady(d) PROVE IInv'
  <2>1. /\ page = "none" \/ active = NoDatabase
        /\ air' \subseteq Datagrams /\ d.contact \in Contacts
        /\ UNCHANGED <<hold, locks, listening, job, migration>>
    BY <1>12 DEF OnDatagramReady, LocksInv, WritersExclude, Datagrams
  <2>2. CASE d.kind = "loggedAdif" /\ active # NoDatabase
    BY <1>12, <2>1, <2>2, QsoReadyStep DEF OnDatagramReady
  <2>3. CASE d.kind # "loggedAdif" \/ active = NoDatabase
    <3>1. UNCHANGED <<rows, active, phase, target, page>>
      BY <1>12, <2>1, <2>3 DEF OnDatagramReady, OnQsoReady, job, migration, hold
    <3> QED BY <2>1, <3>1, UntouchedLocks, WindowStep DEF RowsOK
  <2> QED BY <2>2, <2>3
<1>13. CASE UNCHANGED vars
  <2>1. UNCHANGED <<rows, active, hold, locks, listening, phase, target, page, air, job, migration>>
    BY <1>13 DEF vars, store, hold, job, migration
  <2> QED BY <2>1, UntouchedLocks, WindowStep DEF RowsOK
<1> QED
  BY <1>1, <1>2, <1>3, <1>4, <1>5, <1>6, <1>7, <1>8, <1>9, <1>10, <1>11, <1>12, <1>13
  DEF Next

(* The invariant of the writers holds always. *)
THEOREM Invariance == Spec => []IInv
BY Initially, Inductive, PTL DEF Spec

(* Every variable keeps its type, for any databases, contacts, files and batches. *)
THEOREM TypeCorrectness == Spec => []TypeOK
<1>1. IInv => TypeOK
  BY DEF IInv, LocksInv, LocksTypeOK, RowsOK, JobInv, JobTypeOK, CopyInv, CopyTypeOK, TypeOK
<1> QED BY <1>1, Invariance, PTL

(* The two locks keep the import and the migration apart (setImportLock,
   setMigrationLock). *)
THEOREM Exclusion == Spec => []WritersExclude
<1>1. IInv => WritersExclude
  BY DEF IInv, LocksInv
<1> QED BY <1>1, Invariance, PTL

(* The actions and the listener that a lock has taken away are there again when
   it is off (setImportLock, setMigrationLock). *)
THEOREM LocksComeOff == Spec => []ActionsComeBack
<1>1. IInv => ActionsComeBack
  BY DEF IInv, LocksInv
<1> QED BY <1>1, Invariance, PTL

(* The summary of an import is true of the log that is open, but for contacts of a
   batch whose commit failed: its result is not looked at (runAdifImport). *)
THEOREM ImportReports == Spec => []ImportIsReported
<1>1. IInv => ImportIsReported
  BY DEF IInv, LocksInv, ImportStaysWithLog, JobInv, CountedIsThere, FileIsAccounted,
     ImportIsReported
<1> QED BY <1>1, Invariance, PTL

(* A copy holds nothing but the log it is made of and what the target held when a
   count of its contacts failed, which is taken for an empty target. *)
THEOREM CopyIsClean == Spec => []CopyIsOfLog
<1>1. IInv => CopyIsOfLog
  BY DEF IInv, CopyInv, CopyStartsClean, CopyIsOfLog
<1> QED BY <1>1, Invariance, PTL

(* A switch to the copy loses no contact but those reported as errors, whatever fails. *)
THEOREM SwitchSafety == Spec => SwitchKeepsLog
<1>1. ASSUME IInv, [Next]_vars
      PROVE  [page # "none" /\ active' # active /\ active' # NoDatabase
                => rows[active] \ failed \subseteq rows'[active']]_vars
  <2>1. SUFFICES ASSUME Next, page # "none", active' # active, active' # NoDatabase
                 PROVE  rows[active] \ failed \subseteq rows'[active']
    BY <1>1
  <2>2. phase = "none" \/ page = "none"
    BY <1>1 DEF IInv, LocksInv, WritersExclude
  <2>3. CloseMigrate
    BY <2>1, <2>2 DEF Next, LogContact, NewLog, Restart, ChangeSettings, Import, InputFree,
       Cancel, CancelImport, Worker, WorkerRuns, WorkerOpens, WorkerInserts, WorkerCommits,
       WorkerEnds, Finished, ImportFinished, Dialog, OnMigrateDatabase, OnBack, OnMigrate,
       OnMigrateFails, CopyEnds, ToggleSwitch, DismissError, OnDryRun, CopyNext, WsjtxLogs,
       Lose, OnDatagramReady, store, hold
  <2>4. /\ active' = dest /\ done /\ UNCHANGED rows
        /\ page \in {"configure", "dryRun", "result"}
    BY <2>1, <2>3 DEF CloseMigrate, ShouldSwitchBackend, SwitchBackend, OpenDefaultDatabase, hold
  <2> QED BY <1>1, <2>4 DEF IInv, CopyInv, CopyIsFresh, CopyIsComplete
<1> QED BY <1>1, Invariance, PTL DEF Spec, SwitchKeepsLog

==============================================================================
