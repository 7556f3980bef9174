--------------------------- MODULE LogTable_proofs ---------------------------
(***************************************************************************)
(* LogTable for any keys, contents, filters, faults and number of ids.     *)
(* The invariants support each other: a batch delete stays on course       *)
(* because the rows it has not reached are above the row it removes        *)
(* (DialogShowsTable, DeletionOnCourse), and removing a row from the table *)
(* and the contact it shows from the log keeps the two the same because    *)
(* no contact is shown twice (TableMirrorsLog).                            *)
(***************************************************************************)
EXTENDS LogTable, FiniteSetTheorems, TLAPS

(* What a dialog holds is what its rows still show, as long as the table has not changed
   under it: the link from the moment a dialog opens to the moment it is answered. *)
DialogShowsTable ==
  /\ modal.kind \in {"edit", "deleteOne"} => \E row \in Nat : modal.rows = {row}
  /\ modal.kind \in {"edit", "deleteOne", "deleteMany"} /\ ~modal.moved =>
       /\ modal.rows \subseteq DOMAIN table
       /\ modal.held = {table[i] : i \in modal.rows}

Inv ==
  /\ TypeOK
  /\ LogIsKeyed
  /\ TableMirrorsLog
  /\ DialogShowsTable
  /\ DeletionOnCourse
  /\ FilterIsPending

----------------------------------------------------------------------------
(* Lemmas about the table                                                  *)

(* Removing row i keeps a table a table, one row shorter. *)
LEMMA WithoutType ==
  ASSUME NEW t \in Seq(Row), NEW i \in DOMAIN t
  PROVE  /\ Without(t, i) \in Seq(Row)
         /\ DOMAIN Without(t, i) = 1..(Len(t) - 1)
         /\ \A j \in 1..(Len(t) - 1) : Without(t, i)[j] = IF j < i THEN t[j] ELSE t[j + 1]
<1> DEFINE n == Len(t) - 1
<1>1. n \in Nat /\ DOMAIN t = 1..Len(t)
  OBVIOUS
<1>2. \A j \in 1..n : (IF j < i THEN t[j] ELSE t[j + 1]) \in Row
  BY <1>1
<1>3. Without(t, i) \in [1..n -> Row]
  BY <1>2 DEF Without
<1>4. Without(t, i) \in Seq(Row)
  BY <1>1, <1>3
<1>5. QED
  BY <1>3, <1>4 DEF Without

(* The rows that stay are the rows other than i, in their order. *)
LEMMA WithoutRows ==
  ASSUME NEW t \in Seq(Row), NEW i \in DOMAIN t
  PROVE  /\ \A j \in DOMAIN Without(t, i) :
              \E k \in DOMAIN t : k # i /\ Without(t, i)[j] = t[k]
         /\ \A k \in DOMAIN t : k # i =>
              \E j \in DOMAIN Without(t, i) : Without(t, i)[j] = t[k]
<1>0. /\ DOMAIN Without(t, i) = 1..(Len(t) - 1)
      /\ \A j \in 1..(Len(t) - 1) : Without(t, i)[j] = IF j < i THEN t[j] ELSE t[j + 1]
  BY WithoutType
<1>1. DOMAIN t = 1..Len(t) /\ Len(t) \in Nat /\ i \in 1..Len(t)
  OBVIOUS
<1>2. ASSUME NEW j \in DOMAIN Without(t, i)
      PROVE  \E k \in DOMAIN t : k # i /\ Without(t, i)[j] = t[k]
  <2>1. j \in 1..(Len(t) - 1)
    BY <1>2, <1>0
  <2>2. CASE j < i
    <3>1. j \in DOMAIN t /\ j # i
      BY <1>1, <2>1, <2>2
    <3>2. Without(t, i)[j] = t[j]
      BY <2>1, <2>2, <1>0
    <3>3. QED
      BY <3>1, <3>2
  <2>3. CASE ~(j < i)
    <3>1. j + 1 \in DOMAIN t /\ j + 1 # i
      BY <1>1, <2>1, <2>3
    <3>2. Without(t, i)[j] = t[j + 1]
      BY <1>0, <2>1, <2>3
    <3>3. QED
      BY <3>1, <3>2
  <2>4. QED
    BY <2>2, <2>3
<1>3. ASSUME NEW k \in DOMAIN t, k # i
      PROVE  \E j \in DOMAIN Without(t, i) : Without(t, i)[j] = t[k]
  <2>1. CASE k < i
    <3>1. k \in DOMAIN Without(t, i) /\ Without(t, i)[k] = t[k]
      BY <1>1, <2>1, <1>0
    <3>2. QED
      BY <3>1
  <2>2. CASE ~(k < i)
    <3>1. k - 1 \in 1..(Len(t) - 1) /\ ~(k - 1 < i) /\ k - 1 + 1 = k
      BY <1>1, <1>3, <2>2
    <3>2. Without(t, i)[k - 1] = t[k]
      BY <1>0, <3>1
    <3>3. QED
      BY <1>0, <3>1, <3>2
  <2>3. QED
    BY <2>1, <2>2
<1>4. QED
  BY <1>2, <1>3

(* A table that shows no id twice still shows none twice with a row removed. *)
LEMMA WithoutDistinct ==
  ASSUME NEW t \in Seq(Row), NEW i \in DOMAIN t,
         \A j, k \in DOMAIN t : t[j].id = t[k].id => j = k
  PROVE  \A j, k \in DOMAIN Without(t, i) :
           Without(t, i)[j].id = Without(t, i)[k].id => j = k
<1> DEFINE old(j) == IF j < i THEN j ELSE j + 1
<1>1. ASSUME NEW j \in DOMAIN Without(t, i)
      PROVE  j \in Int /\ old(j) \in DOMAIN t /\ Without(t, i)[j] = t[old(j)]
  <2>1. j \in 1..(Len(t) - 1) /\ DOMAIN t = 1..Len(t) /\ Len(t) \in Nat /\ i \in 1..Len(t)
    BY WithoutType
  <2>2. QED
    BY <2>1, WithoutType
<1>2. ASSUME NEW j \in DOMAIN Without(t, i), NEW k \in DOMAIN Without(t, i),
             Without(t, i)[j].id = Without(t, i)[k].id
      PROVE  j = k
  <2>1. old(j) = old(k)
    BY <1>1, <1>2
  <2>2. i \in Int /\ j \in Int /\ k \in Int
    BY <1>1
  <2>3. QED
    BY <2>1, <2>2
<1>3. QED
  BY <1>2

(* A new contact in front: the old rows move down by one. *)
LEMMA PrependRows ==
  ASSUME NEW t \in Seq(Row), NEW r \in Row
  PROVE  /\ <<r>> \o t \in Seq(Row)
         /\ DOMAIN (<<r>> \o t) = 1..(Len(t) + 1)
         /\ (<<r>> \o t)[1] = r
         /\ \A i \in 1..Len(t) : (<<r>> \o t)[i + 1] = t[i]
OBVIOUS

(* What a reload shows: the matching rows of a keyed log, each once. *)
LEMMA FetchIsFaithful ==
  ASSUME NEW rows \in SUBSET Row, IsFiniteSet(rows), NEW f,
         \A r, s \in rows : r.id = s.id \/ r.key = s.key => r = s,
         NEW t \in FetchQsos(rows, f)
  PROVE  /\ t \in Seq(Row)
         /\ \A i \in DOMAIN t : t[i] \in rows
         /\ \A i, j \in DOMAIN t : t[i].id = t[j].id => i = j
         /\ \A r \in Matching(rows, f) : \E i \in DOMAIN t : t[i] = r
<1> DEFINE found == Matching(rows, f)
           n     == Cardinality(found)
<1>1. found \subseteq rows
  BY DEF Matching
<1>2. n \in Nat
  BY <1>1, FS_Subset, FS_CardinalityType
<1>3. /\ t \in [1..n -> found]
      /\ \A i, j \in 1..n : i < j => t[i].key > t[j].key
      /\ \A r \in found : \E i \in 1..n : t[i] = r
  BY DEF FetchQsos
<1>4. t \in Seq(Row)
  BY <1>1, <1>2, <1>3
<1>5. ASSUME NEW i \in 1..n, NEW j \in 1..n, t[i].id = t[j].id
      PROVE  i = j
  <2>1. t[i] \in rows /\ t[j] \in rows
    BY <1>1, <1>3
  <2>2. t[i] = t[j]
    BY <1>5, <2>1
  <2>3. t[i].key \in Nat /\ t[j].key \in Nat
    BY <2>1, LogTableAssumption DEF Row
  <2>4. ~(t[i].key > t[j].key) /\ ~(t[j].key > t[i].key)
    BY <2>2, <2>3
  <2>5. ~(i < j) /\ ~(j < i)
    BY <1>3, <2>4
  <2>6. QED
    BY <1>2, <2>5
<1>6. QED
  BY <1>1, <1>3, <1>4, <1>5
----------------------------------------------------------------------------
(* The invariant, initially and step by step                               *)

LEMMA InitInv == Init => Inv
<1> SUFFICES ASSUME Init PROVE Inv
  OBVIOUS
<1>1. TypeOK
  <2>1. NoModal \in Modal
    BY DEF NoModal, Modal, Kinds
  <2>2. IsFiniteSet(db)
    BY FS_EmptySet DEF Init
  <2>3. nextId \in 1..(MaxId + 1) /\ table \in Seq(Row)
    BY LogTableAssumption DEF Init
  <2>4. QED
    BY <2>1, <2>2, <2>3, LogTableAssumption DEF Init, TypeOK
<1>2. LogIsKeyed /\ TableMirrorsLog
  BY DEF Init, LogIsKeyed, TableMirrorsLog, Matching
<1>3. DialogShowsTable /\ DeletionOnCourse /\ FilterIsPending
  BY DEF Init, DialogShowsTable, DeletionOnCourse, FilterIsPending, NoModal
<1>4. QED
  BY <1>1, <1>2, <1>3 DEF Inv

(* A dialog whose table moved is still a dialog, and nothing is claimed of its rows. *)
LEMMA StirredModal ==
  ASSUME NEW m \in Modal
  PROVE  /\ Stirred(m) \in Modal
         /\ Stirred(m).kind = m.kind
         /\ Stirred(m).rows = m.rows
         /\ m.kind # "none" => Stirred(m).moved
BY DEF Stirred, Modal

(* A contact logged, by hand or from a datagram. *)
LEMMA OnQsoReadyInv ==
  ASSUME Inv, NEW key \in Keys, NEW val \in Vals, OnQsoReady(key, val), modal.kind # "deleting"
  PROVE  Inv'
<1> DEFINE qso == [id |-> nextId, key |-> key, val |-> val]
<1> USE DEF Inv
<1>1. /\ qso \in Row
      /\ db' = db \cup {qso} /\ nextId' = nextId + 1 /\ nextId' \in 1..(MaxId + 1)
      /\ table' = <<qso>> \o table
      /\ modal' = Stirred(modal)
      /\ UNCHANGED <<filter, debounce, fetched, suspect>>
  BY LogTableAssumption DEF OnQsoReady, TypeOK, Row, bar, history
<1>2. /\ table' \in Seq(Row) /\ DOMAIN table' = 1..(Len(table) + 1) /\ Len(table) \in Nat
      /\ DOMAIN table = 1..Len(table)
      /\ table'[1] = qso
      /\ \A i \in 1..Len(table) : table'[i + 1] = table[i]
  BY <1>1, PrependRows DEF TypeOK
<1>3. modal' \in Modal /\ modal'.kind = modal.kind /\ modal'.rows = modal.rows
      /\ (modal.kind # "none" => modal'.moved)
  BY <1>1, StirredModal DEF TypeOK
<1>4. TypeOK'
  BY <1>1, <1>2, <1>3, FS_AddElement DEF TypeOK
<1>5. \A r \in db : r.id # nextId /\ r.key # key
  BY <1>1 DEF OnQsoReady, Fits, LogIsKeyed, TypeOK, Row
<1>6. LogIsKeyed'
  BY <1>1, <1>5 DEF LogIsKeyed, TypeOK, Row
<1>7. TableMirrorsLog'
  <2> SUFFICES ASSUME ~suspect
               PROVE  /\ \A i \in DOMAIN table' : table'[i] \in db'
                      /\ \A i, j \in DOMAIN table' : table'[i].id = table'[j].id => i = j
                      /\ \A r \in Matching(db', fetched) : \E i \in DOMAIN table' : table'[i] = r
    BY <1>1 DEF TableMirrorsLog
  <2>1. \A i \in DOMAIN table' : i = 1 \/ (i - 1 \in 1..Len(table) /\ table'[i] = table[i - 1])
    BY <1>2
  <2>2. \A i \in DOMAIN table' : i = 1 \/ table'[i] \in db
    BY <1>2, <2>1 DEF TableMirrorsLog
  <2>3. \A i \in DOMAIN table' : table'[i] \in db'
    BY <1>1, <1>2, <2>2
  <2>4. ASSUME NEW i \in DOMAIN table', NEW j \in DOMAIN table', table'[i].id = table'[j].id
        PROVE  i = j
    <3>1. i = 1 \/ table'[i].id # nextId
      BY <1>5, <2>2
    <3>2. j = 1 \/ table'[j].id # nextId
      BY <1>5, <2>2
    <3>3. table'[1].id = nextId
      BY <1>2
    <3>4. CASE i # 1 /\ j # 1
      <4>1. /\ i - 1 \in DOMAIN table /\ table'[i] = table[i - 1]
            /\ j - 1 \in DOMAIN table /\ table'[j] = table[j - 1]
        BY <1>2, <2>1, <3>4
      <4>2. i - 1 = j - 1
        BY <2>4, <4>1 DEF TableMirrorsLog
      <4>3. QED
        BY <1>2, <4>2
    <3>5. QED
      BY <2>4, <3>1, <3>2, <3>3, <3>4
  <2>5. ASSUME NEW r \in Matching(db', fetched)
        PROVE  \E i \in DOMAIN table' : table'[i] = r
    <3>1. CASE r = qso
      BY <1>2, <3>1
    <3>2. CASE r # qso
      <4>1. r \in Matching(db, fetched)
        BY <1>1, <3>2 DEF Matching
      <4>2. PICK i \in DOMAIN table : table[i] = r
        BY <4>1 DEF TableMirrorsLog
      <4>3. i + 1 \in DOMAIN table' /\ table'[i + 1] = r
        BY <1>2, <4>2
      <4>4. QED
        BY <4>3
    <3>3. QED
      BY <3>1, <3>2
  <2>6. QED
    BY <2>3, <2>4, <2>5
<1>8. DialogShowsTable' /\ DeletionOnCourse' /\ FilterIsPending'
  BY <1>1, <1>3 DEF DialogShowsTable, DeletionOnCourse, FilterIsPending
<1>9. QED
  BY <1>4, <1>6, <1>7, <1>8

(* A reload with the bar's new filter: afterwards the table is a fetch of the log, or the
   fetch failed. *)
LEMMA ReloadInv ==
  ASSUME Inv, ReloadLog(db, filter'), filter' \in Filters, debounce' \in BOOLEAN,
         modal.kind # "deleting", UNCHANGED <<db, nextId>>
  PROVE  Inv'
<1> USE DEF Inv
<1>1. LogIsKeyed'
  BY DEF LogIsKeyed
<1>2. CASE table' \in FetchQsos(db, filter') /\ fetched' = filter' /\ suspect' = FALSE
           /\ modal' = Stirred(modal)
  <2>1. /\ table' \in Seq(Row)
        /\ \A i \in DOMAIN table' : table'[i] \in db
        /\ \A i, j \in DOMAIN table' : table'[i].id = table'[j].id => i = j
        /\ \A r \in Matching(db, filter') : \E i \in DOMAIN table' : table'[i] = r
    BY <1>2, FetchIsFaithful DEF TypeOK, LogIsKeyed
  <2>2. modal' \in Modal /\ modal'.kind = modal.kind /\ modal'.rows = modal.rows
      /\ (modal.kind # "none" => modal'.moved)
    BY <1>2, StirredModal DEF TypeOK
  <2>3. TypeOK'
    BY <1>2, <2>1, <2>2 DEF TypeOK
  <2>4. TableMirrorsLog'
    BY <1>2, <2>1 DEF TableMirrorsLog
  <2>5. DialogShowsTable' /\ DeletionOnCourse' /\ FilterIsPending'
    BY <1>2, <2>2 DEF DialogShowsTable, DeletionOnCourse, FilterIsPending
  <2>6. QED
    BY <1>1, <2>3, <2>4, <2>5
<1>3. CASE suspect' = TRUE /\ UNCHANGED <<table, fetched, modal>>
  BY <1>1, <1>3 DEF TypeOK, TableMirrorsLog, DialogShowsTable, DeletionOnCourse, FilterIsPending
<1>4. QED
  BY <1>2, <1>3 DEF ReloadLog

(* Opening a dialog on rows of the table. *)
LEMMA OpenInv ==
  ASSUME Inv, NEW kind \in {"edit", "deleteOne", "deleteMany", "newLog"},
         NEW rows \in SUBSET (DOMAIN table), modal' = Open(kind, rows),
         kind \in {"edit", "deleteOne"} => \E row \in rows : rows = {row},
         UNCHANGED <<data, bar, history>>
  PROVE  Inv'
<1> USE DEF Inv
<1>1. UNCHANGED <<db, nextId, table, filter, debounce, fetched, suspect>>
  BY DEF data, bar, history
<1>2. /\ modal'.kind = kind /\ modal'.rows = rows /\ ~modal'.moved
      /\ modal'.held = {table[i] : i \in rows}
  BY DEF Open
<1>3. DOMAIN table \subseteq Nat /\ \A i \in rows : table[i] \in Row
  BY DEF TypeOK
<1>4. modal' \in Modal
  BY <1>3 DEF Open, Modal, Kinds
<1>5. TypeOK' /\ LogIsKeyed' /\ TableMirrorsLog' /\ FilterIsPending'
  BY <1>1, <1>4 DEF TypeOK, LogIsKeyed, TableMirrorsLog, FilterIsPending
<1>6. DialogShowsTable' /\ DeletionOnCourse'
  BY <1>1, <1>2, <1>3 DEF DialogShowsTable, DeletionOnCourse
<1>7. QED
  BY <1>5, <1>6

(* Closing a dialog and changing nothing else. *)
LEMMA CloseInv ==
  ASSUME Inv, modal' = NoModal, UNCHANGED <<data, bar, history>>
  PROVE  Inv'
<1> USE DEF Inv
<1>1. UNCHANGED <<db, nextId, table, filter, debounce, fetched, suspect>>
  BY DEF data, bar, history
<1>2. modal' \in Modal /\ modal'.kind = "none"
  BY DEF NoModal, Modal, Kinds
<1>3. QED
  BY <1>1, <1>2 DEF TypeOK, LogIsKeyed, TableMirrorsLog, FilterIsPending, DialogShowsTable,
     DeletionOnCourse

(* An edit accepted: by the id of the copy in the log, by the row in the table. *)
LEMMA AcceptEditInv ==
  ASSUME Inv, NEW key \in Keys, NEW val \in Vals, AcceptEdit(key, val)
  PROVE  Inv'
<1> USE DEF Inv
<1>1. PICK row \in modal.rows, original \in modal.held :
        LET updated == [original EXCEPT !.key = key, !.val = val]
        IN  /\ modal.kind = "edit"
            /\ Fits(updated, db)
            /\ SaveEdit(row, updated)
            /\ table' = ShowAt(table, row, updated)
            /\ modal' = NoModal
            /\ suspect' = (suspect \/ modal.moved)
            /\ UNCHANGED <<nextId, bar, fetched>>
  BY DEF AcceptEdit
<1> DEFINE updated == [original EXCEPT !.key = key, !.val = val]
<1>2. /\ original \in Row /\ updated \in Row /\ updated.id = original.id
      /\ updated.key = key
  BY DEF TypeOK, Modal, Row
<1>3. /\ Fits(updated, db) /\ db' = Updated(db, updated)
      /\ table' = ShowAt(table, row, updated)
      /\ suspect' = (suspect \/ modal.moved)
      /\ UNCHANGED <<nextId, filter, debounce, fetched>>
  BY <1>1 DEF SaveEdit, bar
<1>4. modal' \in Modal /\ modal'.kind = "none"
  BY <1>1 DEF NoModal, Modal, Kinds
<1>5. /\ db' \subseteq db \cup {updated}
      /\ \A r \in db : r.id # updated.id => r \in db'
      /\ \A r \in db' : r = updated \/ r.id # updated.id
      /\ updated \in db' => \E s \in db : s.id = updated.id
  <2>1. CASE \E s \in db : s.id = updated.id
    BY <1>3, <2>1 DEF Updated
  <2>2. CASE ~\E s \in db : s.id = updated.id
    BY <1>3, <2>2 DEF Updated
  <2>3. QED
    BY <2>1, <2>2
<1>6. TypeOK'
  <2>1. IsFiniteSet(db')
    BY <1>5, FS_AddElement, FS_Subset DEF TypeOK
  <2>2. table' \in Seq(Row)
    BY <1>2, <1>3 DEF ShowAt, TypeOK
  <2>3. QED
    BY <1>2, <1>3, <1>4, <1>5, <2>1, <2>2 DEF TypeOK
<1>7. LogIsKeyed'
  <2>1. \A r \in db' : r.id < nextId
    BY <1>3, <1>5 DEF LogIsKeyed
  <2>2. ASSUME NEW r \in db', NEW s \in db', r.id = s.id \/ r.key = s.key
        PROVE  r = s
    <3>1. CASE r = updated
      BY <1>3, <1>5, <2>2, <3>1 DEF Fits
    <3>2. CASE s = updated
      BY <1>3, <1>5, <2>2, <3>2 DEF Fits
    <3>3. CASE r # updated /\ s # updated
      BY <1>5, <2>2, <3>3 DEF LogIsKeyed
    <3>4. QED
      BY <3>1, <3>2, <3>3
  <2>3. QED
    BY <1>3, <2>1, <2>2 DEF LogIsKeyed
<1>8. TableMirrorsLog'
  <2> SUFFICES ASSUME ~suspect, ~modal.moved
               PROVE  /\ \A i \in DOMAIN table' : table'[i] \in db'
                      /\ \A i, j \in DOMAIN table' : table'[i].id = table'[j].id => i = j
                      /\ \A r \in Matching(db', fetched) : \E i \in DOMAIN table' : table'[i] = r
    BY <1>3 DEF TableMirrorsLog, TypeOK, Modal
  <2>1. row \in DOMAIN table /\ original = table[row]
    BY <1>1 DEF DialogShowsTable
  <2>2. /\ original \in db
        /\ \A i \in DOMAIN table : table[i] \in db
        /\ \A i \in DOMAIN table : table[i].id = original.id => i = row
    BY <2>1 DEF TableMirrorsLog
  <2>3. updated \in db'
    BY <1>2, <1>3, <2>2 DEF Updated
  <2>4. /\ DOMAIN table' = DOMAIN table
        /\ table'[row] = updated
        /\ \A i \in DOMAIN table : i # row => table'[i] = table[i]
    BY <1>3, <2>1 DEF ShowAt, TypeOK
  <2>5. \A i \in DOMAIN table' : table'[i] \in db'
    BY <1>2, <1>5, <2>2, <2>3, <2>4
  <2>6. \A i \in DOMAIN table' : table'[i].id = table[i].id
    BY <1>2, <2>1, <2>4
  <2>7. \A i, j \in DOMAIN table' : table'[i].id = table'[j].id => i = j
    BY <2>4, <2>6 DEF TableMirrorsLog
  <2>8. ASSUME NEW r \in Matching(db', fetched)
        PROVE  \E i \in DOMAIN table' : table'[i] = r
    <3>1. CASE r = updated
      BY <2>1, <2>4, <3>1
    <3>2. CASE r # updated
      <4>1. r \in Matching(db, fetched) /\ r.id # original.id
        BY <1>2, <1>5, <3>2 DEF Matching
      <4>2. PICK i \in DOMAIN table : table[i] = r
        BY <4>1 DEF TableMirrorsLog
      <4>3. i # row
        BY <2>1, <4>1, <4>2
      <4>4. QED
        BY <2>4, <4>2, <4>3
    <3>3. QED
      BY <3>1, <3>2
  <2>9. QED
    BY <2>5, <2>7, <2>8
<1>9. DialogShowsTable' /\ DeletionOnCourse' /\ FilterIsPending'
  BY <1>3, <1>4 DEF DialogShowsTable, DeletionOnCourse, FilterIsPending
<1>10. QED
  BY <1>6, <1>7, <1>8, <1>9

(* A contact and the row that shows it removed together: the log stays keyed, and the
   table still mirrors it if it did and shows no id twice. *)
LEMMA RemovePair ==
  ASSUME Inv, NEW row \in DOMAIN table, Remove(table[row].id), table' = Without(table, row),
         UNCHANGED <<nextId, fetched>>
  PROVE  /\ db' \subseteq Row /\ IsFiniteSet(db') /\ table' \in Seq(Row)
         /\ LogIsKeyed'
         /\ suspect' = suspect => TableMirrorsLog'
<1> USE DEF Inv
<1>1. db' = {r \in db : r.id # table[row].id}
  BY DEF Remove
<1>2. db' \subseteq db
  BY <1>1
<1>3. db' \subseteq Row /\ IsFiniteSet(db') /\ table' \in Seq(Row)
  BY <1>2, FS_Subset, WithoutType DEF TypeOK
<1>4. LogIsKeyed'
  BY <1>2 DEF LogIsKeyed
<1>5. ASSUME suspect' = suspect PROVE TableMirrorsLog'
  <2> SUFFICES ASSUME ~suspect
               PROVE  /\ \A i \in DOMAIN table' : table'[i] \in db'
                      /\ \A i, j \in DOMAIN table' : table'[i].id = table'[j].id => i = j
                      /\ \A r \in Matching(db', fetched) : \E i \in DOMAIN table' : table'[i] = r
    BY <1>5 DEF TableMirrorsLog
  <2>1. /\ \A i \in DOMAIN table : table[i] \in db
        /\ \A i, j \in DOMAIN table : table[i].id = table[j].id => i = j
        /\ \A r \in Matching(db, fetched) : \E i \in DOMAIN table : table[i] = r
        /\ table \in Seq(Row)
    BY DEF TableMirrorsLog, TypeOK
  <2>2. \A i \in DOMAIN table' : table'[i] \in db'
    BY <1>1, <2>1, WithoutRows
  <2>3. \A i, j \in DOMAIN table' : table'[i].id = table'[j].id => i = j
    BY <2>1, WithoutDistinct
  <2>4. ASSUME NEW r \in Matching(db', fetched)
        PROVE  \E i \in DOMAIN table' : table'[i] = r
    <3>1. r \in Matching(db, fetched) /\ r.id # table[row].id
      BY <1>1 DEF Matching
    <3>2. PICK k \in DOMAIN table : table[k] = r
      BY <2>1, <3>1
    <3>3. QED
      BY <2>1, <3>1, <3>2, WithoutRows
  <2>5. QED
    BY <2>2, <2>3, <2>4
<1>6. QED
  BY <1>3, <1>4, <1>5

(* The single delete: undisturbed, it removes the contact the row shows. *)
LEMMA ConfirmDeleteOneInv ==
  ASSUME Inv, ConfirmDeleteOne
  PROVE  Inv'
<1> USE DEF Inv
<1>1. PICK row \in modal.rows, id \in ReadThroughReference :
        /\ Remove(id)
        /\ table' = IF row \in DOMAIN table THEN Without(table, row) ELSE table
  BY DEF ConfirmDeleteOne
<1>2. /\ modal.kind = "deleteOne" /\ modal' = NoModal
      /\ suspect' = (suspect \/ modal.moved)
      /\ UNCHANGED <<nextId, filter, debounce, fetched>>
  BY DEF ConfirmDeleteOne, bar
<1>3. modal' \in Modal /\ modal'.kind = "none"
  BY <1>2 DEF NoModal, Modal, Kinds
<1>4. db' \subseteq db
  BY <1>1 DEF Remove
<1>5. TypeOK'
  <2>1. table' \in Seq(Row)
    BY <1>1, WithoutType DEF TypeOK
  <2>2. IsFiniteSet(db')
    BY <1>4, FS_Subset DEF TypeOK
  <2>3. QED
    BY <1>2, <1>3, <1>4, <2>1, <2>2 DEF TypeOK, Modal
<1>6. LogIsKeyed'
  BY <1>2, <1>4 DEF LogIsKeyed
<1>7. TableMirrorsLog'
  <2>1. CASE modal.moved
    BY <1>2, <2>1 DEF TableMirrorsLog
  <2>2. CASE ~modal.moved
    <3>1. row \in DOMAIN table /\ id = table[row].id
      BY <1>1, <1>2, <2>2 DEF DialogShowsTable, ReadThroughReference
    <3>2. suspect' = suspect
      BY <1>2, <2>2 DEF TypeOK
    <3>3. QED
      BY <1>1, <1>2, <3>1, <3>2, RemovePair
  <2>3. QED
    BY <2>1, <2>2
<1>8. DialogShowsTable' /\ DeletionOnCourse' /\ FilterIsPending'
  BY <1>2, <1>3 DEF DialogShowsTable, DeletionOnCourse, FilterIsPending
<1>9. QED
  BY <1>5, <1>6, <1>7, <1>8

(* The batch begins: its rows show what was selected, and all of it. *)
LEMMA ConfirmDeleteManyInv ==
  ASSUME Inv, ConfirmDeleteMany
  PROVE  Inv'
<1> USE DEF Inv
<1>1. /\ modal.kind = "deleteMany"
      /\ modal' = [modal EXCEPT !.kind = "deleting"]
      /\ UNCHANGED <<db, nextId, table, filter, debounce, fetched, suspect>>
  BY DEF ConfirmDeleteMany, data, bar, history
<1>2. /\ modal' \in Modal /\ modal'.kind = "deleting"
      /\ modal'.rows = modal.rows /\ modal'.held = modal.held /\ modal'.moved = modal.moved
  BY <1>1 DEF TypeOK, Modal, Kinds
<1>3. TypeOK' /\ LogIsKeyed' /\ TableMirrorsLog' /\ FilterIsPending' /\ DialogShowsTable'
  BY <1>1, <1>2 DEF TypeOK, LogIsKeyed, TableMirrorsLog, FilterIsPending, DialogShowsTable
<1>4. DeletionOnCourse'
  BY <1>1, <1>2 DEF DialogShowsTable, DeletionOnCourse
<1>5. QED
  BY <1>3, <1>4

(* One row of a batch: the rows still to do lie above it and keep their numbers. *)
LEMMA DeleteRowInv ==
  ASSUME Inv, NEW row \in modal.rows, DeleteRow(row)
  PROVE  Inv'
<1> USE DEF Inv
<1>1. /\ modal.kind = "deleting" /\ NextRow(row, modal.rows)
      /\ UNCHANGED <<nextId, filter, debounce, fetched>>
  BY DEF DeleteRow, bar
<1>2. modal.rows \subseteq Nat /\ \A other \in modal.rows : other <= row
  BY <1>1 DEF TypeOK, Modal, NextRow
<1>3. CASE /\ row \in DOMAIN table
           /\ Remove(table[row].id)
           /\ table' = Without(table, row)
           /\ modal' = [modal EXCEPT !.rows = @ \ {row}]
           /\ suspect' = suspect
  <2>1. /\ modal' \in Modal /\ modal'.kind = "deleting" /\ modal'.rows = modal.rows \ {row}
        /\ modal'.held = modal.held /\ modal'.moved = modal.moved
        /\ modal'.failed = modal.failed
    BY <1>1, <1>3 DEF TypeOK, Modal
  <2>2. /\ db' \subseteq Row /\ IsFiniteSet(db') /\ table' \in Seq(Row)
        /\ LogIsKeyed' /\ TableMirrorsLog'
    BY <1>1, <1>3, RemovePair
  <2>3. TypeOK'
    BY <1>1, <1>3, <2>1, <2>2 DEF TypeOK
  <2>4. DialogShowsTable' /\ FilterIsPending'
    BY <1>1, <1>3, <2>1 DEF DialogShowsTable, FilterIsPending
  <2>5. ASSUME ~modal.moved, ~suspect
        PROVE  /\ \A i \in modal'.rows : i \in DOMAIN table' /\ table'[i] \in modal'.held
               /\ ~modal'.failed =>
                    \A r \in modal'.held : r \in db' => \E i \in modal'.rows : table'[i] = r
    <3>1. /\ \A i \in modal.rows : i \in DOMAIN table /\ table[i] \in modal.held
          /\ ~modal.failed =>
               \A r \in modal.held : r \in db => \E i \in modal.rows : table[i] = r
      BY <1>1, <2>5 DEF DeletionOnCourse
    <3>2. ASSUME NEW i \in modal'.rows
          PROVE  i \in DOMAIN table' /\ table'[i] = table[i]
      <4>1. i \in modal.rows /\ i \in Nat /\ row \in Nat /\ i < row
        BY <1>2, <2>1
      <4>2. i \in DOMAIN table /\ DOMAIN table = 1..Len(table) /\ Len(table) \in Nat
        BY <3>1, <4>1 DEF TypeOK
      <4>3. i \in 1..(Len(table) - 1)
        BY <1>3, <4>1, <4>2
      <4>4. QED
        BY <1>3, <4>1, <4>3, WithoutType DEF TypeOK
    <3>3. ASSUME ~modal.failed, NEW r \in modal.held, r \in db'
          PROVE  \E i \in modal'.rows : table'[i] = r
      <4>1. r \in db /\ r.id # table[row].id
        BY <1>3, <3>3 DEF Remove
      <4>2. PICK i \in modal.rows : table[i] = r
        BY <3>1, <3>3, <4>1
      <4>3. i \in modal'.rows
        BY <2>1, <4>1, <4>2
      <4>4. QED
        BY <3>2, <4>2, <4>3
    <3>4. QED
      BY <2>1, <3>1, <3>2, <3>3
  <2>6. DeletionOnCourse'
    BY <1>3, <2>1, <2>5 DEF DeletionOnCourse
  <2>7. QED
    BY <2>2, <2>3, <2>4, <2>6
<1>4. CASE /\ \E id \in 0..MaxId : Remove(id)
           /\ table' = table
           /\ modal' = [modal EXCEPT !.rows = @ \ {row}]
           /\ suspect' = TRUE
  <2>1. modal' \in Modal /\ modal'.kind = "deleting"
    BY <1>1, <1>4 DEF TypeOK, Modal
  <2>2. db' \subseteq db
    BY <1>4 DEF Remove
  <2>3. TypeOK' /\ LogIsKeyed'
    BY <1>1, <1>4, <2>1, <2>2, FS_Subset DEF TypeOK, LogIsKeyed
  <2>4. TableMirrorsLog' /\ DialogShowsTable' /\ DeletionOnCourse' /\ FilterIsPending'
    BY <1>4, <2>1 DEF TableMirrorsLog, DialogShowsTable, DeletionOnCourse, FilterIsPending
  <2>5. QED
    BY <2>3, <2>4
<1>5. CASE /\ modal' = [modal EXCEPT !.rows = @ \ {row}, !.failed = TRUE]
           /\ UNCHANGED <<db, table, suspect>>
  <2>1. /\ modal' \in Modal /\ modal'.kind = "deleting" /\ modal'.failed
        /\ modal'.rows \subseteq modal.rows
        /\ modal'.held = modal.held /\ modal'.moved = modal.moved
    BY <1>1, <1>5 DEF TypeOK, Modal
  <2>2. TypeOK' /\ LogIsKeyed' /\ TableMirrorsLog' /\ DialogShowsTable' /\ FilterIsPending'
    BY <1>1, <1>5, <2>1
       DEF TypeOK, LogIsKeyed, TableMirrorsLog, DialogShowsTable, FilterIsPending
  <2>3. DeletionOnCourse'
    BY <1>1, <1>5, <2>1 DEF DeletionOnCourse
  <2>4. QED
    BY <2>2, <2>3
<1>6. QED
  BY <1>3, <1>4, <1>5 DEF DeleteRow

(* New Log: the archive written, and the log cleared and reloaded. *)
LEMMA NewLogInv ==
  ASSUME Inv, WriteArchive \/ ClearLog
  PROVE  Inv'
<1> USE DEF Inv
<1>1. ASSUME NEW contacts \in {db, {}}, Archive(contacts)
      PROVE  Inv'
  <2>1. /\ modal.kind = "newLog" /\ modal' = [modal EXCEPT !.kind = "archived", !.held = contacts]
        /\ UNCHANGED <<db, nextId, table, filter, debounce, fetched, suspect>>
    BY <1>1 DEF Archive, data, bar, history
  <2>2. modal' \in Modal /\ modal'.kind = "archived"
    BY <2>1 DEF TypeOK, Modal, Kinds
  <2>3. QED
    BY <2>1, <2>2 DEF TypeOK, LogIsKeyed, TableMirrorsLog, DialogShowsTable, DeletionOnCourse,
       FilterIsPending
<1>2. ASSUME ClearLog
      PROVE  Inv'
  <2>1. /\ modal' = NoModal
        /\ UNCHANGED <<nextId, filter, debounce>>
    BY <1>2 DEF ClearLog, bar
  <2>2. modal' \in Modal /\ modal'.kind = "none"
    BY <2>1 DEF NoModal, Modal, Kinds
  <2>3. CASE db' = {} /\ table' = <<>> /\ fetched' = filter /\ suspect' = FALSE
    <3>1. <<>> \in Seq(Row) /\ IsFiniteSet(db')
      BY <2>3, FS_EmptySet
    <3>2. TypeOK'
      BY <2>1, <2>2, <2>3, <3>1 DEF TypeOK
    <3>3. TableMirrorsLog' /\ LogIsKeyed'
      BY <2>3 DEF TableMirrorsLog, LogIsKeyed, Matching
    <3>4. QED
      BY <2>1, <2>2, <2>3, <3>2, <3>3 DEF DialogShowsTable, DeletionOnCourse, FilterIsPending
  <2>4. CASE db' = {} /\ suspect' = TRUE /\ UNCHANGED <<table, fetched>>
    <3>1. TypeOK'
      BY <2>1, <2>2, <2>4, FS_EmptySet DEF TypeOK
    <3>2. QED
      BY <2>2, <2>4, <3>1
         DEF LogIsKeyed, TableMirrorsLog, DialogShowsTable, DeletionOnCourse, FilterIsPending
  <2>5. CASE UNCHANGED <<db, table, fetched, suspect>>
    BY <2>1, <2>2, <2>5
       DEF TypeOK, LogIsKeyed, TableMirrorsLog, DialogShowsTable, DeletionOnCourse, FilterIsPending
  <2>6. QED
    BY <1>2, <2>3, <2>4, <2>5 DEF ClearLog
<1>3. QED
  BY <1>1, <1>2 DEF WriteArchive, FetchedForArchive

(* The filter bar: every change reloads at once or has the timer running. *)
LEMMA FilterBarInv ==
  ASSUME Inv,
         \/ \E f \in Filters : TypeFilter(f) \/ PickFilter(f)
         \/ ClearFilter
         \/ DebounceFires
  PROVE  Inv'
<1> USE DEF Inv
<1>1. ASSUME NEW f \in Filters, TypeFilter(f)
      PROVE  Inv'
  <2>1. /\ filter' = f /\ debounce' = TRUE /\ modal.kind = "none"
        /\ UNCHANGED <<db, nextId, table, modal, fetched, suspect>>
    BY <1>1 DEF TypeFilter, data, history
  <2>2. QED
    BY <2>1 DEF TypeOK, LogIsKeyed, TableMirrorsLog, DialogShowsTable, DeletionOnCourse,
       FilterIsPending
<1>2. ASSUME NEW f \in Filters, PickFilter(f)
      PROVE  Inv'
  <2>1. /\ ReloadLog(db, filter') /\ filter' \in Filters /\ debounce' \in BOOLEAN
        /\ modal.kind # "deleting" /\ UNCHANGED <<db, nextId>>
    BY <1>2 DEF PickFilter, TypeOK
  <2>2. QED
    BY <2>1, ReloadInv
<1>3. ASSUME ClearFilter
      PROVE  Inv'
  <2>1. /\ ReloadLog(db, filter') /\ filter' \in Filters /\ debounce' \in BOOLEAN
        /\ modal.kind # "deleting" /\ UNCHANGED <<db, nextId>>
    BY <1>3, LogTableAssumption DEF ClearFilter
  <2>2. QED
    BY <2>1, ReloadInv
<1>4. ASSUME DebounceFires
      PROVE  Inv'
  <2>1. /\ ReloadLog(db, filter') /\ filter' \in Filters /\ debounce' \in BOOLEAN
        /\ modal.kind # "deleting" /\ UNCHANGED <<db, nextId>>
    BY <1>4 DEF DebounceFires, TypeOK
  <2>2. QED
    BY <2>1, ReloadInv
<1>5. QED
  BY <1>1, <1>2, <1>3, <1>4

LEMMA NextInv == Inv /\ [Next]_vars => Inv'
<1> SUFFICES ASSUME Inv, [Next]_vars PROVE Inv'
  OBVIOUS
<1>1. ASSUME NEW key \in Keys, NEW val \in Vals, LogContact(key, val) \/ AutoLog(key, val)
      PROVE  Inv'
  <2>1. OnQsoReady(key, val) /\ modal.kind # "deleting"
    BY <1>1 DEF LogContact, AutoLog
  <2>2. QED
    BY <2>1, OnQsoReadyInv
<1>2. ASSUME NEW key \in Keys, NEW val \in Vals, AcceptEdit(key, val)
      PROVE  Inv'
  BY <1>2, AcceptEditInv
<1>3. ASSUME NEW row \in DOMAIN table, OpenEdit(row)
      PROVE  Inv'
  BY <1>3, OpenInv DEF OpenEdit
<1>4. ASSUME NEW rows \in SUBSET (DOMAIN table), OpenDelete(rows)
      PROVE  Inv'
  <2>1. CASE \E row \in rows : rows = {row}
    BY <1>4, <2>1, OpenInv DEF OpenDelete
  <2>2. CASE ~\E row \in rows : rows = {row}
    BY <1>4, <2>2, OpenInv DEF OpenDelete
  <2>3. QED
    BY <2>1, <2>2
<1>5. CASE Dismiss \/ FinishDelete
  BY <1>5, CloseInv DEF Dismiss, FinishDelete
<1>6. CASE ConfirmDeleteOne \/ ConfirmDeleteMany
  BY <1>6, ConfirmDeleteOneInv, ConfirmDeleteManyInv
<1>7. ASSUME NEW row \in modal.rows, DeleteRow(row)
      PROVE  Inv'
  BY <1>7, DeleteRowInv
<1>8. CASE OpenNewLog
  BY <1>8, OpenInv DEF OpenNewLog
<1>9. CASE WriteArchive \/ ClearLog
  BY <1>9, NewLogInv
<1>10. CASE (\E f \in Filters : TypeFilter(f) \/ PickFilter(f)) \/ ClearFilter \/ DebounceFires
  BY <1>10, FilterBarInv
<1>11. CASE UNCHANGED vars
  BY <1>11 DEF vars, data, bar, history, Inv, TypeOK, LogIsKeyed, TableMirrorsLog,
     DialogShowsTable, DeletionOnCourse, FilterIsPending
<1>12. QED
  BY <1>1, <1>2, <1>3, <1>4, <1>5, <1>6, <1>7, <1>8, <1>9, <1>10, <1>11 DEF Next

----------------------------------------------------------------------------
(* The theorems                                                            *)

(* Everything Inv says holds in every reachable state. *)
THEOREM SpecInv == Spec => []Inv
<1>1. QED
  BY InitInv, NextInv, PTL DEF Spec

(* The rows, ids, filters and dialogs are always what the code's types allow. *)
THEOREM SpecTypeOK == Spec => []TypeOK
<1>1. Inv => TypeOK
  BY DEF Inv
<1>2. QED
  BY <1>1, SpecInv, PTL

(* onQsoReady, onEditQso, onDeleteSelectedQso, onNewLog and reloadLog keep the table a
   faithful, duplicate-free view of the log, whatever dialogs and datagrams interleave,
   except after an answer applied to a table that had moved or a failed fetch, and then
   only until the next reload. *)
THEOREM SpecTableMirrorsLog == Spec => []TableMirrorsLog
<1>1. Inv => TableMirrorsLog
  BY DEF Inv
<1>2. QED
  BY <1>1, SpecInv, PTL

(* An undisturbed batch delete in onDeleteSelectedQso deletes the selected contacts and,
   unless the database refuses one, all of them, however many rows there are. *)
THEOREM SpecDeletionOnCourse == Spec => []DeletionOnCourse
<1>1. Inv => DeletionOnCourse
  BY DEF Inv
<1>2. QED
  BY <1>1, SpecInv, PTL

(* No change of the LogFilterBar is forgotten. *)
THEOREM SpecFilterIsPending == Spec => []FilterIsPending
<1>1. Inv => FilterIsPending
  BY DEF Inv
<1>2. QED
  BY <1>1, SpecInv, PTL

(* onEditQso saves to the contact it was opened on and no other, also when contacts were
   logged above its row meanwhile. *)
THEOREM SpecEditTouchesOnlyItsContact == Spec => EditTouchesOnlyItsContact
<1> DEFINE Untouched ==
      modal.kind = "edit" /\ modal'.kind = "none" =>
        \A r \in db : (\A h \in modal.held : h.id # r.id) => r \in db'
<1>1. Inv /\ [Next]_vars => [Untouched]_vars
  <2> SUFFICES ASSUME Inv, Next, modal.kind = "edit", modal'.kind = "none",
                      NEW r \in db, \A h \in modal.held : h.id # r.id
               PROVE  r \in db'
    OBVIOUS
  <2>1. ASSUME NEW key \in Keys, NEW val \in Vals, AcceptEdit(key, val)
        PROVE  r \in db'
    <3>1. PICK row \in modal.rows, original \in modal.held :
            SaveEdit(row, [original EXCEPT !.key = key, !.val = val])
      BY <2>1 DEF AcceptEdit
    <3>2. [original EXCEPT !.key = key, !.val = val].id = original.id
      BY DEF Inv, TypeOK, Modal, Row
    <3>3. QED
      BY <3>1, <3>2 DEF SaveEdit, Updated
  <2>2. ASSUME NEW key \in Keys, NEW val \in Vals, LogContact(key, val) \/ AutoLog(key, val)
        PROVE  r \in db'
    BY <2>2 DEF LogContact, AutoLog, OnQsoReady
  <2>3. CASE Dismiss \/ DebounceFires
    BY <2>3 DEF Dismiss, DebounceFires, data
  <2>4. QED
    BY <2>1, <2>2, <2>3 DEF Next, OpenEdit, OpenDelete, ConfirmDeleteOne, ConfirmDeleteMany,
       DeleteRow, FinishDelete, OpenNewLog, WriteArchive, Archive, ClearLog, TypeFilter,
       PickFilter, ClearFilter
<1>2. QED
  BY <1>1, SpecInv, PTL DEF Spec, EditTouchesOnlyItsContact

(* What is left of BatchDeletesOnlySelected, which a table that moves under the question
   breaks: a batch whose table has not moved since the question, and still mirrors the
   log, deletes no contact that was not selected, whatever deletes fail. *)
THEOREM UndisturbedBatchDeletesSelected ==
  Spec => [][modal.kind = "deleting" /\ ~modal.moved /\ ~suspect =>
               \A r \in db : r \in db' \/ \E h \in modal.held : h.id = r.id]_vars
<1> DEFINE Selected ==
      modal.kind = "deleting" /\ ~modal.moved /\ ~suspect =>
        \A r \in db : r \in db' \/ \E h \in modal.held : h.id = r.id
<1>1. Inv /\ [Next]_vars => [Selected]_vars
  <2> SUFFICES ASSUME Inv, Next, modal.kind = "deleting", ~modal.moved, ~suspect, NEW r \in db
               PROVE  r \in db' \/ \E h \in modal.held : h.id = r.id
    OBVIOUS
  <2>1. ASSUME NEW row \in modal.rows, DeleteRow(row)
        PROVE  r \in db' \/ \E h \in modal.held : h.id = r.id
    <3>1. row \in DOMAIN table /\ table[row] \in modal.held
      BY DEF Inv, DeletionOnCourse
    <3>2. Remove(table[row].id) \/ db' = db
      BY <2>1, <3>1 DEF DeleteRow
    <3>3. QED
      BY <3>1, <3>2 DEF Remove
  <2>2. CASE FinishDelete
    BY <2>2 DEF FinishDelete, data
  <2>3. QED
    BY <2>1, <2>2 DEF Next, LogContact, AutoLog, AcceptEdit, OpenEdit, OpenDelete, Dismiss,
       ConfirmDeleteOne, ConfirmDeleteMany, OpenNewLog, WriteArchive, Archive, ClearLog,
       TypeFilter, PickFilter, ClearFilter, DebounceFires
<1>2. QED
  BY <1>1, SpecInv, PTL DEF Spec

=============================================================================
