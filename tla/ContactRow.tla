----------------------------- MODULE ContactRow -----------------------------
(***************************************************************************)
(* A contact, Qso, and the row of the table qsos it is stored as.          *)
(*                                                                         *)
(* The ninety fields of a Qso fall into classes that the program converts  *)
(* in the same way everywhere; the model has one field of each:            *)
(*   call, time, band, mode   the UNIQUE key (ms: what time has beyond     *)
(*            whole seconds)                                               *)
(*   submode                                                               *)
(*   text     name, QTH, county, comment, ...                              *)
(*   report   what a widget may change: reports, exchanges, the satellite, *)
(*            the shower (a maximum length), notes (line ends)             *)
(*   state    capitalised by AdifParser alone                              *)
(*   grid     capitalised there and in the dialog: continent, prefix, ...  *)
(*   sect, check   the two that share the ADIF field ARRL_SECT             *)
(*   rx       freqRx, read only when positive; MariaDB's column has as     *)
(*            many decimals as ADIF (freq is rounded alike)                *)
(*   sfi      others that are read only when positive: sfi, age, distance  *)
(*   power    numbers whose 0 is read: txPwr, the indices, serials, ...    *)
(*   zone     numbers that are 0 when unknown: dxcc, cqZone, ituZone       *)
(*   pos      lat and lon                                                  *)
(*   qsl      QSL flags; sentDate  their dates, and what else is not in    *)
(*            the dialog                                                   *)
(* Numbers are in tenths of the last decimal that ADIF has for them; the   *)
(* dialog's spin boxes have the same one. Whole numbers are multiples of   *)
(* ten, which are left as they are, and negative ones are left out.        *)
(***************************************************************************)
EXTENDS Naturals

CONSTANTS
  Text, Blank,   (* the texts, and the empty one                               *)
  Wide,          (* texts longer than MariaDB's columns                        *)
  Upper,         (* QString::toUpper, trimmed, toLower                         *)
  Trim,
  Lower,
  None,          (* no value: nullopt, an invalid date, NULL                   *)
  PosOf,         (* Maidenhead::toLatLon; None for what is not a locator        *)
  Dates

Number   == Nat \cup {None}
Statuses == {"N", "Y", "R", "Q", "I"}

(* The nearest multiple of ten: no more decimals than ADIF has. *)
Rounded(n) == 10 * ((n + 5) \div 10)

ASSUME TextAssumption ==
  /\ Blank \in Text /\ Wide \subseteq Text \ {Blank}
  /\ None \notin Text \cup Nat \cup Statuses
  /\ Upper \in [Text -> Text] /\ Trim \in [Text -> Text] /\ Lower \in [Text -> Text]
  /\ \A t \in Text : /\ Upper[Upper[t]] = Upper[t] /\ Trim[Trim[t]] = Trim[t]
                     /\ Lower[Lower[t]] = Lower[t] /\ Trim[Upper[t]] = Upper[Trim[t]]
                     /\ Upper[t] = Blank <=> t = Blank
                     /\ Lower[t] = Blank <=> t = Blank
  /\ Trim[Blank] = Blank

(* The centre of a square is a whole number of thousandths of a minute. *)
ASSUME LocatorAssumption ==
  PosOf \in [Text -> {n \in Nat : Rounded(n) = n} \cup {None}]

Contact ==
  [call : Text, time : Number, ms : 0 .. 999, band : Text, mode : Text, submode : Text,
   text : Text, report : Text, state : Text, grid : Text, sect : Text, check : Text,
   rx : Number, sfi : Number, power : Number, zone : Nat, pos : Number,
   qsl : Statuses, sentDate : Dates \cup {None}]

Column == Text \cup {None}

Row ==
  [call : Column, time : Number, ms : 0 .. 999, band : Column, mode : Column, submode : Column,
   text : Column, report : Column, state : Column, grid : Column, sect : Column, check : Column,
   rx : Number, sfi : Number, power : Number, zone : Number, pos : Number,
   qsl : Statuses, sentDate : Dates \cup {None}]

NullIfBlank(t) == IF t = Blank THEN None ELSE t
BlankIfNull(t) == IF t = None THEN Blank ELSE t
NullIfZero(n)  == IF n = 0 THEN None ELSE n
ZeroIfNull(n)  == IF n = None THEN 0 ELSE n

(* MariaDB's DECIMAL for the frequencies; those for other numbers have more
   decimals than ADIF. *)
InColumn(kind, n) == IF kind = "mariadb" /\ n # None THEN Rounded(n) ELSE n

(* What bindQso hands to the database, and what the column makes of it:
   MariaDB's DATETIME has no fraction. *)
Bind(kind, c) ==
  [call     |-> c.call,
   time     |-> c.time,
   ms       |-> IF kind = "mariadb" THEN 0 ELSE c.ms,
   band     |-> NullIfBlank(c.band),
   mode     |-> NullIfBlank(c.mode),
   submode  |-> NullIfBlank(c.submode),
   text     |-> NullIfBlank(c.text),
   report   |-> NullIfBlank(c.report),
   state    |-> NullIfBlank(c.state),
   grid     |-> NullIfBlank(c.grid),
   sect     |-> NullIfBlank(c.sect),
   check    |-> NullIfBlank(c.check),
   rx       |-> InColumn(kind, c.rx),
   sfi      |-> c.sfi,
   power    |-> c.power,
   zone     |-> NullIfZero(c.zone),
   pos      |-> c.pos,
   qsl      |-> c.qsl,
   sentDate |-> c.sentDate]

(* qsoFromQuery *)
Extract(row) ==
  [call     |-> BlankIfNull(row.call),
   time     |-> row.time,
   ms       |-> row.ms,
   band     |-> BlankIfNull(row.band),
   mode     |-> BlankIfNull(row.mode),
   submode  |-> BlankIfNull(row.submode),
   text     |-> BlankIfNull(row.text),
   report   |-> BlankIfNull(row.report),
   state    |-> BlankIfNull(row.state),
   grid     |-> BlankIfNull(row.grid),
   sect     |-> BlankIfNull(row.sect),
   check    |-> BlankIfNull(row.check),
   rx       |-> row.rx,
   sfi      |-> row.sfi,
   power    |-> row.power,
   zone     |-> ZeroIfNull(row.zone),
   pos      |-> row.pos,
   qsl      |-> row.qsl,
   sentDate |-> row.sentDate]

Key(row) == <<row.call, row.time, row.ms, row.band, row.mode>>

KeysUnique(rows) == \A a, b \in rows : Key(a) = Key(b) => a = b

(* A NOT NULL column without a value, or, on MariaDB, a text too long. *)
Refused(kind, row) ==
  \/ row.time = None \/ row.band = None \/ row.mode = None
  \/ /\ kind = "mariadb"
     /\ {row.call, row.text, row.report, row.state, row.grid, row.sect, row.check} \cap Wide # {}

(* insertQso: a row that is refused or breaks the UNIQUE key is not added. *)
Insert(kind, rows, c) ==
  LET new == Bind(kind, c)
  IN  IF Refused(kind, new) \/ \E row \in rows : Key(row) = Key(new)
      THEN rows
      ELSE rows \cup {new}

(* updateQso of the row old, under the same conditions. *)
Update(kind, rows, old, c) ==
  LET new == Bind(kind, c)
  IN  IF \/ old \notin rows
         \/ Refused(kind, new)
         \/ \E row \in rows \ {old} : Key(row) = Key(new)
      THEN rows
      ELSE (rows \ {old}) \cup {new}

(* The window's enrichQso, on every contact it logs, edits or imports: a
   position that is missing is taken from the grid square. *)
Enrich(c) ==
  IF c.pos = None /\ PosOf[c.grid] # None THEN [c EXCEPT !.pos = PosOf[c.grid]] ELSE c

=============================================================================
