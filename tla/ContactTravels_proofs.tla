------------------------ MODULE ContactTravels_proofs ------------------------
(***************************************************************************)
(* For any texts, modes, files, logs and Log4OM rows: what a contact keeps *)
(* on its ways through the program. The conversions come first, one lemma  *)
(* each; then the invariant, that every way into a log writes the UNIQUE   *)
(* key as the ADIF parser does; then the theorems.                         *)
(***************************************************************************)
EXTENDS ContactTravels, FiniteSetTheorems, SequenceTheorems, TLAPS

-----------------------------------------------------------------------------
(* The row *)

(* Every text the conversions leave alone, or blank, is a text. *)
LEMMA NullText ==
  ASSUME NEW t \in Text
  PROVE  /\ NullIfBlank(t) \in Column
         /\ BlankIfNull(NullIfBlank(t)) = t
         /\ NullIfBlank(t) # None => NullIfBlank(t) = t /\ t # Blank
BY TextAssumption DEF NullIfBlank, BlankIfNull, Column

LEMMA TextNull ==
  ASSUME NEW t \in Column
  PROVE  BlankIfNull(t) \in Text /\ (t \in Text => BlankIfNull(t) = t)
BY TextAssumption DEF BlankIfNull, Column

LEMMA NullNumber ==
  ASSUME NEW n \in Nat
  PROVE  NullIfZero(n) \in Number /\ ZeroIfNull(NullIfZero(n)) = n
BY TextAssumption DEF NullIfZero, ZeroIfNull, Number

LEMMA NumberNull ==
  ASSUME NEW n \in Number
  PROVE  ZeroIfNull(n) \in Nat /\ (n # None /\ n # 0 => NullIfZero(ZeroIfNull(n)) = n)
                               /\ (n = None => NullIfZero(ZeroIfNull(n)) = n)
BY TextAssumption DEF NullIfZero, ZeroIfNull, Number

(* One decimal less, and no further. *)
LEMMA RoundedOnce ==
  ASSUME NEW n \in Nat
  PROVE  Rounded(n) \in Nat /\ Rounded(Rounded(n)) = Rounded(n)
BY DEF Rounded

LEMMA InColumnType ==
  ASSUME NEW n \in Number, NEW kind
  PROVE  InColumn(kind, n) \in Number
BY RoundedOnce DEF InColumn, Number

LEMMA BindType ==
  ASSUME NEW c \in Contact, NEW kind
  PROVE  /\ Bind(kind, c) \in Row
         /\ Bind(kind, c).ms = IF kind = "mariadb" THEN 0 ELSE c.ms
<1>1. /\ c.call \in Text /\ c.band \in Text /\ c.mode \in Text /\ c.submode \in Text
      /\ c.text \in Text /\ c.report \in Text /\ c.state \in Text /\ c.grid \in Text
      /\ c.sect \in Text /\ c.check \in Text
      /\ c.time \in Number /\ c.ms \in 0 .. 999
      /\ c.rx \in Number /\ c.sfi \in Number /\ c.power \in Number
      /\ c.zone \in Nat /\ c.pos \in Number
      /\ c.qsl \in Statuses /\ c.sentDate \in Dates \cup {None}
  BY DEF Contact
<1>2. /\ NullIfBlank(c.band) \in Column /\ NullIfBlank(c.mode) \in Column
      /\ NullIfBlank(c.submode) \in Column /\ NullIfBlank(c.text) \in Column
      /\ NullIfBlank(c.report) \in Column
      /\ NullIfBlank(c.state) \in Column /\ NullIfBlank(c.grid) \in Column
      /\ NullIfBlank(c.sect) \in Column /\ NullIfBlank(c.check) \in Column
  BY <1>1, NullText
<1>3. NullIfZero(c.zone) \in Number
  BY <1>1, NullNumber
<1>4. c.call \in Column
  BY <1>1 DEF Column
<1>5. (IF kind = "mariadb" THEN 0 ELSE c.ms) \in 0 .. 999
  BY <1>1
<1>6. InColumn(kind, c.rx) \in Number
  BY <1>1, InColumnType
<1> QED
  BY <1>1, <1>2, <1>3, <1>4, <1>5, <1>6 DEF Bind, Row

LEMMA ExtractType ==
  ASSUME NEW row \in Row
  PROVE  Extract(row) \in Contact
BY TextNull, NumberNull DEF Extract, Contact, Row

(* What is read back from a row is what was bound, but for the fraction of a
   second and the last digits of a frequency in a MariaDB log. *)
LEMMA ExtractBind ==
  ASSUME NEW c \in Contact, NEW kind, kind = "mariadb" => c.ms = 0,
         InColumn(kind, c.rx) = c.rx
  PROVE  Extract(Bind(kind, c)) = c
<1>1. /\ BlankIfNull(NullIfBlank(c.band)) = c.band /\ BlankIfNull(NullIfBlank(c.mode)) = c.mode
      /\ BlankIfNull(NullIfBlank(c.submode)) = c.submode
      /\ BlankIfNull(NullIfBlank(c.text)) = c.text
      /\ BlankIfNull(NullIfBlank(c.report)) = c.report
      /\ BlankIfNull(NullIfBlank(c.state)) = c.state
      /\ BlankIfNull(NullIfBlank(c.grid)) = c.grid /\ BlankIfNull(NullIfBlank(c.sect)) = c.sect
      /\ BlankIfNull(NullIfBlank(c.check)) = c.check
  BY NullText DEF Contact
<1>2. ZeroIfNull(NullIfZero(c.zone)) = c.zone
  BY NullNumber DEF Contact
<1>3. BlankIfNull(c.call) = c.call
  BY TextNull DEF Column, Contact
<1> QED
  BY <1>1, <1>2, <1>3 DEF Extract, Bind, Contact

LEMMA EnrichType ==
  ASSUME NEW c \in Contact
  PROVE  /\ Enrich(c) \in Contact
         /\ \A f \in DOMAIN c \ {"pos"} : Enrich(c)[f] = c[f]
<1>1. c.grid \in Text
  BY DEF Contact
<1>2. PosOf[c.grid] \in Number
  BY <1>1, LocatorAssumption DEF Number
<1> QED
  BY <1>2 DEF Enrich, Contact

-----------------------------------------------------------------------------
(* The record *)

(* The two members of ARRL_SECT as one. *)
Sect(c) == IF c.check # Blank THEN c.check ELSE c.sect

(* A contact after a trip, before its position is looked up. *)
Travelled(c) ==
  [call |-> Trim[Upper[c.call]], time |-> c.time, ms |-> 0,
   band |-> Lower[c.band], mode |-> Upper[c.mode], submode |-> Upper[c.submode],
   text |-> c.text, report |-> c.report, state |-> Upper[c.state], grid |-> Upper[c.grid],
   sect |-> Upper[Sect(c)], check |-> Upper[Sect(c)],
   rx |-> Positive(Written(c.rx)), sfi |-> Positive(Written(c.sfi)), power |-> Written(c.power), zone |-> c.zone, pos |-> Written(c.pos),
   qsl |-> c.qsl, sentDate |-> c.sentDate]

LEMMA NumberWritten ==
  ASSUME NEW n \in Number
  PROVE  /\ Written(n) \in Number /\ Written(Written(n)) = Written(n)
         /\ Positive(n) \in Number
         /\ Positive(Written(Positive(Written(n)))) = Positive(Written(n))
<1>1. CASE n = None
  BY <1>1, TextAssumption DEF Written, Positive, Number
<1>2. CASE n \in Nat
  <2>1. n # None /\ Rounded(n) # None
    BY <1>2, RoundedOnce, TextAssumption
  <2>2. Written(n) = Rounded(n) /\ Written(Rounded(n)) = Rounded(Rounded(n))
    BY <2>1 DEF Written
  <2>3. Rounded(n) \in Nat /\ Rounded(Rounded(n)) = Rounded(n)
    BY <1>2, RoundedOnce
  <2>4. Written(n) \in Number /\ Written(Written(n)) = Written(n) /\ Positive(n) \in Number
    BY <1>2, <2>2, <2>3 DEF Positive, Number
  <2>5. Written(None) = None /\ Positive(None) = None
    BY TextAssumption DEF Written, Positive
  <2>6. CASE Rounded(n) = 0
    <3>1. Positive(Written(n)) = None
      BY <2>2, <2>6 DEF Positive
    <3> QED
      BY <2>4, <2>5, <3>1
  <2>7. CASE Rounded(n) # 0
    <3>1. Positive(Written(n)) = Rounded(n)
      BY <2>1, <2>2, <2>3, <2>7 DEF Positive
    <3>2. Written(Rounded(n)) = Rounded(n)
      BY <2>2, <2>3
    <3>3. Positive(Rounded(n)) = Rounded(n)
      BY <2>3, <2>7 DEF Positive
    <3> QED
      BY <2>4, <3>1, <3>2, <3>3
  <2> QED
    BY <2>6, <2>7
<1> QED
  BY <1>1, <1>2 DEF Number

LEMMA TravelledType ==
  ASSUME NEW c \in Contact
  PROVE  Travelled(c) \in Contact
<1>1. /\ Trim[Upper[c.call]] \in Text /\ Lower[c.band] \in Text /\ Upper[c.mode] \in Text
      /\ Upper[c.submode] \in Text /\ Upper[c.state] \in Text /\ Upper[c.grid] \in Text
      /\ Upper[Sect(c)] \in Text /\ 0 \in 0 .. 999
  BY TextAssumption DEF Contact, Sect
<1>2. /\ Positive(Written(c.rx)) \in Number /\ Positive(Written(c.sfi)) \in Number
      /\ Written(c.power) \in Number /\ Written(c.pos) \in Number
  BY NumberWritten DEF Contact
<1> QED
  BY <1>1, <1>2 DEF Travelled, Contact

LEMMA WriteType ==
  ASSUME NEW c \in Contact
  PROVE  WriteRecord(c) \in Record
<1>1. /\ NullIfBlank(c.call) \in Column /\ NullIfBlank(c.band) \in Column
      /\ NullIfBlank(c.mode) \in Column /\ NullIfBlank(c.submode) \in Column
      /\ NullIfBlank(c.text) \in Column /\ NullIfBlank(c.report) \in Column
      /\ NullIfBlank(c.state) \in Column
      /\ NullIfBlank(c.grid) \in Column /\ Section(c) \in Column
  BY NullText DEF Contact, Section
<1>2. /\ Written(c.rx) \in Number /\ Written(c.sfi) \in Number
      /\ Written(c.power) \in Number /\ Written(c.pos) \in Number
  BY NumberWritten DEF Contact
<1>3. NullIfZero(c.zone) \in Number
  BY NullNumber DEF Contact
<1>4. (IF c.qsl = "N" THEN None ELSE c.qsl) \in Column \cup Statuses
  BY DEF Contact, Column
<1>5. c.time \in Number /\ c.sentDate \in Dates \cup {None}
  BY DEF Contact
<1> QED
  BY <1>1, <1>2, <1>3, <1>4, <1>5 DEF WriteRecord, WrittenTime, Record

LEMMA ToQsoWrite ==
  ASSUME NEW c \in Contact
  PROVE  ToQso(WriteRecord(c)) = Travelled(c)
<1>1. /\ BlankIfNull(NullIfBlank(c.call)) = c.call /\ BlankIfNull(NullIfBlank(c.band)) = c.band
      /\ BlankIfNull(NullIfBlank(c.mode)) = c.mode
      /\ BlankIfNull(NullIfBlank(c.submode)) = c.submode
      /\ BlankIfNull(NullIfBlank(c.text)) = c.text
      /\ BlankIfNull(NullIfBlank(c.report)) = c.report
      /\ BlankIfNull(NullIfBlank(c.state)) = c.state
      /\ BlankIfNull(NullIfBlank(c.grid)) = c.grid
  BY NullText DEF Contact
<1>2. BlankIfNull(Section(c)) = Sect(c)
  BY NullText DEF Contact, Section, Sect
<1>3. ZeroIfNull(NullIfZero(c.zone)) = c.zone
  BY NullNumber DEF Contact
<1>4. ParseQslStatus(IF c.qsl = "N" THEN None ELSE c.qsl) = c.qsl
  BY TextAssumption DEF Contact, ParseQslStatus
<1> QED
  BY <1>1, <1>2, <1>3, <1>4 DEF ToQso, WriteRecord, WrittenTime, Travelled

(* The position that is looked up is one that can be written. *)
LEMMA EnrichTravelled ==
  ASSUME NEW c \in Contact, Written(c.pos) = c.pos
  PROVE  Written(Enrich(c).pos) = Enrich(c).pos
<1>1. PosOf[c.grid] \in {n \in Nat : Rounded(n) = n} \cup {None}
  BY LocatorAssumption DEF Contact
<1>2. Enrich(c).pos = c.pos \/ Enrich(c).pos = PosOf[c.grid]
  BY DEF Enrich, Contact
<1> QED
  BY <1>1, <1>2 DEF Written

(* The conversions of a trip do nothing to what has made one. *)
LEMMA TravelledTwice ==
  ASSUME NEW c \in Contact
  PROVE  Travelled(Enrich(Travelled(c))) = Enrich(Travelled(c))
<1> DEFINE d == Travelled(c)
           e == Enrich(d)
<1>1. d \in Contact /\ e \in Contact
  BY TravelledType, EnrichType
<1>2. /\ Trim[Upper[d.call]] = d.call /\ d.ms = 0
      /\ Lower[d.band] = d.band /\ Upper[d.mode] = d.mode /\ Upper[d.submode] = d.submode
      /\ Upper[d.state] = d.state /\ Upper[d.grid] = d.grid
      /\ d.sect = d.check /\ Upper[d.check] = d.check
  <2>1. Sect(c) \in Text
    BY DEF Contact, Sect
  <2>2. /\ Trim[Upper[Trim[Upper[c.call]]]] = Trim[Upper[c.call]]
        /\ Lower[Lower[c.band]] = Lower[c.band] /\ Upper[Upper[c.mode]] = Upper[c.mode]
        /\ Upper[Upper[c.submode]] = Upper[c.submode]
        /\ Upper[Upper[c.state]] = Upper[c.state] /\ Upper[Upper[c.grid]] = Upper[c.grid]
        /\ Upper[Upper[Sect(c)]] = Upper[Sect(c)]
    BY <2>1, TextAssumption DEF Contact
  <2> QED
    BY <2>2 DEF Travelled
<1>3. /\ Positive(Written(d.rx)) = d.rx /\ Positive(Written(d.sfi)) = d.sfi
      /\ Written(d.power) = d.power /\ Written(d.pos) = d.pos
  BY NumberWritten DEF Travelled, Contact
<1>4. DOMAIN d = DOMAIN e /\ DOMAIN d =
        {"call", "time", "ms", "band", "mode", "submode", "text", "report", "state", "grid",
         "sect", "check", "rx", "sfi", "power", "zone", "pos", "qsl", "sentDate"}
  BY <1>1 DEF Contact
<1> HIDE DEF d
<1>5. Written(e.pos) = e.pos
  BY <1>1, <1>3, EnrichTravelled
<1>6. \A f \in DOMAIN d \ {"pos"} : e[f] = d[f]
  BY <1>1, EnrichType
<1> HIDE DEF e
<1>7. Sect(e) = e.check /\ e.sect = e.check
  BY <1>2, <1>4, <1>6 DEF Sect
<1>8. /\ Trim[Upper[e.call]] = e.call /\ e.ms = 0
      /\ Lower[e.band] = e.band /\ Upper[e.mode] = e.mode /\ Upper[e.submode] = e.submode
      /\ Upper[e.state] = e.state /\ Upper[e.grid] = e.grid /\ Upper[Sect(e)] = e.check
      /\ Positive(Written(e.rx)) = e.rx /\ Positive(Written(e.sfi)) = e.sfi
      /\ Written(e.power) = e.power
  BY <1>2, <1>3, <1>4, <1>6, <1>7
<1>9. Travelled(e) = e
  BY <1>1, <1>5, <1>7, <1>8 DEF Travelled, Contact
<1> QED
  BY <1>9 DEF e, d

LEMMA EnrichOnce ==
  ASSUME NEW c \in Contact
  PROVE  Enrich(Enrich(c)) = Enrich(c)
BY DEF Enrich, Contact

(* Trips settle: the second one changes nothing. *)
LEMMA TripOnce ==
  ASSUME NEW c \in Contact
  PROVE  Trip(c) \in Contact /\ Trip(Trip(c)) = Trip(c)
<1>1. Trip(c) = Enrich(Travelled(c))
  BY ToQsoWrite DEF Trip
<1>2. Trip(c) \in Contact
  BY <1>1, TravelledType, EnrichType
<1>3. Trip(Trip(c)) = Enrich(Travelled(Trip(c)))
  BY <1>2, ToQsoWrite DEF Trip
<1> QED
  BY <1>1, <1>2, <1>3, TravelledType, TravelledTwice, EnrichOnce

-----------------------------------------------------------------------------
(* The key *)

(* The key of a contact is written as the parser writes it, but for the blanks
   that Log4OM's migration leaves around a callsign. *)
NormalKey(c) ==
  /\ c.call \notin PaddedCalls => Trim[Upper[c.call]] = c.call
  /\ Lower[c.band] = c.band
  /\ Upper[c.mode] = c.mode

(* The contacts that may be under way into a log. *)
Normal == {c \in Contact : NormalKey(c)}

(* What insertQso and updateQso may write into the log of a kind. *)
Kept(kind) ==
  {row \in Row : /\ row.time # None
                 /\ row.call \in Text
                 /\ row.band \in Text \ {Blank} /\ row.mode \in Text \ {Blank}
                 /\ NormalKey(row)
                 /\ kind = "mariadb" => row.ms = 0}

LEMMA EnrichNormal ==
  ASSUME NEW c \in Normal
  PROVE  Enrich(c) \in Normal
<1>1. c \in Contact
  BY DEF Normal
<1>2. Enrich(c) \in Contact /\ \A f \in DOMAIN c \ {"pos"} : Enrich(c)[f] = c[f]
  BY <1>1, EnrichType
<1>3. Enrich(c).call = c.call /\ Enrich(c).band = c.band /\ Enrich(c).mode = c.mode
  BY <1>1, <1>2 DEF Contact
<1> QED
  BY <1>2, <1>3 DEF Normal, NormalKey

LEMMA BindKept ==
  ASSUME NEW c \in Normal, NEW kind, ~Refused(kind, Bind(kind, c))
  PROVE  Bind(kind, c) \in Kept(kind)
<1> DEFINE row == Bind(kind, c)
<1>1. c \in Contact /\ NormalKey(c)
  BY DEF Normal
<1>2. row \in Row /\ (kind = "mariadb" => row.ms = 0)
  BY <1>1, BindType
<1>3. /\ row.call = c.call /\ row.band = NullIfBlank(c.band) /\ row.mode = NullIfBlank(c.mode)
      /\ row.band # None /\ row.mode # None /\ row.time # None
  BY DEF Bind, Refused
<1>4. c.call \in Text /\ c.band \in Text /\ c.mode \in Text
  BY <1>1 DEF Contact
<1>5. row.band = c.band /\ row.mode = c.mode /\ c.band # Blank /\ c.mode # Blank
  BY <1>3, <1>4, NullText
<1> HIDE DEF row
<1>6. row \in Kept(kind)
  BY <1>1, <1>2, <1>3, <1>4, <1>5 DEF Kept, NormalKey
<1> QED
  BY <1>6 DEF row

LEMMA ExtractNormal ==
  ASSUME NEW kind, NEW row \in Kept(kind)
  PROVE  /\ Extract(row) \in Normal
         /\ Extract(row).call = row.call /\ Extract(row).band = row.band
         /\ Extract(row).mode = row.mode /\ Extract(row).time = row.time
         /\ Extract(row).ms = row.ms
<1>1. row \in Row /\ NormalKey(row) /\ row.call \in Text /\ row.band \in Text /\ row.mode \in Text
  BY DEF Kept
<1>2. /\ Extract(row).call = row.call /\ Extract(row).band = row.band
      /\ Extract(row).mode = row.mode /\ Extract(row).time = row.time /\ Extract(row).ms = row.ms
  BY <1>1, TextNull DEF Extract, Column
<1>3. Extract(row) \in Contact
  BY <1>1, ExtractType
<1> QED
  BY <1>1, <1>2, <1>3 DEF Normal, NormalKey

(* A log that holds nothing else after any insertion or update. *)
LEMMA InsertKept ==
  ASSUME NEW kind, NEW rows \in SUBSET Kept(kind), IsFiniteSet(rows), NEW c \in Normal
  PROVE  Insert(kind, rows, c) \in SUBSET Kept(kind) /\ IsFiniteSet(Insert(kind, rows, c))
<1>1. Insert(kind, rows, c) = rows
        \/ (~Refused(kind, Bind(kind, c)) /\ Insert(kind, rows, c) = rows \cup {Bind(kind, c)})
  BY DEF Insert
<1> QED
  BY <1>1, BindKept, FS_AddElement

LEMMA UpdateKept ==
  ASSUME NEW kind, NEW rows \in SUBSET Kept(kind), IsFiniteSet(rows), NEW c \in Normal, NEW old
  PROVE  /\ Update(kind, rows, old, c) \in SUBSET Kept(kind)
         /\ IsFiniteSet(Update(kind, rows, old, c))
<1>1. \/ Update(kind, rows, old, c) = rows
      \/ /\ ~Refused(kind, Bind(kind, c))
         /\ Update(kind, rows, old, c) = (rows \ {old}) \cup {Bind(kind, c)}
  BY DEF Update
<1>2. IsFiniteSet(rows \ {old})
  BY FS_RemoveElement
<1> QED
  BY <1>1, <1>2, BindKept, FS_AddElement

(* The contact of a row, after a trip, has the key of the row. *)
LEMMA TripHasKey ==
  ASSUME NEW kind, NEW rows \in SUBSET Kept(kind), NEW row \in rows,
         Extract(row).ms = 0, Extract(row).call \notin PaddedCalls
  PROVE  Insert(kind, rows, Trip(Extract(row))) = rows
<1> DEFINE c == Extract(row)
           t == Trip(c)
<1>1. row \in Kept(kind) /\ c \in Contact /\ NormalKey(c)
  BY ExtractNormal DEF Normal
<1>2. /\ c.call = row.call /\ c.band = row.band /\ c.mode = row.mode /\ c.time = row.time
      /\ c.ms = row.ms /\ c.band \in Text \ {Blank} /\ c.mode \in Text \ {Blank}
      /\ c.ms = 0 /\ c.call \notin PaddedCalls
  BY ExtractNormal DEF Kept
<1> HIDE DEF c
<1>3. Travelled(c) \in Contact /\ t = Enrich(Travelled(c))
  BY <1>1, TravelledType, ToQsoWrite DEF Trip
<1>4. \A f \in DOMAIN Travelled(c) \ {"pos"} : t[f] = Travelled(c)[f]
  BY <1>3, EnrichType
<1>5. /\ t.call = c.call /\ t.band = c.band /\ t.mode = c.mode /\ t.time = c.time /\ t.ms = 0
  <2>1. /\ t.call = Trim[Upper[c.call]] /\ t.band = Lower[c.band] /\ t.mode = Upper[c.mode]
        /\ t.time = c.time /\ t.ms = 0
    BY <1>4 DEF Travelled
  <2> QED
    BY <1>1, <1>2, <2>1 DEF NormalKey
<1> HIDE DEF t
<1>6. Key(Bind(kind, t)) = <<c.call, c.time, 0, c.band, c.mode>>
  BY <1>2, <1>5 DEF Key, Bind, NullIfBlank
<1>7. Key(row) = <<c.call, c.time, 0, c.band, c.mode>>
  BY <1>2 DEF Key, c
<1>8. Insert(kind, rows, t) = rows
  BY <1>6, <1>7 DEF Insert
<1> QED
  BY <1>8 DEF t, c

(* A contact that a file has room for comes back as it was. *)
LEMMA TripKeeps ==
  ASSUME NEW c \in Normal, Lossless(c)
  PROVE  Trip(c) = c
<1>1. c \in Contact /\ NormalKey(c)
  BY DEF Normal
<1>2. /\ Upper[c.submode] = c.submode /\ Upper[c.state] = c.state /\ Upper[c.grid] = c.grid
      /\ Upper[c.sect] = c.sect /\ Sect(c) = c.sect /\ c.check = c.sect
  BY DEF Lossless, Sect
<1>3. /\ Written(c.power) = c.power /\ Written(c.pos) = c.pos
      /\ Positive(Written(c.rx)) = c.rx /\ Positive(Written(c.sfi)) = c.sfi
  BY DEF Lossless, Written, Positive
<1>4. c.ms = 0 /\ c.call \notin PaddedCalls
  BY DEF Lossless
<1>5. Travelled(c) = c
  BY <1>1, <1>2, <1>3, <1>4 DEF Travelled, NormalKey, Contact
<1> QED
  BY <1>1, <1>5, ToQsoWrite DEF Trip, Lossless

-----------------------------------------------------------------------------
(* The dialog *)

LEMMA ListedModes ==
  /\ ModeNames[1] \in Modes /\ Modes \subseteq Text \ {Blank}
  /\ \A mode \in Modes : Upper[mode] = mode
<1>1. ModeNames \in Seq(Text \ {Blank}) /\ Len(ModeNames) > 0
  BY DialogAssumption
<1>2. \A i \in 1 .. Len(ModeNames) : ModeNames[i] \in Text \ {Blank} /\ Upper[ModeNames[i]] = ModeNames[i]
  BY <1>1, DialogAssumption, ElementOfSeq
<1>3. 1 \in 1 .. Len(ModeNames)
  BY <1>1, LenProperties
<1> QED
  BY <1>2, <1>3 DEF Modes, Items

LEMMA ListedSubmodes ==
  ASSUME NEW mode \in Text
  PROVE  FirstSubmode(mode) \in Text /\ Items(SubmodesOf[mode]) \subseteq Text \ {Blank}
<1>1. SubmodesOf[mode] \in Seq(Text \ {Blank})
  BY DialogAssumption
<1> DEFINE list == SubmodesOf[mode]
<1> HIDE DEF list
<1>2. \A i \in 1 .. Len(list) : list[i] \in Text \ {Blank}
  BY <1>1, ElementOfSeq DEF list
<1>3. list # <<>> => 1 \in 1 .. Len(list)
  BY <1>1, EmptySeq DEF list
<1> QED
  BY <1>2, <1>3, TextAssumption DEF FirstSubmode, Items, list

LEMMA LoadType ==
  ASSUME NEW c \in Contact, NEW isNew \in BOOLEAN
  PROVE  LoadQso(c, isNew) \in Form
<1>1. /\ c.call \in Text /\ c.submode \in Text /\ c.text \in Text /\ c.report \in Text
      /\ c.state \in Text /\ c.grid \in Text /\ c.sect \in Text /\ c.check \in Text
      /\ c.time \in Number /\ c.ms \in 0 .. 999 /\ c.zone \in Nat /\ c.qsl \in Statuses
  BY DEF Contact
<1>2. LoadedMode(c) \in Modes
  BY ListedModes DEF LoadedMode
<1>3. LoadedSubmode(c, isNew) \in Text
  BY <1>1, <1>2, ListedModes, ListedSubmodes DEF LoadedSubmode
<1>4. /\ Cut[c.call] \in Text /\ Cut[c.grid] \in Text /\ Cut[c.sect] \in Text
      /\ Cut[c.check] \in Text /\ Cut[c.report] \in Text
  BY <1>1, DialogAssumption
<1>5. ASSUME NEW n \in Number, NEW max \in Nat PROVE Spun(n, max) \in Nat
  BY NumberNull, RoundedOnce DEF Spun, Clip
<1>6. \A spin \in {"rx", "sfi", "power", "zone"} : Limit[spin] \in Nat
  BY DialogAssumption
<1>7. /\ Spun(c.rx, Limit.rx) \in Nat /\ Spun(c.sfi, Limit.sfi) \in Nat
      /\ Spun(c.power, Limit.power) \in Nat
  BY <1>5, <1>6 DEF Contact
<1>8. Clip(c.zone, Limit.zone) \in Nat
  BY <1>1, <1>6 DEF Clip
<1> QED
  BY <1>1, <1>2, <1>3, <1>4, <1>7, <1>8 DEF LoadQso, Form

(* What an entry changes besides itself. *)
Touched(entry) == IF entry = "mode" THEN {"mode", "submode"} ELSE {entry}

Offered(form, entry) ==
  IF entry = "submode" THEN Items(SubmodesOf[form.mode]) ELSE Typed[entry]

LEMMA EnterType ==
  ASSUME NEW form \in Form, NEW entry \in Entries, NEW value \in Offered(form, entry)
  PROVE  /\ EnterIn(form, entry, value) \in Form
         /\ \A f \in Entries \ Touched(entry) : EnterIn(form, entry, value)[f] = form[f]
<1>1. CASE entry = "mode"
  <2>1. value \in Modes
    BY <1>1, TravelsAssumption DEF Offered
  <2>2. FirstSubmode(value) \in Text
    BY <2>1, ListedModes, ListedSubmodes
  <2> DEFINE sub == FirstSubmode(value)
  <2>3. EnterIn(form, entry, value) = [form EXCEPT !.mode = value, !.submode = sub]
    BY <1>1 DEF EnterIn
  <2> HIDE DEF sub
  <2>4. [form EXCEPT !.mode = value, !.submode = sub] \in Form
    BY <2>1, <2>2 DEF Form, sub
  <2>5. \A f \in Entries \ {"mode", "submode"} :
          [form EXCEPT !.mode = value, !.submode = sub][f] = form[f]
    BY DEF Form, Entries
  <2> QED
    BY <1>1, <2>3, <2>4, <2>5 DEF Touched
<1>2. CASE entry = "submode"
  <2>1. form.mode \in Text
    BY ListedModes DEF Form
  <2>2. value \in Text
    BY <1>2, <2>1, ListedSubmodes DEF Offered
  <2>3. EnterIn(form, entry, value) = [form EXCEPT !.submode = value]
    BY <1>2 DEF EnterIn
  <2> QED
    BY <1>2, <2>2, <2>3 DEF Form, Entries, Touched
<1>3. CASE entry \in {"call", "text", "report", "state", "grid", "sect", "check"}
  <2>1. value \in Text
    BY <1>3, TravelsAssumption DEF Offered
  <2>2. EnterIn(form, entry, value) = [form EXCEPT ![entry] = value] /\ Touched(entry) = {entry}
    BY <1>3 DEF EnterIn, Touched
  <2> QED
    BY <1>3, <2>1, <2>2 DEF Form, Entries
<1>4. CASE entry \in {"time", "rx", "sfi", "power", "zone"}
  <2>1. value \in Nat
    BY <1>4, TravelsAssumption DEF Offered
  <2>2. EnterIn(form, entry, value) = [form EXCEPT ![entry] = value] /\ Touched(entry) = {entry}
    BY <1>4 DEF EnterIn, Touched
  <2> QED
    BY <1>4, <2>1, <2>2 DEF Form, Entries, Number
<1>5. CASE entry \in {"ms", "band", "qsl"}
  <2>1. /\ entry = "ms" => value \in 0 .. 999
        /\ entry = "band" => value \in Bands
        /\ entry = "qsl" => value \in Statuses
    BY <1>5, TravelsAssumption DEF Offered
  <2>2. EnterIn(form, entry, value) = [form EXCEPT ![entry] = value] /\ Touched(entry) = {entry}
    BY <1>5 DEF EnterIn, Touched
  <2> QED
    BY <1>5, <2>1, <2>2 DEF Form, Entries
<1> QED
  BY <1>1, <1>2, <1>3, <1>4, <1>5 DEF Entries

(* Whatever the user has entered, the dialog writes the key as the parser does. *)
LEMMA ReadNormal ==
  ASSUME NEW form \in Form, NEW c \in Contact
  PROVE  ReadQso(form, c) \in Normal
<1>1. /\ form.call \in Text /\ form.band \in Bands \cup {Blank} /\ form.mode \in Modes
      /\ form.submode \in Text
      /\ form.text \in Text /\ form.report \in Text /\ form.state \in Text /\ form.grid \in Text
      /\ form.sect \in Text /\ form.check \in Text
      /\ form.time \in Number /\ form.ms \in 0 .. 999
      /\ form.rx \in Nat /\ form.sfi \in Nat /\ form.power \in Nat /\ form.zone \in Nat /\ form.qsl \in Statuses
  BY DEF Form
<1>2. /\ form.band \in Text /\ Lower[form.band] = form.band
      /\ form.mode \in Text /\ Upper[form.mode] = form.mode
  BY <1>1, DialogAssumption, ListedModes, TextAssumption
<1>3. EnteredCall(form.call) \in Text
      /\ Trim[Upper[EnteredCall(form.call)]] = EnteredCall(form.call)
  BY <1>1, TextAssumption DEF EnteredCall
<1>4. /\ Trim[form.text] \in Text /\ Trim[form.report] \in Text /\ Trim[form.state] \in Text /\ Trim[Upper[form.grid]] \in Text
      /\ Trim[Upper[form.sect]] \in Text /\ Trim[form.check] \in Text
  BY <1>1, TextAssumption
<1>5. /\ NullIfZero(form.rx) \in Number /\ NullIfZero(form.sfi) \in Number
      /\ NullIfZero(form.power) \in Number
  BY <1>1, NullNumber
<1>6. ReadQso(form, c) \in Contact
  BY <1>1, <1>2, <1>3, <1>4, <1>5 DEF ReadQso, Contact
<1>7. /\ ReadQso(form, c).call = EnteredCall(form.call)
      /\ ReadQso(form, c).band = form.band /\ ReadQso(form, c).mode = form.mode
  BY DEF ReadQso, Contact
<1> QED
  BY <1>2, <1>3, <1>6, <1>7 DEF Normal, NormalKey

(* What the user has left alone is read back as it was loaded. *)
LEMMA ReadBack ==
  ASSUME NEW c \in Contact, NEW form \in Form, NEW entered \in SUBSET Entries,
         \A f \in Entries \ entered : form[f] = LoadQso(c, FALSE)[f],
         NEW f \in DOMAIN c \ entered, Fits(c, f)
  PROVE  ReadQso(form, c)[f] = c[f]
<1> DEFINE load == LoadQso(c, FALSE)
           read == ReadQso(form, c)
<1>1. f \in {"call", "time", "ms", "band", "mode", "submode", "text", "report", "state", "grid",
             "sect", "check", "rx", "sfi", "power", "zone", "pos", "qsl", "sentDate"}
  BY DEF Contact
<1>2. /\ load.call = Cut[c.call] /\ load.time = c.time /\ load.ms = c.ms
      /\ load.band = IF c.band \in Bands THEN c.band ELSE Blank
      /\ load.mode = LoadedMode(c) /\ load.submode = LoadedSubmode(c, FALSE)
      /\ load.text = c.text /\ load.report = Cut[c.report]
      /\ load.state = c.state /\ load.grid = Cut[c.grid]
      /\ load.sect = Cut[c.sect] /\ load.check = Cut[c.check]
      /\ load.rx = Spun(c.rx, Limit.rx) /\ load.sfi = Spun(c.sfi, Limit.sfi)
      /\ load.power = Spun(c.power, Limit.power)
      /\ load.zone = Clip(c.zone, Limit.zone) /\ load.qsl = c.qsl
  BY DEF LoadQso
<1>3. /\ read.call = Trim[Upper[form.call]] /\ read.time = form.time /\ read.ms = form.ms
      /\ read.band = form.band /\ read.mode = form.mode /\ read.submode = form.submode
      /\ read.text = Trim[form.text] /\ read.report = Trim[form.report]
      /\ read.state = Trim[form.state]
      /\ read.grid = Trim[Upper[form.grid]] /\ read.sect = Trim[Upper[form.sect]]
      /\ read.check = Trim[form.check]
      /\ read.rx = NullIfZero(form.rx) /\ read.sfi = NullIfZero(form.sfi)
      /\ read.power = NullIfZero(form.power)
      /\ read.zone = form.zone /\ read.qsl = form.qsl
      /\ read.pos = c.pos /\ read.sentDate = c.sentDate
  BY DEF ReadQso, EnteredCall, Contact
<1>4. f \in Entries => form[f] = load[f]
  OBVIOUS
<1> HIDE DEF load, read
<1>5. CASE f \in {"pos", "sentDate"}
  BY <1>3, <1>5 DEF read
<1>6. CASE f \in {"call", "grid", "sect"}
  <2>1. form[f] = Cut[c[f]] /\ read[f] = Trim[Upper[form[f]]]
    BY <1>2, <1>3, <1>4, <1>6 DEF Entries
  <2> QED
    BY <1>6, <2>1 DEF Fits, read
<1>7. CASE f \in {"text", "report", "state", "check"}
  BY <1>2, <1>3, <1>4, <1>7 DEF Entries, Fits, read
<1>8. CASE f \in {"time", "ms", "qsl"}
  BY <1>2, <1>3, <1>4, <1>8 DEF Entries, read
<1>9. CASE f = "band"
  BY <1>2, <1>3, <1>4, <1>9 DEF Entries, Fits, read
<1>10. CASE f \in {"mode", "submode"}
  <2>1. load.mode = c.mode /\ LoadedMode(c) = c.mode
    BY <1>2, <1>10 DEF Fits, LoadedMode
  <2>2. f = "submode" => load.submode = c.submode
    BY <1>2, <2>1 DEF Fits, LoadedSubmode
  <2> QED
    BY <1>3, <1>4, <1>10, <2>1, <2>2 DEF Entries, read
<1>11. CASE f \in {"rx", "sfi", "power"}
  <2> DEFINE n == c[f]
             max == Limit[f]
  <2>1. n \in Number /\ max \in Nat /\ n # 0 /\ (n # None => Rounded(n) = n /\ n <= max)
    BY <1>11, DialogAssumption DEF Contact, Fits
  <2>2. form[f] = Spun(n, max) /\ read[f] = NullIfZero(form[f])
    BY <1>2, <1>3, <1>4, <1>11 DEF Entries
  <2> HIDE DEF n, max
  <2>3. Rounded(ZeroIfNull(n)) = ZeroIfNull(n) /\ ZeroIfNull(n) <= max
    BY <2>1 DEF ZeroIfNull, Rounded
  <2>4. Spun(n, max) = ZeroIfNull(n)
    BY <2>1, <2>3, NumberNull DEF Spun, Clip
  <2>5. NullIfZero(ZeroIfNull(n)) = n
    BY <2>1, NumberNull
  <2> QED
    BY <2>2, <2>4, <2>5 DEF n, read
<1>12. CASE f = "zone"
  <2>1. c.zone \in Nat /\ Limit.zone \in Nat /\ c.zone <= Limit.zone
    BY <1>12, DialogAssumption DEF Contact, Fits
  <2> QED
    BY <1>2, <1>3, <1>4, <1>12, <2>1 DEF Entries, Clip, read
<1> QED
  BY <1>1, <1>5, <1>6, <1>7, <1>8, <1>9, <1>10, <1>11, <1>12

-----------------------------------------------------------------------------
(* The invariant *)

(* A function on the first numbers is a sequence. *)
LEMMA Listed ==
  ASSUME NEW S, NEW n \in Nat, NEW f \in [1 .. n -> S]
  PROVE  f \in Seq(S) /\ DOMAIN f = 1 .. n
OBVIOUS

Dialogs ==
  [log : Logs, isNew : BOOLEAN, original : Contact, form : Form, entered : SUBSET Entries]

LogsInv ==
  /\ logs \in [Logs -> SUBSET Row]
  /\ \A l \in Logs : logs[l] \in SUBSET Kept(KindOf[l]) /\ IsFiniteSet(logs[l])

TodoInv == todo \in [Logs -> Seq(Normal \cup {None})]

(* What the user has not entered stands in the dialog as it was loaded. *)
DialogInv ==
  dialog # None =>
    /\ dialog \in Dialogs
    /\ ~dialog.isNew /\ KindOf[dialog.log] = "mariadb" => dialog.original.ms = 0
    /\ \A f \in Entries \ dialog.entered :
         dialog.form[f] = LoadQso(dialog.original, dialog.isNew)[f]

IInv == LogsInv /\ TodoInv /\ DialogInv /\ file \in File \cup {None} /\ ops \in 0 .. MaxOps

LEMMA NormalTyped == Normal \subseteq Contact
BY DEF Normal

LEMMA QuickNormal == Quick \subseteq Normal
BY TravelsAssumption DEF Normal, NormalKey

(* One log that changes. *)
LEMMA LogChanges ==
  ASSUME LogsInv, NEW l \in Logs, NEW rows \in SUBSET Kept(KindOf[l]), IsFiniteSet(rows),
         logs' = [logs EXCEPT ![l] = rows]
  PROVE  LogsInv'
<1>1. rows \in SUBSET Row
  BY DEF Kept
<1> QED
  BY <1>1 DEF LogsInv

LEMMA PutKeeps ==
  ASSUME LogsInv, NEW l \in Logs, NEW c \in Normal, Put(l, c)
  PROVE  LogsInv'
<1> DEFINE rows == Insert(KindOf[l], logs[l], Enrich(c))
<1>1. logs' = [logs EXCEPT ![l] = rows]
  BY DEF Put
<1>2. logs[l] \in SUBSET Kept(KindOf[l]) /\ IsFiniteSet(logs[l]) /\ Enrich(c) \in Normal
  BY EnrichNormal DEF LogsInv
<1>3. rows \in SUBSET Kept(KindOf[l]) /\ IsFiniteSet(rows)
  BY <1>2, InsertKept
<1> HIDE DEF rows
<1> QED
  BY <1>1, <1>3, LogChanges

(* The contacts of a log are finitely many, and normal. *)
LEMMA StoredNormal ==
  ASSUME LogsInv, NEW l \in Logs
  PROVE  Stored(l) \subseteq Normal /\ IsFiniteSet(Stored(l)) /\ Cardinality(Stored(l)) \in Nat
<1>1. \A row \in logs[l] : row \in Kept(KindOf[l])
  BY DEF LogsInv
<1>2. Stored(l) \subseteq Normal
  BY <1>1, ExtractNormal DEF Stored
<1> DEFINE f == [row \in logs[l] |-> Extract(row)]
<1>3. f \in Surjection(logs[l], Stored(l))
  BY DEF Surjection, Stored
<1>4. IsFiniteSet(logs[l])
  BY DEF LogsInv
<1> HIDE DEF f
<1>5. IsFiniteSet(Stored(l))
  BY <1>3, <1>4, FS_Surjection
<1> QED
  BY <1>2, <1>5, FS_CardinalityType

LEMMA ShowKeeps ==
  ASSUME NEW l \in Logs, NEW c \in Contact, NEW isNew \in BOOLEAN, ShowDialog(l, c, isNew),
         ~isNew /\ KindOf[l] = "mariadb" => c.ms = 0
  PROVE  DialogInv'
<1> DEFINE form == LoadQso(c, isNew)
<1>1. form \in Form
  BY LoadType
<1>2. dialog' = [log |-> l, isNew |-> isNew, original |-> c, form |-> form, entered |-> {}]
  BY DEF ShowDialog
<1>3. \A f \in Entries : dialog'.form[f] = LoadQso(dialog'.original, dialog'.isNew)[f]
  BY <1>2
<1> HIDE DEF form
<1>4. dialog' \in Dialogs
  BY <1>1, <1>2 DEF Dialogs
<1> QED
  BY <1>2, <1>3, <1>4 DEF DialogInv

LEMMA EnterKeeps ==
  ASSUME DialogInv, NEW entry \in Entries, Enter(entry)
  PROVE  DialogInv'
<1>1. /\ dialog \in Dialogs
      /\ ~dialog.isNew /\ KindOf[dialog.log] = "mariadb" => dialog.original.ms = 0
      /\ \A f \in Entries \ dialog.entered :
           dialog.form[f] = LoadQso(dialog.original, dialog.isNew)[f]
  BY DEF Enter, DialogInv
<1>2. PICK value \in Offered(dialog.form, entry) :
        dialog' = [dialog EXCEPT !.form = EnterIn(@, entry, value),
                                 !.entered = @ \cup Touched(entry)]
  BY DEF Enter, Offered, Touched
<1> DEFINE form == EnterIn(dialog.form, entry, value)
<1>3. /\ dialog.form \in Form
      /\ form \in Form
      /\ \A f \in Entries \ Touched(entry) : form[f] = dialog.form[f]
  BY <1>1, EnterType DEF Dialogs
<1>4. Touched(entry) \subseteq Entries
  BY DEF Touched, Entries
<1>5. dialog' = [dialog EXCEPT !.form = form, !.entered = @ \cup Touched(entry)]
  BY <1>2
<1> HIDE DEF form
<1>6. /\ dialog' \in Dialogs
      /\ dialog'.log = dialog.log /\ dialog'.isNew = dialog.isNew
      /\ dialog'.original = dialog.original
      /\ dialog'.form = form /\ dialog'.entered = dialog.entered \cup Touched(entry)
  BY <1>1, <1>3, <1>4, <1>5 DEF Dialogs
<1> QED
  BY <1>1, <1>3, <1>6 DEF DialogInv

(* The row that Save writes is one of a normal contact. *)
LEMMA AcceptKeeps ==
  ASSUME LogsInv, DialogInv, Accept
  PROVE  LogsInv'
<1> DEFINE l == dialog.log
           c == ReadQso(dialog.form, dialog.original)
<1>1. dialog \in Dialogs
  BY DEF Accept, DialogInv
<1>2. l \in Logs /\ c \in Normal
  BY <1>1, ReadNormal DEF Dialogs
<1>3. CASE dialog.isNew
  BY <1>2, <1>3, PutKeeps DEF Accept
<1>4. CASE ~dialog.isNew
  <2> DEFINE rows == Update(KindOf[l], logs[l], Bind(KindOf[l], dialog.original), Enrich(c))
  <2>1. logs' = [logs EXCEPT ![l] = rows]
    BY <1>4 DEF Accept
  <2>2. logs[l] \in SUBSET Kept(KindOf[l]) /\ IsFiniteSet(logs[l]) /\ Enrich(c) \in Normal
    BY <1>2, EnrichNormal DEF LogsInv
  <2>3. rows \in SUBSET Kept(KindOf[l]) /\ IsFiniteSet(rows)
    BY <2>2, UpdateKept
  <2> HIDE DEF rows, c, l
  <2> QED
    BY <1>2, <2>1, <2>3, LogChanges
<1> QED
  BY <1>3, <1>4

LEMMA ExportKeeps ==
  ASSUME LogsInv, NEW l \in Logs, Export(l)
  PROVE  file' \in File
<1>1. PICK s \in Orders(Stored(l)) :
        file' = [header |-> TRUE, records |-> [i \in DOMAIN s |-> WriteRecord(s[i])]]
  BY DEF Export
<1> DEFINE n == Cardinality(Stored(l))
           records == [i \in DOMAIN s |-> WriteRecord(s[i])]
<1>2. n \in Nat /\ s \in [1 .. n -> Stored(l)] /\ Stored(l) \subseteq Contact
  BY StoredNormal, NormalTyped DEF Orders
<1>3. records \in [1 .. n -> Record]
  BY <1>2, WriteType
<1> HIDE DEF n, records
<1>4. records \in Seq(Record)
  BY <1>2, <1>3, Listed
<1> QED
  BY <1>1, <1>4 DEF File, records

(* What the parser makes of a record, of any program. *)
LEMMA ToQsoNormal ==
  ASSUME NEW r \in Record, Complete(r)
  PROVE  ToQso(r) \in Normal
<1>1. /\ BlankIfNull(r.CALL) \in Text /\ BlankIfNull(r.BAND) \in Text
      /\ BlankIfNull(r.MODE) \in Text /\ BlankIfNull(r.SUBMODE) \in Text
      /\ BlankIfNull(r.NAME) \in Text /\ BlankIfNull(r.RST_SENT) \in Text
      /\ BlankIfNull(r.STATE_) \in Text
      /\ BlankIfNull(r.GRIDSQUARE) \in Text /\ BlankIfNull(r.ARRL_SECT) \in Text
  BY TextNull DEF Record
<1>2. /\ Positive(r.FREQ_RX) \in Number /\ Positive(r.SFI) \in Number
      /\ ZeroIfNull(r.CQZ) \in Nat
  BY NumberWritten, NumberNull DEF Record
<1>3. ParseQslStatus(r.QSL_SENT) \in Statuses
  BY DEF ParseQslStatus, Statuses
<1>4. /\ r.TIME_ON \in Number /\ r.TX_PWR \in Number /\ r.LAT \in Number
      /\ r.QSL_SDATE \in Dates \cup {None}
  BY DEF Record
<1>5. ToQso(r) \in Contact
  BY <1>1, <1>2, <1>3, <1>4, TextAssumption DEF ToQso, Contact
<1>6. /\ ToQso(r).call = Trim[Upper[BlankIfNull(r.CALL)]]
      /\ ToQso(r).band = Lower[BlankIfNull(r.BAND)]
      /\ ToQso(r).mode = Upper[BlankIfNull(r.MODE)]
  BY DEF ToQso
<1>7. NormalKey(ToQso(r))
  BY <1>1, <1>6, TextAssumption DEF NormalKey
<1> QED
  BY <1>5, <1>7 DEF Normal

LEMMA ImportKeeps ==
  ASSUME TodoInv, file \in File \cup {None}, NEW l \in Logs, Import(l)
  PROVE  TodoInv'
<1> DEFINE read == ParseFile(file)
           contacts == [i \in DOMAIN read |-> IF read[i] = None THEN None ELSE Enrich(read[i])]
           n == Len(file.records)
<1>1. file.records \in Seq(Record)
  BY DEF Import, File
<1>2. /\ n \in Nat /\ DOMAIN file.records = 1 .. n
      /\ \A i \in 1 .. n : file.records[i] \in Record
  BY <1>1, LenProperties, ElementOfSeq
<1>3. read \in [1 .. n -> Normal \cup {None}]
  BY <1>2, ToQsoNormal DEF ParseFile
<1> HIDE DEF read, n
<1>4. contacts \in [1 .. n -> Normal \cup {None}]
  BY <1>3, EnrichNormal
<1>5. todo' = [todo EXCEPT ![l] = contacts]
  BY DEF Import, read
<1> HIDE DEF contacts
<1>6. contacts \in Seq(Normal \cup {None})
  BY <1>2, <1>4, Listed
<1> QED
  BY <1>5, <1>6 DEF TodoInv

LEMMA MigrateKeeps ==
  ASSUME LogsInv, NEW l \in Logs, NEW m \in Logs, Migrate(l, m)
  PROVE  LogsInv'
<1> DEFINE kind == KindOf[m]
           copies == {Bind(kind, c) : c \in Stored(l)}
<1>1. PICK rows \in SUBSET {row \in copies : ~Refused(kind, row)} : logs' = [logs EXCEPT ![m] = rows]
  BY DEF Migrate
<1>2. Stored(l) \subseteq Normal /\ IsFiniteSet(Stored(l))
  BY StoredNormal
<1>3. rows \in SUBSET Kept(kind)
  BY <1>1, <1>2, BindKept
<1> DEFINE f == [c \in Stored(l) |-> Bind(kind, c)]
<1>4. f \in Surjection(Stored(l), copies)
  BY DEF Surjection
<1> HIDE DEF f, copies
<1>5. IsFiniteSet(copies)
  BY <1>2, <1>4, FS_Surjection
<1>6. IsFiniteSet(rows)
  BY <1>1, <1>5, FS_Subset
<1> QED
  BY <1>1, <1>3, <1>6, LogChanges

(* What the migration makes of a row of Log4OM: no step of it trims a callsign. *)
LEMMA RowToQsoNormal ==
  ASSUME NEW r \in Log4OmRows,
         Trim[Upper[BlankIfNull(r.call)]] # Upper[BlankIfNull(r.call)]
           => Upper[BlankIfNull(r.call)] \in PaddedCalls
  PROVE  RowToQso(r) \in Normal
<1>1. /\ BlankIfNull(r.call) \in Text /\ BlankIfNull(r.band) \in Text
      /\ BlankIfNull(r.mode) \in Text /\ BlankIfNull(r.text) \in Text
      /\ BlankIfNull(r.report) \in Text
      /\ BlankIfNull(r.state) \in Text /\ BlankIfNull(r.grid) \in Text
      /\ BlankIfNull(r.sect) \in Text /\ BlankIfNull(r.check) \in Text
  BY TextNull DEF Log4OmRows
<1> DEFINE old  == Upper[BlankIfNull(r.mode)]
           mode == Renamed(old)
<1>2. old \in Text /\ Upper[old] = old
  BY <1>1, TextAssumption
<1> HIDE DEF old
<1>3. mode.new \in Text /\ mode.sub \in Text /\ Upper[mode.new] = mode.new
  <2>1. CASE \E m \in Renames : m.old = old
    <3>1. mode \in Renames
      BY <2>1 DEF Renamed
    <3> HIDE DEF mode
    <3> QED
      BY <3>1, RenamesAssumption DEF Rename
  <2>2. CASE ~\E m \in Renames : m.old = old
    BY <1>2, <2>2, TextAssumption DEF Renamed
  <2> QED
    BY <2>1, <2>2
<1> HIDE DEF mode
<1>4. /\ (IF r.rx = 0 THEN None ELSE r.rx) \in Number /\ ZeroIfNull(r.zone) \in Nat
      /\ r.time \in Number /\ r.sfi \in Number /\ r.power \in Number /\ r.pos \in Number
  BY NumberNull DEF Log4OmRows, Number
<1>5. ConfirmedStatus(r.confirmed) \in Statuses /\ ConfirmedDate(r.confirmed) \in Dates \cup {None}
  BY DEF Log4OmRows, ConfirmedStatus, ConfirmedDate, Statuses
<1>6. /\ Upper[BlankIfNull(r.call)] \in Text /\ Lower[BlankIfNull(r.band)] \in Text
      /\ Upper[BlankIfNull(r.grid)] \in Text
      /\ Lower[Lower[BlankIfNull(r.band)]] = Lower[BlankIfNull(r.band)]
      /\ Upper[Upper[BlankIfNull(r.call)]] = Upper[BlankIfNull(r.call)]
  BY <1>1, TextAssumption
<1>7. RowToQso(r) \in Contact
  BY <1>1, <1>3, <1>4, <1>5, <1>6 DEF RowToQso, Contact, mode, old
<1>8. /\ RowToQso(r).call = Upper[BlankIfNull(r.call)]
      /\ RowToQso(r).band = Lower[BlankIfNull(r.band)]
      /\ RowToQso(r).mode = mode.new
  BY DEF RowToQso, mode, old
<1> QED
  BY <1>3, <1>6, <1>7, <1>8 DEF Normal, NormalKey

LEMMA MigrateLog4OmKeeps ==
  ASSUME TodoInv, NEW l \in Logs, MigrateLog4Om(l)
  PROVE  TodoInv'
<1> DEFINE contacts == [i \in DOMAIN Log4OmLog |-> RowToQso(Log4OmLog[i])]
           n == Len(Log4OmLog)
<1>1. /\ n \in Nat /\ DOMAIN Log4OmLog = 1 .. n
      /\ \A i \in 1 .. n : Log4OmLog[i] \in Log4OmRows
  BY TravelsAssumption, LenProperties, ElementOfSeq
<1>2. \A i \in 1 .. n : RowToQso(Log4OmLog[i]) \in Normal
  BY <1>1, TextAssumption, RowToQsoNormal DEF PaddedCalls
<1>3. contacts \in [1 .. n -> Normal \cup {None}]
  BY <1>1, <1>2
<1>4. todo' = [todo EXCEPT ![l] = contacts]
  BY DEF MigrateLog4Om
<1> HIDE DEF contacts, n
<1>5. contacts \in Seq(Normal \cup {None})
  BY <1>1, <1>3, Listed
<1> QED
  BY <1>4, <1>5 DEF TodoInv

LEMMA TakeUpKeeps ==
  ASSUME LogsInv, TodoInv, NEW l \in Logs, TakeUp(l)
  PROVE  LogsInv' /\ TodoInv'
<1> DEFINE list == todo[l]
           c == Head(list)
<1>1. list \in Seq(Normal \cup {None}) /\ list # <<>>
  BY DEF TodoInv, TakeUp, Idle
<1>2. todo' = [todo EXCEPT ![l] = Tail(list)]
  BY DEF TakeUp
<1>3. logs' = IF c = None THEN logs ELSE [logs EXCEPT ![l] = Insert(KindOf[l], logs[l], c)]
  BY DEF TakeUp
<1> HIDE DEF list
<1>4. c \in Normal \cup {None} /\ Tail(list) \in Seq(Normal \cup {None})
  BY <1>1, HeadTailProperties
<1>5. TodoInv'
  BY <1>2, <1>4 DEF TodoInv
<1> HIDE DEF c
<1>6. CASE c = None
  BY <1>3, <1>5, <1>6 DEF LogsInv
<1>7. CASE c # None
  <2> DEFINE rows == Insert(KindOf[l], logs[l], c)
  <2>1. rows \in SUBSET Kept(KindOf[l]) /\ IsFiniteSet(rows)
    BY <1>4, <1>7, InsertKept DEF LogsInv
  <2>2. logs' = [logs EXCEPT ![l] = rows]
    BY <1>3, <1>7
  <2> HIDE DEF rows
  <2> QED
    BY <1>5, <2>1, <2>2, LogChanges
<1> QED
  BY <1>5, <1>6, <1>7

LEMMA OpenNewKeeps ==
  ASSUME NEW l \in Logs, OpenNew(l)
  PROVE  DialogInv'
<1>1. PICK c \in Quick :
        ShowDialog(l, [c EXCEPT !.power = IF @ = None THEN NullIfZero(DefaultPower) ELSE @], TRUE)
  BY DEF OpenNew
<1> DEFINE d == [c EXCEPT !.power = IF @ = None THEN NullIfZero(DefaultPower) ELSE @]
<1>2. c \in Contact /\ NullIfZero(DefaultPower) \in Number
  BY TravelsAssumption, NullNumber
<1>3. d \in Contact
  BY <1>2 DEF Contact
<1> HIDE DEF d
<1>4. ShowDialog(l, d, TRUE)
  BY <1>1 DEF d
<1> QED
  BY <1>3, <1>4, ShowKeeps

LEMMA OpenEditKeeps ==
  ASSUME LogsInv, NEW l \in Logs, OpenEdit(l)
  PROVE  DialogInv'
<1>1. PICK row \in logs[l] : ShowDialog(l, Extract(row), FALSE)
  BY DEF OpenEdit
<1>2. row \in Kept(KindOf[l])
  BY DEF LogsInv
<1>3. Extract(row) \in Contact /\ (KindOf[l] = "mariadb" => Extract(row).ms = 0)
  BY <1>2, ExtractNormal, NormalTyped DEF Kept
<1> QED
  BY <1>1, <1>3, ShowKeeps

LEMMA InitInv == Init => IInv
<1> SUFFICES ASSUME Init PROVE IInv
  OBVIOUS
<1>1. LogsInv
  BY FS_EmptySet DEF Init, LogsInv
<1>2. TodoInv
  BY EmptySeq DEF Init, TodoInv
<1>3. DialogInv
  BY DEF Init, DialogInv
<1>4. ops \in 0 .. MaxOps
  BY TravelsAssumption DEF Init
<1> QED
  BY <1>1, <1>2, <1>3, <1>4 DEF Init, IInv

LEMMA NextKeepsInv == IInv /\ [Next]_vars => IInv'
<1> SUFFICES ASSUME IInv, [Next]_vars PROVE IInv'
  OBVIOUS
<1> USE DEF IInv
<1>0. Operation => ops' \in 0 .. MaxOps
  BY TravelsAssumption DEF Operation
<1>1. ASSUME NEW l \in Logs, LogQuick(l) PROVE IInv'
  <2>1. LogsInv'
    BY <1>1, QuickNormal, PutKeeps DEF LogQuick
  <2> QED
    BY <1>0, <1>1, <2>1 DEF LogQuick, TodoInv, DialogInv
<1>2. ASSUME NEW l \in Logs, OpenNew(l) PROVE IInv'
  <2>1. DialogInv'
    BY <1>2, OpenNewKeeps
  <2> QED
    BY <1>0, <1>2, <2>1 DEF OpenNew, LogsInv, TodoInv
<1>3. ASSUME NEW l \in Logs, OpenEdit(l) PROVE IInv'
  <2>1. DialogInv'
    BY <1>3, OpenEditKeeps
  <2> QED
    BY <1>0, <1>3, <2>1 DEF OpenEdit, LogsInv, TodoInv
<1>4. ASSUME NEW l \in Logs, Export(l) PROVE IInv'
  <2>1. file' \in File
    BY <1>4, ExportKeeps
  <2> QED
    BY <1>0, <1>4, <2>1 DEF Export, LogsInv, TodoInv, DialogInv
<1>5. ASSUME NEW l \in Logs, Import(l) PROVE IInv'
  <2>1. TodoInv'
    BY <1>5, ImportKeeps
  <2> QED
    BY <1>0, <1>5, <2>1 DEF Import, LogsInv, DialogInv
<1>6. ASSUME NEW l \in Logs, MigrateLog4Om(l) PROVE IInv'
  <2>1. TodoInv'
    BY <1>6, MigrateLog4OmKeeps
  <2> QED
    BY <1>0, <1>6, <2>1 DEF MigrateLog4Om, LogsInv, DialogInv
<1>7. ASSUME NEW l \in Logs, TakeUp(l) PROVE IInv'
  <2>1. LogsInv' /\ TodoInv'
    BY <1>7, TakeUpKeeps
  <2> QED
    BY <1>7, <2>1 DEF TakeUp, DialogInv
<1>8. ASSUME NEW l \in Logs, NEW m \in Logs, Migrate(l, m) PROVE IInv'
  <2>1. LogsInv'
    BY <1>8, MigrateKeeps
  <2> QED
    BY <1>0, <1>8, <2>1 DEF Migrate, TodoInv, DialogInv
<1>9. ASSUME NEW entry \in Entries, Enter(entry) PROVE IInv'
  <2>1. DialogInv'
    BY <1>9, EnterKeeps
  <2> QED
    BY <1>9, <2>1 DEF Enter, LogsInv, TodoInv
<1>10. CASE Accept
  <2>1. LogsInv'
    BY <1>10, AcceptKeeps
  <2> QED
    BY <1>10, <2>1 DEF Accept, TodoInv, DialogInv
<1>11. CASE Reject
  BY <1>11 DEF Reject, LogsInv, TodoInv, DialogInv
<1>12. CASE Receive
  BY <1>0, <1>12, TravelsAssumption DEF Receive, LogsInv, TodoInv, DialogInv
<1>13. CASE UNCHANGED vars
  BY <1>13 DEF vars, LogsInv, TodoInv, DialogInv
<1> QED
  BY <1>1, <1>2, <1>3, <1>4, <1>5, <1>6, <1>7, <1>8, <1>9, <1>10, <1>11, <1>12, <1>13 DEF Next

(* The invariant holds in every state. *)
THEOREM Invariance == Spec => []IInv
<1>1. Init => IInv
  BY InitInv
<1>2. IInv /\ [Next]_vars => IInv'
  BY NextKeepsInv
<1> QED
  BY <1>1, <1>2, PTL DEF Spec

-----------------------------------------------------------------------------
(* The theorems *)

(* Logs, files and dialogs hold what their types say. *)
THEOREM TravelsTypes == Spec => []TypeOK
<1>1. IInv => TypeOK
  <2> SUFFICES ASSUME IInv PROVE TypeOK
    OBVIOUS
  <2>1. todo \in [Logs -> Seq(Contact \cup {None})]
    <3>1. ASSUME NEW l \in Logs PROVE todo[l] \in Seq(Contact \cup {None})
      <4>1. todo[l] \in Seq(Normal \cup {None})
        BY DEF IInv, TodoInv
      <4> DEFINE list == todo[l]
      <4> HIDE DEF list
      <4>2. Len(list) \in Nat /\ list \in [1 .. Len(list) -> Normal \cup {None}]
        BY <4>1, LenProperties, ElementOfSeq DEF list
      <4>3. list \in [1 .. Len(list) -> Contact \cup {None}]
        BY <4>2, NormalTyped
      <4>4. list \in Seq(Contact \cup {None})
        BY <4>2, <4>3, Listed
      <4> QED
        BY <4>4 DEF list
    <3> QED
      BY <3>1 DEF IInv, TodoInv
  <2> QED
    BY <2>1 DEF IInv, LogsInv, DialogInv, Dialogs, TypeOK
<1> QED
  BY <1>1, Invariance, PTL

(* Whatever a contact has that a file has room for comes back from a file, for
   every text and number, by whatever way the contact came into the log. *)
THEOREM FileKeeps == Spec => []FileKeepsContact
<1>1. IInv => FileKeepsContact
  BY StoredNormal, TripKeeps DEF IInv, FileKeepsContact
<1> QED
  BY <1>1, Invariance, PTL

(* A file read back into its log adds nothing to it: every way into a log
   writes the key as the parser does, but Log4OM's with its padded callsigns. *)
THEOREM Reimport == Spec => []ReimportAddsNothing
<1>1. ASSUME IInv, NEW l \in Logs, NEW c \in Stored(l), c.ms = 0, c.call \notin PaddedCalls
      PROVE  Insert(KindOf[l], logs[l], Trip(c)) = logs[l]
  <2>1. PICK row \in logs[l] : c = Extract(row)
    BY DEF Stored
  <2>2. logs[l] \in SUBSET Kept(KindOf[l])
    BY <1>1 DEF IInv, LogsInv
  <2> QED
    BY <1>1, <2>1, <2>2, TripHasKey
<1>2. IInv => ReimportAddsNothing
  BY <1>1 DEF ReimportAddsNothing
<1> QED
  BY <1>2, Invariance, PTL

(* A second trip through a file changes nothing more. *)
THEOREM Settles == Spec => []TripsSettle
<1>1. IInv => TripsSettle
  BY StoredNormal, NormalTyped, TripOnce DEF IInv, TripsSettle
<1> QED
  BY <1>1, Invariance, PTL

(* What a row gives back of a contact, but for the fraction of a second, and a
   frequency with more digits than its column. *)
LEMMA BoundBack ==
  ASSUME NEW c \in Contact, NEW kind, NEW f \in DOMAIN c \ {"ms"},
         f = "rx" => InColumn(kind, c.rx) = c.rx
  PROVE  Extract(Bind(kind, c))[f] = c[f]
<1>1. CASE kind # "mariadb"
  BY <1>1, ExtractBind DEF InColumn
<1>2. CASE kind = "mariadb"
  <2> DEFINE e == [c EXCEPT !.ms = 0]
             d == [e EXCEPT !.rx = InColumn(kind, c.rx)]
  <2>0. InColumn(kind, c.rx) \in Number /\ InColumn(kind, InColumn(kind, c.rx)) = InColumn(kind, c.rx)
    BY InColumnType, RoundedOnce, TextAssumption DEF InColumn, Contact, Number
  <2>1. d \in Contact /\ d[f] = c[f] /\ d.ms = 0 /\ InColumn(kind, d.rx) = d.rx
    <3>1. e \in Contact /\ e.ms = 0 /\ e[f] = c[f] /\ DOMAIN e = DOMAIN c /\ "rx" \in DOMAIN c
      <4>1. 0 \in 0 .. 999
        OBVIOUS
      <4> QED
        BY <4>1 DEF Contact
    <3> HIDE DEF e
    <3>2. d.ms = 0 /\ d.rx = InColumn(kind, c.rx) /\ (f # "rx" => d[f] = e[f])
      BY <3>1 DEF Contact
    <3>3. d \in Contact
      BY <2>0, <3>1 DEF Contact
    <3> HIDE DEF d
    <3>4. d[f] = c[f]
      BY <2>0, <3>1, <3>2
    <3> QED
      BY <2>0, <3>2, <3>3, <3>4
  <2>2. Bind(kind, c) = Bind(kind, d)
    BY <1>2, <2>0 DEF Bind, Contact
  <2> HIDE DEF d, e
  <2>3. Extract(Bind(kind, d)) = d
    BY <2>1, ExtractBind
  <2> QED
    BY <2>1, <2>2, <2>3
<1> QED
  BY <1>1, <1>2

(* What the user has not touched in the dialog, and its widget can show, is saved
   as it was stored. *)
THEOREM EditKeeps == Spec => EditKeepsTheRest
<1>1. ASSUME IInv, Accept, ~dialog.isNew,
             NEW l \in Logs, NEW row \in logs'[l] \ logs[l],
             NEW f \in DOMAIN dialog.original \ (dialog.entered \cup {"pos"}),
             Fits(dialog.original, f)
      PROVE  Extract(row)[f] = dialog.original[f]
  <2> DEFINE k == dialog.log
             kind == KindOf[k]
             original == dialog.original
             c == ReadQso(dialog.form, original)
             e == Enrich(c)
             rows == Update(kind, logs[k], Bind(kind, original), e)
  <2>1. /\ k \in Logs /\ original \in Contact /\ dialog.form \in Form
        /\ dialog.entered \in SUBSET Entries
        /\ kind = "mariadb" => original.ms = 0
        /\ \A g \in Entries \ dialog.entered : dialog.form[g] = LoadQso(original, FALSE)[g]
    BY <1>1 DEF IInv, DialogInv, Dialogs, Accept
  <2>2. c \in Contact /\ e \in Contact
    BY <2>1, ReadNormal, NormalTyped, EnrichType
  <2>3. c[f] = original[f]
    BY <1>1, <2>1, ReadBack
  <2>4. f \in DOMAIN c \ {"pos"} /\ f \in DOMAIN e
    BY <2>1, <2>2 DEF Contact
  <2>5. e[f] = original[f]
    BY <2>2, <2>3, <2>4, EnrichType
  <2>6. logs' = [logs EXCEPT ![k] = rows]
    BY <1>1 DEF Accept
  <2>7. rows \subseteq logs[k] \cup {Bind(kind, e)}
    BY DEF Update
  <2> HIDE DEF rows, e, c
  <2>8. row = Bind(kind, e)
    BY <1>1, <2>1, <2>6, <2>7 DEF IInv, LogsInv
  <2>9. f = "rx" => InColumn(kind, e.rx) = e.rx
    BY <1>1, <2>5 DEF Fits, InColumn
  <2>10. CASE f # "ms"
    BY <2>2, <2>4, <2>5, <2>8, <2>10, <2>9, BoundBack
  <2>11. CASE f = "ms" /\ kind # "mariadb"
    BY <2>2, <2>5, <2>8, <2>11, ExtractBind DEF InColumn
  <2>12. CASE f = "ms" /\ kind = "mariadb"
    <3>1. Extract(row).ms = 0
      BY <2>2, <2>8, <2>12, BindType DEF Extract
    <3> QED
      BY <2>1, <2>12, <3>1
  <2> QED
    BY <2>10, <2>11, <2>12
<1>2. IInv /\ [Next]_vars =>
        [Accept /\ ~dialog.isNew =>
           \A l \in Logs : \A row \in logs'[l] \ logs[l] :
             \A f \in DOMAIN dialog.original \ (dialog.entered \cup {"pos"}) :
               Fits(dialog.original, f) => Extract(row)[f] = dialog.original[f]]_vars
  BY <1>1
<1> QED
  BY <1>2, Invariance, PTL DEF Spec, EditKeepsTheRest

=============================================================================
