----------------------------- MODULE AdifRecord -----------------------------
(***************************************************************************)
(* AdifWriter and AdifParser: a contact as a record of an ADIF file and    *)
(* back. A record has a value or None for each field (STATE_ is STATE,     *)
(* which TLA+ reserves); a field that the writer leaves out, and one that  *)
(* is not in a file, is None.                                              *)
(***************************************************************************)
EXTENDS ContactRow

Record ==
  [CALL : Column, TIME_ON : Number, BAND : Column, MODE : Column, SUBMODE : Column,
   NAME : Column, RST_SENT : Column, STATE_ : Column, GRIDSQUARE : Column, ARRL_SECT : Column,
   FREQ_RX : Number, SFI : Number, TX_PWR : Number, CQZ : Number, LAT : Number,
   QSL_SENT : Column \cup Statuses, QSL_SDATE : Dates \cup {None}]

(* Wrong: a zero is left out, as it is where 0 means unknown. *)
WrongWritten(n) == IF n = None \/ n = 0 THEN None ELSE Rounded(n)

(* A number is written with the decimals that ADIF has for it. *)
Written(n) == IF n = None THEN None ELSE Rounded(n)

(* One field name for two members: the parser keeps the later of two fields. *)
Section(c) == NullIfBlank(IF c.check # Blank THEN c.check ELSE c.sect)

(* UTC, to the second *)
WrittenTime(c) == c.time

(* AdifWriter::record: fields without a value are left out, as are QSL flags
   that are N. *)
WriteRecord(c) ==
  [CALL       |-> NullIfBlank(c.call),
   TIME_ON    |-> WrittenTime(c),
   BAND       |-> NullIfBlank(c.band),
   MODE       |-> NullIfBlank(c.mode),
   SUBMODE    |-> NullIfBlank(c.submode),
   NAME       |-> NullIfBlank(c.text),
   RST_SENT   |-> NullIfBlank(c.report),
   STATE_     |-> NullIfBlank(c.state),
   GRIDSQUARE |-> NullIfBlank(c.grid),
   ARRL_SECT  |-> Section(c),
   FREQ_RX    |-> Written(c.rx),
   SFI        |-> Written(c.sfi),
   TX_PWR     |-> Written(c.power),
   CQZ        |-> NullIfZero(c.zone),
   LAT        |-> Written(c.pos),
   QSL_SENT   |-> IF c.qsl = "N" THEN None ELSE c.qsl,
   QSL_SDATE  |-> c.sentDate]

(* parseString: what a record needs to become a contact at all. *)
Complete(f) == f.CALL # None /\ f.TIME_ON # None

ParseQslStatus(value) == IF value \in Statuses THEN value ELSE "N"

(* Positive numbers only: freqRx, age, sfi, distance. *)
Positive(n) == IF n = 0 THEN None ELSE n

(* AdifParser::toQso *)
ToQso(f) ==
  [call     |-> Trim[Upper[BlankIfNull(f.CALL)]],
   time     |-> f.TIME_ON,
   ms       |-> 0,
   band     |-> Lower[BlankIfNull(f.BAND)],
   mode     |-> Upper[BlankIfNull(f.MODE)],
   submode  |-> Upper[BlankIfNull(f.SUBMODE)],
   text     |-> BlankIfNull(f.NAME),
   report   |-> BlankIfNull(f.RST_SENT),
   state    |-> Upper[BlankIfNull(f.STATE_)],
   grid     |-> Upper[BlankIfNull(f.GRIDSQUARE)],
   sect     |-> Upper[BlankIfNull(f.ARRL_SECT)],
   check    |-> Upper[BlankIfNull(f.ARRL_SECT)],
   rx       |-> Positive(f.FREQ_RX),
   sfi      |-> Positive(f.SFI),
   power    |-> f.TX_PWR,
   zone     |-> ZeroIfNull(f.CQZ),
   pos      |-> f.LAT,
   qsl      |-> ParseQslStatus(f.QSL_SENT),
   sentDate |-> f.QSL_SDATE]

(* parseString: fields before the end of the header are not looked at, and the
   first end of a record stands in for it where there is none. What is not
   read as a contact is None. *)
ParseFile(file) ==
  [i \in DOMAIN file.records |->
     IF Complete(file.records[i]) /\ (file.header \/ i > 1)
     THEN ToQso(file.records[i])
     ELSE None]

(* A contact that is exported and imported again. *)
Trip(c) == Enrich(ToQso(WriteRecord(c)))

=============================================================================
