------------------------------ MODULE BandPlan ------------------------------
(***************************************************************************)
(* BandPlan: the tables of bands and modes, in the order of the program,   *)
(* and what the entry form and the full dialog look up in them. Bands may  *)
(* share an edge, as 6m and 5m share 54 MHz.                               *)
(***************************************************************************)
EXTENDS Naturals, Sequences

CONSTANTS
  Plan,          (* s_bands                                                    *)
  ModeTable,     (* s_modes                                                    *)
  Blank          (* the empty text; as a band, the placeholder for none         *)

BandEntry == [name : STRING, low : Nat, high : Nat, default : Nat]
ModeEntry == [mode : STRING, rst : STRING, submodes : Seq(STRING)]

Places(table) == 1 .. Len(table)

ASSUME PlanAssumption ==
  /\ Plan \in Seq(BandEntry)
  /\ \A i \in Places(Plan) :
       /\ 0 < Plan[i].low /\ Plan[i].low < Plan[i].high
       /\ Plan[i].low <= Plan[i].default /\ Plan[i].default <= Plan[i].high
       /\ Plan[i].name # Blank
  /\ \A i, j \in Places(Plan) :
       i < j => Plan[i].high <= Plan[j].low /\ Plan[i].name # Plan[j].name

ASSUME ModesAssumption ==
  /\ ModeTable \in Seq(ModeEntry) /\ Len(ModeTable) > 0
  /\ Blank \in STRING
  /\ \A i, j \in Places(ModeTable) : ModeTable[i].mode = ModeTable[j].mode => i = j
  /\ \A i \in Places(ModeTable) :
       /\ ModeTable[i].rst # Blank
       /\ Blank \notin {ModeTable[i].submodes[k] : k \in Places(ModeTable[i].submodes)}

BandNames == {Plan[i].name : i \in Places(Plan)}
ModeNames == {ModeTable[i].mode : i \in Places(ModeTable)}

Covers(i, freq) == Plan[i].low <= freq /\ freq <= Plan[i].high

(* The first band of the table that has the frequency, or none. *)
FreqToBand(freq) ==
  IF \E i \in Places(Plan) : Covers(i, freq)
  THEN Plan[CHOOSE i \in Places(Plan) :
              Covers(i, freq) /\ \A j \in Places(Plan) : Covers(j, freq) => i <= j].name
  ELSE Blank

BandDefaultFreq(band) == Plan[CHOOSE i \in Places(Plan) : Plan[i].name = band].default

Entry(mode) == ModeTable[CHOOSE i \in Places(ModeTable) : ModeTable[i].mode = mode]

ModeDefaultRst(mode) == Entry(mode).rst

Submodes(mode) == {Entry(mode).submodes[i] : i \in Places(Entry(mode).submodes)}

(* What a list of submodes that was just filled shows. *)
FirstSubmode(mode) == IF Entry(mode).submodes = <<>> THEN Blank ELSE Entry(mode).submodes[1]

(* The band has the frequency. *)
InBand(freq, band) == \E i \in Places(Plan) : Plan[i].name = band /\ Covers(i, freq)

=============================================================================
