---------------------------- MODULE EntryDialog ----------------------------
(***************************************************************************)
(* QsoFullEntryDialog: the widgets a contact is loaded into, what the user *)
(* may do to them, and the contact that is read back from them. A widget   *)
(* that cannot show a value shows another one, and that is what is saved.  *)
(***************************************************************************)
EXTENDS ContactRow, Sequences

CONSTANTS
  Bands,         (* BandPlan::bandNames                                        *)
  ModeNames,     (* BandPlan::modeNames, in order                              *)
  SubmodesOf,    (* BandPlan::submodesForMode, in order                        *)
  Cut,           (* a text in a line edit with a maximum length                *)
  Limit          (* the ranges of the spin boxes                               *)

ASSUME DialogAssumption ==
  /\ Bands \subseteq Text \ {Blank} /\ \A t \in Bands : Lower[t] = t
  /\ ModeNames \in Seq(Text \ {Blank}) /\ Len(ModeNames) > 0
  /\ \A i \in 1 .. Len(ModeNames) : Upper[ModeNames[i]] = ModeNames[i]
  /\ SubmodesOf \in [Text -> Seq(Text \ {Blank})]
  /\ Cut \in [Text -> Text] /\ Cut[Blank] = Blank
  /\ Limit \in [{"rx", "sfi", "power", "zone"} -> {n \in Nat : Rounded(n) = n}]

Items(list) == {list[i] : i \in 1 .. Len(list)}
Modes == Items(ModeNames)

(* What the widgets can hold. *)
Form ==
  [call : Text, time : Number, ms : 0 .. 999, band : Bands \cup {Blank}, mode : Modes, submode : Text,
   text : Text, report : Text, state : Text, grid : Text, sect : Text, check : Text,
   rx : Nat, sfi : Nat, power : Nat, zone : Nat, qsl : Statuses]

(* The entries of the dialog; what is not among them it does not touch. *)
Entries == {"call", "time", "ms", "band", "mode", "submode", "text", "report", "state",
            "grid", "sect", "check", "rx", "sfi", "power", "zone", "qsl"}

Clip(n, max) == IF n > max THEN max ELSE n

(* A spin box with a special value for 0. *)
Spun(n, max) == Clip(Rounded(ZeroIfNull(n)), max)

(* What an unselected combo box comes up with. *)
FirstSubmode(mode) == IF SubmodesOf[mode] = <<>> THEN Blank ELSE SubmodesOf[mode][1]

LoadedMode(c) == IF c.mode \in Modes THEN c.mode ELSE ModeNames[1]

(* Wrong: there is no blank item. *)
WrongLoadedSubmode(c, isNew) ==
  IF c.submode \in Items(SubmodesOf[LoadedMode(c)])
  THEN c.submode
  ELSE FirstSubmode(LoadedMode(c))

(* A stored contact without a submode gets a blank item in front of the list,
   so that saving does not adopt the first submode. *)
LoadedSubmode(c, isNew) ==
  IF \/ c.submode \in Items(SubmodesOf[LoadedMode(c)])
     \/ c.submode = Blank /\ ~isNew
  THEN c.submode
  ELSE FirstSubmode(LoadedMode(c))

(* loadQso: a combo box finds an item or stays at its first, a line edit cuts
   what is too long, a spin box clips and rounds, and a missing number is 0. *)
LoadQso(c, isNew) ==
  [call    |-> Cut[c.call],
   time    |-> c.time,
   ms      |-> c.ms,
   band    |-> IF c.band \in Bands THEN c.band ELSE Blank,
   mode    |-> LoadedMode(c),
   submode |-> LoadedSubmode(c, isNew),
   text    |-> c.text,
   report  |-> Cut[c.report],
   state   |-> c.state,
   grid    |-> Cut[c.grid],
   sect    |-> Cut[c.sect],
   check   |-> Cut[c.check],
   rx      |-> Spun(c.rx, Limit.rx),
   sfi     |-> Spun(c.sfi, Limit.sfi),
   power   |-> Spun(c.power, Limit.power),
   zone    |-> Clip(c.zone, Limit.zone),
   qsl     |-> c.qsl]

(* The user changes one entry; another mode brings its own list of submodes. *)
EnterIn(form, entry, value) ==
  IF entry = "mode"
  THEN [form EXCEPT !.mode = value, !.submode = FirstSubmode(value)]
  ELSE [form EXCEPT ![entry] = value]

(* Wrong: a callsign keeps its blanks. *)
WrongEnteredCall(t) == Upper[t]

EnteredCall(t) == Trim[Upper[t]]

(* qso(): the original with everything that the dialog shows read back. *)
ReadQso(form, original) ==
  [original EXCEPT
     !.call    = EnteredCall(form.call),
     !.time    = form.time,
     !.ms      = form.ms,
     !.band    = form.band,
     !.mode    = form.mode,
     !.submode = form.submode,
     !.text    = Trim[form.text],
     !.report  = Trim[form.report],
     !.state   = Trim[form.state],
     !.grid    = Trim[Upper[form.grid]],
     !.sect    = Trim[Upper[form.sect]],
     !.check   = Trim[form.check],
     !.rx      = NullIfZero(form.rx),
     !.sfi     = NullIfZero(form.sfi),
     !.power   = NullIfZero(form.power),
     !.zone    = form.zone,
     !.qsl     = form.qsl]

(* What the widgets of an entry can show as it is. *)
Fits(c, entry) ==
  /\ entry = "band" => c.band \in Bands
  /\ entry \in {"mode", "submode"} => c.mode \in Modes
  /\ entry = "submode" => c.submode \in Items(SubmodesOf[c.mode]) \cup {Blank}
  /\ entry \in {"call", "grid", "sect"} => Trim[Upper[Cut[c[entry]]]] = c[entry]
  /\ entry \in {"text", "state"} => Trim[c[entry]] = c[entry]
  /\ entry \in {"report", "check"} => Trim[Cut[c[entry]]] = c[entry]
  /\ entry \in {"rx", "sfi", "power"} =>
       /\ c[entry] # 0
       /\ c[entry] # None => Rounded(c[entry]) = c[entry] /\ c[entry] <= Limit[entry]
  /\ entry = "zone" => c.zone <= Limit.zone

=============================================================================
