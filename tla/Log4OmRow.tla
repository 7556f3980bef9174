------------------------------ MODULE Log4OmRow ------------------------------
(***************************************************************************)
(* Log4OmMigrator: a row of Log4OM's table log as a contact.               *)
(***************************************************************************)
EXTENDS ContactRow

CONSTANT
  Renames    (* kMap: modes that ADIF writes as a mode with a submode, or renamed  *)

Rename == [old : Text, new : Text, sub : Text]

ASSUME RenamesAssumption ==
  /\ Renames \subseteq Rename
  /\ \A a, b \in Renames : a.old = b.old => a = b
  /\ \A m \in Renames : Upper[m.new] = m.new /\ Upper[m.sub] = m.sub /\ m.new # Blank

(* confirmed is what qsoconfirmations says of one service, if anything. *)
Log4OmRows ==
  [call : Column, time : Number, band : Column, mode : Column,
   text : Column, report : Column, state : Column, grid : Column, sect : Column, check : Column,
   rx : Number, sfi : Number, power : Number, zone : Number, pos : Number,
   confirmed : [sent : {"Yes", "No"}, date : Dates \cup {None}] \cup {None}]

Renamed(mode) ==
  IF \E m \in Renames : m.old = mode
  THEN CHOOSE m \in Renames : m.old = mode
  ELSE [old |-> mode, new |-> mode, sub |-> Blank]

(* parseQsoConfirmations: a flag is Y or N, whatever Log4OM has besides. *)
ConfirmedStatus(conf) ==
  IF conf = None THEN "N" ELSE IF conf.sent = "Yes" THEN "Y" ELSE "N"

ConfirmedDate(conf) == IF conf = None THEN None ELSE conf.date

(* rowToQso: callsigns are not trimmed, and a zero is no value for freqRx only. *)
RowToQso(r) ==
  LET mode == Renamed(Upper[BlankIfNull(r.mode)])
  IN  [call     |-> Upper[BlankIfNull(r.call)],
       time     |-> r.time,
       ms       |-> 0,
       band     |-> Lower[BlankIfNull(r.band)],
       mode     |-> mode.new,
       submode  |-> mode.sub,
       text     |-> BlankIfNull(r.text),
       report   |-> BlankIfNull(r.report),
       state    |-> BlankIfNull(r.state),
       grid     |-> Upper[BlankIfNull(r.grid)],
       sect     |-> BlankIfNull(r.sect),
       check    |-> BlankIfNull(r.check),
       rx       |-> IF r.rx = 0 THEN None ELSE r.rx,
       sfi      |-> r.sfi,
       power    |-> r.power,
       zone     |-> ZeroIfNull(r.zone),
       pos      |-> r.pos,
       qsl      |-> ConfirmedStatus(r.confirmed),
       sentDate |-> ConfirmedDate(r.confirmed)]

=============================================================================
