----------------------------- MODULE MCQslSync -----------------------------
(***************************************************************************)
(* Two contacts, one of which may be logged while a dialog is open, and    *)
(* the two services that differ most: LoTW with its TQSL process and eQSL  *)
(* with its download in two steps. QRZ is eQSL without the index page.     *)
(***************************************************************************)
EXTENDS QslSync, TLC

(* States that differ only in what no step will read again: the upload's
   members while no upload is under way (startUpload sets them anew), dated,
   and refused, which tells of one step. *)
Uploads(s) == \E i \in DOMAIN flight[s] : flight[s][i].kind = "upload"

SyncView ==
  <<db, dlg, flight, crashed,
    [s \in Services |-> IF Uploads(s) THEN <<pending[s], handle[s]>>
                                      ELSE <<handle[s]["reply"]>>]>>

QsoSymmetry == Permutations(Qsos)

=============================================================================
