----------------------------- MODULE MCLogTable -----------------------------
(***************************************************************************)
(* The logbook with three contact keys, two contents, three ids and two     *)
(* filters: room for two selected rows, one that is not, and one that      *)
(* arrives while a dialog is open.                                         *)
(***************************************************************************)
EXTENDS LogTable

MCFilters == {Keys, {1, 3}}
AllKeys   == {Keys}

=============================================================================
