-------------------------- MODULE MCContactTravels --------------------------
(***************************************************************************)
(* An SQLite and a MariaDB log. The texts are those that the conversions   *)
(* tell apart: small, capital, padded, too long for a column or a widget;  *)
(* among the modes are one with and one without submodes and one that the  *)
(* dialog does not offer.                                                  *)
(***************************************************************************)
EXTENDS ContactTravels, TLC

MCText == {"", "x", "X", " X", "X ", "LONG", "LO", "20m", "20M", "SSB", "USB", "CW", "PSK", "PSK31"}

MCUpper == [t \in MCText |-> CASE t = "x" -> "X" [] t = "20m" -> "20M" [] OTHER -> t]
MCLower == [t \in MCText |-> CASE t = "X" -> "x" [] t = "20M" -> "20m" [] OTHER -> t]
MCTrim  == [t \in MCText |-> IF t \in {" X", "X "} THEN "X" ELSE t]
MCCut   == [t \in MCText |-> IF t = "LONG" THEN "LO" ELSE t]
MCPosOf == [t \in MCText |-> IF t \in {"x", "X"} THEN 100 ELSE None]

MCModeNames  == <<"SSB", "CW", "PSK">>
MCSubmodesOf == [t \in MCText |-> CASE t = "SSB" -> <<"USB", "x">>
                                    [] t = "PSK" -> <<"X", "PSK31">>
                                    [] OTHER     -> <<>>]
MCRenames == {[old |-> "PSK31", new |-> "PSK", sub |-> "PSK31"]}

MCQuick ==
  LET plain == [call |-> "X", time |-> 1, ms |-> 0, band |-> "20m", mode |-> "CW", submode |-> "",
                text |-> "x", report |-> "X", state |-> "", grid |-> "", sect |-> "", check |-> "",
                rx |-> None, sfi |-> None, power |-> None, zone |-> 0, pos |-> None,
                qsl |-> "N", sentDate |-> None]
  IN  {plain,
       [plain EXCEPT !.ms = 5, !.mode = "SSB", !.submode = "USB", !.state = "x", !.grid = "x",
                     !.rx = 14, !.zone = 30]}

MCTyped ==
  [call |-> {"", " X"}, time |-> {1, 2}, ms |-> {0, 5}, band |-> {"20m"}, mode |-> {"SSB", "CW", "PSK"},
   text |-> {" X", "LONG"}, report |-> {"LO"}, state |-> {"x"}, grid |-> {"X"}, sect |-> {"X"}, check |-> {"", "x"},
   rx |-> {20}, sfi |-> {10}, power |-> {0, 20}, zone |-> {10}, qsl |-> {"Y"}]

MCRecord ==
  [CALL |-> "x", TIME_ON |-> 1, BAND |-> "20M", MODE |-> "PSK31", SUBMODE |-> None,
   NAME |-> "LONG", RST_SENT |-> "LONG", STATE_ |-> "x", GRIDSQUARE |-> "x", ARRL_SECT |-> "X",
   FREQ_RX |-> 0, SFI |-> 14, TX_PWR |-> 0, CQZ |-> 30, LAT |-> None,
   QSL_SENT |-> "X", QSL_SDATE |-> "today"]

MCForeignFiles ==
  {[header |-> TRUE, records |-> <<MCRecord, [MCRecord EXCEPT !.TIME_ON = None]>>],
   [header |-> FALSE, records |-> <<MCRecord,
      [MCRecord EXCEPT !.MODE = "PSK", !.SFI = 50, !.CQZ = 10, !.LAT = 10, !.QSL_SENT = "R"]>>]}

MCLog4OmLog ==
  << [call |-> "X ", time |-> 1, band |-> "20M", mode |-> "PSK31",
      text |-> "x", report |-> "x", state |-> "x", grid |-> "x", sect |-> "X", check |-> "x",
      rx |-> 0, sfi |-> 0, power |-> 14, zone |-> None, pos |-> 13,
      confirmed |-> [sent |-> "Yes", date |-> "today"]] >>

MCLimit == [spin \in {"rx", "sfi", "power", "zone"} |-> IF spin = "zone" THEN 20 ELSE 40]

MCKindOf == ("home" :> "sqlite") @@ ("club" :> "mariadb")

=============================================================================
