--------------------------- MODULE MCSchemaUpgrade ---------------------------
(***************************************************************************)
(* Two programs on one database. The map has two statements that lead to   *)
(* the same mode and one that only renames; the tables have rows that it   *)
(* rewrites, leaves, or finds in each other's way. Id 3 is for a contact   *)
(* that one program logs while the other still upgrades.                   *)
(***************************************************************************)
EXTENDS SchemaUpgrade, TLC

MCMap == << [old |-> "PSK31",  new |-> "PSK", sub |-> "psk31"],
            [old |-> "PSK63",  new |-> "PSK", sub |-> "psk63"],
            [old |-> "PACKET", new |-> "PKT", sub |-> "none"] >>

MCRow(c, m, s) == [contact |-> c, mode |-> m, submode |-> s]

Two(a, b) == (1 :> a) @@ (2 :> b) @@ (3 :> NoRow)

MCStored ==
  {Two(NoRow, NoRow)}
  \cup {Two(MCRow("c", "PSK31", s), MCRow(c, n, "none")) :
          s \in {"none", "qpsk"}, c \in {"c", "d"}, n \in {"PSK31", "PSK63", "PSK", "PACKET"}}
  \cup {Two(MCRow("c", "PACKET", "qpsk"), MCRow("c", "PKT", "none"))}

MCLoggable == {MCRow("d", "PSK31", "none"), MCRow("d", "PKT", "none")}

Symmetry == Permutations(Programs)

=============================================================================
