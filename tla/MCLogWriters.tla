---------------------------- MODULE MCLogWriters ----------------------------
(* An SQLite file and a MariaDB server; a file with a contact twice and one with
   a contact that is logged live too; batches of two. *)
EXTENDS LogWriters

CONSTANTS c1, c2, c3

MCFiles == {<<c1, c2, c1>>, <<c3, c2>>}

=============================================================================
