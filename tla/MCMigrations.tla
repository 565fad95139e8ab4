---------------------------- MODULE MCMigrations ----------------------------
(***************************************************************************)
(* An instance of Migrations for TLC: a new file, the published and the    *)
(* amended version 1, each with or without duplicate fills, every later    *)
(* version, one to come, and a file that is not one of the robot's.        *)
(***************************************************************************)
EXTENDS Migrations

CONSTANTS p1, p2

Recorded(n, first) == [v \in 1..n |-> IF v = 1 THEN first ELSE Checksum(v)]
Database(applied, dupes) == [applied |-> applied, schema |-> SchemaOf(applied), dupes |-> dupes]
MCDatabases ==
  {Database(Recorded(n, "init"), FALSE) : n \in 0..5}
    \cup {Database(Recorded(1, first), dupes) : first \in {"init", "amended"}, dupes \in BOOLEAN}
    \cup {Database(Recorded(2, "amended"), FALSE), Database(Recorded(1, "other"), FALSE)}
=============================================================================
