------------------------------ MODULE Migrations ------------------------------
(***************************************************************************)
(* applyMigrations of internal/store/sqlite: what a process does to the    *)
(* schema when it opens the database.  Processes of several builds, each   *)
(* knowing the migrations up to its own, start, crash and restart; two may *)
(* run at once, for nothing but SQLite's write lock keeps them apart.      *)
(*                                                                         *)
(* The schema is the set of the objects migrations create, the data one    *)
(* bit: whether an intent has two fills.                                   *)
(***************************************************************************)
EXTENDS Integers, FiniteSets, FiniteSetsExt

CONSTANTS Procs,     \* processes that may have the database open at once
          Builds,    \* builds, named by the highest migration they know
          Databases, \* databases that may be found on disk
          MaxStarts, \* bound of the starts
          NoProc

\* The migrations of this repository, and one of a build to come.
CreatedBy(v) ==
  CASE v = 1 -> {"tables"}
    [] v = 2 -> {"columns", "unique"}
    [] v = 3 -> {"context"}
    [] v = 4 -> {"halt"}
    [] v = 5 -> {"future"}

\* legacyV1: for a while the columns of 2 were part of 1.
Amended == {"tables", "columns"}
LegacyUpgradeTo2 == {"unique"}

Checksum(v) == IF v = 1 THEN "init" ELSE "embedded"
LegacyV1Checksum == "amended"

\* The objects of a database that records these versions.
SchemaOf(applied) ==
  (UNION {CreatedBy(v) : v \in DOMAIN applied})
    \cup (IF 1 \in DOMAIN applied /\ applied[1] = LegacyV1Checksum THEN Amended ELSE {})

\* What a start may find: the versions of some build, from the first on, of
\* which only the first has ever been another one's.
IsDatabase(d) ==
  /\ d = [applied |-> d.applied, schema |-> d.schema, dupes |-> d.dupes] /\ d.dupes \in BOOLEAN
  /\ \E n \in 0..5 : DOMAIN d.applied = 1..n
  /\ \A v \in DOMAIN d.applied \ {1} : d.applied[v] = Checksum(v)
  /\ d.schema = SchemaOf(d.applied)
  /\ "unique" \in d.schema => ~d.dupes

ASSUME MigrationsAssumption ==
  /\ Builds \subseteq 1..5 /\ MaxStarts \in Nat /\ NoProc \notin Procs
  /\ \A d \in Databases : IsDatabase(d)

VARIABLES
  db,      \* the committed database: its recorded checksums, objects and duplicate fills
  writer,  \* who holds the write lock, and the database as its transaction leaves it
  pc,      \* where each process is
  build,   \* its build
  pending, \* the migrations it has found to be missing
  legacy,  \* whether it has found version 1 in its amended form
  base,    \* the database its transaction has read, or none
  causes,  \* what it has refused to open for
  raced,   \* whether another process has been running beside its start
  starts

migrationVars == <<db, writer, pc, build, pending, legacy, base, causes, raced, starts>>

NoBase == [applied |-> [v \in {} |-> ""], schema |-> {}, dupes |-> FALSE]
Free == [proc |-> NoProc, db |-> NoBase]

MigrationsInit ==
  /\ db \in Databases /\ writer = Free
  /\ pc = [p \in Procs |-> "off"] /\ build = [p \in Procs |-> 1]
  /\ pending = [p \in Procs |-> {}] /\ legacy = [p \in Procs |-> FALSE]
  /\ base = [p \in Procs |-> NoBase] /\ raced = [p \in Procs |-> FALSE] /\ causes = [p \in Procs |-> "none"]
  /\ starts = 0

Versions == DOMAIN db.applied

\* What the recorded versions are refused for, if anything: the map of them is
\* read in any order, and the first objection ends the check.
Newer(n) == \E v \in Versions : v > n
Accepted(v) == db.applied[v] \in {Checksum(v)} \cup {s \in {LegacyV1Checksum} : v = 1}
Mismatched(n) == \E v \in Versions \cap (1..n) : ~Accepted(v)

\* Mutant of Missing: an amended version 1 is taken to hold the whole of 2.
MissingAsLegacy(n) ==
  (1..n) \ (Versions \cup {v \in {2} : 1 \in Versions /\ db.applied[1] = LegacyV1Checksum})

Missing(n) == (1..n) \ Versions

\* In the order of their versions.
NextMigration(p) == Min(pending[p])

-----------------------------------------------------------------------------
\* schema_migrations is created if it is not there and read.
ReadApplied(p, n) ==
  /\ pc[p] = "off" /\ starts < MaxStarts
  /\ starts' = starts + 1
  /\ build' = [build EXCEPT ![p] = n]
  /\ causes' = [causes EXCEPT ![p] = IF Newer(n) THEN "newer" ELSE IF Mismatched(n) THEN "checksum" ELSE "none"]
  /\ pc' = [pc EXCEPT ![p] = IF Newer(n) \/ Mismatched(n) THEN "refused" ELSE "next"]
  /\ pending' = [pending EXCEPT ![p] = Missing(n)]
  /\ legacy' = [legacy EXCEPT ![p] = 1 \in Versions /\ db.applied[1] = LegacyV1Checksum]
  /\ base' = [base EXCEPT ![p] = NoBase]
  /\ raced' = [q \in Procs |-> IF q = p THEN \E r \in Procs : pc[r] # "off" ELSE raced[q] \/ pc[q] # "off"]
  /\ UNCHANGED <<db, writer>>

\* A failed step rolls the transaction back and ends the start.
Refuse(p, cause) ==
  /\ pc' = [pc EXCEPT ![p] = "refused"] /\ causes' = [causes EXCEPT ![p] = cause]
  /\ writer' = IF writer.proc = p THEN Free ELSE writer
  /\ UNCHANGED <<db, build, pending, legacy, base, raced, starts>>

\* checkNoDuplicateFillsPerIntent, in the transaction of migration 2.
Precondition(p) ==
  /\ pc[p] = "next" /\ pending[p] # {} /\ NextMigration(p) = 2
  /\ IF db.dupes THEN Refuse(p, "duplicates")
     ELSE /\ pc' = [pc EXCEPT ![p] = "exec"] /\ base' = [base EXCEPT ![p] = db]
          /\ UNCHANGED <<db, writer, build, pending, legacy, causes, raced, starts>>

BeginTx(p) ==
  /\ pc[p] = "next" /\ pending[p] # {} /\ NextMigration(p) # 2
  /\ pc' = [pc EXCEPT ![p] = "exec"]
  /\ UNCHANGED <<db, writer, build, pending, legacy, base, causes, raced, starts>>

\* Mutant of SqlText: always the canonical statements.
CanonicalSqlText(v, isLegacy) == CreatedBy(v)

\* The objects the statements of a migration create.
SqlText(v, isLegacy) == IF v = 2 /\ isLegacy THEN LegacyUpgradeTo2 ELSE CreatedBy(v)

\* Creating what is there fails, and so does a unique index over duplicates.
Runs(objects, d) ==
  /\ objects \cap d.schema = {}
  /\ "tables" \in objects \cup d.schema
  /\ "unique" \in objects => ~d.dupes

\* Mutant of Committed: every statement commits by itself.
CommittedAtOnce(after) == after

\* What others see of a transaction that is open: the database before it.
Committed(after) == db

\* A transaction that has read an older database cannot write any more.
Exec(p) ==
  LET v == NextMigration(p)
      objects == SqlText(v, legacy[p])
      after == [db EXCEPT !.schema = @ \cup objects]
  IN
  /\ pc[p] = "exec" /\ writer.proc = NoProc
  /\ IF base[p] \notin {NoBase, db} THEN Refuse(p, "busy")
     ELSE IF ~Runs(objects, db) THEN Refuse(p, "sql")
     ELSE /\ writer' = [proc |-> p, db |-> after]
          /\ db' = Committed(after)
          /\ pc' = [pc EXCEPT ![p] = "record"]
          /\ UNCHANGED <<build, pending, legacy, base, causes, raced, starts>>

\* Always the canonical checksum, whichever statements ran.
Record(p) ==
  LET v == NextMigration(p)  recorded == writer.db.applied IN
  /\ pc[p] = "record"
  /\ IF v \in DOMAIN recorded THEN Refuse(p, "sql")
     ELSE /\ writer' = [writer EXCEPT !.db.applied =
                          [w \in DOMAIN recorded \cup {v} |-> IF w = v THEN Checksum(v) ELSE recorded[w]]]
          /\ pc' = [pc EXCEPT ![p] = "commit"]
          /\ UNCHANGED <<db, build, pending, legacy, base, causes, raced, starts>>

Commit(p) ==
  /\ pc[p] = "commit"
  /\ db' = writer.db /\ writer' = Free
  /\ pc' = [pc EXCEPT ![p] = "next"] /\ pending' = [pending EXCEPT ![p] = @ \ {NextMigration(p)}]
  /\ base' = [base EXCEPT ![p] = NoBase]
  /\ UNCHANGED <<build, legacy, causes, raced, starts>>

\* The lock is held for longer than the busy timeout, or the disk fails.
StepFails(p) ==
  /\ \/ pc[p] = "exec" /\ writer.proc # NoProc
     \/ pc[p] \in {"record", "commit"}
  /\ Refuse(p, "busy")

OpenDone(p) ==
  /\ pc[p] = "next" /\ pending[p] = {}
  /\ pc' = [pc EXCEPT ![p] = "open"]
  /\ UNCHANGED <<db, writer, build, pending, legacy, base, causes, raced, starts>>

\* The process ends, or is killed at any point.
Exit(p) ==
  /\ pc[p] # "off"
  /\ pc' = [pc EXCEPT ![p] = "off"] /\ causes' = [causes EXCEPT ![p] = "none"]
  /\ writer' = IF writer.proc = p THEN Free ELSE writer
  /\ UNCHANGED <<db, build, pending, legacy, base, raced, starts>>

\* A second fill of an intent: nothing but the index of migration 2 forbids it.
InsertFill(p) ==
  /\ pc[p] = "open" /\ writer.proc = NoProc
  /\ "unique" \notin db.schema /\ ~db.dupes
  /\ db' = [db EXCEPT !.dupes = TRUE]
  /\ UNCHANGED <<writer, pc, build, pending, legacy, base, causes, raced, starts>>

\* The remedy the refusal names.
RemoveDuplicates ==
  /\ \A p \in Procs : pc[p] \in {"off", "refused"}
  /\ db.dupes /\ db' = [db EXCEPT !.dupes = FALSE]
  /\ UNCHANGED <<writer, pc, build, pending, legacy, base, causes, raced, starts>>

MigrationsNext ==
  \/ \E p \in Procs :
       \/ \E n \in Builds : ReadApplied(p, n)
       \/ Precondition(p) \/ BeginTx(p) \/ Exec(p) \/ Record(p) \/ Commit(p) \/ StepFails(p)
       \/ OpenDone(p) \/ Exit(p) \/ InsertFill(p)
  \/ RemoveDuplicates

MigrationsSpec == MigrationsInit /\ [][MigrationsNext]_migrationVars
-----------------------------------------------------------------------------
\* Wherever a process is killed, whoever else starts meanwhile and whichever
\* form of version 1 the database began with: it has exactly the objects of the
\* versions it records, and no duplicates under the unique index.
SchemaAsRecorded ==
  /\ db.schema = SchemaOf(db.applied)
  /\ "unique" \in db.schema => ~db.dupes

OpenedComplete ==
  \A p \in Procs : pc[p] # "open" /\ pc'[p] = "open" =>
    /\ 1..build[p] \subseteq Versions
    /\ \A v \in 1..build[p] : CreatedBy(v) \subseteq db.schema

\* A process that gets to work finds everything its build needs, by whichever
\* route, although it may have raced another one to it.
OpensComplete == [][OpenedComplete]_migrationVars

\* A start is refused for what only a person can mend, or because another
\* process got in the way: no interrupted start leaves a database that the next
\* one cannot take up.
RefusedForCause ==
  \A p \in Procs : pc[p] = "refused" =>
    /\ causes[p] = "sql" => raced[p]
    /\ causes[p] = "checksum" => db.applied[1] \notin {"init", LegacyV1Checksum}
=============================================================================
