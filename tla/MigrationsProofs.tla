--------------------------- MODULE MigrationsProofs ---------------------------
(***************************************************************************)
(* Theorems about Migrations for any processes, builds and databases: what *)
(* an interrupted, raced or refused start leaves behind.                   *)
(***************************************************************************)
EXTENDS Migrations, TLAPS

Running == {"next", "exec", "record", "commit"}
Locked == {"record", "commit"}

\* A database with the types of its parts; what it records comes later.
IsRecord(d) == d = [applied |-> d.applied, schema |-> d.schema, dupes |-> d.dupes] /\ d.dupes \in BOOLEAN

MigrationsTypeOK ==
  /\ IsRecord(db) /\ IsRecord(writer.db)
  /\ writer = [proc |-> writer.proc, db |-> writer.db] /\ writer.proc \in Procs \cup {NoProc}
  /\ pc \in [Procs -> Running \cup {"off", "refused", "open"}]
  /\ build \in [Procs -> 1..5] /\ pending \in [Procs -> SUBSET (1..5)]
  /\ legacy \in [Procs -> BOOLEAN] /\ raced \in [Procs -> BOOLEAN]
  /\ base = [p \in Procs |-> base[p]] /\ causes = [p \in Procs |-> causes[p]]

IsLegacy == 1 \in Versions /\ db.applied[1] = LegacyV1Checksum

\* What is missing is pending, and what was found of version 1 is still so.
Planned(p) ==
  /\ pending[p] \subseteq 1..build[p] /\ 1..build[p] \subseteq Versions \cup pending[p]
  /\ pc[p] # "next" => pending[p] # {}
  /\ legacy[p] <=> IsLegacy

\* What the transaction of p holds.
Created(p) ==
  LET v == NextMigration(p)  objects == SqlText(v, legacy[p]) IN
  /\ writer.db.schema = db.schema \cup objects /\ writer.db.dupes = db.dupes
  /\ "unique" \in objects => ~db.dupes
  /\ pc[p] = "record" => writer.db.applied = db.applied
  /\ pc[p] = "commit" =>
       v \notin Versions /\ writer.db.applied = [w \in Versions \cup {v} |-> IF w = v THEN Checksum(v) ELSE db.applied[w]]

\* A process that has had the database to itself since it started works on what
\* is missing, and has looked for duplicates before it creates the index.
Undisturbed(p) ==
  /\ \A q \in Procs \ {p} : pc[q] = "off"
  /\ pc[p] \in Running => pending[p] \cap Versions = {}
  /\ pc[p] = "exec" /\ NextMigration(p) = 2 => base[p] # NoBase /\ ~base[p].dupes

Sound(p) ==
  /\ pc[p] \in Running => Planned(p)
  /\ pc[p] \in Locked => writer.proc = p /\ Created(p)
  /\ writer.proc = p => pc[p] \in Locked
  /\ pc[p] # "off" /\ ~raced[p] => Undisturbed(p)
  /\ pc[p] = "refused" =>
       /\ causes[p] = "sql" => raced[p]
       /\ causes[p] = "checksum" => 1 \in Versions /\ db.applied[1] \notin {"init", LegacyV1Checksum}

MigrationsInv == MigrationsTypeOK /\ IsDatabase(db) /\ \A p \in Procs : Sound(p)

-----------------------------------------------------------------------------
(* Migrations and what they create *)

LEMMA LeastVersion ==
  ASSUME NEW S \in SUBSET (1..5), S # {}
  PROVE  Min(S) \in S /\ \A v \in S : Min(S) <= v
<1> DEFINE hasLeast == \E v \in S : \A w \in S : v <= w
<1>1. \A v \in S : v \in {1, 2, 3, 4, 5}
  OBVIOUS
<1>2. 1 \in S => hasLeast
  BY <1>1
<1>3. 1 \notin S /\ 2 \in S => hasLeast
  BY <1>1
<1>4. 1 \notin S /\ 2 \notin S /\ 3 \in S => hasLeast
  BY <1>1
<1>5. 1 \notin S /\ 2 \notin S /\ 3 \notin S /\ 4 \in S => hasLeast
  BY <1>1
<1>6. 1 \notin S /\ 2 \notin S /\ 3 \notin S /\ 4 \notin S => hasLeast
  <2>1. PICK v \in S : TRUE
    OBVIOUS
  <2>2. ASSUME 1 \notin S /\ 2 \notin S /\ 3 \notin S /\ 4 \notin S PROVE v <= v /\ \A w \in S : w = v
    BY <1>1, <2>2
  <2> QED BY <2>1, <2>2
<1>7. hasLeast
  <2> HIDE DEF hasLeast
  <2> QED BY <1>2, <1>3, <1>4, <1>5, <1>6
<1> QED BY <1>7 DEF Min

LEMMA Objects ==
  /\ CreatedBy(1) = {"tables"} /\ CreatedBy(2) = {"columns", "unique"} /\ CreatedBy(3) = {"context"}
  /\ CreatedBy(4) = {"halt"} /\ CreatedBy(5) = {"future"}
BY DEF CreatedBy

AmendedFirst(applied) == 1 \in DOMAIN applied /\ applied[1] = LegacyV1Checksum

LEMMA SchemaHas ==
  ASSUME NEW applied, NEW x
  PROVE  x \in SchemaOf(applied) <=>
           (\E v \in DOMAIN applied : x \in CreatedBy(v)) \/ (AmendedFirst(applied) /\ x \in Amended)
<1>1. x \in UNION {CreatedBy(v) : v \in DOMAIN applied} <=> \E v \in DOMAIN applied : x \in CreatedBy(v)
  BY Zenon
<1> DEFINE created == UNION {CreatedBy(v) : v \in DOMAIN applied}
           amended == IF AmendedFirst(applied) THEN Amended ELSE {}
<1>2. SchemaOf(applied) = created \cup amended
  BY Zenon DEF SchemaOf, AmendedFirst
<1>3. x \in amended <=> AmendedFirst(applied) /\ x \in Amended
  OBVIOUS
<1> HIDE DEF created, amended
<1> QED BY <1>1, <1>2, <1>3 DEF created

Extended(applied, v) == [w \in DOMAIN applied \cup {v} |-> IF w = v THEN Checksum(v) ELSE applied[w]]

\* After the statements of the next migration the schema is what the extended
\* record says, whichever text of migration 2 ran.
LEMMA SchemaGrows ==
  ASSUME NEW applied, NEW v \in 1..5, v \notin DOMAIN applied, NEW isLegacy \in BOOLEAN,
         isLegacy <=> AmendedFirst(applied)
  PROVE  SchemaOf(Extended(applied, v)) = SchemaOf(applied) \cup SqlText(v, isLegacy)
<1> DEFINE after == Extended(applied, v)
<1>1. DOMAIN after = DOMAIN applied \cup {v}
  BY DEF Extended
<1>2. AmendedFirst(after) <=> AmendedFirst(applied)
  <2>1. CASE v = 1
    BY <2>1 DEF AmendedFirst, Extended, Checksum, LegacyV1Checksum
  <2>2. CASE v # 1
    BY <2>2 DEF AmendedFirst, Extended
  <2> QED BY <2>1, <2>2
<1>3. ASSUME NEW x PROVE x \in SchemaOf(after) <=> x \in SchemaOf(applied) \/ x \in CreatedBy(v)
  <2> HIDE DEF after
  <2> QED BY <1>1, <1>2, SchemaHas
<1>4. CASE v = 2 /\ isLegacy
  <2>1. Amended \subseteq SchemaOf(applied)
    BY <1>4, SchemaHas
  <2>2. ASSUME NEW x PROVE x \in SchemaOf(applied) \/ x \in CreatedBy(v) <=> x \in SchemaOf(applied) \cup SqlText(v, isLegacy)
    BY <1>4, <2>1, Objects DEF SqlText, LegacyUpgradeTo2, Amended
  <2> QED BY <1>3, <2>2
<1>5. CASE ~(v = 2 /\ isLegacy)
  BY <1>3, <1>5 DEF SqlText
<1> QED BY <1>4, <1>5

\* The next migration finds nothing of what it creates, and the tables.
LEMMA NextRuns ==
  ASSUME NEW applied, NEW v \in 1..5, DOMAIN applied = 1..(v - 1), NEW isLegacy \in BOOLEAN,
         isLegacy <=> AmendedFirst(applied)
  PROVE  /\ SqlText(v, isLegacy) \cap SchemaOf(applied) = {}
         /\ "tables" \in SqlText(v, isLegacy) \cup SchemaOf(applied)
         /\ "unique" \in SqlText(v, isLegacy) => v = 2
<1>1. ASSUME NEW x \in SchemaOf(applied)
      PROVE  (\E w \in 1..(v - 1) : x \in CreatedBy(w)) \/ (isLegacy /\ x \in Amended)
  BY SchemaHas
<1>2. v # 1 => "tables" \in SchemaOf(applied)
  BY SchemaHas, Objects
<1>3. isLegacy => v # 1
  BY DEF AmendedFirst
<1>4. v \in {1, 2, 3, 4, 5}
  OBVIOUS
<1>5. CASE v = 1
  <2>1. SchemaOf(applied) = {}
    BY <1>1, <1>3, <1>5
  <2> QED BY <1>5, <2>1, Objects DEF SqlText
<1>6. CASE v = 2
  <2>1. \A x \in SchemaOf(applied) : x = "tables" \/ (isLegacy /\ x = "columns")
    <3>1. \A w \in 1..(v - 1) : w = 1
      BY <1>6
    <3> QED BY <1>1, <3>1, Objects DEF Amended
  <2> QED BY <1>2, <1>6, <2>1, Objects DEF SqlText, LegacyUpgradeTo2
<1>7. CASE v \in {3, 4, 5}
  <2>1. \A w \in 1..(v - 1) : w \in {1, 2, 3, 4} /\ w # v
    BY <1>7
  <2>2. \A x \in SchemaOf(applied) : x \notin CreatedBy(v)
    <3>1. ASSUME NEW w \in {1, 2, 3, 4}, w # v PROVE CreatedBy(w) \cap CreatedBy(v) = {}
      BY <1>7, <3>1, Objects
    <3>2. Amended \cap CreatedBy(v) = {}
      BY <1>7, Objects DEF Amended
    <3> QED BY <1>1, <2>1, <3>1, <3>2
  <2>3. SqlText(v, isLegacy) = CreatedBy(v) /\ "unique" \notin CreatedBy(v)
    BY <1>7, Objects DEF SqlText
  <2> QED BY <1>2, <1>7, <2>2, <2>3
<1> QED BY <1>4, <1>5, <1>6, <1>7

-----------------------------------------------------------------------------
(* The invariant: initial states, and what a step leaves alone *)

LEMMA MigrationsInvInit == MigrationsInit => MigrationsInv
<1> SUFFICES ASSUME MigrationsInit PROVE MigrationsInv
  OBVIOUS
<1>1. IsDatabase(db)
  BY MigrationsAssumption DEF MigrationsInit
<1>2. IsRecord(NoBase)
  BY DEF IsRecord, NoBase
<1>3. MigrationsTypeOK
  BY <1>1, <1>2 DEF MigrationsInit, MigrationsTypeOK, IsDatabase, IsRecord, Free
<1>4. \A p \in Procs : Sound(p)
  BY MigrationsAssumption DEF MigrationsInit, Sound, Running, Locked, Free
<1> QED BY <1>1, <1>3, <1>4 DEF MigrationsInv

\* The processes beside the one that takes a step that commits nothing.
LEMMA OthersStand ==
  ASSUME MigrationsInv, NEW p \in Procs, db' = db,
         \A q \in Procs \ {p} :
           /\ pc'[q] = pc[q] /\ build'[q] = build[q] /\ pending'[q] = pending[q] /\ legacy'[q] = legacy[q]
           /\ base'[q] = base[q] /\ causes'[q] = causes[q]
           /\ raced[q] => raced'[q]
           /\ pc[q] = "off" \/ raced'[q] \/ (pc[p] # "off" /\ raced'[q] = raced[q]),
         writer' = writer \/ (writer.proc \in {NoProc, p} /\ writer'.proc \in {NoProc, p})
  PROVE  \A q \in Procs \ {p} : Sound(q)'
<1> TAKE q \in Procs \ {p}
<1>0. Sound(q) /\ q # NoProc
  BY MigrationsAssumption DEF MigrationsInv
<1>1. pc'[q] \in Running => Planned(q)'
  BY <1>0 DEF Sound, Planned, IsLegacy, Versions
<1>2. pc'[q] \in Locked => writer' = writer
  BY <1>0 DEF Sound
<1>3. pc'[q] \in Locked => writer'.proc = q /\ Created(q)'
  BY <1>0, <1>2 DEF Sound, Created, Versions, NextMigration
<1>4. writer'.proc = q => pc'[q] \in Locked
  BY <1>0 DEF Sound
<1>5. pc'[q] # "off" => raced'[q]
  BY <1>0 DEF Sound, Undisturbed
<1>6. pc'[q] = "refused" =>
       /\ causes'[q] = "sql" => raced'[q]
       /\ causes'[q] = "checksum" => 1 \in Versions' /\ db'.applied[1] \notin {"init", LegacyV1Checksum}
  BY <1>0 DEF Sound, Versions
<1> QED BY <1>1, <1>3, <1>4, <1>5, <1>6 DEF Sound

\* The steps that commit nothing: what is left to show of each of them.
LEMMA OwnStep ==
  ASSUME MigrationsInv, NEW p \in Procs, db' = db, MigrationsTypeOK', Sound(p)',
         \A q \in Procs \ {p} :
           /\ pc'[q] = pc[q] /\ build'[q] = build[q] /\ pending'[q] = pending[q] /\ legacy'[q] = legacy[q]
           /\ base'[q] = base[q] /\ causes'[q] = causes[q]
           /\ raced[q] => raced'[q]
           /\ pc[q] = "off" \/ raced'[q] \/ (pc[p] # "off" /\ raced'[q] = raced[q]),
         writer' = writer \/ (writer.proc \in {NoProc, p} /\ writer'.proc \in {NoProc, p})
  PROVE  MigrationsInv'
<1>1. \A q \in Procs \ {p} : Sound(q)'
  BY OthersStand
<1>2. IsDatabase(db)'
  BY DEF MigrationsInv, IsDatabase
<1> QED BY <1>1, <1>2 DEF MigrationsInv

LEMMA ReadAppliedKeeps ==
  ASSUME MigrationsInv, NEW p \in Procs, NEW n \in Builds, ReadApplied(p, n)
  PROVE  MigrationsInv'
<1>1. n \in 1..5 /\ MigrationsTypeOK /\ IsDatabase(db) /\ Sound(p) /\ pc[p] = "off"
  BY MigrationsAssumption DEF MigrationsInv, ReadApplied
<1>2. writer' = writer /\ writer.proc # p /\ db' = db
  BY <1>1 DEF Sound, ReadApplied, Locked
<1>3. MigrationsTypeOK'
  <2>1. (1..n) \ Versions \in SUBSET (1..5)
    BY <1>1
  <2>2. pending' \in [Procs -> SUBSET (1..5)] /\ build' \in [Procs -> 1..5]
    BY <1>1, <2>1 DEF MigrationsTypeOK, ReadApplied, Missing
  <2>3. pc' \in [Procs -> Running \cup {"off", "refused", "open"}]
    BY <1>1 DEF MigrationsTypeOK, ReadApplied, Running
  <2>4. legacy' \in [Procs -> BOOLEAN] /\ raced' \in [Procs -> BOOLEAN]
    BY <1>1 DEF MigrationsTypeOK, ReadApplied
  <2>5. base' = [q \in Procs |-> base'[q]] /\ causes' = [q \in Procs |-> causes'[q]]
    BY <1>1 DEF MigrationsTypeOK, ReadApplied
  <2> QED BY <1>1, <1>2, <2>2, <2>3, <2>4, <2>5 DEF MigrationsTypeOK, IsRecord
<1>4. /\ build'[p] = n /\ pending'[p] = (1..n) \ Versions /\ (legacy'[p] <=> IsLegacy)
      /\ pc'[p] \in {"refused", "next"} /\ (pc'[p] = "refused" <=> Newer(n) \/ Mismatched(n))
      /\ causes'[p] = IF Newer(n) THEN "newer" ELSE IF Mismatched(n) THEN "checksum" ELSE "none"
      /\ raced'[p] <=> \E r \in Procs : pc[r] # "off"
  BY <1>1 DEF ReadApplied, MigrationsTypeOK, Missing, IsLegacy
<1>5. Sound(p)'
  <2>1. Planned(p)' \/ pc'[p] = "refused"
    BY <1>2, <1>4 DEF Planned, IsLegacy, Versions
  <2>2. causes'[p] = "checksum" => 1 \in Versions /\ db.applied[1] \notin {"init", LegacyV1Checksum}
    <3>1. SUFFICES ASSUME Mismatched(n) PROVE 1 \in Versions /\ db.applied[1] \notin {"init", LegacyV1Checksum}
      BY <1>4
    <3>2. PICK v \in Versions \cap (1..n) : ~Accepted(v)
      BY <3>1 DEF Mismatched
    <3>3. v = 1
      BY <1>1, <3>2 DEF IsDatabase, Accepted, Versions
    <3> QED BY <3>2, <3>3 DEF Accepted, Checksum
  <2>3. ~raced'[p] => Undisturbed(p)'
    <3>1. ~raced'[p] => \A q \in Procs \ {p} : pc'[q] = "off"
      BY <1>4 DEF ReadApplied, MigrationsTypeOK
    <3> QED BY <1>2, <1>4, <3>1 DEF Undisturbed, Versions
  <2> QED BY <1>2, <1>4, <2>1, <2>2, <2>3 DEF Sound, Running, Locked, Versions
<1>6. \A q \in Procs \ {p} :
        /\ pc'[q] = pc[q] /\ build'[q] = build[q] /\ pending'[q] = pending[q] /\ legacy'[q] = legacy[q]
        /\ base'[q] = base[q] /\ causes'[q] = causes[q]
        /\ raced'[q] = (raced[q] \/ pc[q] # "off")
  BY <1>1 DEF ReadApplied, MigrationsTypeOK
<1>7. \A q \in Procs \ {p} : (raced[q] => raced'[q]) /\ (pc[q] = "off" \/ raced'[q])
  BY <1>6
<1> QED BY <1>2, <1>3, <1>5, <1>6, <1>7, OwnStep

\* A refusal for any cause but a checksum, and for an SQL error only beside another
\* process.
LEMMA RefuseKeeps ==
  ASSUME MigrationsInv, NEW p \in Procs, pc[p] \in Running, NEW cause \in {"duplicates", "busy", "sql"},
         cause = "sql" => raced[p], Refuse(p, cause)
  PROVE  MigrationsInv'
<1>1. MigrationsTypeOK /\ Sound(p) /\ p # NoProc /\ pc[p] # "off"
  BY MigrationsAssumption DEF MigrationsInv, Running
<1>2. IsRecord(NoBase) /\ Free = [proc |-> NoProc, db |-> NoBase]
  BY DEF IsRecord, NoBase, Free
<1>3. MigrationsTypeOK'
  BY <1>1, <1>2 DEF MigrationsTypeOK, Refuse, IsRecord
<1>4. pc'[p] = "refused" /\ causes'[p] = cause /\ writer'.proc # p
  BY <1>1, <1>2 DEF MigrationsTypeOK, Refuse
<1>5. raced' = raced /\ db' = db
  BY DEF Refuse
<1>6. Undisturbed(p) => Undisturbed(p)'
  BY <1>1, <1>4 DEF Undisturbed, Refuse, MigrationsTypeOK, Running
<1>7. Sound(p)'
  BY <1>1, <1>4, <1>5, <1>6 DEF Sound, Running, Locked
<1>8. writer' = writer \/ (writer.proc \in {NoProc, p} /\ writer'.proc \in {NoProc, p})
  BY <1>2 DEF Refuse
<1>9. \A q \in Procs \ {p} :
        /\ pc'[q] = pc[q] /\ build'[q] = build[q] /\ pending'[q] = pending[q] /\ legacy'[q] = legacy[q]
        /\ base'[q] = base[q] /\ causes'[q] = causes[q] /\ raced'[q] = raced[q]
  BY <1>1 DEF Refuse, MigrationsTypeOK
<1> QED BY <1>1, <1>3, <1>5, <1>7, <1>8, <1>9, OwnStep

\* A migration that is not recorded yet is the one after those that are.
LEMMA NextAfterVersions ==
  ASSUME MigrationsTypeOK, IsDatabase(db), NEW p \in Procs, Planned(p), pending[p] # {}
  PROVE  /\ NextMigration(p) \in 1..5 /\ NextMigration(p) \in pending[p]
         /\ NextMigration(p) \notin Versions => Versions = 1..(NextMigration(p) - 1)
<1> DEFINE v == NextMigration(p)
<1>1. v \in pending[p] /\ \A w \in pending[p] : v <= w
  BY LeastVersion DEF MigrationsTypeOK, NextMigration
<1>2. v \in 1..5 /\ v \in 1..build[p] /\ build[p] \in 1..5
  BY <1>1 DEF MigrationsTypeOK, Planned
<1>3. 1..(v - 1) \subseteq Versions
  <2> SUFFICES ASSUME NEW w \in 1..(v - 1) PROVE w \in Versions
    OBVIOUS
  <2> HIDE DEF v
  <2>1. w \in 1..build[p] /\ w \notin pending[p]
    BY <1>1, <1>2
  <2> QED BY <2>1 DEF Planned
<1>4. v \notin Versions => Versions = 1..(v - 1)
  <2>1. PICK n \in 0..5 : Versions = 1..n
    BY DEF IsDatabase, Versions
  <2>2. v \notin Versions => n < v
    BY <1>2, <2>1
  <2>3. v \notin Versions => 1..n \subseteq 1..(v - 1)
    BY <1>2, <2>2
  <2> QED BY <1>3, <2>1, <2>3
<1> QED BY <1>1, <1>2, <1>4

\* A step of p that moves its pc within a start and reads at most a base.
PcOnly(p, step) ==
  /\ pc' = [pc EXCEPT ![p] = step] /\ db' = db
  /\ UNCHANGED <<build, pending, legacy, causes, raced>>
  /\ base' = base \/ base' = [base EXCEPT ![p] = db]

LEMMA PcOnlyKeeps ==
  ASSUME MigrationsInv, NEW p \in Procs, pc[p] # "off", NEW step \in Running \cup {"open"}, PcOnly(p, step),
         IsRecord(writer.db)', writer' = [proc |-> writer'.proc, db |-> writer'.db],
         writer' = writer \/ (writer.proc \in {NoProc, p} /\ writer'.proc = p),
         Sound(p)'
  PROVE  MigrationsInv'
<1>1. MigrationsTypeOK
  BY DEF MigrationsInv
<1>2. MigrationsTypeOK'
  <2>1. base' = [q \in Procs |-> base'[q]]
    BY <1>1 DEF MigrationsTypeOK, PcOnly
  <2>2. pc' \in [Procs -> Running \cup {"off", "refused", "open"}]
    BY <1>1 DEF MigrationsTypeOK, PcOnly
  <2> QED BY <1>1, <2>1, <2>2 DEF MigrationsTypeOK, PcOnly, IsRecord
<1>3. \A q \in Procs \ {p} :
        /\ pc'[q] = pc[q] /\ build'[q] = build[q] /\ pending'[q] = pending[q] /\ legacy'[q] = legacy[q]
        /\ base'[q] = base[q] /\ causes'[q] = causes[q] /\ raced'[q] = raced[q]
  BY <1>1 DEF PcOnly, MigrationsTypeOK
<1> QED BY <1>2, <1>3, OwnStep DEF PcOnly

LEMMA PreconditionKeeps ==
  ASSUME MigrationsInv, NEW p \in Procs, Precondition(p)
  PROVE  MigrationsInv'
<1>1. /\ MigrationsTypeOK /\ IsDatabase(db) /\ Sound(p) /\ pc[p] = "next" /\ p # NoProc
      /\ pending[p] # {} /\ NextMigration(p) = 2
  BY MigrationsAssumption DEF MigrationsInv, Precondition
<1>2. CASE db.dupes
  BY <1>1, <1>2, RefuseKeeps DEF Precondition, Running
<1>3. CASE ~db.dupes
  <2>1. /\ PcOnly(p, "exec") /\ writer' = writer /\ pc'[p] = "exec" /\ base'[p] = db
        /\ \A q \in Procs \ {p} : pc'[q] = pc[q]
    BY <1>1, <1>3 DEF Precondition, PcOnly, MigrationsTypeOK
  <2>2. Planned(p)
    BY <1>1 DEF Sound, Running
  <2>3. Planned(p)'
    BY <1>1, <2>1, <2>2 DEF Planned, PcOnly, Versions, IsLegacy
  <2>4. ASSUME ~raced[p] PROVE Undisturbed(p)'
    <3>1. Undisturbed(p)
      BY <1>1, <2>4 DEF Sound
    <3>2. Versions = 1..1
      BY <1>1, <2>2, <3>1, NextAfterVersions DEF Undisturbed, Running
    <3>3. db # NoBase
      BY <3>2 DEF Versions, NoBase
    <3> QED BY <1>1, <1>3, <2>1, <3>1, <3>3 DEF Undisturbed, PcOnly, Versions, Running, NextMigration
  <2>5. Sound(p)'
    BY <1>1, <2>1, <2>3, <2>4 DEF Sound, Running, Locked, PcOnly
  <2> QED BY <1>1, <2>1, <2>5, PcOnlyKeeps DEF Running, MigrationsTypeOK
<1> QED BY <1>2, <1>3

LEMMA BeginTxKeeps ==
  ASSUME MigrationsInv, NEW p \in Procs, BeginTx(p)
  PROVE  MigrationsInv'
<1>1. /\ MigrationsTypeOK /\ Sound(p) /\ pc[p] = "next" /\ pending[p] # {} /\ NextMigration(p) # 2
  BY DEF MigrationsInv, BeginTx
<1>2. /\ PcOnly(p, "exec") /\ writer' = writer /\ pc'[p] = "exec" /\ base' = base
      /\ \A q \in Procs \ {p} : pc'[q] = pc[q]
  BY <1>1 DEF BeginTx, PcOnly, MigrationsTypeOK
<1>3. Planned(p)'
  BY <1>1, <1>2 DEF Sound, Running, Planned, PcOnly, Versions, IsLegacy
<1>4. ~raced[p] => Undisturbed(p)'
  BY <1>1, <1>2 DEF Sound, Undisturbed, PcOnly, Versions, Running, NextMigration
<1>5. Sound(p)'
  BY <1>1, <1>2, <1>3, <1>4 DEF Sound, Running, Locked, PcOnly
<1> QED BY <1>1, <1>2, <1>5, PcOnlyKeeps DEF Running, MigrationsTypeOK

LEMMA OpenDoneKeeps ==
  ASSUME MigrationsInv, NEW p \in Procs, OpenDone(p)
  PROVE  MigrationsInv'
<1>1. MigrationsTypeOK /\ Sound(p) /\ pc[p] = "next"
  BY DEF MigrationsInv, OpenDone
<1>2. /\ PcOnly(p, "open") /\ writer' = writer /\ pc'[p] = "open"
      /\ \A q \in Procs \ {p} : pc'[q] = pc[q]
  BY <1>1 DEF OpenDone, PcOnly, MigrationsTypeOK
<1>3. ~raced[p] => Undisturbed(p)'
  BY <1>1, <1>2 DEF Sound, Undisturbed, Running
<1>4. Sound(p)'
  BY <1>1, <1>2, <1>3 DEF Sound, Running, Locked, PcOnly
<1> QED BY <1>1, <1>2, <1>4, PcOnlyKeeps DEF Running, MigrationsTypeOK

\* A process that has the database to itself never finds its statements refused.
LEMMA AloneRuns ==
  ASSUME MigrationsInv, NEW p \in Procs, pc[p] = "exec", ~raced[p], base[p] \in {NoBase, db}
  PROVE  Runs(SqlText(NextMigration(p), legacy[p]), db)
<1> DEFINE v == NextMigration(p)
           objects == SqlText(v, legacy[p])
<1>1. MigrationsTypeOK /\ IsDatabase(db) /\ Planned(p) /\ Undisturbed(p) /\ pending[p] # {}
  BY DEF MigrationsInv, Sound, Running, Planned
<1>2. v \in 1..5 /\ v \notin Versions /\ Versions = 1..(v - 1)
  BY <1>1, NextAfterVersions DEF Undisturbed, Running
<1>3. legacy[p] \in BOOLEAN /\ (legacy[p] <=> AmendedFirst(db.applied))
  BY <1>1 DEF MigrationsTypeOK, Planned, IsLegacy, AmendedFirst, Versions
<1>4. db.schema = SchemaOf(db.applied) /\ DOMAIN db.applied = 1..(v - 1)
  BY <1>1, <1>2 DEF IsDatabase, Versions
<1>5. objects \cap db.schema = {} /\ "tables" \in objects \cup db.schema /\ ("unique" \in objects => v = 2)
  <2> HIDE DEF v
  <2> QED BY <1>2, <1>3, <1>4, NextRuns
<1>6. v = 2 => ~db.dupes
  BY <1>1 DEF Undisturbed
<1> QED BY <1>5, <1>6 DEF Runs

LEMMA ExecKeeps ==
  ASSUME MigrationsInv, NEW p \in Procs, Exec(p)
  PROVE  MigrationsInv'
<1> DEFINE objects == SqlText(NextMigration(p), legacy[p])
           after == [db EXCEPT !.schema = @ \cup objects]
<1>1. MigrationsTypeOK /\ IsDatabase(db) /\ Sound(p) /\ pc[p] = "exec" /\ writer.proc = NoProc
  BY DEF MigrationsInv, Exec
<1>2. CASE base[p] \notin {NoBase, db}
  BY <1>1, <1>2, RefuseKeeps DEF Exec, Running
<1>3. CASE base[p] \in {NoBase, db} /\ ~Runs(objects, db)
  <2>1. raced[p]
    BY <1>1, <1>3, AloneRuns DEF MigrationsTypeOK
  <2> QED BY <1>1, <1>3, <2>1, RefuseKeeps DEF Exec, Running
<1>4. CASE base[p] \in {NoBase, db} /\ Runs(objects, db)
  <2>1. /\ PcOnly(p, "record") /\ pc'[p] = "record" /\ writer' = [proc |-> p, db |-> after]
        /\ \A q \in Procs \ {p} : pc'[q] = pc[q]
    BY <1>1, <1>4 DEF Exec, Committed, PcOnly, MigrationsTypeOK
  <2>2. /\ after = [applied |-> db.applied, schema |-> db.schema \cup objects, dupes |-> db.dupes]
        /\ db.dupes \in BOOLEAN
    <3>1. PICK a, s, u : db = [applied |-> a, schema |-> s, dupes |-> u] /\ u \in BOOLEAN
      BY <1>1 DEF MigrationsTypeOK, IsRecord
    <3> HIDE DEF objects
    <3> QED BY <3>1, SMTT(60)
  <2>3. IsRecord(writer.db)' /\ writer' = [proc |-> writer'.proc, db |-> writer'.db] /\ writer'.proc = p
    BY <2>1, <2>2 DEF IsRecord
  <2>4. Created(p)'
    <3>1. /\ writer'.db.schema = db.schema \cup objects /\ writer'.db.dupes = db.dupes
          /\ writer'.db.applied = db.applied
      BY <2>1, <2>2
    <3>2. NextMigration(p)' = NextMigration(p) /\ legacy' = legacy /\ db' = db
      BY <2>1 DEF PcOnly, NextMigration
    <3> QED BY <1>4, <2>1, <3>1, <3>2 DEF Created, Runs
  <2>5. Planned(p)'
    BY <1>1, <2>1 DEF Sound, Running, Planned, PcOnly, Versions, IsLegacy
  <2>6. ~raced[p] => Undisturbed(p)'
    BY <1>1, <2>1 DEF Sound, Undisturbed, PcOnly, Versions, Running
  <2>7. Sound(p)'
    BY <2>1, <2>3, <2>4, <2>5, <2>6 DEF Sound, Running, Locked, PcOnly
  <2> QED BY <1>1, <2>1, <2>3, <2>7, PcOnlyKeeps DEF Running
<1> QED BY <1>2, <1>3, <1>4

LEMMA RecordKeeps ==
  ASSUME MigrationsInv, NEW p \in Procs, Record(p)
  PROVE  MigrationsInv'
<1> DEFINE v == NextMigration(p)
           extended == [w \in DOMAIN writer.db.applied \cup {v} |->
                          IF w = v THEN Checksum(v) ELSE writer.db.applied[w]]
<1>1. /\ MigrationsTypeOK /\ IsDatabase(db) /\ Sound(p) /\ pc[p] = "record" /\ writer.proc = p
      /\ Planned(p) /\ Created(p) /\ writer.db.applied = db.applied
  BY DEF MigrationsInv, Record, Sound, Locked, Running, Created
<1>2. CASE v \in DOMAIN writer.db.applied
  <2>1. v \in pending[p]
    BY <1>1, NextAfterVersions DEF Planned
  <2>2. raced[p]
    BY <1>1, <1>2, <2>1 DEF Sound, Undisturbed, Versions, Running, MigrationsTypeOK
  <2> QED BY <1>1, <1>2, <2>2, RefuseKeeps DEF Record, Running
<1>3. CASE v \notin DOMAIN writer.db.applied
  <2>1. /\ PcOnly(p, "commit") /\ pc'[p] = "commit"
        /\ writer' = [writer EXCEPT !.db.applied = extended]
        /\ \A q \in Procs \ {p} : pc'[q] = pc[q]
    BY <1>1, <1>3 DEF Record, PcOnly, MigrationsTypeOK
  <2>2. /\ writer' = [proc |-> p, db |-> writer'.db]
        /\ writer'.db = [applied |-> extended, schema |-> writer.db.schema, dupes |-> writer.db.dupes]
        /\ writer.db.dupes \in BOOLEAN
    <3>1. [writer.db EXCEPT !.applied = extended]
            = [applied |-> extended, schema |-> writer.db.schema, dupes |-> writer.db.dupes]
      BY <1>1 DEF MigrationsTypeOK, IsRecord
    <3> HIDE DEF extended
    <3>2. writer' = [proc |-> p, db |-> [writer.db EXCEPT !.applied = extended]]
      BY <1>1, <2>1 DEF MigrationsTypeOK
    <3> QED BY <1>1, <3>1, <3>2 DEF MigrationsTypeOK, IsRecord
  <2>3. IsRecord(writer.db)' /\ writer' = [proc |-> writer'.proc, db |-> writer'.db] /\ writer'.proc = p
    BY <2>2 DEF IsRecord
  <2>4. Created(p)'
    <3>1. NextMigration(p)' = NextMigration(p) /\ legacy' = legacy /\ db' = db
      BY <2>1 DEF PcOnly, NextMigration
    <3> QED BY <1>1, <1>3, <2>1, <2>2, <3>1 DEF Created, Versions
  <2>5. Planned(p)'
    BY <1>1, <2>1 DEF Planned, PcOnly, Versions, IsLegacy
  <2>6. ~raced[p] => Undisturbed(p)'
    BY <1>1, <2>1 DEF Sound, Undisturbed, PcOnly, Versions, Running
  <2>7. Sound(p)'
    BY <2>1, <2>3, <2>4, <2>5, <2>6 DEF Sound, Running, Locked, PcOnly
  <2> QED BY <1>1, <2>1, <2>3, <2>7, PcOnlyKeeps DEF Running
<1> QED BY <1>2, <1>3

LEMMA ExitKeeps ==
  ASSUME MigrationsInv, NEW p \in Procs, Exit(p)
  PROVE  MigrationsInv'
<1>1. MigrationsTypeOK /\ Sound(p) /\ p # NoProc /\ pc[p] # "off"
  BY MigrationsAssumption DEF MigrationsInv, Exit
<1>2. IsRecord(NoBase) /\ Free = [proc |-> NoProc, db |-> NoBase]
  BY DEF IsRecord, NoBase, Free
<1>3. MigrationsTypeOK'
  BY <1>1, <1>2 DEF MigrationsTypeOK, Exit, IsRecord
<1>4. pc'[p] = "off" /\ writer'.proc # p
  BY <1>1, <1>2 DEF MigrationsTypeOK, Exit
<1>5. Sound(p)'
  BY <1>4 DEF Sound, Running, Locked
<1>6. writer' = writer \/ (writer.proc \in {NoProc, p} /\ writer'.proc \in {NoProc, p})
  BY <1>2 DEF Exit
<1>7. \A q \in Procs \ {p} :
        /\ pc'[q] = pc[q] /\ build'[q] = build[q] /\ pending'[q] = pending[q] /\ legacy'[q] = legacy[q]
        /\ base'[q] = base[q] /\ causes'[q] = causes[q] /\ raced'[q] = raced[q]
  BY <1>1 DEF Exit, MigrationsTypeOK
<1> QED BY <1>1, <1>3, <1>5, <1>6, <1>7, OwnStep DEF Exit

LEMMA StepFailsKeeps ==
  ASSUME MigrationsInv, NEW p \in Procs, StepFails(p)
  PROVE  MigrationsInv'
BY RefuseKeeps DEF StepFails, Running

\* The lock keeps everybody else from writing until the commit.
LEMMA CommitKeeps ==
  ASSUME MigrationsInv, NEW p \in Procs, Commit(p)
  PROVE  MigrationsInv'
<1> DEFINE v == NextMigration(p)
<1>1. /\ MigrationsTypeOK /\ IsDatabase(db) /\ Sound(p) /\ pc[p] = "commit" /\ p # NoProc
      /\ writer.proc = p /\ Planned(p) /\ Created(p) /\ pending[p] # {}
  BY MigrationsAssumption DEF MigrationsInv, Commit, Sound, Locked, Running, Planned
<1>2. /\ v \in 1..5 /\ v \in pending[p] /\ v \notin Versions /\ Versions = 1..(v - 1)
      /\ writer.db.applied = Extended(db.applied, v)
  BY <1>1, NextAfterVersions DEF Created, Extended, Versions
<1>3. /\ db'.applied = Extended(db.applied, v) /\ db'.dupes = db.dupes
      /\ db'.schema = db.schema \cup SqlText(v, legacy[p])
      /\ Versions' = Versions \cup {v} /\ Versions' = 1..v
      /\ \A w \in Versions : db'.applied[w] = db.applied[w]
      /\ db'.applied[v] = Checksum(v)
  <2>1. db' = writer.db
    BY DEF Commit
  <2>2. Versions' = Versions \cup {v} /\ db'.applied = Extended(db.applied, v)
    BY <1>2, <2>1 DEF Versions, Extended
  <2>3. \A w \in Versions : db'.applied[w] = db.applied[w]
    BY <1>2, <2>2 DEF Versions, Extended
  <2>4. db'.applied[v] = Checksum(v)
    BY <2>2 DEF Extended
  <2>5. Versions' = 1..v
    <3> HIDE DEF v
    <3> QED BY <1>2, <2>2
  <2> QED BY <1>1, <2>1, <2>2, <2>3, <2>4, <2>5 DEF Created
<1>4. IsLegacy' <=> IsLegacy
  <2>1. CASE v = 1
    BY <1>2, <1>3, <2>1 DEF IsLegacy, Checksum, LegacyV1Checksum
  <2>2. CASE v # 1
    BY <1>3, <2>2 DEF IsLegacy
  <2> QED BY <2>1, <2>2
<1>5. IsDatabase(db)'
  <2>1. IsRecord(db')
    BY <1>1 DEF Commit, MigrationsTypeOK
  <2>2. legacy[p] \in BOOLEAN /\ (legacy[p] <=> AmendedFirst(db.applied))
    BY <1>1 DEF MigrationsTypeOK, Planned, IsLegacy, AmendedFirst, Versions
  <2>3. db'.schema = SchemaOf(db'.applied)
    <3>1. SchemaOf(Extended(db.applied, v)) = SchemaOf(db.applied) \cup SqlText(v, legacy[p])
      <4> HIDE DEF v
      <4> QED BY <1>2, <2>2, SchemaGrows DEF Versions
    <3> QED BY <1>1, <1>3, <3>1 DEF IsDatabase
  <2>4. \A w \in DOMAIN db'.applied \ {1} : db'.applied[w] = Checksum(w)
    BY <1>1, <1>3 DEF IsDatabase, Versions
  <2>5. "unique" \in db'.schema => ~db'.dupes
    BY <1>1, <1>3 DEF IsDatabase, Created
  <2>6. DOMAIN db'.applied = 1..v /\ v \in 0..5
    BY <1>2, <1>3 DEF Versions
  <2> QED BY <2>1, <2>3, <2>4, <2>5, <2>6 DEF IsDatabase, IsRecord
<1>6. MigrationsTypeOK'
  <2>1. IsRecord(NoBase) /\ Free = [proc |-> NoProc, db |-> NoBase]
    BY DEF IsRecord, NoBase, Free
  <2>2. pending[p] \ {v} \in SUBSET (1..5)
    BY <1>1 DEF MigrationsTypeOK
  <2>3. pending' \in [Procs -> SUBSET (1..5)] /\ pc' \in [Procs -> Running \cup {"off", "refused", "open"}]
    BY <1>1, <2>2 DEF MigrationsTypeOK, Commit, Running
  <2>4. base' = [q \in Procs |-> base'[q]]
    BY <1>1 DEF MigrationsTypeOK, Commit
  <2>5. IsRecord(db)'
    BY <1>1 DEF MigrationsTypeOK, Commit
  <2> QED BY <1>1, <2>1, <2>3, <2>4, <2>5 DEF MigrationsTypeOK, Commit, IsRecord
<1>7. /\ pc'[p] = "next" /\ pending'[p] = pending[p] \ {v} /\ writer'.proc = NoProc
      /\ \A q \in Procs \ {p} : pc'[q] = pc[q] /\ pending'[q] = pending[q]
      /\ UNCHANGED <<build, legacy, causes, raced>>
  BY <1>1 DEF Commit, MigrationsTypeOK, Free
<1>8. Sound(p)'
  <2>1. Planned(p)'
    BY <1>1, <1>3, <1>4, <1>7 DEF Planned
  <2>2. ~raced[p] => Undisturbed(p)'
    BY <1>1, <1>3, <1>7 DEF Sound, Undisturbed, Running
  <2> QED BY <1>1, <1>7, <2>1, <2>2 DEF Sound, Running, Locked
<1>9. ASSUME NEW q \in Procs \ {p} PROVE Sound(q)'
  <2>1. Sound(q) /\ q # NoProc /\ pc[q] \notin Locked
    BY <1>1, <1>9, MigrationsAssumption DEF MigrationsInv, Sound
  <2>2. pc'[q] \in Running => Planned(q)'
    BY <1>3, <1>4, <1>7, <2>1 DEF Sound, Planned
  <2>3. pc'[q] # "off" => raced'[q]
    BY <1>1, <1>7, <2>1 DEF Sound, Undisturbed
  <2>4. 1 \in Versions => 1 \in Versions' /\ db'.applied[1] = db.applied[1]
    BY <1>3
  <2> QED BY <1>7, <2>1, <2>2, <2>3, <2>4 DEF Sound
<1> QED BY <1>5, <1>6, <1>8, <1>9 DEF MigrationsInv

\* The fills come and go without a transaction in the way.
LEMMA DataKeeps ==
  ASSUME MigrationsInv, writer.proc = NoProc \/ \A p \in Procs : pc[p] \notin Locked,
         NEW dupes \in BOOLEAN, db' = [db EXCEPT !.dupes = dupes], dupes => "unique" \notin db.schema,
         UNCHANGED <<writer, pc, build, pending, legacy, base, causes, raced>>
  PROVE  MigrationsInv'
<1>1. MigrationsTypeOK /\ IsDatabase(db) /\ \A p \in Procs : Sound(p) /\ p # NoProc /\ pc[p] \notin Locked
  BY MigrationsAssumption DEF MigrationsInv, Sound
<1>2. db' = [applied |-> db.applied, schema |-> db.schema, dupes |-> dupes]
  <2>1. PICK a, s, u : db = [applied |-> a, schema |-> s, dupes |-> u]
    BY <1>1 DEF MigrationsTypeOK, IsRecord
  <2> QED BY <2>1
<1>3. db'.applied = db.applied /\ db'.schema = db.schema /\ db'.dupes = dupes
  BY <1>2
<1>4. IsDatabase(db)' /\ MigrationsTypeOK'
  BY <1>1, <1>2, <1>3 DEF IsDatabase, MigrationsTypeOK, IsRecord
<1>5. ASSUME NEW p \in Procs PROVE Sound(p)'
  <2>1. Planned(p) => Planned(p)'
    BY <1>3 DEF Planned, Versions, IsLegacy
  <2>2. Undisturbed(p) => Undisturbed(p)'
    BY <1>3 DEF Undisturbed, Versions, NextMigration
  <2> QED BY <1>1, <1>3, <2>1, <2>2 DEF Sound, Versions
<1> QED BY <1>4, <1>5 DEF MigrationsInv

LEMMA MigrationsInvStep == MigrationsInv /\ [MigrationsNext]_migrationVars => MigrationsInv'
<1> SUFFICES ASSUME MigrationsInv, [MigrationsNext]_migrationVars PROVE MigrationsInv'
  OBVIOUS
<1>1. CASE UNCHANGED migrationVars
  <2>1. UNCHANGED <<db, writer, pc, build, pending, legacy, base, causes, raced>>
    BY <1>1 DEF migrationVars
  <2>2. MigrationsTypeOK' /\ IsDatabase(db)'
    BY <2>1 DEF MigrationsInv, MigrationsTypeOK, IsRecord, IsDatabase
  <2>3. ASSUME NEW p \in Procs PROVE Sound(p)'
    <3>1. Sound(p)
      BY DEF MigrationsInv
    <3> QED BY <2>1, <3>1 DEF Sound, Planned, Created, Undisturbed, Versions, IsLegacy, NextMigration
  <2> QED BY <2>2, <2>3 DEF MigrationsInv
<1>2. ASSUME NEW p \in Procs, InsertFill(p) PROVE MigrationsInv'
  <2>1. db' = [db EXCEPT !.dupes = TRUE] /\ writer.proc = NoProc /\ "unique" \notin db.schema
    BY <1>2 DEF InsertFill
  <2> QED BY <1>2, <2>1, DataKeeps DEF InsertFill
<1>3. CASE RemoveDuplicates
  <2>1. db' = [db EXCEPT !.dupes = FALSE] /\ \A p \in Procs : pc[p] \notin Locked
    BY <1>3 DEF RemoveDuplicates, Locked
  <2> QED BY <1>3, <2>1, DataKeeps DEF RemoveDuplicates
<1> QED BY <1>1, <1>2, <1>3, ReadAppliedKeeps, PreconditionKeeps, BeginTxKeeps, ExecKeeps, RecordKeeps,
           CommitKeeps, StepFailsKeeps, OpenDoneKeeps, ExitKeeps DEF MigrationsNext

-----------------------------------------------------------------------------
(* The theorems *)

THEOREM MigrationsInvariant == MigrationsSpec => []MigrationsInv
BY MigrationsInvInit, MigrationsInvStep, PTL DEF MigrationsSpec

\* The database always has the objects of the versions it records, whoever was
\* killed or raced where, and never two fills of an intent under the index.
THEOREM SchemaRecorded == MigrationsSpec => []SchemaAsRecorded
<1>1. MigrationsInv => SchemaAsRecorded
  BY DEF MigrationsInv, IsDatabase, SchemaAsRecorded
<1> QED BY <1>1, MigrationsInvariant, PTL

\* A start that has the database to itself is refused only for what a person has
\* to mend: no interrupted start before it stands in its way.
THEOREM RefusalsAreCaused == MigrationsSpec => []RefusedForCause
<1>1. MigrationsInv => RefusedForCause
  BY DEF MigrationsInv, Sound, RefusedForCause
<1> QED BY <1>1, MigrationsInvariant, PTL

\* Whoever gets to work finds every object its build needs.
THEOREM OpenIsComplete == MigrationsSpec => OpensComplete
<1>1. ASSUME MigrationsInv, [MigrationsNext]_migrationVars, NEW p \in Procs, pc[p] # "open", pc'[p] = "open"
      PROVE  1..build[p] \subseteq Versions /\ \A v \in 1..build[p] : CreatedBy(v) \subseteq db.schema
  <2>1. OpenDone(p)
    BY <1>1, ZenonT(60) DEF MigrationsInv, MigrationsTypeOK, MigrationsNext, migrationVars, ReadApplied, Precondition, BeginTx,
                Exec, Record, Commit, StepFails, OpenDone, Exit, InsertFill, RemoveDuplicates, Refuse
  <2>2. Planned(p) /\ pending[p] = {}
    BY <1>1, <2>1 DEF OpenDone, MigrationsInv, Sound, Running
  <2>3. \A v \in Versions : CreatedBy(v) \subseteq db.schema
    <3>1. db.schema = SchemaOf(db.applied)
      BY <1>1 DEF MigrationsInv, IsDatabase
    <3> QED BY <3>1, SchemaHas DEF Versions
  <2> QED BY <2>2, <2>3 DEF Planned
<1>2. MigrationsInv /\ [MigrationsNext]_migrationVars => OpenedComplete
  BY <1>1 DEF OpenedComplete
<1> QED BY <1>2, MigrationsInvariant, PTL DEF MigrationsSpec, OpensComplete
=============================================================================
