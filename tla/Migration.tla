------------------------------ MODULE Migration ------------------------------
(***************************************************************************)
(* The safe migration of the packaged application's SQLite file at start   *)
(* (main/db.ts, runSafeMigrationForPackagedRuntime) over the migrations of *)
(* prisma/migrations.                                                      *)
(*                                                                         *)
(* A migration is a list of SQL statements that run in one transaction; a  *)
(* row of _prisma_migrations says how far it came.  The application may be *)
(* stopped between any two statements, and any statement may fail.  The    *)
(* schema is a set of <<table, name>> pairs (a column, an index, or "" for *)
(* the table itself); of the data the model keeps the order numbers of the *)
(* plan items, which the migrations renumber and copy to a new table, and  *)
(* whether a song item refers to a song that is not there, which the       *)
(* backfill of songId turns into a violated foreign key.                   *)
(***************************************************************************)
EXTENDS Naturals, Sequences, FiniteSets

CONSTANTS
    Items,       \* rows of ServiceItem in the file of an earlier version
    Migrations,  \* the migrations in the order of their names
    OldOrders,   \* the order numbers that an earlier version could leave
    MaxFaults     \* bound on the stops and the failures that are explored

ASSUME MigrationAssumption ==
    /\ Migrations \in Seq(Seq([op : STRING, table : STRING, name : STRING]))
    /\ Migrations # << >>
    /\ OldOrders \subseteq [Items -> Nat]
    /\ MaxFaults \in Nat

VARIABLES
    db,       \* the committed content of the database file
    work,     \* the content seen by the open transaction
    log,      \* log[m]: the row of migration m in _prisma_migrations
    boot,     \* the point that the start of the application has reached
    faults     \* stops and failures so far

migVars == <<db, work, log, boot, faults>>

Names == 1..Len(Migrations)

NotBooted == [at |-> "off", m |-> 0, step |-> 0, applied |-> {}]

NoRows == [i \in {} |-> 0]

EmptyDb == [schema |-> {}, items |-> NoRows, copy |-> NoRows, dangling |-> FALSE]

-----------------------------------------------------------------------------
(***************************************************************************)
(* The statements.  "create" and "unique" stand for CREATE TABLE, CREATE   *)
(* INDEX and ADD COLUMN; what they would create may be there already.      *)
(***************************************************************************)
Before(items, i, j) ==
    items[i] < items[j] \/ (items[i] = items[j] /\ i < j)

\* ROW_NUMBER() OVER (ORDER BY order, createdAt, id)
Renumbered(items) ==
    [i \in DOMAIN items |-> 1 + Cardinality({j \in DOMAIN items : Before(items, j, i)})]

Duplicates(items) ==
    \E i, j \in DOMAIN items : i # j /\ items[i] = items[j]

SchemaEffect(schema, s) ==
    CASE s.op \in {"create", "unique"} -> schema \cup {<<s.table, s.name>>}
      [] s.op = "drop" -> {o \in schema : o[1] # s.table}
      [] s.op = "rename" ->
            {<<IF o[1] = s.table THEN s.name ELSE o[1], o[2]>> : o \in schema}
      [] OTHER -> schema

Effect(d, s) ==
    [schema |-> SchemaEffect(d.schema, s),
     items  |-> CASE s.op = "number" -> Renumbered(d.items)
                  [] s.op = "drop" -> NoRows
                  [] s.op = "rename" -> d.copy
                  [] OTHER -> d.items,
     copy   |-> CASE s.op = "copy" -> d.items
                  [] s.op = "rename" -> NoRows
                  [] OTHER -> d.copy,
     dangling |-> d.dangling]

Exists(d, s) ==
    s.op \in {"create", "unique"} /\ <<s.table, s.name>> \in d.schema

Refused(d, s) ==
    \/ s.op = "unique" /\ s.table = "ServiceItem" /\ Duplicates(d.items)
    \/ s.op \in {"create", "unique"} /\ s.name # "" /\ <<s.table, "">> \notin d.schema
    \/ s.op = "backfill" /\ d.dangling
    \/ s.op \in {"number", "backfill", "copy", "drop", "rename"}
         /\ <<s.table, "">> \notin d.schema

\* The schemas that the statements of migration m go through from a schema.
SchemaRun(m, schema) ==
    LET run[n \in 0..Len(Migrations[m])] ==
            IF n = 0 THEN schema ELSE SchemaEffect(run[n - 1], Migrations[m][n])
    IN  run

\* The schema that the first k migrations give to an empty file.
Applied[k \in 0..Len(Migrations)] ==
    IF k = 0 THEN {} ELSE SchemaRun(k, Applied[k - 1])[Len(Migrations[k])]

\* A migration that runs over the schema it has made already ends with the same
\* schema.  (The recursive definitions above are unfolded one step, so that the
\* theorems can use them.)
ASSUME RerunAssumption ==
    /\ Applied[0] = {}
    /\ \A m \in Names : \A schema \in {Applied[m - 1], Applied[m]} :
         LET run == SchemaRun(m, schema)
         IN  /\ run[0] = schema
             /\ \A n \in 1..Len(Migrations[m]) :
                  run[n] = SchemaEffect(run[n - 1], Migrations[m][n])
             /\ run[Len(Migrations[m])] = Applied[m]

-----------------------------------------------------------------------------
\* A file that this or an earlier version of the application has left, or none.
\* Before songId a song item had a refId without a foreign key, and songs were
\* deleted for good.
MigInit ==
    /\ \/ db = EmptyDb /\ log = [m \in Names |-> "none"]
       \/ \E k \in Names, items \in OldOrders, dangling \in BOOLEAN :
            /\ <<"ServiceItem", "">> \in Applied[k]
            /\ <<"ServiceItem", "order_key">> \in Applied[k] => ~Duplicates(items)
            /\ dangling => Items # {} /\ <<"ServiceItem", "songId">> \notin Applied[k]
            /\ db = [schema |-> Applied[k], items |-> items, copy |-> NoRows,
                     dangling |-> dangling]
            /\ log = [m \in Names |-> IF m <= k THEN "finished" ELSE "none"]
    /\ work = EmptyDb
    /\ boot = NotBooted
    /\ faults = 0

At(point) == boot.at = point

Go(point) == boot' = [boot EXCEPT !.at = point]

Faulty == faults < MaxFaults /\ faults' = faults + 1

\* The next migration that the scan did not find applied.
Advance(m) ==
    boot' = IF m > Len(Migrations) THEN [NotBooted EXCEPT !.at = "register"]
            ELSE [boot EXCEPT !.m = m, !.step = 0,
                              !.at = IF m \in boot.applied THEN "skip" ELSE "clear"]

\* The copy in backups/ is read by nobody.
backupRuntimeDatabaseSnapshot ==
    /\ At("backup")
    /\ Go("scan")
    /\ UNCHANGED <<db, work, log, faults>>

getAppliedMigrationNames ==
    /\ At("scan")
    /\ LET applied == {m \in Names : log[m] = "finished"}
       IN  boot' = [at |-> IF 1 \in applied THEN "skip" ELSE "clear", m |-> 1, step |-> 0,
                    applied |-> applied]
    /\ UNCHANGED <<db, work, log, faults>>

skipMigration ==
    /\ At("skip")
    /\ Advance(boot.m + 1)
    /\ UNCHANGED <<db, work, log, faults>>

\* DELETE of the unfinished rows of the migration, then INSERT of a new one.
clearUnfinished ==
    /\ At("clear")
    /\ log' = [log EXCEPT ![boot.m] = "none"]
    /\ Go("insert")
    /\ UNCHANGED <<db, work, faults>>

insertStarted ==
    /\ At("insert")
    /\ log' = [log EXCEPT ![boot.m] = "started"]
    /\ work' = db
    /\ boot' = [boot EXCEPT !.at = "run", !.step = 1]
    /\ UNCHANGED <<db, faults>>

isBenignMigrationError_Any(err) == TRUE

isBenignMigrationError_None(err) == FALSE

\* "already exists" or "duplicate column name"
isBenignMigrationError(err) == err = "exists"

Statement == Migrations[boot.m][boot.step]

\* What the statement at hand, or the COMMIT after the last one, answers; a disk
\* that is full or a lock ("io") may come at any time.
Answers ==
    {"io"} \cup
    IF boot.step > Len(Migrations[boot.m]) THEN {}
    ELSE IF Exists(work, Statement) THEN {"exists"}
    ELSE IF Refused(work, Statement) THEN {"refused"} ELSE {"ok"}

CountFault(err) ==
    IF err = "io" THEN Faulty ELSE faults' = faults

\* A statement takes effect, or its error is benign.
runStatement ==
    /\ At("run")
    /\ boot.step <= Len(Migrations[boot.m])
    /\ \E err \in Answers :
        /\ err = "ok" \/ isBenignMigrationError(err)
        /\ work' = IF err = "ok" THEN Effect(work, Statement) ELSE work
        /\ CountFault(err)
    /\ boot' = [boot EXCEPT !.step = @ + 1]
    /\ UNCHANGED <<db, log>>

\* Any other error undoes the transaction.
rollback ==
    /\ At("run")
    /\ \E err \in Answers \ {"ok"} : ~isBenignMigrationError(err) /\ CountFault(err)
    /\ work' = EmptyDb
    /\ Go("mark")
    /\ UNCHANGED <<db, log>>

commit ==
    /\ At("run")
    /\ boot.step > Len(Migrations[boot.m])
    /\ db' = work
    /\ work' = EmptyDb
    /\ Go("finish")
    /\ UNCHANGED <<log, faults>>

markFinished_BeforeCommit ==
    /\ At("run")
    /\ log' = [log EXCEPT ![boot.m] = "finished"]
    /\ db' = db
    /\ Advance(boot.m + 1)
    /\ UNCHANGED <<work, faults>>

markFinished ==
    /\ At("finish")
    /\ log' = [log EXCEPT ![boot.m] = "finished"]
    /\ Advance(boot.m + 1)
    /\ UNCHANGED <<db, work, faults>>

\* The write of finished_at fails although the migration is committed.
markFinishedFails ==
    /\ At("finish")
    /\ Faulty
    /\ Go("mark")
    /\ UNCHANGED <<db, work, log>>

\* rolled_back_at is written, the start is given up and the process exits.
markRolledBack ==
    /\ At("mark")
    /\ log' = [log EXCEPT ![boot.m] = "rolled_back"]
    /\ boot' = NotBooted
    /\ UNCHANGED <<db, work, faults>>

MigrationStep ==
    \/ backupRuntimeDatabaseSnapshot
    \/ getAppliedMigrationNames
    \/ skipMigration
    \/ clearUnfinished
    \/ insertStarted
    \/ runStatement
    \/ rollback
    \/ commit
    \/ markFinished
    \/ markFinishedFails
    \/ markRolledBack

-----------------------------------------------------------------------------
(* Properties *)

\* How many migrations the log calls finished.
Finished == Cardinality({m \in Names : log[m] = "finished"})

\* The file always has the schema of a whole number of migrations, and it is at
\* most one ahead of the log: a stop or a failure between COMMIT and the write of
\* finished_at (db.ts 175-188) makes the migration run again over its own
\* effects, and the second run ends where the first one did.
SchemaFollowsLog ==
    /\ {m \in Names : log[m] = "finished"} = 1..Finished
    /\ \/ db.schema = Applied[Finished]
       \/ Finished < Len(Migrations) /\ db.schema = Applied[Finished + 1]

\* No step loses a plan item of the file or changes the order of two of them,
\* however often the migrations are interrupted and run again (the renumbering
\* and the copy of ServiceItem to a new table).
ItemsSurvive ==
    [][\A i, j \in DOMAIN db.items :
          /\ {i, j} \subseteq DOMAIN db'.items
          /\ Before(db.items, i, j) <=> Before(db'.items, i, j)]_db
=============================================================================
