------------------------------- MODULE PgSync -------------------------------
(***************************************************************************)
(* The synchronisation of the desktop's SQLite database with the           *)
(* PostgreSQL database of the web application: SyncManager (main/sync/     *)
(* syncManager.ts), pullFromPostgres, pushOfflineChanges, the timestamp    *)
(* of sync.json and the timers and the retry button that start them.       *)
(*                                                                         *)
(* A row (a song with its blocks, a plan with its items) is abstracted to  *)
(* its updatedAt, which also identifies the version; 0 is no row and a     *)
(* soft delete is a version like another.  keyOf is what PostgreSQL keeps  *)
(* unique in a table: the title of a song, the date of a plan.             *)
(*                                                                         *)
(* SQLite has no type for dates.  Prisma stores a DateTime as an INTEGER,  *)
(* pullFromPostgres inserts ISO texts, and pushOfflineChanges compares     *)
(* with an ISO text: every INTEGER sorts before every TEXT.  stored says   *)
(* how the dates of a row are stored.                                      *)
(*                                                                         *)
(* The calls of the manager run in one JavaScript thread and interleave at *)
(* their awaits, each of which ends a step; PostgreSQL, the network, the   *)
(* user of the desktop and those of the web application act in between.    *)
(***************************************************************************)
EXTENDS Integers, FiniteSets

CONSTANTS
    Songs, Plans,   \* identifiers of rows
    keyOf,          \* the title of a song, the date of a plan
    Calls,          \* calls of the manager that may be in flight together
    MaxClock,       \* bound on the number of edits
    MaxFaults,      \* bound on the restarts and the failures of SQLite
    MayMove         \* whether a restart may name another DATABASE_URL_PG

VARIABLES
    net,            \* whether PostgreSQL can be reached
    faults,         \* restarts and failed transactions of SQLite so far
    clock,          \* the time; it advances with every edit
    local,          \* the rows of SQLite
    stored,         \* how SQLite stores the dates of each row
    remote,         \* the rows of PostgreSQL
    lastPullAt,     \* sync.json
    state,          \* SyncManager.state
    pc,             \* where each call is
    left,           \* the tables that the phase of a call has still to treat
    since,          \* the lastPullAt that a push has read
    todo,           \* the rows selected for the push and not yet treated
    target,         \* the row about to be created in PostgreSQL
    overwritten,    \* whether the push met a conflict
    snapshot,       \* the rows that a pull has fetched
    toast,          \* whether the step showed pgSync:conflictWarning
    born,           \* history: identifiers given out (cuid: never reused)
    published,      \* history: versions that have been in PostgreSQL
    offlineRows     \* history: rows created in state OFFLINE or SYNC_ERROR

history == <<born, published, offlineRows>>
dbs == <<clock, local, stored, remote, lastPullAt>>
callVars == <<pc, left, since, todo, target, overwritten, snapshot>>
vars == <<net, faults, dbs, state, callVars, toast, history>>

Ids == Songs \cup Plans

ASSUME PgSyncAssumption ==
    /\ Songs \cap Plans = {}
    /\ MaxClock \in Nat
    /\ MaxFaults \in Nat
    /\ MayMove \in BOOLEAN

NoRows == [i \in Ids |-> 0]

Tables == {"Song", "ServicePlan"}

RowsOf(t) == IF t = "Song" THEN Songs ELSE Plans

States == {"ONLINE", "OFFLINE", "SYNCING", "SYNC_ERROR"}

Disconnected == {"OFFLINE", "SYNC_ERROR"}

\* A row inserted by a pull (all its dates are texts), one that Prisma has
\* updated since (its updatedAt is an INTEGER, the date of a plan still a text)
\* and one that Prisma has created (all INTEGER).
Storage == {"pulled", "edited", "made"}

AllPulled == [i \in Ids |-> "pulled"]

Steps == {"idle", "init", "check", "push", "create", "fetch", "replace"}

\* The rows of the table of i that have its title or its date.
Clash(i, rows) ==
    \E t \in Tables : \E j \in RowsOf(t) \ {i} :
        i \in RowsOf(t) /\ keyOf[j] = keyOf[i] /\ rows[j] # 0

\* Where the calls are when the application starts: c is initialize(), and it
\* awaits checkDbConnection.
Starting(c) == [d \in Calls |-> IF d = c THEN "init" ELSE "idle"]

ForCalls(v) == [d \in Calls |-> v]

Init ==
    /\ net \in BOOLEAN
    /\ faults = 0
    /\ clock = 0 /\ local = NoRows /\ stored = AllPulled
    /\ remote = NoRows /\ lastPullAt = 0
    /\ state = "ONLINE"
    /\ \E c \in Calls : pc = Starting(c)
    /\ left = ForCalls({}) /\ since = ForCalls(0)
    /\ todo = ForCalls(NoRows) /\ target = ForCalls(NoRows)
    /\ overwritten = ForCalls(FALSE) /\ snapshot = ForCalls(NoRows)
    /\ toast = FALSE
    /\ born = {} /\ published = {} /\ offlineRows = {}

-----------------------------------------------------------------------------
(* The calls of the manager *)

\* A call that ends, with the state it leaves.
Return(c, result) ==
    /\ pc' = [pc EXCEPT ![c] = "idle"]
    /\ left' = [left EXCEPT ![c] = {}]
    /\ since' = [since EXCEPT ![c] = 0]
    /\ todo' = [todo EXCEPT ![c] = NoRows]
    /\ target' = [target EXCEPT ![c] = NoRows]
    /\ overwritten' = [overwritten EXCEPT ![c] = FALSE]
    /\ snapshot' = [snapshot EXCEPT ![c] = NoRows]
    /\ state' = result

\* SELECT * FROM the table WHERE updatedAt > t: t is a text, and no updatedAt
\* that Prisma has written is greater than a text.
Changed(tbl, t) ==
    [i \in Ids |-> IF i \in tbl /\ stored[i] = "pulled" /\ local[i] > t
                   THEN local[i] ELSE 0]

\* pullFromPostgres sends its two queries.
StartPull(c) ==
    /\ pc' = [pc EXCEPT ![c] = "fetch"]
    /\ left' = [left EXCEPT ![c] = Tables]

\* The check of initialize(): online, it goes straight to the pull.
initialize(c) ==
    /\ pc[c] = "init"
    /\ IF net
       THEN /\ StartPull(c)
            /\ state' = "SYNCING"
            /\ UNCHANGED <<since, todo, target, overwritten, snapshot>>
       ELSE Return(c, "OFFLINE")
    /\ toast' = FALSE
    /\ UNCHANGED <<net, faults, dbs, history>>

\* The two-minute timer, or pgSync:retrySync: the state is tested before the
\* connection is, so a second call may pass the test while the first one waits.
checkAndReconnect(c) ==
    /\ pc[c] = "idle"
    /\ state \notin {"ONLINE", "SYNCING"}
    /\ pc' = [pc EXCEPT ![c] = "check"]
    /\ toast' = FALSE
    /\ UNCHANGED <<net, faults, dbs, state, left, since, todo, target,
                   overwritten, snapshot, history>>

\* The connection is back: the push reads the timestamp and selects the songs.
reconnect(c) ==
    /\ pc[c] = "check"
    /\ IF net
       THEN /\ state' = "SYNCING"
            /\ pc' = [pc EXCEPT ![c] = "push"]
            /\ left' = [left EXCEPT ![c] = {"ServicePlan"}]
            /\ since' = [since EXCEPT ![c] = lastPullAt]
            /\ todo' = [todo EXCEPT ![c] = Changed(Songs, lastPullAt)]
            /\ UNCHANGED <<target, overwritten, snapshot>>
       ELSE Return(c, state)
    /\ toast' = FALSE
    /\ UNCHANGED <<net, faults, dbs, history>>

\* The two-hour timer; initialize() has left its check long before.
periodicPull(c) ==
    /\ pc[c] = "idle"
    /\ state = "ONLINE"
    /\ \A d \in Calls : pc[d] # "init"
    /\ state' = "SYNCING"
    /\ StartPull(c)
    /\ toast' = FALSE
    /\ UNCHANGED <<net, faults, dbs, since, todo, target, overwritten,
                   snapshot, history>>

\* findUnique for the next selected row: an absent row will be created; for a
\* row that exists PostgreSQL wins, and a newer local version is counted.
pushLook(c, i) ==
    /\ pc[c] = "push" /\ net
    /\ todo[c][i] # 0
    /\ todo' = [todo EXCEPT ![c][i] = 0]
    /\ IF remote[i] = 0
       THEN /\ pc' = [pc EXCEPT ![c] = "create"]
            /\ target' = [target EXCEPT ![c] = [NoRows EXCEPT ![i] = todo[c][i]]]
            /\ UNCHANGED overwritten
       ELSE /\ overwritten' = [overwritten EXCEPT ![c] = @ \/ todo[c][i] > remote[i]]
            /\ UNCHANGED <<pc, target>>
    /\ toast' = FALSE
    /\ UNCHANGED <<net, faults, dbs, state, left, since, snapshot, history>>

pushCreate_Upsert(c, i) ==
    /\ pc[c] = "create" /\ net
    /\ target[c][i] # 0
    /\ remote' = [remote EXCEPT ![i] = target[c][i]]
    /\ published' = published \cup {target[c][i]}
    /\ pc' = [pc EXCEPT ![c] = "push"]
    /\ target' = [target EXCEPT ![c] = NoRows]
    /\ toast' = FALSE
    /\ UNCHANGED <<net, faults, clock, local, stored, lastPullAt, state, left,
                   since, todo, overwritten, snapshot, born, offlineRows>>

\* create: PostgreSQL refuses the identifier of a row that another call has
\* created meanwhile, and the title or the date of another row.
pushCreate(c, i) ==
    /\ pc[c] = "create" /\ net
    /\ target[c][i] # 0
    /\ IF remote[i] = 0 /\ ~Clash(i, remote)
       THEN /\ remote' = [remote EXCEPT ![i] = target[c][i]]
            /\ published' = published \cup {target[c][i]}
            /\ pc' = [pc EXCEPT ![c] = "push"]
            /\ target' = [target EXCEPT ![c] = NoRows]
            /\ UNCHANGED <<state, left, since, todo, overwritten, snapshot>>
       ELSE /\ Return(c, "SYNC_ERROR")
            /\ UNCHANGED <<remote, published>>
    /\ toast' = FALSE
    /\ UNCHANGED <<net, faults, clock, local, stored, lastPullAt, born, offlineRows>>

\* The songs are done: the plans are selected only now, with the timestamp
\* that the push has read.  The plans are done: the pull follows.
pushNext(c) ==
    /\ pc[c] = "push"
    /\ todo[c] = NoRows
    /\ \/ /\ left[c] # {}
          /\ left' = [left EXCEPT ![c] = {}]
          /\ todo' = [todo EXCEPT ![c] = Changed(Plans, since[c])]
          /\ UNCHANGED pc
       \/ /\ left[c] = {}
          /\ StartPull(c)
          /\ UNCHANGED todo
    /\ toast' = FALSE
    /\ UNCHANGED <<net, faults, dbs, state, since, target, overwritten,
                   snapshot, history>>

\* One of the two findMany is answered; they are not one transaction.
pullFetch(c, t) ==
    /\ pc[c] = "fetch" /\ net
    /\ t \in left[c]
    /\ left' = [left EXCEPT ![c] = @ \ {t}]
    /\ snapshot' = [snapshot EXCEPT
                      ![c] = [i \in Ids |-> IF i \in RowsOf(t) THEN remote[i] ELSE @[i]]]
    /\ pc' = [pc EXCEPT ![c] = IF left[c] = {t} THEN "replace" ELSE "fetch"]
    /\ toast' = FALSE
    /\ UNCHANGED <<net, faults, dbs, state, since, todo, target, overwritten, history>>

pullReplace_KeepsNewer(c) ==
    /\ pc[c] = "replace"
    /\ local' = [i \in Ids |-> IF local[i] > snapshot[c][i] THEN local[i] ELSE snapshot[c][i]]
    /\ stored' = AllPulled
    /\ lastPullAt' = clock
    /\ toast' = overwritten[c]
    /\ Return(c, "ONLINE")
    /\ UNCHANGED <<net, faults, clock, remote, history>>

\* replaceAll, in one transaction, then the timestamp, the state and the toast
\* before the thread yields.
pullReplace(c) ==
    /\ pc[c] = "replace"
    /\ local' = snapshot[c] /\ stored' = AllPulled
    /\ lastPullAt' = clock
    /\ toast' = overwritten[c]
    /\ Return(c, "ONLINE")
    /\ UNCHANGED <<net, faults, clock, remote, history>>

AnotherFault == faults < MaxFaults /\ faults' = faults + 1

callFails_Syncing(c) ==
    /\ \/ pc[c] \in {"push", "create", "fetch"} /\ ~net /\ UNCHANGED faults
       \/ pc[c] = "replace" /\ AnotherFault
    /\ Return(c, state)
    /\ toast' = FALSE
    /\ UNCHANGED <<net, dbs, history>>

\* PostgreSQL is out of reach during a push or a fetch, or the transaction is
\* rolled back: what was pushed stays, SQLite is as it was.
callFails(c) ==
    /\ \/ pc[c] \in {"push", "create", "fetch"} /\ ~net /\ UNCHANGED faults
       \/ pc[c] = "replace" /\ AnotherFault
    /\ Return(c, "SYNC_ERROR")
    /\ toast' = FALSE
    /\ UNCHANGED <<net, dbs, history>>

-----------------------------------------------------------------------------
(* The users, the network and the application's life *)

\* The rows whose dates Prisma has created.
Made == [i \in Ids |-> IF stored[i] = "made" THEN local[i] ELSE 0]

\* An edit on the desktop goes to SQLite whatever the state is.  SQLite keeps
\* the dates of the plans unique, and not the titles of the songs; the date of
\* a plan that a pull has inserted, a text, is never that of a plan of Prisma's.
LocalEdit(i) ==
    /\ clock < MaxClock
    /\ \/ local[i] # 0
       \/ i \notin born /\ (i \in Plans => ~Clash(i, Made))
    /\ clock' = clock + 1
    /\ local' = [local EXCEPT ![i] = clock + 1]
    /\ stored' = [stored EXCEPT ![i] = IF local[i] = 0 \/ @ = "made" THEN "made"
                                       ELSE "edited"]
    /\ born' = born \cup {i}
    /\ offlineRows' = IF i \notin born /\ state \in Disconnected
                      THEN offlineRows \cup {i} ELSE offlineRows
    /\ toast' = FALSE
    /\ UNCHANGED <<net, faults, remote, lastPullAt, state, callVars, published>>

\* An edit in the web application.
WebEdit(i) ==
    /\ clock < MaxClock
    /\ \/ remote[i] # 0
       \/ i \notin born /\ ~Clash(i, remote)
    /\ clock' = clock + 1
    /\ remote' = [remote EXCEPT ![i] = clock + 1]
    /\ published' = published \cup {clock + 1}
    /\ born' = born \cup {i}
    /\ toast' = FALSE
    /\ UNCHANGED <<net, faults, local, stored, lastPullAt, state, callVars, offlineRows>>

NetworkChange ==
    /\ net' = ~net
    /\ toast' = FALSE
    /\ UNCHANGED <<faults, dbs, state, callVars, history>>

\* The application stops, and starts again: the calls in flight are forgotten.
\* It may be started for another PostgreSQL, which has no row yet.
StartAgain ==
    /\ AnotherFault
    /\ remote' = remote \/ (MayMove /\ remote' = NoRows)
    /\ state' = "ONLINE"
    /\ \E c \in Calls : pc' = Starting(c)
    /\ left' = ForCalls({}) /\ since' = ForCalls(0)
    /\ todo' = ForCalls(NoRows) /\ target' = ForCalls(NoRows)
    /\ overwritten' = ForCalls(FALSE) /\ snapshot' = ForCalls(NoRows)
    /\ toast' = FALSE

Restart ==
    /\ StartAgain
    /\ UNCHANGED <<net, clock, local, stored, lastPullAt, history>>

\* It stops after the transaction of a pull is committed and before sync.json
\* is written, or in the middle of the write: readSyncFile() then returns {}
\* and the timestamp is the epoch.
crashBeforeSave(c) ==
    /\ pc[c] = "replace"
    /\ local' = snapshot[c] /\ stored' = AllPulled
    /\ lastPullAt' \in {lastPullAt, 0}
    /\ StartAgain
    /\ UNCHANGED <<net, clock, history>>

CallStep(c) ==
    \/ initialize(c)
    \/ reconnect(c)
    \/ \E i \in Ids : pushLook(c, i) \/ pushCreate(c, i)
    \/ pushNext(c)
    \/ \E t \in Tables : pullFetch(c, t)
    \/ pullReplace(c)
    \/ callFails(c)

Next ==
    \/ \E c \in Calls :
          checkAndReconnect(c) \/ periodicPull(c) \/ CallStep(c) \/ crashBeforeSave(c)
    \/ \E i \in Ids : LocalEdit(i) \/ WebEdit(i)
    \/ NetworkChange
    \/ Restart

\* An await of a call settles, and the two-minute timer keeps firing.
Fairness ==
    /\ \A c \in Calls : WF_vars(CallStep(c))
    /\ WF_vars(\E c \in Calls : checkAndReconnect(c))

Spec == Init /\ [][Next]_vars /\ Fairness

-----------------------------------------------------------------------------
(* Properties *)

Rows == [Ids -> Nat]

\* The types of the databases, of the manager and of its calls.
TypeOK ==
    /\ net \in BOOLEAN /\ toast \in BOOLEAN
    /\ clock \in Nat /\ lastPullAt \in Nat /\ faults \in Nat
    /\ local \in Rows /\ remote \in Rows /\ stored \in [Ids -> Storage]
    /\ state \in States
    /\ pc \in [Calls -> Steps]
    /\ left \in [Calls -> SUBSET Tables]
    /\ since \in [Calls -> Nat]
    /\ todo \in [Calls -> Rows] /\ target \in [Calls -> Rows]
    /\ overwritten \in [Calls -> BOOLEAN]
    /\ snapshot \in [Calls -> Rows]
    /\ born \in SUBSET Ids /\ published \in SUBSET Nat /\ offlineRows \in SUBSET Ids

\* The timestamp of sync.json never marks work of the desktop as exchanged:
\* whatever was edited between the fetch and the replacement, whichever call
\* failed or was cut by a restart, and with two calls at once, a row of SQLite
\* that is not newer than lastPullAt has been in PostgreSQL.  (What the push
\* selects with it is another matter: OfflineWorkPushed.)
LastPullSound ==
    \A i \in Ids : local[i] # 0 /\ local[i] <= lastPullAt => local[i] \in published

\* "PostgreSQL gagne toujours": once a row exists there no push replaces it,
\* only an edit in the web application does (it is dated after everything that
\* came before), even if two calls push the same row; a restart may turn to
\* another database.
ServerWins ==
    [][\A i \in Ids :
          faults' = faults /\ remote[i] # 0 /\ remote'[i] # remote[i]
              => remote'[i] > clock]_vars

\* "Les modifications faites hors ligne sont synchronisées vers PostgreSQL dès
\* la reconnexion": when the push of a reconnection gives way to the pull, the
\* rows created while the manager was OFFLINE or in SYNC_ERROR are in
\* PostgreSQL.  (For one call at a time, and rows that PostgreSQL would accept.)
OfflineWorkPushed ==
    [][\A c \in Calls, i \in offlineRows :
          pc[c] = "push" /\ pc'[c] = "fetch" /\ local[i] # 0 => remote[i] # 0]_vars

\* A row created on the desktop while the manager is OFFLINE or in SYNC_ERROR
\* is in SQLite or in PostgreSQL ever after: no pull removes it from SQLite
\* before a push has brought it to PostgreSQL.
OfflineWorkKept ==
    \A i \in offlineRows : local[i] # 0 \/ remote[i] # 0

\* With a network that stays up the manager is online again and again: no
\* failure, race, restart or conflict leaves it in an error or in SYNCING for ever.
\* Excluded: a restart for another, empty PostgreSQL, which may refuse at every
\* retry a row that was pulled from the first one.
BackOnline ==
    <>[]net /\ [](published # {} => remote # NoRows) => []<>(state = "ONLINE")
=============================================================================
