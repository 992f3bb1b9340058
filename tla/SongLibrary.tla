----------------------------- MODULE SongLibrary -----------------------------
(***************************************************************************)
(* The songs of the desktop application: the edits of the regie and the    *)
(* JSON copies that follow them (main/ipc/songs-meta.ts), the imports of   *)
(* song files (main/ipc/songs-import.ts) and the export and import of the  *)
(* whole database (main/ipc/data.ts).                                      *)
(*                                                                         *)
(* A handler answers when its transaction is committed; the copy in the    *)
(* songs folder is written afterwards, by a call that nobody waits for and *)
(* whose failure nobody hears of; a stop of the application drops it.      *)
(* The blocks of a song are a function from order numbers to texts, and    *)
(* the items of a plan one to texts and songs: the desktop numbers them    *)
(* from 1, the web application, whose rows arrive with a pull, from 0.     *)
(***************************************************************************)
EXTENDS Naturals, FiniteSets, Functions

CONSTANTS
    SongIds,      \* row ids; a new song takes one that was never used
    Titles,
    Bodies,       \* texts that the desktop's editors and imports write
    WebBodies,    \* texts that the web application writes
    Dates,        \* dates of service plans
    Slots,        \* bound on the copies being written at a time
    MaxBlocks,    \* bound on the blocks of a song and the items of a plan
    MaxEdits,     \* bound on the changes and imports; one more import may follow
    None,
    Torn          \* the content of a file that is being rewritten

\* The values that the variables take.
BlockText == {""} \cup UNION {{b[n] : n \in DOMAIN b} : b \in Bodies \cup WebBodies}

Numbered(T) ==
    UNION {[D -> T] : D \in {E \in SUBSET (0..MaxBlocks) : Cardinality(E) <= MaxBlocks}}

Blocks == Numbered(BlockText)

\* An item of a plan: what it shows, and the song that it links to.
Items == Numbered([text : BlockText, song : SongIds \cup {None}])

Song == [title : Titles, blocks : Blocks]

Row == [title : Titles, blocks : Blocks, deleted : BOOLEAN]

Plan == [items : Items, deleted : BOOLEAN]

Job == [song : SongIds, to : Song \cup {None}, stage : {"dir", "write"}]

ASSUME LibraryAssumption ==
    /\ IsFiniteSet(SongIds) /\ IsFiniteSet(Dates) /\ MaxBlocks \in Nat \ {0, 1}
    /\ Bodies \cup WebBodies \subseteq Blocks /\ \A b \in Bodies : 0 \notin DOMAIN b
    /\ None \notin Row /\ None \notin Plan /\ None \notin Job

VARIABLES
    songs,      \* the rows of Song with their blocks; deleted: deletedAt is set
    plans,      \* the plan of each date, one that is deleted too
    copies,     \* the JSON files; Torn while one is being rewritten
    jobs,       \* the writes and removals of copies that are under way
    want,       \* what the last edit of a song meant for its copy; sure: its copy was
                \* the only one under way and has not failed
    file,       \* the last exported file
    imp,        \* the import of a database file under way
    backup,     \* the snapshot before the last REPLACE, and the songs changed since
    edits       \* changes and imports so far

libVars == <<songs, plans, copies, jobs, want, file, imp, backup, edits>>

Content(s) == [title |-> s.title, blocks |-> s.blocks]

Used == {i \in SongIds : songs[i] # None}

Live == {i \in Used : ~songs[i].deleted}

LivePlans == {d \in Dates : plans[d] # None /\ ~plans[d].deleted}

NoImport ==
    [stage |-> "idle", songs |-> <<>>, plans |-> <<>>, todo |-> {}, days |-> {}]

LibInit ==
    /\ songs = [i \in SongIds |-> None]
    /\ plans = [d \in Dates |-> None]
    /\ copies = [i \in SongIds |-> None]
    /\ jobs = [n \in Slots |-> None]
    /\ want = [i \in SongIds |-> [copy |-> None, sure |-> TRUE]]
    /\ file = None
    /\ imp = NoImport
    /\ backup = [songs |-> [i \in SongIds |-> None], late |-> {}]
    /\ edits = 0

-----------------------------------------------------------------------------
(* The copies *)

JobsOf(i) == {n \in Slots : jobs[n] # None /\ jobs[n].song = i}

\* void writeSongJsonAutoSync(song), or deleteSongJsonAutoSync for None
StartCopy(i, content) ==
    /\ \E n \in Slots :
        /\ jobs[n] = None /\ \A m \in Slots : m < n => jobs[m] # None
        /\ jobs' = [jobs EXCEPT ![n] = [song |-> i, to |-> content, stage |-> "dir"]]
    /\ want' = [want EXCEPT ![i] = [copy |-> content, sure |-> JobsOf(i) = {}]]

\* The call for n ends; when it failed the error is swallowed and the copy stays.
EndCopy(n, failed) ==
    LET i == jobs[n].song
    IN  /\ jobs' = [jobs EXCEPT ![n] = None]
        /\ IF failed THEN want' = [want EXCEPT ![i].sure = FALSE] /\ UNCHANGED copies
           ELSE UNCHANGED want /\ copies' = [copies EXCEPT ![i] = jobs[n].to]

\* getSongsJsonDir, which may have no folder to answer, and mkdir, then writeFile
\* opens the file and empties it, and writes.
writeSongJsonAutoSync(n) ==
    /\ jobs[n] # None /\ jobs[n].to # None
    /\ \/ /\ jobs[n].stage = "dir"
          /\ copies' = [copies EXCEPT ![jobs[n].song] = Torn]
          /\ jobs' = [jobs EXCEPT ![n].stage = "write"]
          /\ UNCHANGED want
       \/ jobs[n].stage = "write" /\ EndCopy(n, FALSE)
       \/ EndCopy(n, TRUE)
    /\ UNCHANGED <<songs, plans, file, imp, backup, edits>>

deleteSongJsonAutoSync(n) ==
    /\ jobs[n] # None /\ jobs[n].to = None
    /\ \E failed \in BOOLEAN : EndCopy(n, failed)
    /\ UNCHANGED <<songs, plans, file, imp, backup, edits>>

\* The application stops and starts again: the calls under way are lost, a file
\* that was being rewritten stays torn, a transaction that was open is rolled back.
stop ==
    /\ jobs' = [n \in Slots |-> None]
    /\ want' = [i \in SongIds |-> [want[i] EXCEPT !.sure = @ /\ JobsOf(i) = {}]]
    /\ imp' = NoImport
    /\ UNCHANGED <<songs, plans, copies, file, backup, edits>>

-----------------------------------------------------------------------------
(* The edits of the regie *)

Edit(i, row) ==
    /\ edits < MaxEdits /\ edits' = edits + 1
    /\ songs' = [songs EXCEPT ![i] = row]
    /\ backup' = IF imp.stage = "replace" THEN [backup EXCEPT !.late = @ \cup {i}] ELSE backup
    /\ UNCHANGED <<plans, copies, file, imp>>

\* The ids that nothing refers to; a new song takes the first of them.
FreshIds ==
    {i \in SongIds : songs[i] = None /\ want[i].copy = None /\ copies[i] = None /\ JobsOf(i) = {}}

Fresh(i) == i \in FreshIds /\ \A j \in FreshIds : i <= j

New(title, blocks) == [title |-> title, blocks |-> blocks, deleted |-> FALSE]

\* A new song has an empty verse and an empty chorus.
songsCreate(i, t) ==
    /\ Fresh(i)
    /\ LET s == New(t, [n \in 1..2 |-> ""])
       IN  Edit(i, s) /\ StartCopy(i, Content(s))

\* The update does not look at deletedAt: the editor may still be open on a song
\* that was deleted, and its copy comes back.
songsUpdateMeta(i, t) ==
    /\ i \in Used
    /\ LET s == [songs[i] EXCEPT !.title = t]
       IN  Edit(i, s) /\ StartCopy(i, Content(s))

songsReplaceBlocks_CopyFirst(i, b) ==
    /\ i \in Used
    /\ Edit(i, [songs[i] EXCEPT !.blocks = b])
    /\ \E n \in Slots : jobs[n] = None
                        /\ jobs' = [jobs EXCEPT ![n] = [song |-> i, to |-> Content(songs[i]), stage |-> "dir"]]
    /\ want' = [want EXCEPT ![i] = [copy |-> Content([songs[i] EXCEPT !.blocks = b]),
                                    sure |-> JobsOf(i) = {}]]

songsReplaceBlocks(i, b) ==
    /\ i \in Used
    /\ LET s == [songs[i] EXCEPT !.blocks = b]
       IN  Edit(i, s) /\ StartCopy(i, Content(s))

songsDelete(i) ==
    /\ i \in Used
    /\ Edit(i, [songs[i] EXCEPT !.deleted = TRUE]) /\ StartCopy(i, None)

\* A pull brings a song of the web application; it writes no copy.
pullFromPostgres(i, t, b) ==
    /\ Fresh(i)
    /\ Edit(i, New(t, b))
    /\ UNCHANGED <<jobs, want>>

-----------------------------------------------------------------------------
(* The plans *)

EditPlan(d, plan) ==
    /\ edits < MaxEdits /\ edits' = edits + 1
    /\ plans' = [plans EXCEPT ![d] = plan]
    /\ UNCHANGED <<songs, copies, jobs, want, file, imp, backup>>

plansCreate(d) ==
    plans[d] = None /\ EditPlan(d, [items |-> <<>>, deleted |-> FALSE])

\* An item takes the number after the last one; one of a song links to it.
plansAddItem(d, text, i) ==
    /\ plans[d] # None /\ i \in Used \cup {None}
    /\ LET items == plans[d].items
       IN  /\ Cardinality(DOMAIN items) < MaxBlocks
           /\ \E n \in 1..MaxBlocks :
                 /\ n = 1 \/ n - 1 \in DOMAIN items
                 /\ \A m \in DOMAIN items : m < n
                 /\ EditPlan(d, [items |-> [m \in DOMAIN items \cup {n} |->
                                              IF m = n THEN [text |-> text, song |-> i] ELSE items[m]],
                                 deleted |-> plans[d].deleted])

plansDelete(d) ==
    d \in LivePlans /\ EditPlan(d, [plans[d] EXCEPT !.deleted = TRUE])

\* A pull brings a plan of the web application.
pullPlan(d, b, i) ==
    /\ plans[d] = None /\ i \in Used \cup {None}
    /\ EditPlan(d, [items |-> [n \in DOMAIN b |-> [text |-> b[n], song |-> i]], deleted |-> FALSE])

-----------------------------------------------------------------------------
(* Song files *)

\* The numbers of a set from the least.
InOrder(S) ==
    CHOOSE q \in [1..Cardinality(S) -> S] : \A i, j \in DOMAIN q : i < j => q[i] < q[j]

\* The blocks in their order, numbered from 1.
Renumber(b) ==
    LET orders == InOrder(DOMAIN b)
    IN  [k \in DOMAIN orders |-> b[orders[k]]]

\* createSongWithBlocksAtomic for the text of a document.
importDocSong(i, t, b) ==
    /\ Fresh(i)
    /\ Edit(i, New(t, b))
    /\ UNCHANGED <<jobs, want>>

\* ... and for a JSON copy of song j; one that is torn is refused by the parser.
importJsonFile(i, j) ==
    /\ Fresh(i)
    /\ copies[j] \notin {None, Torn}
    /\ Edit(i, New(copies[j].title, Renumber(copies[j].blocks)))
    /\ UNCHANGED <<jobs, want>>

-----------------------------------------------------------------------------
(* The whole database *)

exportAll ==
    /\ file' = [songs |-> [i \in Live |-> Content(songs[i])],
                plans |-> [d \in LivePlans |-> plans[d].items]]
    /\ UNCHANGED <<songs, plans, copies, jobs, want, imp, backup, edits>>

asPositiveInt_OffByOne(n, fallback) == IF n > 0 THEN n ELSE fallback + 1

asPositiveInt(n, fallback) == IF n > 0 THEN n ELSE fallback

\* The order numbers that normalizeSongs gives to the blocks of the file, and
\* normalizePlans to the items.
ImportedOrders(b) ==
    LET orders == InOrder(DOMAIN b)
    IN  [k \in DOMAIN orders |-> asPositiveInt(orders[k], k)]

\* The unique indexes on (songId, order) and (planId, order) refuse a number that
\* comes twice.
Accepted(b) == IsInjective(ImportedOrders(b))

ImportedRows(b) ==
    LET orders == ImportedOrders(b)
        rows == Renumber(b)
    IN  [n \in Range(orders) |-> rows[CHOOSE k \in DOMAIN orders : orders[k] = n]]

normalizeSong(s) == New(s.title, ImportedRows(s.blocks))

\* createPlanWithItems writes every field but songId.
Unlinked(items) == [n \in DOMAIN items |-> [items[n] EXCEPT !.song = None]]

normalizePlan(items) == [items |-> ImportedRows(Unlinked(items)), deleted |-> FALSE]

importAll(mode) ==
    /\ file # None /\ imp.stage = "idle"
    /\ edits <= MaxEdits /\ edits' = edits + 1
    /\ imp' = [stage |-> mode, songs |-> file.songs, plans |-> file.plans,
               todo |-> DOMAIN file.songs, days |-> DOMAIN file.plans]
    /\ UNCHANGED <<songs, plans, copies, jobs, want, file, backup>>

\* Every song of the import under new ids, over the rows of base.
Inserted(base) ==
    LET place == CHOOSE f \in [DOMAIN imp.songs -> FreshIds] : IsInjective(f)
    IN  [i \in SongIds |-> IF \E j \in DOMAIN imp.songs : place[j] = i
                           THEN normalizeSong(imp.songs[CHOOSE j \in DOMAIN imp.songs : place[j] = i])
                           ELSE base[i]]

\* The plans of the import over those of base.
createPlanWithItems(base) ==
    [d \in Dates |-> IF d \in DOMAIN imp.plans THEN normalizePlan(imp.plans[d]) ELSE base[d]]

AllAccepted ==
    /\ \A j \in DOMAIN imp.songs : Accepted(imp.songs[j].blocks)
    /\ \A d \in DOMAIN imp.plans : Accepted(imp.plans[d])

EnoughIds == Cardinality(FreshIds) >= Cardinality(DOMAIN imp.songs)

Finish(outcome) ==
    imp' = [imp EXCEPT !.stage = outcome, !.todo = {}, !.days = {}]

\* What is answered as rolledBack: "rolledBack" when an index refused a row, "failed"
\* when there was another reason (a full disk, a locked file, a timeout).
Refuse(outcome) == Finish(outcome) /\ UNCHANGED <<songs, plans>>

backupDatabaseSnapshot ==
    /\ imp.stage = "REPLACE"
    /\ \/ /\ backup' = [songs |-> songs, late |-> {}]
          /\ imp' = [imp EXCEPT !.stage = "replace"]
          /\ UNCHANGED <<songs, plans>>
       \/ Refuse("failed") /\ UNCHANGED backup
    /\ UNCHANGED <<copies, jobs, want, file, edits>>

\* One transaction empties the four tables, deleted rows included, and fills them
\* from the file, or changes nothing.
replaceTransaction ==
    /\ imp.stage = "replace" /\ EnoughIds
    /\ \/ /\ AllAccepted
          /\ songs' = Inserted([i \in SongIds |-> None])
          /\ plans' = createPlanWithItems([d \in Dates |-> None])
          /\ Finish("replaced")
       \/ ~AllAccepted /\ Refuse("rolledBack")
       \/ Refuse("failed")
    /\ UNCHANGED <<copies, jobs, want, file, backup, edits>>

\* STRICT: one transaction adds everything; a date that is taken, also by a
\* deleted plan, refuses it.
strictTransaction ==
    /\ imp.stage = "STRICT" /\ EnoughIds
    /\ LET accepted == AllAccepted /\ \A d \in DOMAIN imp.plans : plans[d] = None
       IN  \/ /\ accepted
              /\ songs' = Inserted(songs)
              /\ plans' = createPlanWithItems(plans)
              /\ Finish("merged")
           \/ ~accepted /\ Refuse("rolledBack")
           \/ Refuse("failed")
    /\ UNCHANGED <<copies, jobs, want, file, backup, edits>>

\* ENTITY: a transaction for each song, which may fail alone ...
entitySong(j, i) ==
    /\ imp.stage = "ENTITY" /\ j \in imp.todo /\ Fresh(i)
    /\ \A k \in imp.todo : j <= k
    /\ \/ /\ Accepted(imp.songs[j].blocks)
          /\ songs' = [songs EXCEPT ![i] = normalizeSong(imp.songs[j])]
       \/ UNCHANGED songs
    /\ imp' = [imp EXCEPT !.todo = @ \ {j}]
    /\ UNCHANGED <<plans, copies, jobs, want, file, backup, edits>>

\* ... and then for each plan.
entityPlan(d) ==
    /\ imp.stage = "ENTITY" /\ imp.todo = {} /\ d \in imp.days
    /\ \/ /\ plans[d] = None /\ Accepted(imp.plans[d])
          /\ plans' = [plans EXCEPT ![d] = normalizePlan(imp.plans[d])]
       \/ UNCHANGED plans
    /\ imp' = [imp EXCEPT !.days = @ \ {d}]
    /\ UNCHANGED <<songs, copies, jobs, want, file, backup, edits>>

entityEnd ==
    /\ imp.stage = "ENTITY" /\ imp.todo = {} /\ imp.days = {}
    /\ Finish("merged")
    /\ UNCHANGED <<songs, plans, copies, jobs, want, file, backup, edits>>

\* The report is shown and closed.
closeReport ==
    /\ imp.stage \in {"replaced", "merged", "rolledBack", "failed"}
    /\ imp' = NoImport
    /\ UNCHANGED <<songs, plans, copies, jobs, want, file, backup, edits>>

LibraryStep ==
    \/ \E n \in Slots : writeSongJsonAutoSync(n) \/ deleteSongJsonAutoSync(n)
    \/ \E i \in SongIds, t \in Titles : songsCreate(i, t) \/ songsUpdateMeta(i, t)
    \/ \E i \in SongIds, b \in Bodies : songsReplaceBlocks(i, b)
    \/ \E i \in SongIds : songsDelete(i)
    \/ \E i \in SongIds, t \in Titles, b \in WebBodies : pullFromPostgres(i, t, b)
    \/ \E d \in Dates : plansCreate(d) \/ plansDelete(d) \/ entityPlan(d)
    \/ \E d \in Dates, i \in SongIds \cup {None} :
          \/ \E b \in Bodies : \E n \in DOMAIN b : plansAddItem(d, b[n], i)
          \/ \E b \in WebBodies : pullPlan(d, b, i)
    \/ \E i \in SongIds, t \in Titles, b \in Bodies : importDocSong(i, t, b)
    \/ \E i, j \in SongIds : importJsonFile(i, j)
    \/ exportAll
    \/ \E mode \in {"REPLACE", "STRICT", "ENTITY"} : importAll(mode)
    \/ backupDatabaseSnapshot
    \/ replaceTransaction
    \/ strictTransaction
    \/ \E i, j \in SongIds : entitySong(j, i)
    \/ entityEnd
    \/ stop
    \/ closeReport

-----------------------------------------------------------------------------
(* Properties *)

\* When the copy of the last edit of a song was the only one being written and did
\* not fail, the copy in the songs folder ends up as that edit left the song, or gone
\* after a deletion, whatever ran at the same time for other songs and whatever
\* failed before.  The unawaited calls of songs-meta.ts (249, 261, 285, 293) leave
\* another copy only when two for the same song are under way together, when an
\* error is swallowed (138, 152) or when the application stops before the write.
CopiesSettle ==
    \A i \in SongIds : JobsOf(i) = {} /\ want[i].sure => copies[i] = want[i].copy

Texts(s) == <<s.title, Renumber(s.blocks)>>

\* Two rows that asPositiveInt (data.ts 127) gives the same number: it turns 0 into 1.
ZeroAndOne(b) == {0, 1} \subseteq DOMAIN b

SongsRestored ==
    \E f \in [DOMAIN imp.songs -> {i \in SongIds : songs'[i] # None}] :
        /\ IsInjective(f) /\ Range(f) = {i \in SongIds : songs'[i] # None}
        /\ \A j \in DOMAIN imp.songs : Texts(songs'[f[j]]) = Texts(imp.songs[j])

PlansRestored ==
    /\ {d \in Dates : plans'[d] # None} = DOMAIN imp.plans
    /\ \A d \in DOMAIN imp.plans :
          ~plans'[d].deleted /\ Renumber(plans'[d].items) = Renumber(Unlinked(imp.plans[d]))

\* A REPLACE import of an exported file gives back every song with its blocks in
\* their order and every plan with its items in theirs; an item links to no song any
\* more (createPlanWithItems, data.ts 255, writes no songId, and the songs have new
\* ids).  An index only refuses it when a song numbers two blocks, or a plan two
\* items, 0 and 1 as the web application does (PlanFormClient.tsx 103); refused,
\* failed or cut by a stop, it changes nothing.
ReplaceRestores ==
    [][imp.stage = "replace" /\ imp'.stage # "replace" =>
        \/ imp'.stage = "replaced" /\ SongsRestored /\ PlansRestored
        \/ /\ imp'.stage \in {"rolledBack", "failed", "idle"}
           /\ UNCHANGED <<songs, plans>>
           /\ imp'.stage = "rolledBack" =>
                 \/ \E j \in DOMAIN imp.songs : ZeroAndOne(imp.songs[j].blocks)
                 \/ \E d \in DOMAIN imp.plans : ZeroAndOne(imp.plans[d])]_libVars

\* A song that a REPLACE import removes is in the snapshot taken before it (data.ts
\* 558), deleted songs included, unless the song was changed between the snapshot
\* and the transaction.
ReplaceBackedUp ==
    [][imp.stage = "replace" /\ imp'.stage = "replaced" =>
        \A i \in Used \ backup.late : backup.songs[i] = songs[i]]_libVars

\* A REPLACE import loses nothing: what it puts in place is the whole file, and what
\* it removes is in the snapshot (data.ts 540-589).
ReplaceSafe == ReplaceRestores /\ ReplaceBackedUp
=============================================================================
