# Church Presenter: a verification of its state and of its synchronisation

Church Presenter is an Electron application that composes services (plans of
songs, verses, announcements and media) and projects them on up to three
screens, and a Next.js web application where a choir prepares the same songs and
plans. This directory holds TLA+ models of the parts of the program that keep
shared state, the TLC configurations that check them, and TLAPS proofs of the
main results.

## Inventory

### The parts of the system

| Part | State | Operations | Hard behaviour |
|---|---|---|---|
| Projection and live session (`main/ipc/screenState.ts`, `main/main.ts`) | state and mirror mode of screens A, B, C; live session (cursor, target, black, white, locks); windows | `screens:*`, `projection:*`, `live:*`, remote commands, window life cycle | mirrors against locks against blanking; a window that loads while the state changes |
| Service plans (`main/ipc/plans.ts`) | SQLite tables ServicePlan and ServiceItem, two unique indexes | `plans:*` | handlers of several awaits; renumbering; search of a free date; an index checked per row |
| PostgreSQL synchronisation (`main/sync/*`) | connection state, `sync.json`, both databases | `initialize`, `checkAndReconnect`, `periodicPull`, retry button | overlapping calls, network losses, restarts, edits on both sides |
| Settings and profiles (`main/settings.ts`) | `settings.json`, write queue, list objects in memory | `settings:*`, save after each change of appearance | reads outside the queue, lists shared by handlers, half written file |
| Remote control server (`main/ipc/syncServer.ts`) | WebSocket server and clients | `sync:start`, `sync:stop`, commands | a start overtaken by another start or by a stop |
| Database start (`main/db.ts`) | `_prisma_migrations`, schema | safe migration of a packaged application | stop between two statements |
| Data export and import (`main/ipc/data.ts`) | all tables | MERGE by entity or strict, REPLACE | failure of one entity of several; rows that the web numbers from 0 |
| Songs (`main/ipc/songs*.ts`) | Song, SongBlock, JSON copies on the disk | create, update, replace blocks, delete, imports | copies written without being awaited, whose failures nobody hears of |
| Song documents (`main/ipc/songs-import.ts`, `songs-export.ts`, web `lib/songParser.ts`) | none | parse, write | mixtures of headings, metadata and repetitions |
| Media library (`main/library.ts`, `files:*` in `main.ts`) | folders and files | add, rename, delete, list | a check and the step it protects are apart; names that collide |
| Bible (`renderer/src/bible`, `BibleTab.tsx`) | passage shown, cache of chapters, search | browse, type a reference, project, search | answers out of order, lost connection |
| Regie, the operator's window (`renderer/src`) | cached live state, plan and list | navigation, drag and drop, optimistic updates | answers out of order, stale caches |
| Projection page | last state received, timer | display | a timer that acts after the content has changed |
| Web application (`apps/web`) | PostgreSQL: users, songs, plans, favourites | REST API with roles, forms, tables | check-then-write without a transaction, lost answers |

The main process is one JavaScript thread: a handler runs alone up to its next
`await`, and any other handler may run there. The regie and the projection pages
talk to it by IPC, remote controls by WebSocket; the main process broadcasts the
states of the screens and of the live session to all of them. Plans and songs are
in SQLite; the synchronisation replaces SQLite by the content of PostgreSQL and
is meant to push what was created offline. Profiles are snapshots of the screens' looks and
mirror modes, saved after each change and applied at start or on demand.

### What makes each part correct

* Screens: a mirror shows its source; a locked screen is not touched; blanking
  never destroys a content; a window shows the state of its screen.
* Plans: items are numbered 1 to n; a plan gets the first free date; a reorder
  does what was asked; calls end.
* Synchronisation: PostgreSQL wins; what was created offline reaches PostgreSQL;
  the user is told when a version is discarded; the manager does not stay in an
  error.
* Profiles: there is always a usable list; a change that was acknowledged stays;
  the screens show the profile that was applied.
* Remote server: the server that runs is the one that is shown and can be stopped;
  a start is answered. Start: the log of migrations follows the schema, no item of
  a plan is lost, the application gets ready in the end.
* Songs: the JSON copies follow the database; a REPLACE import puts every row of the file
  in place or changes nothing, and what it removes is in the snapshot; no line of a document is lost.
* Media: a rename takes no file away, a list is true.
* Regie: what is shown is what is stored; what was operated last is what the target
  shows; a passage has the title of its text; no song gets the text of another.
* Web: a plan or song has the rows of one save; a success message is true; a role
  never exceeds what its owner may give.

`PROJECT.json` lists the hazards of the code, each at its line, with the
properties that cover it.

## Modules

| Module | Models | Extended by |
|---|---|---|
| `ScreenState` | `screenState.ts` and the handlers of `main.ts` that use it, projection windows | `MCScreenState`, `ScreenStateProofs`, `ProfileRuntime`, `LiveRegie` |
| `Plans` | the `plans:*` handlers over both tables | `MCPlans`, `PlansProofs` |
| `PlanSeq` | abstract: a plan is a sequence of items | instantiated by `Plans` |
| `PgSync` | `syncManager.ts`, `pullSync.ts`, `pushSync.ts`, `syncState.ts`, the timers | `MCPgSync`, `PgSyncProofs` |
| `ProfileStore` | `settings.json`, its queue, the handlers of profiles | `MCProfileStore`, `ProfileStoreProofs` |
| `ProfileRuntime` | profiles applied to the running screens, composed with all of `ScreenState` | `MCProfileRuntime`, `ScreenStateProofs` |
| `Migration`, `MigrationFiles` | the safe migration of `db.ts`; the shipped migrations as data | `Startup`, `MCStartup` |
| `SyncServer` | the WebSocket server of `syncServer.ts` | `Startup` |
| `Startup` | the start of the application: legacy settings, active profile, migration, handlers, server, media folder, stops | `MCStartup`, `StartupProofs` |
| `SongText` | parsers and writer of song documents | `Library` |
| `SongLibrary` | songs, plans with their items, JSON copies, imports of files, export and import of the database | `Library` |
| `MediaLibrary` | the `files:*` handlers of the library | `Library` |
| `Library` | the three libraries together | `MCLibrary`, `LibraryProofs` |
| `PlanContext` | the plan of the regie and everything that edits it | `Regie` |
| `LiveRegie` | navigation and projection from two windows, over all of `ScreenState` | `Regie` |
| `BibleTab` | the Bible panel, its cache and its search | `Regie` |
| `SongPanel` | list, panel and dialog of songs | `Regie` |
| `Regie` | the panels of the operator's window together | `MCRegie`, `RegieProofs` |
| `WebContent`, `WebUsers`, `WebMarks` | songs and plans; accounts and roles; favourites and learning | `Web` |
| `Web` | the web application | `MCWeb`, `WebProofs` |

Operators whose name has an underscore and a suffix, such as
`guardScreen_MirrorOnly`, are mutants: what the definition of the same name would
be with a plausible bug. No specification uses them.

### ScreenState

`screenStates`, `mirrors`, `liveState` and `projWins` are the variables of
`main.ts`; `view[k]` is the last `screens:state` that the window of screen k
received. A screen's state keeps its mode, its content and its look (all the
fields of the appearance as one value); payloads are small sets. One action per
IPC handler or command: `setContentText`, `setContentMedia`, `setMode`,
`setAppearance`, `setStatePatch`, `setMirror`, the ten `live:*` commands, and
the opening, the loading and the closing of a window. `mergeLive` includes the
re-application of the blanking to the target and the propagation to the mirrors.
A live patch is a record whose missing fields are `Absent`. The specification
starts from a first start without saved settings; starts from a saved profile are
in `ProfileRuntime`.

### Plans

A SQLite transaction, and a single Prisma call, is one step. A handler that
awaits several of them is a job that keeps what it read (`job[h]`). The unique
indexes on the date and on (planId, order) are checked where SQLite checks them:
per updated row. `asked`, the day that was requested, is remembered with the row
for the properties only. Texts and backgrounds are one payload; a database call may
fail at any step (`MayFail`). `MaxTries` stands for the 3660 days that are tried.

### PgSync

A row of Song (with its blocks) or ServicePlan (with its items) is its
`updatedAt`, which identifies the version; 0 is no row. `keyOf` is what PostgreSQL
keeps unique: the title of a song, the date of a plan; it does not change for a
row. Each `await` of the manager ends a step: the check of the connection, the
look-up and the creation of each pushed row, each of the two queries of the pull,
the SQLite transaction. `LocalEdit` and `WebEdit` are the users; edits of plan
items that leave the plan's `updatedAt` alone are not versions. The history
variables `born`, `published` and `offlineRows` serve the properties. `crashBeforeSave`
is a stop between the replacement of SQLite and the write of `sync.json`, whose
loss reads as "never pulled". A restart may find another `DATABASE_URL_PG`, whose
database is empty (`MayMove`). Restarts and failed transactions of SQLite are counted
together (`faults`).

`stored` is how SQLite keeps the dates of a row. Prisma (`new PrismaClient()` of
`db.ts`, the native engine) writes a DateTime of SQLite as an INTEGER, the pull
inserts ISO texts, and the push compares `updatedAt` with an ISO text; SQLite sorts
every INTEGER before every TEXT. So `Changed` selects only rows that a pull has
inserted and that nobody has edited since, and the unique index on the dates of the
plans does not compare a pulled plan with one that Prisma has created. One clock is
assumed for both sides.

### ProfileStore

`file` is the list of profiles of `settings.json`, `Torn` while `writeFile` has
truncated it; a reader then finds no profiles, as the `catch` of
`readSettingsConfig` does. `queue` is `settingsWriteQueue`; its head is written by
`patchBegin` and `patchEnd`. `ensuring` is `ensureProfilesInFlight`: handlers that
join it share the list object `obj[owner]` and see each other's changes, the index
that `settings:saveActiveProfile` keeps over an await included. A profile is its
identifier.

### ProfileRuntime

`applyProfileToRuntime` is two steps, before and after the await of
`writeProjectionConfig`, with all of `ScreenState` in between. `saved` holds every
snapshot that `settings.json` may hold, which includes whatever `ProfileStore`
lets it hold. `restart` starts the application with a saved profile.

### PlanSeq

What a plan promises: a new item goes to the end, a removal keeps the order of the
others, only a reorder moves items, an item stays in its plan. `Plans` maps its rows
to the sequence of their identifiers sorted by the order column (`Abstract`), and
`ImplementsPlanSeq` is the refinement.

### Startup, Migration, SyncServer

A migration is the list of statements of its file; each is one step of a transaction
(`work` is what the transaction sees, `db` what is committed). The errors that
`isBenignMigrationError` takes for a repetition are those that SQLite gives for what
exists already. The schema is a set of tables, columns and indexes; of the data, the order
numbers of the plan items are kept, which one migration renumbers and another copies to a
new table. `Applied[k]` is the schema that the first k migrations give to an empty file.
The database may come from any earlier version. `RerunAssumption` says that a migration
which runs over its own effects ends with the same schema, which TLC evaluates for the
eight that are shipped. A file may hold a song item whose song is gone (`dangling`): the
backfill of `songId` is then refused. `Startup` puts the takeover of the earlier settings
and the application of the active profile before it, and after it the remote control
server and the handlers that write the media folder; `stopApplication` may come at any
step. `settings` is the folder of `settings.json` in both places, `call[c]` how far a
handler is between its awaits: `files:chooseLibraryDir` writes "files"
(`writeFilesConfig`) and then the profile (`syncRead`, `syncSave`), a change of an
appearance the profile only (`changeLook`); a read outside of the queue may find
`settings.json` truncated. The server and the folder look at nothing of each other, so
that a behaviour of `MCStartup` uses one of them. `SyncServer` keeps each server's stage
apart from `wss`, the only reference that the code has and that is set by the listening
event.

### SongText, SongLibrary, MediaLibrary

A document is a sequence of lines (heading, metadata, lyrics, blank); the words of a
line are one value. The desktop's parser (headings, else a repeated chunk taken for
the chorus, else paragraphs), the Word writer and the web parser are operators over
it. A line that begins with paroles is the label of the lyrics whatever follows on it; the
Word writer writes title, author, year (or one that the tags hold) and lyrics.

In `SongLibrary` a song has at most `MaxBlocks` blocks, a plan at most as many items, and a
transaction is one step. The copy of a song is a job of its own (folder, truncation,
content), since nobody awaits it: it may fail, which nobody hears of, and `stop` drops it.
`want` remembers what the last edit meant, and in `sure` whether its copy was alone and
has not failed. Blocks and items are functions from numbers, which the web starts at 0.
An item has a text and the song it links to; the import writes no link. The report of an
import is `rolledBack` when an index refused a row and `failed` when the transaction or the
snapshot failed otherwise; the program words both in the same way. Its counts are left out.

In `MediaLibrary` each await ends a step.

### Regie

`PlanContext`: an operation is a chain of calls; reads are served at one moment and
applied at another. A chain keeps the plan that was selected when it began. The items of
a plan are a set of identifiers with a value, since nothing here moves one: a new item has the largest
identifier (`nextItem`). A deletion only dates the row (`deleted`): `plans:list` leaves it out, while
`plans:get` and the edits still find it. The card
of an item renders a check box instead of the drag handle, so that
`plans:reorder` cannot be reached from the regie and is left out here.
`LiveRegie`: each window has an ordered queue to the main process and back; a job has
one request out; requests that wait for the disk are answered in any order.
`BibleTab` and `SongPanel`: loads, searches, timers and saves that overlap and are
answered in any order. In `BibleTab` the button that projects the first selected verse
(`handleProject`, `projectFirst`) waits for the session twice and puts the cursor in
between. The verses of a chapter depend on the translation, and the storage may refuse a
chapter (`writeCache`). The panels do not wait for one another and each keeps its own
state, so a behaviour of `Regie` is one of a single panel, and the same holds for
`Library` and `Web`.

Several properties of the regie name exceptions, in history variables (`calm`,
`shows`, `crossed`, `astray`, `mixed`, `listMixed`, `songMixed`, `hasty`): interleavings in which
the code, which tells no answer from another, does show something stale. The
comment of each property lists them. The property then says that nothing else can
go wrong.

### Web

A route reads and later writes, with other routes in between; a transaction that replaces
rows deletes those it sees and inserts others, and the unique indexes are checked at the
insertion. A row remembers the save that wrote it, as the number of the submission and of
the songs that its import had left, and whether it has fields that only the desktop
application writes (`more`: reference, notes, media, backgrounds): the route of the items
drops them, also from the items that the form left alone (`taken`), and `SavedAsShown` is
about the fields that the form shows. A session keeps the role of its login. An answer may
be lost, or be an error, after its request was served, in each of the three modules; a
request that was not served by then is not served later. `unsure` records, for the page of
users, the accounts that it changed without being told, and loading the page again clears
it.

## Runs

| Run | Bounds | Result |
|---|---|---|
| `screens` | three screens, the regie's mirror modes, one content, a window on the second display | `TypeOK`, `MirrorInSync`, `BlackWhiteExclusive`, `WindowShowsScreen`, `LockedScreenFrozen`, `LiveKeepsContent` hold |
| `plans` | two calls in flight, two plans, three items, two days asked | `OrdersContiguous`, `FirstFreeDate`, `ImplementsPlanSeq` hold |
| `plans_reorder` | | `ReorderTakesEffect` fails: swapping two items meets the unique index half way and is undone |
| `pgsync` | two calls, one song and two plans of one date, two edits, one restart (perhaps for another PostgreSQL) or failed transaction | `LastPullSound`, `ServerWins`, `BackOnline` hold |
| `pgsync_push` | one call, no restart | `OfflineWorkPushed` fails: the push selects no row that Prisma has written |
| `pgsync_restart` | one restart | `OfflineWorkKept` fails: `initialize` pulls before anything was pushed |
| `profiles` | two handlers, three identifiers, failing writes, stops | `ProfilesUsable` holds |
| `profile_windows` | two screens, two applications in flight, two snapshots | `ShownWhenSettled` holds |
| `startup` | the eight migrations, three items, three stops or failures; two servers, three ports, one remote, or two handlers, two folders | `SchemaFollowsLog`, `ServerUnderControl`, `LibraryDirKept`, `ItemsSurvive`, `EventuallyReady`, `StartAnswered` hold |
| `library` | documents of four lines of any kind or seven lyric lines; four songs, a plan, two blocks or items, three changes and an import, two copies under way; two folders, two files, five calls | `SongReadWhole`, `WordRoundTrip`, `CopiesSettle`, `ReplaceSafe`, `RenameKeepsFiles`, `ListIsTrue` hold |
| `regie` | two overlapping operations, reads or requests in each panel, one failure | `ShownIsStored`, `SpinnerEnds`, `OperationShown`, `CachesCurrent`, `PassageShown`, `SearchMatches`, `SongsShown`, `SongEdited` hold |
| `web` | two browsers, two submissions, two administrators, three commands, two tabs, four marks | `RowsOfOneSave`, `DoneAsSaid`, `AccountsGoverned`, `TableTrue`, `MarkShown` hold |

Why these bounds: three screens are all the program has, and B and C play the same
part; a window needs one display, since a handler touches a screen and its direct
mirrors. The races between handlers need two calls; a renumbering that
goes wrong needs three items (one removed, two that move). In `PgSync` a conflict
needs two versions of a row and a refused creation two calls. A shared list object with a stale
index needs two handlers and two profiles; the third identifier is for a creation.
`MCProfileRuntime` leaves out the commands that neither write a look, a mirror mode
or a blanking nor change a lock: a profile does not touch what they write.
A migration that is run again over its own effects needs one fault between two
writes, and three allow a second and a third in the recovery; the two handlers of the folder are
a choice and an older save, or two choices; three items are the
least whose order can be changed without losing one. A repeated chunk needs two
occurrences of two lines with something between. A REPLACE that is refused needs one row of
the web application with two blocks or items; a copy that another overtakes needs two, with a
third edit to repair it. The races of the regie and of the
web need two operations; three songs and three plans are the one shown, another one
and one that is created.

More behaviours of the code that the models have and that TLC finds when asked, without a
run of their own: a deleted plan keeps its date, so that a new plan for that day goes to
the next one (`DateTaken` covers deleted rows); without any restart the pull of a
reconnection deletes what was created offline (`OfflineWorkKept`), and what was edited on
both sides is replaced without the warning that `docs/web-chantre/conception.md` promises;
a pulled row that another PostgreSQL refuses keeps the manager in SYNC_ERROR, because the
same creation is refused at every retry (`BackOnline` excludes this); a profile deleted
between the two reads of `syncActiveProfileFromRuntime` is added again; and
`ProfileRuntime` breaks `MirrorInSync` and `LockedScreenFrozen`, since a profile's mirror
modes come without the copy that `setMirror` makes and its looks ignore locks; a read of
`settings.json` during a write finds no profiles, so that the save which follows keeps the
active one alone; two starts of the remote control server for different ports leave a
server that nothing can stop; a song item whose song is gone ends every start of a file of
an earlier version at the backfill of `songId`; a choice of the media folder that a stop
cuts between its two writes, or that an older save of the profile crosses, is undone at
the next start, which copies the profile's folder over it; a song document whose lyrics
start with a line such as "Paroles du matin" loses that line at its import, and tags and
language never come back from Word; a REPLACE of an exported file is refused when a plan
of the web application has two items, and one that succeeds leaves no item of a plan with
its song; the cursor of the Bible panel may point past the end of a chapter that was
opened again in a translation with fewer verses, and a chapter shown once is gone offline
when the storage refused it; two administrators can deactivate each other; the answer to
the deletion of a plan clears the selection even when the user has selected another plan
meanwhile, since `deletePlan` compares with the selection of its own render; and of the
blocks of a song that are pressed quickly, one that has to open the window of its target
(B or C) is overtaken by a later one whose list of the screens finds it open, so that the
earlier block stays on the screen (three presses with the window closed, or two and the
window opened by hand in between).

Fairness. In `Plans` and `PgSync` every `await` settles (the database answers or
the call fails), so the steps of a call are weakly fair; the two-minute timer fires
for ever, so `checkAndReconnect` is too. In `Startup` the start goes on by itself once
the user has launched the application, which he does again after a stop (`Boot`), and
the operating system answers a request for a port. In `Regie` the main process answers
every call of the plan with a result or an error (`Service`). `BackOnline`,
`EventuallyReady`, `StartAnswered` and `SpinnerEnds` depend on it. Nothing is assumed
of what users do besides, and of the network only what `BackOnline` says itself: that it
stays up from some moment on; stops and failures are bounded in number.
Deadlock is not checked in `PgSync`, `Library`, `Regie` and `Web`, where the
number of operations is bounded and a behaviour ends at the bound.

## Proofs

TLAPS proves for every set of screens, rows and calls, and every bound:

* `ScreenStateProofs`
  * `TypeCorrect`, `BlackWhiteTheorem`: inductive as they stand, with the lemmas
    that say what `mergeLive` computes from a patch.
  * `MirrorTheorem`, under `StarMirrors` (the requests that the regie makes: only
    the main screen is mirrored). `MirrorInSync` alone is not inductive: copying to
    the direct mirrors is enough only if no mirror has mirrors, so the invariant adds
    that the mirror modes form a star. Without the assumption it is false: the
    handler accepts chains, and a mirror of a mirror is left behind.
  * `WindowTheorem`: no assumption on the mirrors.
  * `LockTheorem` and `LiveContentTheorem`: action properties from the invariants
    above (the second under `StarMirrors`, since a blanking copies the whole source).
  * `ProfileTypeCorrect`, `SettledTheorem`, of `ProfileRuntime`: the windows show their
    screens whenever no call is between its two steps and none has failed there; the lemmas
    on the steps of `ScreenState` serve again, and the mirror and lock theorems are not
    claimed, since profiles do break them.
* `PgSyncProofs`
  * `TypeCorrect`.
  * `LastPullTheorem`: `LastPullSound`, strengthened by `Origin`: every row that
    PostgreSQL or a fetched snapshot holds has been published, and no version is
    later than the clock. It is what makes the timestamp taken at the end of a pull,
    and not at its fetch, harmless. It says nothing of what a push selects with it:
    `pgsync_push` shows that the comparison does not compare dates.
  * `ServerWinsTheorem`: a push creates, and a creation is refused where a row is.
* `PlansProofs`, assuming finitely many plans and items (`PlansAssumption`)
  * `NumberingTheorem`: a count of rows is not inductive by itself. The invariant `IInv`
    adds what a call keeps over its awaits: a removal still belongs to the plan it read,
    the lines of a copy are numbered 1 to n, every item has its plan.
  * `DatesTheorem`: the days that a call has probed stay taken (`DatesProbed`), because
    a plan never leaves its day, deleted or not.
  * `RefinementTheorem`: every step of `Plans` is a step of `PlanSeq` or a stutter, under
    the mapping that sorts a plan's rows by their order. A removal gives the order of the
    items that stay as a map from new places to old ones, which the numbering yields.
* `ProfileStoreProofs`
  * `ProfilesTheorem`: the list objects that handlers share are not well formed themselves:
    a save at an index that a deletion has made stale puts a profile there twice. They
    always have a profile and an active one (`Usable`), and `normalizeProfilesConfig`
    makes any such list well formed (`NormalisedWellFormed`, by counting the first places
    of its profiles). The rest of the invariant says who may hold a list: a waiting call
    has one patch in the queue, and the call that others wait for does not end before its
    own.
* `StartupProofs`
  * `ServerTheorem`: `OneServer` adds the servers that still bind: they ask for the port of
    the one that listens, so that none can take its place.
  * `FolderTheorem`: both copies of the folder, and every save of the profile that is under
    way, hold the wanted one (`CopiesAgree`), but for a choice that has still to write the
    profile; no handler is at work during a start, which copies one over the other.
  * `SchemaTheorem`: the invariant follows the statement that is running: `work` is the
    schema after the statements run so far over the last committed one, which is that of
    the finished migrations or of one more (`RerunAssumption`).
* `WebProofs`
  * `MarkTheorem`: a request that was served carries the value of the mark until its answer
    is taken.
  * `AccountsTheorem`: the role that a session has from its login bounds what it can have
    given; one browser that manages the accounts leaves an active administrator.
  * `TableTheorem`: between a call and its answer the table and the answers on the way make
    up the database together (`TableWithAnswers`), but for the accounts in `unsure`.
  * `RowsTheorem`: each save numbers its rows from 0, so that the unique index lets an
    insertion pass only where no rows of another save are left. The invariant follows a
    request through the steps it has still to do.
  * `DoneTheorem`: a request that nobody has disturbed says at each step what it has written
    and what is left (`FormOK`, `BatchOK`); the n songs that an import has taken are in the
    library, each but the last of its title overwritten by a later one.
* `LibraryProofs`
  * `RenameTheorem`, `ListTheorem`: what a call found before its awaits is still so, but
    for the names that another call has touched since (`CallOK`).
  * `CopiesTheorem`: while one job alone is at work on the copy of a song, that job carries
    what the last edit meant (`CopyOK`), unless it has failed or a stop has dropped it.
  * `ReplaceTheorem`: outside the songs that changed since, the snapshot is the table
    (`BackupOK`). The other half is about numbers: the lemmas on `InOrder`, the enumeration
    of a finite set of numbers, show that a file gives each song the same blocks, and each
    plan the same items, in the same order, and that a refused one has rows 0 and 1.
* `RegieProofs`
  * `SearchTheorem`: while nothing was mixed, every search that waits or runs is the one of
    the panel.
  * `PassageTheorem`: the loads, the cache and the presses that wait for the session hold
    the text they were asked for (`LoadOK`, `CachedTexts`, `PendingOK`). The cursor is on a
    verse of the text but for the exceptions of `astray`: the button that projects a
    selection puts it after an await, when the passage may have changed, and it stays when
    the same chapter comes in another translation. Offline there is what the cache took
    (`kept`).
  * `CacheTheorem`: the last message on the way to a window that holds a live state, or else
    the window's copy, is the live state of the main process.
  * `SongsTheorem`: the last read that was sent for the list is the one that the field and
    the order ask for (`ListSettling`), and a panel at rest holds the stored text (`Quiet`).
  * `StoredTheorem`: `PlanInv` says what every rest of an operation still holds (`ToDoOK`:
    an edit of the plan is followed by a read of it, an edit of the plans by a read of the
    list), that an operation which is alone has read what is stored (`AloneOK`), and that
    the plan shown is either to be read again or ahead of the stored one by the removals
    that are under way, of the selected plan all of them (`PlanAhead`). The rest is about
    the edits: two removals are one of both sets, a removal and a change of title commute.
  * `EditTheorem`: fields always belong to the song of the panel that the dialog was opened
    for (`Owned`).

The assumptions on constants say that the values that stand for nothing are none of
the real ones, that the sets which are counted are finite and that the initial rows
are among the sets (`NoneAssumption`, `NothingAssumption`, `DirsAssumption`, `ServerAssumption`,
`MarksAssumption`, `UsersAssumption`, `ContentAssumption`, `BibleAssumption`,
`SongAssumption`, `PlanAssumption`, `LibraryAssumption`, `MediaAssumption`); TLC evaluates all of them.

Only model-checked:

* liveness (`BackOnline`, `EventuallyReady`, `StartAnswered`, `SpinnerEnds`), which needs
  fairness and ENABLED;
* `SongReadWhole` and `WordRoundTrip`: what the parsers give for every document would
  need an induction over its lines;
* `ItemsSurvive`, which depends on which statements the shipped migrations hold;
* `OperationShown`, a safety property whose inductive invariant is still to be written:
  requests that wait for the disk are answered in any order, and it has to follow each
  through the two queues of its window.

## Not modelled

* The validation of payloads is the choice of the sets of inputs; the sanitizing
  parsers of `settings.ts` turn unknown fields into defaults and keep no state.
* Rendering, layout, previews, the settings dialog, the dashboard, statistics and the
  statically rendered pages of the web application only show what the models hold.
* The preload bridge forwards each call unchanged.
* The containers of documents (zip, XML, encodings), the Bible texts, the comparison
  translations and the passage mode of the Bible panel.
* `plans:reorder` in the regie (it cannot be reached there; `Plans` has it), the
  countdown of the projection page, notes on songs, passwords and e-mails.
* The switch to another profile that brings its own media folder; the check of a profile's
  folder at the start, which may end it before a window opens (a stop of `Startup`).
* The saved appearances of the screens, which the active profile replaces at start.
* The cursor is an integer; the WebSocket command `live:setCursor` would also take
  fractions.

## Plan

1. Proofs: `OperationShown`, the last safety property without one that needs no induction over
   data.
2. Two plans in `LiveRegie`, one live and one selected; the countdown of the projection
   page in two windows.
3. `PgSync` over `WebContent` in place of `WebEdit`.
