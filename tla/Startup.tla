------------------------------- MODULE Startup -------------------------------
(***************************************************************************)
(* The life of the desktop application around its database (main/main.ts,  *)
(* app.whenReady): the settings of an earlier version are taken over, the  *)
(* active profile is applied, the database is migrated, and only then are  *)
(* the handlers registered and the regie opened, from where the remote     *)
(* control server is started and the media folder is chosen.  The          *)
(* application may stop at any point and is started again.                 *)
(*                                                                         *)
(* The media folder is in settings.json twice: in "files", which every     *)
(* reader takes, and in the active profile, which each start copies to     *)
(* "files".  The choice of a folder writes one after the other.  There is  *)
(* one profile (ProfileStore has the list); the switch to another one,     *)
(* which brings its own folder, is not here.                               *)
(***************************************************************************)
EXTENDS Migration, SyncServer

CONSTANTS
    Dirs,         \* media folders that the operator may choose
    LegacyDir,    \* the folder of files.config.json, or NoDir
    NoDir,        \* no folder set
    Calls         \* handlers that write settings.json at the same time

ASSUME DirsAssumption ==
    /\ NoDir \notin Dirs /\ LegacyDir \in Dirs \cup {NoDir}
    /\ None \notin Dirs \cup {NoDir}

VARIABLES
    settings,     \* settings.json: files.libraryDir and that of the active profile
    call,         \* how far each handler is
    chosen,       \* history: the last folder chosen since settings.json was last lost
    mixed         \* history: the two copies of the folder may differ for good

folderVars == <<settings, call, chosen, mixed>>

vars == <<migVars, srvVars, folderVars>>

\* What a settings.json that is missing, truncated or left half written reads as.
EmptySettings == [dir |-> NoDir, profile |-> None]

NoCall == [at |-> "none", dir |-> NoDir, choice |-> FALSE]

Init ==
    /\ MigInit /\ SrvInit
    /\ settings = EmptySettings
    /\ call = [c \in Calls |-> NoCall]
    /\ chosen = NoDir /\ mixed = FALSE

-----------------------------------------------------------------------------
(* The start *)

\* ensureRuntimeDatabaseUrl, then the queue's write of migrateLegacySettingsIfNeeded
\* truncates settings.json ...
whenReady ==
    /\ At("off")
    /\ Go("legacy")
    /\ UNCHANGED <<db, work, log, faults, srvVars, folderVars>>

\* The folder of files.config.json counts while settings.json has none.
readFilesConfig == IF settings.dir = NoDir THEN LegacyDir ELSE settings.dir

\* ... and completes it.
migrateLegacySettingsIfNeeded ==
    /\ At("legacy")
    /\ settings' = [settings EXCEPT !.dir = readFilesConfig]
    /\ Go("profiles")
    /\ UNCHANGED <<db, work, log, faults, srvVars, call, chosen, mixed>>

\* A settings.json without profiles gets one, with the folder of the moment.
ensureProfilesOnStartup ==
    /\ At("profiles")
    /\ settings' = [settings EXCEPT !.profile = IF @ = None THEN readFilesConfig ELSE @]
    /\ Go("apply")
    /\ UNCHANGED <<db, work, log, faults, srvVars, call, chosen, mixed>>

\* applyProfileToRuntime: the folder of the profile, if it has one, becomes that
\* of the application.
applyActiveProfileOnStartup ==
    /\ At("apply")
    /\ settings' = [settings EXCEPT !.dir = IF settings.profile = NoDir THEN @
                                            ELSE settings.profile]
    /\ Go("backup")
    /\ UNCHANGED <<db, work, log, faults, srvVars, call, chosen, mixed>>

registerHandlers ==
    /\ At("register")
    /\ Go("ready")
    /\ UNCHANGED <<db, work, log, faults, srvVars, folderVars>>

-----------------------------------------------------------------------------
(* The handlers that write the folder *)

\* files:chooseLibraryDir, up to the write of "files"; the dialog is closed and
\* the folders are made.
chooseLibraryDir(c, d) ==
    /\ At("ready") /\ call[c] = NoCall
    /\ call' = [call EXCEPT ![c] = [at |-> "files", dir |-> d, choice |-> TRUE]]
    /\ UNCHANGED <<migVars, srvVars, settings, chosen, mixed>>

writeFilesConfig(c) ==
    /\ call[c].at = "files"
    /\ settings' = [settings EXCEPT !.dir = call[c].dir]
    /\ call' = [call EXCEPT ![c].at = "sync"]
    /\ chosen' = call[c].dir
    /\ mixed' = (\E e \in Calls \ {c} : call[e].at = "save")
    /\ UNCHANGED <<migVars, srvVars>>

\* A change of an appearance or of a mirror mode saves the active profile too.
changeLook(c) ==
    /\ At("ready") /\ call[c] = NoCall
    /\ call' = [call EXCEPT ![c].at = "sync"]
    /\ UNCHANGED <<migVars, srvVars, settings, chosen, mixed>>

\* syncActiveProfileFromRuntime reads the list and then the folder, outside of the
\* queue: while another handler rewrites settings.json it finds no profile, and
\* ends without an error, or no folder.
syncRead(c) ==
    /\ call[c].at = "sync"
    /\ \/ /\ call' = [call EXCEPT ![c] = NoCall]
          /\ mixed' = (mixed \/ call[c].choice)
       \/ \E d \in {readFilesConfig, LegacyDir} :
            /\ settings.profile # None
            /\ call' = [call EXCEPT ![c] = [@ EXCEPT !.at = "save", !.dir = d]]
            /\ mixed' = (mixed \/ d # readFilesConfig)
    /\ UNCHANGED <<migVars, srvVars, settings, chosen>>

syncSave_KeepsFolder(c) ==
    /\ call[c].at = "save"
    /\ settings' = [settings EXCEPT !.profile = IF @ = None THEN call[c].dir ELSE @]
    /\ call' = [call EXCEPT ![c] = NoCall]
    /\ UNCHANGED <<migVars, srvVars, chosen, mixed>>

\* writeProfilesState of the profile with the folder that was read.
syncSave(c) ==
    /\ call[c].at = "save"
    /\ settings' = [settings EXCEPT !.profile = call[c].dir]
    /\ call' = [call EXCEPT ![c] = NoCall]
    /\ UNCHANGED <<migVars, srvVars, chosen, mixed>>

\* A choice that has been written to "files" and not to the profile.
HalfDone(c) == call[c].choice /\ call[c].at \in {"sync", "save"}

\* A read or a write fails and the handler answers an error; a write may leave
\* the file truncated.
callFails(c) ==
    /\ call[c] # NoCall
    /\ faults < MaxFaults /\ faults' = faults + 1
    /\ call' = [call EXCEPT ![c] = NoCall]
    /\ \/ /\ mixed' = (mixed \/ HalfDone(c))
          /\ UNCHANGED <<settings, chosen>>
       \/ /\ settings' = EmptySettings /\ chosen' = NoDir
          /\ mixed' = (\E e \in Calls \ {c} : call[e].at = "save")
    /\ UNCHANGED <<db, work, log, boot, srvVars>>

\* A stop at any point, an error that ends the start, or the end of a session.
\* In a start's first writes, and while the regie is there, it may come when some
\* handler has truncated settings.json.
stopApplication ==
    /\ ~At("off")
    /\ faults < MaxFaults /\ faults' = faults + 1
    /\ boot' = NotBooted
    /\ work' = EmptyDb
    /\ \/ /\ mixed' = (mixed \/ \E c \in Calls : HalfDone(c))
          /\ UNCHANGED <<settings, chosen>>
       \/ /\ boot.at \in {"legacy", "profiles", "apply", "ready"}
          /\ settings' = EmptySettings /\ chosen' = NoDir /\ mixed' = FALSE
    /\ call' = [c \in Calls |-> NoCall]
    /\ server' = [s \in Servers |-> [stage |-> "none", port |-> None, answered |-> FALSE]]
    /\ wss' = None
    /\ remote' = [c \in Clients |-> [of |-> None, missed |-> FALSE]]
    /\ status' = [running |-> FALSE, clients |-> 0]
    /\ raced' = FALSE
    /\ UNCHANGED <<db, log>>

Boot ==
    \/ whenReady
    \/ migrateLegacySettingsIfNeeded
    \/ ensureProfilesOnStartup
    \/ applyActiveProfileOnStartup
    \/ MigrationStep /\ UNCHANGED <<srvVars, folderVars>>
    \/ registerHandlers

FolderStep(c) ==
    \/ \E d \in Dirs : chooseLibraryDir(c, d)
    \/ writeFilesConfig(c)
    \/ changeLook(c)
    \/ syncRead(c)
    \/ syncSave(c)
    \/ callFails(c)

Next ==
    \/ Boot
    \/ At("ready") /\ ServerStep /\ UNCHANGED <<migVars, folderVars>>
    \/ \E c \in Calls : FolderStep(c)
    \/ stopApplication

\* The application is started again by its user and its start goes on by itself;
\* the operating system answers a bind.
Spec ==
    /\ Init /\ [][Next]_vars
    /\ WF_vars(Boot)
    /\ \A s \in Servers :
         WF_vars(At("ready") /\ (listening(s) \/ serverError(s)) /\ UNCHANGED <<migVars, folderVars>>)

-----------------------------------------------------------------------------
(* Properties *)

\* Once the stops and the failures are over the application starts: nothing that
\* an interrupted migration leaves behind keeps the next one from finishing, and
\* all migrations are then applied.  A file in which a song item refers to a
\* missing song is excluded: the backfill of songId meets the foreign key at every
\* start.
EventuallyReady == ~db.dangling => <>(At("ready") /\ Finished = Len(Migrations))

\* While the application runs, the media folder is the one the operator chose
\* last, or else the one of the earlier version's files.config.json: neither the
\* takeover nor the active profile, which are applied again at each start, undoes
\* a choice.  Excluded (mixed): a choice that a stop or a failure cuts between its
\* two writes (main.ts 823-824), or whose sync finds settings.json truncated, and
\* a save of the profile that has read the folder before the choice and writes it
\* after.  A stop or a failure that loses settings.json loses the choice with it.
LibraryDirKept ==
    At("ready") /\ ~mixed =>
        readFilesConfig = IF chosen # NoDir THEN chosen ELSE LegacyDir
=============================================================================
