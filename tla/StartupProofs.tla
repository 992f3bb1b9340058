----------------------------- MODULE StartupProofs -----------------------------
(***************************************************************************)
(* Proofs about Startup, for any list of migrations that may be run again  *)
(* (RerunAssumption, which TLC evaluates for the shipped ones), any number *)
(* of stops and failures, any servers, ports and remote controls, and any  *)
(* folders: what an interrupted start leaves in the database file, what    *)
(* the regie knows of the server, and which media folder is kept.          *)
(***************************************************************************)
EXTENDS Startup, FiniteSetTheorems, TLAPS

-----------------------------------------------------------------------------
(* The remote control server *)

ServerTypeOK ==
    /\ server \in [Servers -> [stage : {"none", "binding", "listening", "failed", "closed"},
                               port : Ports \cup {None}, answered : BOOLEAN]]
    /\ wss \in Servers \cup {None}
    /\ remote \in [Clients -> [of : Servers \cup {None}, missed : BOOLEAN]]
    /\ raced \in BOOLEAN

(***************************************************************************)
(* NoOrphanServer is not inductive: a second server that binds could take  *)
(* the place of the one that listens.  It cannot as long as every server   *)
(* that binds asks for the port of the one in wss, which is then taken;    *)
(* and between a stop and the next listening event, as long as they all    *)
(* ask for the same port.                                                  *)
(***************************************************************************)
OneServer ==
    /\ wss # None => server[wss].stage = "listening"
    /\ ~raced =>
         /\ \A s \in Servers : server[s].stage = "listening" => wss = s
         /\ \A s, t \in Servers :
              /\ server[s].stage \in {"binding", "listening"}
              /\ server[t].stage \in {"binding", "listening"}
              => server[s].port = server[t].port
         /\ \A c \in Clients : ~remote[c].missed /\ remote[c].of \in {None, wss}

ServerInv == ServerTypeOK /\ StatusShown /\ OneServer

LEMMA ServerStepType == ASSUME ServerTypeOK, ServerStep PROVE ServerTypeOK'
<1>1. ASSUME NEW s \in Servers, NEW p \in Ports, startServer(s, p) PROVE ServerTypeOK'
  BY <1>1 DEF startServer, ServerTypeOK
<1>2. ASSUME NEW s \in Servers, listening(s) PROVE ServerTypeOK'
  BY <1>2 DEF listening, ServerTypeOK
<1>3. ASSUME NEW s \in Servers, serverError(s) PROVE ServerTypeOK'
  BY <1>3 DEF serverError, ServerTypeOK
<1>4. ASSUME NEW c \in Clients, connection(c) PROVE ServerTypeOK'
  BY <1>4 DEF connection, ServerTypeOK
<1>5. ASSUME NEW c \in Clients, clientClose(c) PROVE ServerTypeOK'
  BY <1>5 DEF clientClose, ServerTypeOK
<1>6. CASE broadcastToClients
  BY <1>6 DEF broadcastToClients, ServerTypeOK
<1>7. CASE stopServer
  BY <1>7 DEF stopServer, ServerTypeOK
<1> QED BY <1>1, <1>2, <1>3, <1>4, <1>5, <1>6, <1>7 DEF ServerStep

\* Every event that changes wss or a connection also tells the regie.
LEMMA ServerStepStatus == ASSUME ServerTypeOK, StatusShown, ServerStep PROVE StatusShown'
<1>1. ASSUME NEW w, NEW rem, broadcastStatus(w, rem)
      PROVE  status' = [running |-> w # None,
                        clients |-> Cardinality({c \in Clients : w # None /\ rem[c].of = w})]
  <2>1. CASE w = None
    <3>1. {c \in Clients : w # None /\ rem[c].of = w} = {}
      BY <2>1
    <3> QED BY <1>1, <2>1, <3>1, FS_EmptySet DEF broadcastStatus
  <2>2. CASE w # None
    <3>1. {c \in Clients : w # None /\ rem[c].of = w} = {c \in Clients : rem[c].of = w}
      BY <2>2
    <3> QED BY <1>1, <2>2, <3>1 DEF broadcastStatus
  <2> QED BY <2>1, <2>2
<1>2. ASSUME UNCHANGED <<wss, status>>, \A c \in Clients : remote'[c].of = remote[c].of
      PROVE  StatusShown'
  <2>1. {c \in Clients : wss # None /\ remote'[c].of = wss}
          = {c \in Clients : wss # None /\ remote[c].of = wss}
    BY <1>2
  <2> QED BY <1>2, <2>1 DEF StatusShown
<1>3. CASE broadcastStatus(wss', remote')
  BY <1>1, <1>3 DEF StatusShown
<1>4. CASE UNCHANGED <<wss, remote, status>>
  BY <1>2, <1>4
<1>5. CASE broadcastToClients
  BY <1>2, <1>5 DEF broadcastToClients, ServerTypeOK
<1> QED BY <1>3, <1>4, <1>5 DEF ServerStep, startServer, listening, serverError, connection,
                                clientClose, stopServer

LEMMA ServerStepOne == ASSUME ServerTypeOK, OneServer, ServerStep PROVE OneServer'
<1> USE ServerAssumption DEF ServerTypeOK, OneServer
<1>1. ASSUME NEW s \in Servers, NEW p \in Ports, startServer(s, p) PROVE OneServer'
  BY <1>1 DEF startServer, Binding
<1>2. ASSUME NEW s \in Servers, listening(s) PROVE OneServer'
  BY <1>2 DEF listening, Free, Holders
<1>3. ASSUME NEW s \in Servers, serverError(s) PROVE OneServer'
  BY <1>3 DEF serverError
<1>4. ASSUME NEW c \in Clients, connection(c) PROVE OneServer'
  BY <1>4 DEF connection
<1>5. ASSUME NEW c \in Clients, clientClose(c) PROVE OneServer'
  BY <1>5 DEF clientClose
<1>6. CASE broadcastToClients
  BY <1>6 DEF broadcastToClients
<1>7. CASE stopServer
  BY <1>7 DEF stopServer
<1> QED BY <1>1, <1>2, <1>3, <1>4, <1>5, <1>6, <1>7 DEF ServerStep

LEMMA ServerNextInv == ServerInv /\ [Next]_vars => ServerInv'
<1> SUFFICES ASSUME ServerInv, [Next]_vars PROVE ServerInv'
  OBVIOUS
<1>1. CASE ServerStep
  BY <1>1, ServerStepType, ServerStepStatus, ServerStepOne DEF ServerInv
<1>2. CASE UNCHANGED srvVars
  BY <1>2 DEF ServerInv, ServerTypeOK, StatusShown, OneServer, srvVars
<1>3. CASE stopApplication
  <2>1. ServerTypeOK' /\ OneServer'
    BY <1>3 DEF stopApplication, ServerTypeOK, OneServer
  <2>2. StatusShown'
    <3>1. {c \in Clients : wss' # None /\ remote'[c].of = wss'} = {}
      BY <1>3 DEF stopApplication
    <3> QED BY <1>3, <3>1, FS_EmptySet DEF stopApplication, StatusShown
  <2> QED BY <2>1, <2>2 DEF ServerInv
<1>4. UNCHANGED srvVars \/ ServerStep \/ stopApplication
  <2>1. ASSUME NEW c \in Calls, FolderStep(c) PROVE UNCHANGED srvVars
    BY <2>1 DEF FolderStep, chooseLibraryDir, writeFilesConfig, changeLook, syncRead, syncSave,
                callFails
  <2> QED
    BY <2>1 DEF Next, Boot, whenReady, migrateLegacySettingsIfNeeded, ensureProfilesOnStartup,
                applyActiveProfileOnStartup, registerHandlers, vars
<1> QED BY <1>1, <1>2, <1>3, <1>4

\* Between starts, stops, failures and disconnections, and across restarts of the
\* application: sync:status tells what runs and for how many remote controls, and,
\* as long as no two starts for different ports overlap, what runs is what
\* sync:stop closes and what every live:update goes through.
THEOREM ServerTheorem == Spec => []ServerUnderControl
<1>1. Init => ServerInv
  <2> SUFFICES ASSUME Init PROVE ServerInv
    OBVIOUS
  <2>1. ServerTypeOK /\ OneServer
    BY DEF Init, SrvInit, ServerTypeOK, OneServer
  <2>2. {c \in Clients : wss # None /\ remote[c].of = wss} = {}
    BY DEF Init, SrvInit
  <2> QED BY <2>1, <2>2, FS_EmptySet DEF Init, SrvInit, StatusShown, ServerInv
<1>2. ServerInv => ServerUnderControl
  BY DEF ServerInv, OneServer, ServerUnderControl, NoOrphanServer
<1> QED BY <1>1, <1>2, ServerNextInv, PTL DEF Spec

-----------------------------------------------------------------------------
(* The points of a start *)

BootShape == boot = [at |-> boot.at, m |-> boot.m, step |-> boot.step, applied |-> boot.applied]

LEMMA BootPoints ==
    ASSUME BootShape, MigrationStep
    PROVE  BootShape' /\ boot.at # "ready" /\ boot'.at \notin {"apply", "ready"}
<1> USE DEF BootShape, Go, At, NotBooted
<1>1. ASSUME NEW point \in {"scan", "insert", "mark", "finish"}, Go(point), boot.at # "ready"
      PROVE  BootShape' /\ boot.at # "ready" /\ boot'.at \notin {"apply", "ready"}
  BY <1>1
<1>4. CASE \/ backupRuntimeDatabaseSnapshot \/ clearUnfinished \/ rollback \/ commit
           \/ markFinishedFails
  BY <1>1, <1>4 DEF backupRuntimeDatabaseSnapshot, clearUnfinished, rollback, commit,
                    markFinishedFails
<1>5. CASE getAppliedMigrationNames
  BY <1>5 DEF getAppliedMigrationNames
<1>6. CASE insertStarted
  BY <1>6 DEF insertStarted
<1>7. CASE markRolledBack
  BY <1>7 DEF markRolledBack
<1>2. CASE runStatement
  BY <1>2 DEF runStatement
<1>3. CASE skipMigration \/ markFinished
  <2>1. Advance(boot.m + 1) /\ boot.at \in {"skip", "finish"}
    BY <1>3 DEF skipMigration, markFinished
  <2> QED BY <2>1 DEF Advance
<1> QED BY <1>2, <1>3, <1>4, <1>5, <1>6, <1>7 DEF MigrationStep

-----------------------------------------------------------------------------
(* The media folder *)

Folders == Dirs \cup {NoDir}

FolderTypeOK ==
    /\ settings \in [dir : Folders, profile : Folders \cup {None}]
    /\ call \in [Calls -> [at : {"none", "files", "sync", "save"}, dir : Folders,
                           choice : BOOLEAN]]
    /\ chosen \in Folders /\ mixed \in BOOLEAN

\* The folder that the operator expects.
Wanted == IF chosen # NoDir THEN chosen ELSE LegacyDir

(***************************************************************************)
(* LibraryDirKept is not inductive: a start copies the folder of the       *)
(* active profile.  That one is the wanted one too, unless a choice has    *)
(* not yet written it, and so is the folder that any save is about to      *)
(* write.                                                                  *)
(***************************************************************************)
CopiesAgree ==
    ~mixed =>
      /\ readFilesConfig = Wanted
      /\ \A c \in Calls : call[c].at = "save" => call[c].dir = Wanted
      /\ \/ settings.profile \in {None, NoDir, Wanted}
         \/ \E c \in Calls : HalfDone(c)

\* No handler is at work before the regie is there, and a folder is being chosen
\* by a handler that knows it.
HandlersReady ==
    \A c \in Calls :
      /\ call[c] = NoCall \/ (call[c].at # "none" /\ At("ready"))
      /\ call[c].at = "files" => call[c].choice /\ call[c].dir \in Dirs

\* The profile that a start applies was there or has just been made.
ProfileThere == At("apply") => settings.profile # None

FolderInv == FolderTypeOK /\ CopiesAgree /\ HandlersReady /\ ProfileThere /\ BootShape

LEMMA FolderTypeNext == ASSUME FolderInv, [Next]_vars PROVE FolderTypeOK'
<1> USE DirsAssumption DEF FolderInv, FolderTypeOK, Folders
<1>a. readFilesConfig \in Folders
  BY DEF readFilesConfig
<1>1. CASE UNCHANGED <<settings, call, chosen, mixed>>
  BY <1>1
<1>2. CASE migrateLegacySettingsIfNeeded
  BY <1>2, <1>a DEF migrateLegacySettingsIfNeeded
<1>3. CASE ensureProfilesOnStartup
  BY <1>3, <1>a DEF ensureProfilesOnStartup
<1>4. CASE applyActiveProfileOnStartup
  BY <1>4 DEF applyActiveProfileOnStartup, ProfileThere
<1>5. CASE stopApplication
  <2>1. settings' \in [dir : Folders, profile : Folders \cup {None}] /\ chosen' \in Folders
    BY <1>5 DEF stopApplication, EmptySettings
  <2>2. call' \in [Calls -> [at : {"none", "files", "sync", "save"}, dir : Folders,
                             choice : BOOLEAN]]
    BY <1>5 DEF stopApplication, NoCall
  <2>3. mixed' \in BOOLEAN
    BY <1>5 DEF stopApplication
  <2> QED BY <2>1, <2>2, <2>3
<1>6. ASSUME NEW c \in Calls, FolderStep(c) PROVE FolderTypeOK'
  <2>1. CASE \E d \in Dirs : chooseLibraryDir(c, d)
    BY <2>1 DEF chooseLibraryDir
  <2>2. CASE writeFilesConfig(c)
    BY <2>2 DEF writeFilesConfig
  <2>3. CASE changeLook(c)
    BY <2>3 DEF changeLook
  <2>4. CASE syncRead(c)
    <3>1. call' \in [Calls -> [at : {"none", "files", "sync", "save"}, dir : Folders,
                               choice : BOOLEAN]]
      <4>1. CASE call' = [call EXCEPT ![c] = NoCall]
        BY <4>1 DEF NoCall
      <4>2. ASSUME NEW d \in {readFilesConfig, LegacyDir},
                   call' = [call EXCEPT ![c] = [@ EXCEPT !.at = "save", !.dir = d]]
            PROVE  call' \in [Calls -> [at : {"none", "files", "sync", "save"}, dir : Folders,
                                       choice : BOOLEAN]]
        <5>1. d \in Folders
          BY <1>a
        <5>2. [call[c] EXCEPT !.at = "save", !.dir = d]
                \in [at : {"none", "files", "sync", "save"}, dir : Folders, choice : BOOLEAN]
          BY <5>1
        <5> QED BY <4>2, <5>2
      <4> QED BY <2>4, <4>1, <4>2 DEF syncRead
    <3>2. mixed' \in BOOLEAN
      BY <2>4 DEF syncRead
    <3> QED BY <2>4, <3>1, <3>2 DEF syncRead
  <2>5. CASE syncSave(c)
    BY <2>5 DEF syncSave, NoCall
  <2>6. CASE callFails(c)
    <3>1. call' \in [Calls -> [at : {"none", "files", "sync", "save"}, dir : Folders,
                               choice : BOOLEAN]]
      BY <2>6 DEF callFails, NoCall
    <3>2. mixed' \in BOOLEAN
      BY <2>6 DEF callFails
    <3>3. settings' \in [dir : Folders, profile : Folders \cup {None}] /\ chosen' \in Folders
      <4>1. CASE UNCHANGED <<settings, chosen>>
        BY <4>1
      <4>2. CASE settings' = EmptySettings /\ chosen' = NoDir
        BY <4>2 DEF EmptySettings
      <4> QED BY <2>6, <4>1, <4>2 DEF callFails
    <3> QED BY <3>1, <3>2, <3>3
  <2> QED BY <1>6, <2>1, <2>2, <2>3, <2>4, <2>5, <2>6 DEF FolderStep
<1> QED
  BY <1>1, <1>2, <1>3, <1>4, <1>5, <1>6
  DEF Next, Boot, whenReady, registerHandlers, vars, folderVars

\* No handler is at work during a start, and only the start and a stop move it.
LEMMA HandlersNext == ASSUME FolderInv, [Next]_vars PROVE HandlersReady'
<1> USE DEF FolderInv, HandlersReady, At
<1>0. NoCall.at = "none"
  BY DEF NoCall
<1>1. ASSUME NEW c \in Calls, FolderStep(c) PROVE HandlersReady'
  <2>0. boot' = boot /\ \A e \in Calls \ {c} : call'[e] = call[e]
    BY <1>1 DEF FolderStep, chooseLibraryDir, writeFilesConfig, changeLook, syncRead, syncSave,
                callFails, migVars, FolderTypeOK
  <2>1. boot.at = "ready"
    <3>2. CASE \/ \E d \in Dirs : chooseLibraryDir(c, d)
               \/ changeLook(c)
      BY <3>2 DEF chooseLibraryDir, changeLook
    <3>3. CASE writeFilesConfig(c) \/ syncRead(c) \/ syncSave(c)
      <4>1. call[c].at # "none"
        BY <3>3 DEF writeFilesConfig, syncRead, syncSave
      <4> QED BY <1>0, <4>1
    <3>4. CASE callFails(c)
      BY <3>4 DEF callFails
    <3> QED BY <1>1, <3>2, <3>3, <3>4 DEF FolderStep
  <2>2. /\ call'[c] = NoCall \/ call'[c].at # "none"
        /\ call'[c].at = "files" => call'[c].choice /\ call'[c].dir \in Dirs
    <3>1. CASE \E d \in Dirs : chooseLibraryDir(c, d)
      <4>1. PICK d \in Dirs : chooseLibraryDir(c, d)
        BY <3>1
      <4>2. call'[c] = [at |-> "files", dir |-> d, choice |-> TRUE]
        BY <4>1 DEF chooseLibraryDir, FolderTypeOK
      <4> QED BY <4>2
    <3>2. CASE writeFilesConfig(c) \/ changeLook(c)
      BY <3>2 DEF writeFilesConfig, changeLook, FolderTypeOK
    <3>3. CASE syncRead(c)
      <4>1. call'[c] = NoCall \/ call'[c].at = "save"
        <5>1. CASE call' = [call EXCEPT ![c] = NoCall]
          BY <5>1 DEF FolderTypeOK
        <5>2. ASSUME NEW d, call' = [call EXCEPT ![c] = [@ EXCEPT !.at = "save", !.dir = d]]
              PROVE  call'[c].at = "save"
          BY <5>2 DEF FolderTypeOK
        <5> QED BY <3>3, <5>1, <5>2 DEF syncRead
      <4> QED BY <1>0, <4>1
    <3>4. CASE syncSave(c) \/ callFails(c)
      <4>1. call'[c] = NoCall
        BY <3>4 DEF syncSave, callFails, FolderTypeOK
      <4>2. call'[c].at # "files"
        BY <1>0, <4>1
      <4> QED BY <4>1, <4>2
    <3> QED BY <1>1, <3>1, <3>2, <3>3, <3>4 DEF FolderStep
  <2> QED BY <2>0, <2>1, <2>2
<1>2. CASE stopApplication
  BY <1>2 DEF stopApplication, NoCall
<1>3. CASE UNCHANGED call /\ (boot.at # "ready" \/ UNCHANGED boot)
  BY <1>3
<1>4. CASE Boot
  <2>1. UNCHANGED call
    BY <1>4 DEF Boot, whenReady, migrateLegacySettingsIfNeeded, ensureProfilesOnStartup,
                applyActiveProfileOnStartup, registerHandlers, folderVars
  <2>2. boot.at # "ready"
    BY <1>4, BootPoints DEF Boot, whenReady, migrateLegacySettingsIfNeeded,
                ensureProfilesOnStartup, applyActiveProfileOnStartup, registerHandlers
  <2> QED BY <1>3, <2>1, <2>2
<1>5. CASE At("ready") /\ ServerStep /\ UNCHANGED <<migVars, folderVars>>
  BY <1>3, <1>5 DEF migVars, folderVars
<1>6. CASE UNCHANGED vars
  BY <1>3, <1>6 DEF vars, migVars, folderVars
<1> QED BY <1>1, <1>2, <1>4, <1>5, <1>6 DEF Next

\* Only a start that has just gone through the profiles applies one.
LEMMA ProfileNext == ASSUME FolderInv, [Next]_vars PROVE ProfileThere'
<1> USE DEF FolderInv, ProfileThere, At
<1>1. ASSUME NEW c \in Calls, FolderStep(c) PROVE ProfileThere'
  <2>1. boot' = boot
    BY <1>1 DEF FolderStep, chooseLibraryDir, writeFilesConfig, changeLook, syncRead, syncSave,
                callFails, migVars
  <2>2. call[c] # NoCall \/ UNCHANGED settings
    <3>1. NoCall.at = "none"
      BY DEF NoCall
    <3> QED
      BY <1>1, <3>1 DEF FolderStep, chooseLibraryDir, writeFilesConfig, changeLook, syncRead,
                        syncSave, callFails
  <2>3. call[c] # NoCall => boot.at = "ready"
    BY DEF HandlersReady
  <2> QED BY <2>1, <2>2, <2>3
<1>2. CASE stopApplication
  BY <1>2 DEF stopApplication, NotBooted
<1>3. CASE ensureProfilesOnStartup
  <2>1. readFilesConfig # None
    BY DirsAssumption DEF readFilesConfig, FolderTypeOK, Folders
  <2> QED BY <1>3, <2>1 DEF ensureProfilesOnStartup, FolderTypeOK
<1>4. CASE UNCHANGED <<boot, settings>>
  BY <1>4
<1>5. CASE boot'.at # "apply"
  BY <1>5
<1>6. CASE Boot
  <2>1. CASE \/ whenReady \/ migrateLegacySettingsIfNeeded \/ applyActiveProfileOnStartup
             \/ registerHandlers
    <3>1. boot'.at \in {"legacy", "profiles", "backup", "ready"}
      BY <2>1 DEF whenReady, migrateLegacySettingsIfNeeded, applyActiveProfileOnStartup,
                  registerHandlers, Go, BootShape
    <3> QED BY <1>5, <3>1
  <2>2. CASE MigrationStep
    BY <1>5, <2>2, BootPoints
  <2> QED BY <1>3, <1>6, <2>1, <2>2 DEF Boot
<1> QED BY <1>1, <1>2, <1>4, <1>6 DEF Next, vars, migVars, folderVars

LEMMA BootNext == ASSUME BootShape, [Next]_vars PROVE BootShape'
<1>1. ASSUME NEW c \in Calls, FolderStep(c) PROVE UNCHANGED boot
  BY <1>1 DEF FolderStep, chooseLibraryDir, writeFilesConfig, changeLook, syncRead, syncSave,
              callFails, migVars
<1>2. CASE UNCHANGED boot
  BY <1>2 DEF BootShape
<1>3. CASE MigrationStep
  BY <1>3, BootPoints
<1>4. CASE \/ whenReady \/ migrateLegacySettingsIfNeeded \/ ensureProfilesOnStartup
           \/ applyActiveProfileOnStartup \/ registerHandlers \/ stopApplication
  BY <1>4 DEF whenReady, migrateLegacySettingsIfNeeded, ensureProfilesOnStartup,
              applyActiveProfileOnStartup, registerHandlers, stopApplication, Go, NotBooted,
              BootShape
<1> QED BY <1>1, <1>2, <1>3, <1>4 DEF Next, Boot, vars, migVars

\* Whatever a step does to one copy of the folder it does to what is wanted.
LEMMA CopiesNext == ASSUME FolderInv, [Next]_vars PROVE CopiesAgree'
<1> USE DirsAssumption DEF FolderInv
<1>0. ASSUME UNCHANGED folderVars PROVE CopiesAgree'
  BY <1>0 DEF CopiesAgree, folderVars, readFilesConfig, Wanted, HalfDone
<1>1. ASSUME NEW c \in Calls, FolderStep(c) PROVE CopiesAgree'
  <2>0. \A e \in Calls \ {c} : call'[e] = call[e]
    BY <1>1 DEF FolderStep, chooseLibraryDir, writeFilesConfig, changeLook, syncRead, syncSave,
                callFails, FolderTypeOK
  <2>1. ASSUME NEW d \in Dirs, chooseLibraryDir(c, d) PROVE CopiesAgree'
    BY <2>0, <2>1 DEF chooseLibraryDir, CopiesAgree, readFilesConfig, Wanted, HalfDone, NoCall,
                      FolderTypeOK
  <2>2. CASE writeFilesConfig(c)
    <3> SUFFICES ASSUME ~mixed' PROVE CopiesAgree'
      BY DEF CopiesAgree
    <3>1. call[c].choice /\ call[c].dir \in Dirs
      BY <2>2 DEF writeFilesConfig, HandlersReady
    <3>2. readFilesConfig' = Wanted'
      BY <2>2, <3>1 DEF writeFilesConfig, readFilesConfig, Wanted, FolderTypeOK
    <3>3. call'[c].at = "sync" /\ call'[c].choice
      BY <2>2, <3>1 DEF writeFilesConfig, FolderTypeOK
    <3>4. \A e \in Calls : call'[e].at # "save"
      BY <2>0, <2>2, <3>3 DEF writeFilesConfig
    <3> QED BY <3>2, <3>3, <3>4 DEF CopiesAgree, HalfDone
  <2>3. CASE changeLook(c)
    BY <2>0, <2>3 DEF changeLook, CopiesAgree, readFilesConfig, Wanted, HalfDone, NoCall,
                      FolderTypeOK
  <2>4. CASE syncRead(c)
    <3> SUFFICES ASSUME ~mixed' PROVE CopiesAgree'
      BY DEF CopiesAgree
    <3>1. ~mixed /\ UNCHANGED <<settings, chosen>>
      BY <2>4 DEF syncRead, FolderTypeOK
    <3>2. readFilesConfig' = readFilesConfig /\ Wanted' = Wanted
      BY <3>1 DEF readFilesConfig, Wanted
    <3>3. CASE call' = [call EXCEPT ![c] = NoCall] /\ ~call[c].choice
      <4>1. call'[c] = NoCall
        BY <3>3 DEF FolderTypeOK
      <4> QED BY <2>0, <3>1, <3>2, <3>3, <4>1 DEF CopiesAgree, HalfDone, NoCall
    <3>4. CASE call' = [call EXCEPT ![c] = [@ EXCEPT !.at = "save", !.dir = readFilesConfig]]
      <4>1. call'[c].at = "save" /\ call'[c].dir = readFilesConfig
            /\ call'[c].choice = call[c].choice
        BY <3>4 DEF FolderTypeOK
      <4>2. \A e \in Calls : HalfDone(e) => HalfDone(e)'
        BY <2>0, <4>1 DEF HalfDone
      <4> QED BY <2>0, <3>1, <3>2, <4>1, <4>2 DEF CopiesAgree
    <3> QED BY <2>4, <3>3, <3>4 DEF syncRead
  <2>5. CASE syncSave(c)
    <3> SUFFICES ASSUME ~mixed' PROVE CopiesAgree'
      BY DEF CopiesAgree
    <3>1. ~mixed /\ call[c].dir = Wanted /\ Wanted' = Wanted
      BY <2>5 DEF syncSave, CopiesAgree, Wanted
    <3>2. settings'.profile = Wanted /\ readFilesConfig' = readFilesConfig
      BY <2>5, <3>1 DEF syncSave, readFilesConfig, FolderTypeOK
    <3>3. call'[c] = NoCall
      BY <2>5 DEF syncSave, FolderTypeOK
    <3> QED BY <2>0, <3>1, <3>2, <3>3 DEF CopiesAgree, NoCall
  <2>6. CASE callFails(c)
    <3>1. call'[c] = NoCall
      BY <2>6 DEF callFails, FolderTypeOK
    <3>2. CASE mixed' = (mixed \/ HalfDone(c)) /\ UNCHANGED <<settings, chosen>>
      <4> SUFFICES ASSUME ~mixed' PROVE CopiesAgree'
        BY DEF CopiesAgree
      <4>1. ~mixed /\ ~HalfDone(c)
        BY <3>2
      <4>2. \A e \in Calls : HalfDone(e) => HalfDone(e)'
        BY <2>0, <4>1 DEF HalfDone
      <4> QED
        BY <2>0, <3>1, <3>2, <4>1, <4>2 DEF CopiesAgree, NoCall, readFilesConfig, Wanted
    <3>3. CASE /\ settings' = EmptySettings /\ chosen' = NoDir
               /\ mixed' = (\E e \in Calls \ {c} : call[e].at = "save")
      <4> SUFFICES ASSUME ~mixed' PROVE CopiesAgree'
        BY DEF CopiesAgree
      <4>1. \A e \in Calls : call'[e].at # "save"
        BY <2>0, <3>1, <3>3 DEF NoCall
      <4> QED BY <3>3, <4>1 DEF CopiesAgree, EmptySettings, readFilesConfig, Wanted
    <3> QED BY <2>6, <3>2, <3>3 DEF callFails
  <2> QED BY <1>1, <2>1, <2>2, <2>3, <2>4, <2>5, <2>6 DEF FolderStep
<1>2. CASE stopApplication
  <2>1. \A e \in Calls : call'[e] = NoCall
    BY <1>2 DEF stopApplication
  <2>2. CASE mixed' = (mixed \/ \E c \in Calls : HalfDone(c)) /\ UNCHANGED <<settings, chosen>>
    <3>1. ~mixed' => ~mixed /\ settings.profile \in {None, NoDir, Wanted}
      BY <2>2 DEF CopiesAgree
    <3>2. \A e \in Calls : call'[e].at # "save"
      BY <2>1 DEF NoCall
    <3> QED BY <2>2, <3>1, <3>2 DEF CopiesAgree, readFilesConfig, Wanted
  <2>3. CASE settings' = EmptySettings /\ chosen' = NoDir
    BY <2>1, <2>3 DEF CopiesAgree, NoCall, EmptySettings, readFilesConfig, Wanted
  <2> QED BY <1>2, <2>2, <2>3 DEF stopApplication
<1>3. CASE migrateLegacySettingsIfNeeded \/ ensureProfilesOnStartup \/ applyActiveProfileOnStartup
  <2> SUFFICES ASSUME ~mixed PROVE CopiesAgree'
    BY <1>3 DEF CopiesAgree, migrateLegacySettingsIfNeeded, ensureProfilesOnStartup,
                applyActiveProfileOnStartup
  <2>1. UNCHANGED <<call, chosen, mixed>> /\ boot.at # "ready"
    BY <1>3 DEF migrateLegacySettingsIfNeeded, ensureProfilesOnStartup,
                applyActiveProfileOnStartup, At
  <2>2. \A c \in Calls : call[c].at = "none"
    BY <2>1 DEF HandlersReady, NoCall, At
  <2>3. readFilesConfig = Wanted /\ settings.profile \in {None, NoDir, Wanted}
    BY <2>2 DEF CopiesAgree, HalfDone
  <2>4. Wanted' = Wanted /\ Wanted \in Folders
    BY <2>1 DEF Wanted, FolderTypeOK, Folders
  <2>5. readFilesConfig' = Wanted /\ settings'.profile \in {None, NoDir, Wanted}
    <3>1. CASE migrateLegacySettingsIfNeeded
      BY <2>3, <3>1 DEF migrateLegacySettingsIfNeeded, readFilesConfig, FolderTypeOK
    <3>2. CASE ensureProfilesOnStartup
      BY <2>3, <3>2 DEF ensureProfilesOnStartup, readFilesConfig, FolderTypeOK
    <3>3. CASE applyActiveProfileOnStartup
      <4>1. settings.profile # None
        BY <3>3 DEF ProfileThere, applyActiveProfileOnStartup, At
      <4> QED BY <2>3, <3>3, <4>1 DEF applyActiveProfileOnStartup, readFilesConfig, FolderTypeOK
    <3> QED BY <1>3, <3>1, <3>2, <3>3
  <2> QED BY <2>1, <2>2, <2>4, <2>5 DEF CopiesAgree
<1>4. CASE \/ whenReady \/ registerHandlers
           \/ MigrationStep /\ UNCHANGED <<srvVars, folderVars>>
           \/ At("ready") /\ ServerStep /\ UNCHANGED <<migVars, folderVars>>
           \/ UNCHANGED vars
  BY <1>0, <1>4 DEF whenReady, registerHandlers, vars
<1> QED BY <1>1, <1>2, <1>3, <1>4 DEF Next, Boot

LEMMA FolderNextInv == FolderInv /\ [Next]_vars => FolderInv'
BY FolderTypeNext, HandlersNext, ProfileNext, BootNext, CopiesNext DEF FolderInv

\* While the application runs the media folder is the one that the operator chose
\* last, or else the one of files.config.json, whatever the starts and the stops:
\* neither migrateLegacySettingsIfNeeded nor applyActiveProfileOnStartup undoes a
\* choice that was written to both places and that no older save has crossed.
THEOREM FolderTheorem == Spec => []LibraryDirKept
<1>1. Init => FolderInv
  <2> SUFFICES ASSUME Init PROVE FolderInv
    OBVIOUS
  <2>1. \A c \in Calls : call[c] = NoCall
    BY DEF Init
  <2>2. FolderTypeOK
    BY DirsAssumption DEF Init, FolderTypeOK, Folders, EmptySettings, NoCall
  <2>3. CopiesAgree /\ HandlersReady
    BY <2>1 DEF Init, CopiesAgree, HandlersReady, EmptySettings, NoCall, readFilesConfig, Wanted
  <2>4. ProfileThere
    BY DEF Init, MigInit, NotBooted, At, ProfileThere
  <2>5. BootShape
    BY DEF Init, MigInit, NotBooted, BootShape
  <2> QED BY <2>2, <2>3, <2>4, <2>5 DEF FolderInv
<1>2. FolderInv => LibraryDirKept
  BY DEF FolderInv, CopiesAgree, LibraryDirKept, Wanted
<1> QED BY <1>1, <1>2, FolderNextInv, PTL DEF Spec

-----------------------------------------------------------------------------
(* The migrations *)

\* The first f migrations are finished, and no other.
LogHas(f) == \A m \in Names : log[m] = "finished" <=> m <= f

\* The schema of the open transaction is one that the migration goes through.
RunHas(m, step) ==
    \E schema \in {Applied[m - 1], Applied[m]} : work.schema = SchemaRun(m, schema)[step - 1]

(***************************************************************************)
(* What each point of a start knows, when the first f migrations are       *)
(* finished: the scan has found f or fewer of them, so that the migration  *)
(* at hand is the next one, and the transaction has run step - 1 of its    *)
(* statements over a schema that may already be the one it makes.          *)
(***************************************************************************)
PointOK(f) ==
    /\ boot.at = "skip" => /\ boot.m \in 1..f
                           /\ boot.applied = 1..f
    /\ boot.at \in {"clear", "insert", "run", "finish", "mark"} =>
         /\ boot.m = f + 1 /\ f < Len(Migrations)
         /\ boot.applied \subseteq 1..f
    /\ boot.at = "run" => /\ boot.step \in 1..(Len(Migrations[boot.m]) + 1)
                          /\ RunHas(boot.m, boot.step)
    /\ boot.at = "finish" => db.schema = Applied[f + 1]

SchemaIs(f) == db.schema = Applied[f] \/ (f < Len(Migrations) /\ db.schema = Applied[f + 1])

MigrationTypeOK ==
    /\ boot = [at |-> boot.at, m |-> boot.m, step |-> boot.step, applied |-> boot.applied]
    /\ log \in [Names -> {"none", "started", "finished", "rolled_back"}]

MigrationInv ==
    /\ MigrationTypeOK
    /\ \E f \in 0..Len(Migrations) : LogHas(f) /\ SchemaIs(f) /\ PointOK(f)

LEMMA Lengths ==
    /\ Len(Migrations) \in Nat \ {0} /\ Names = 1..Len(Migrations)
    /\ \A m \in Names : Len(Migrations[m]) \in Nat
<1>1. Migrations \in Seq(Seq([op : STRING, table : STRING, name : STRING])) /\ Migrations # << >>
  BY MigrationAssumption
<1> QED BY <1>1 DEF Names

\* What RerunAssumption says of one migration.
LEMMA Rerun ==
    ASSUME NEW m \in Names, NEW schema \in {Applied[m - 1], Applied[m]}
    PROVE  /\ SchemaRun(m, schema)[0] = schema
           /\ \A n \in 1..Len(Migrations[m]) :
                SchemaRun(m, schema)[n] = SchemaEffect(SchemaRun(m, schema)[n - 1], Migrations[m][n])
           /\ SchemaRun(m, schema)[Len(Migrations[m])] = Applied[m]
BY RerunAssumption

LEMMA MigrationInitInv == Init => MigrationInv
<1> SUFFICES ASSUME Init PROVE MigrationInv
  OBVIOUS
<1>1. MigrationTypeOK
  BY DEF Init, MigInit, MigrationTypeOK, NotBooted, Names
<1>2. CASE db = EmptyDb /\ log = [m \in Names |-> "none"]
  <2>1. LogHas(0) /\ SchemaIs(0) /\ PointOK(0)
    BY <1>2, RerunAssumption, Lengths
    DEF Init, MigInit, LogHas, SchemaIs, PointOK, EmptyDb, NotBooted, Names
  <2> QED BY <1>1, <2>1, Lengths DEF MigrationInv
<1>3. ASSUME NEW k \in Names, db.schema = Applied[k],
             log = [m \in Names |-> IF m <= k THEN "finished" ELSE "none"]
      PROVE  MigrationInv
  <2>1. LogHas(k) /\ SchemaIs(k) /\ PointOK(k)
    BY <1>3 DEF Init, MigInit, LogHas, SchemaIs, PointOK, NotBooted, Names
  <2> QED BY <1>1, <2>1, Lengths DEF MigrationInv
<1>4. CASE \E k \in Names, items \in OldOrders, dangling \in BOOLEAN :
            /\ db = [schema |-> Applied[k], items |-> items, copy |-> NoRows,
                     dangling |-> dangling]
            /\ log = [m \in Names |-> IF m <= k THEN "finished" ELSE "none"]
  <2>1. PICK k \in Names, items \in OldOrders, dangling \in BOOLEAN :
            /\ db = [schema |-> Applied[k], items |-> items, copy |-> NoRows,
                     dangling |-> dangling]
            /\ log = [m \in Names |-> IF m <= k THEN "finished" ELSE "none"]
    BY <1>4
  <2>2. db.schema = Applied[k]
    BY <2>1
  <2> QED BY <1>3, <2>1, <2>2
<1> QED BY <1>2, <1>4 DEF Init, MigInit

\* The point that follows migration f, finished or found applied.
LEMMA AdvanceOK ==
    ASSUME MigrationTypeOK, NEW f \in Nat, f <= Len(Migrations),
           NEW m, m \in 1..f, boot.applied \subseteq 1..f,
           boot.applied = 1..f \/ m = f, Advance(m + 1), UNCHANGED db
    PROVE  /\ PointOK(f)'
           /\ boot' = [at |-> boot'.at, m |-> boot'.m, step |-> boot'.step, applied |-> boot'.applied]
<1>1. CASE m + 1 > Len(Migrations)
  <2>1. boot' = [at |-> "register", m |-> 0, step |-> 0, applied |-> {}]
    BY <1>1 DEF Advance, NotBooted
  <2> QED BY <2>1 DEF PointOK
<1>2. CASE ~(m + 1 > Len(Migrations))
  <2>1. boot' = [at |-> IF m + 1 \in boot.applied THEN "skip" ELSE "clear", m |-> m + 1,
                 step |-> 0, applied |-> boot.applied]
    BY <1>2 DEF Advance, MigrationTypeOK
  <2>2. CASE m + 1 \in boot.applied
    <3>1. boot.applied = 1..f /\ m + 1 \in 1..f /\ boot'.at = "skip"
      BY <2>1, <2>2
    <3> QED BY <2>1, <3>1 DEF PointOK
  <2>3. CASE m + 1 \notin boot.applied
    <3>1. m = f /\ f < Len(Migrations) /\ boot'.at = "clear"
      BY <1>2, <2>1, <2>3, Lengths
    <3> QED BY <2>1, <3>1 DEF PointOK
  <2> QED BY <2>1, <2>2, <2>3
<1> QED BY <1>1, <1>2

\* The transaction of migration f + 1.
LEMMA RunOK ==
    ASSUME MigrationTypeOK, NEW f \in Nat, LogHas(f), SchemaIs(f), PointOK(f),
           runStatement \/ commit
    PROVE  MigrationInv'
<1>1. /\ boot.m = f + 1 /\ f < Len(Migrations) /\ boot.applied \subseteq 1..f /\ boot.at = "run"
      /\ boot.step \in 1..(Len(Migrations[boot.m]) + 1) /\ RunHas(boot.m, boot.step)
  BY DEF PointOK, runStatement, commit, At
<1>2. boot.m \in Names /\ Len(Migrations[boot.m]) \in Nat /\ f \in 0..Len(Migrations)
  BY <1>1, Lengths
<1> DEFINE m == boot.m
<1>3. PICK schema \in {Applied[m - 1], Applied[m]} : work.schema = SchemaRun(m, schema)[boot.step - 1]
  BY <1>1 DEF RunHas
<1>4. CASE runStatement
  <2> DEFINE n == boot.step
  <2>1. n \in 1..Len(Migrations[m]) /\ Statement = Migrations[m][n]
    BY <1>1, <1>2, <1>4 DEF runStatement, Statement
  <2>2. SchemaRun(m, schema)[n] = SchemaEffect(work.schema, Statement)
    BY <1>2, <1>3, <2>1, Rerun
  <2>3. PICK err \in Answers : /\ err = "ok" \/ err = "exists"
                               /\ work' = IF err = "ok" THEN Effect(work, Statement) ELSE work
    BY <1>4 DEF runStatement, isBenignMigrationError
  <2>4. work'.schema = SchemaEffect(work.schema, Statement)
    <3>1. CASE err = "ok"
      BY <2>3, <3>1 DEF Effect
    <3>2. CASE err = "exists"
      <4>1. Exists(work, Statement)
        BY <2>1, <2>3, <3>2, <1>2 DEF Answers
      <4> QED BY <2>3, <3>2, <4>1 DEF Exists, SchemaEffect
    <3> QED BY <2>3, <3>1, <3>2
  <2>5. boot' = [boot EXCEPT !.step = n + 1] /\ UNCHANGED <<db, log>>
    BY <1>4 DEF runStatement
  <2>6. /\ boot'.at = "run" /\ boot'.m = m /\ boot'.step = n + 1 /\ boot'.applied = boot.applied
        /\ boot' = [at |-> boot'.at, m |-> boot'.m, step |-> boot'.step, applied |-> boot'.applied]
    BY <1>1, <2>5 DEF MigrationTypeOK
  <2>7. RunHas(boot.m, boot.step)'
    <3>1. work'.schema = SchemaRun(m, schema)[boot'.step - 1]
      BY <2>1, <2>2, <2>4, <2>6
    <3> QED BY <2>6, <3>1 DEF RunHas
  <2>8. PointOK(f)'
    BY <1>1, <2>1, <2>6, <2>7 DEF PointOK
  <2>9. MigrationTypeOK' /\ LogHas(f)' /\ SchemaIs(f)'
    BY <2>5, <2>6 DEF MigrationTypeOK, LogHas, SchemaIs
  <2> QED BY <1>2, <2>8, <2>9 DEF MigrationInv
<1>5. CASE commit
  <2>1. boot.step - 1 = Len(Migrations[m])
    BY <1>1, <1>2, <1>5 DEF commit
  <2>2. work.schema = Applied[m]
    BY <1>2, <1>3, <2>1, Rerun
  <2>3. db' = work /\ UNCHANGED log /\ boot' = [boot EXCEPT !.at = "finish"]
    BY <1>5 DEF commit, Go
  <2>4. /\ boot'.at = "finish" /\ boot'.m = m /\ boot'.applied = boot.applied
        /\ boot' = [at |-> boot'.at, m |-> boot'.m, step |-> boot'.step, applied |-> boot'.applied]
    BY <2>3 DEF MigrationTypeOK
  <2>5. SchemaIs(f)' /\ PointOK(f)'
    BY <1>1, <2>2, <2>3, <2>4 DEF SchemaIs, PointOK
  <2>6. MigrationTypeOK' /\ LogHas(f)'
    BY <2>3, <2>4 DEF MigrationTypeOK, LogHas
  <2> QED BY <1>2, <2>5, <2>6 DEF MigrationInv
<1> QED BY <1>4, <1>5

LEMMA MigrationStepInv == ASSUME MigrationInv, MigrationStep PROVE MigrationInv'
<1>1. PICK f \in 0..Len(Migrations) : LogHas(f) /\ SchemaIs(f) /\ PointOK(f)
  BY DEF MigrationInv
<1>2. MigrationTypeOK /\ f \in Nat /\ f <= Len(Migrations)
  BY <1>1, Lengths DEF MigrationInv
<1> DEFINE Shape == boot' = [at |-> boot'.at, m |-> boot'.m, step |-> boot'.step,
                             applied |-> boot'.applied]
\* A step that leaves the file and which migrations are finished.
<1>3. ASSUME UNCHANGED db, Shape, PointOK(f)',
             log' \in [Names -> {"none", "started", "finished", "rolled_back"}],
             \A m \in Names : log'[m] = "finished" <=> log[m] = "finished"
      PROVE  MigrationInv'
  BY <1>1, <1>3 DEF MigrationInv, MigrationTypeOK, LogHas, SchemaIs
<1>4. CASE backupRuntimeDatabaseSnapshot
  BY <1>1, <1>2, <1>3, <1>4
  DEF backupRuntimeDatabaseSnapshot, Go, PointOK, MigrationTypeOK
<1>5. CASE getAppliedMigrationNames
  <2>1. {m \in Names : log[m] = "finished"} = 1..f
    BY <1>1, Lengths DEF LogHas
  <2>2. boot' = [at |-> IF 1 \in 1..f THEN "skip" ELSE "clear", m |-> 1, step |-> 0,
                 applied |-> 1..f]
    BY <1>5, <2>1 DEF getAppliedMigrationNames
  <2>3. PointOK(f)'
    BY <1>2, <2>2, Lengths DEF PointOK
  <2> QED BY <1>2, <1>3, <1>5, <2>2, <2>3 DEF getAppliedMigrationNames, MigrationTypeOK
<1>6. CASE skipMigration
  <2>1. boot.m \in 1..f /\ boot.applied = 1..f
    BY <1>1, <1>6 DEF skipMigration, At, PointOK
  <2>2. PointOK(f)' /\ Shape
    BY <1>2, <1>6, <2>1, AdvanceOK DEF skipMigration
  <2> QED BY <1>2, <1>3, <1>6, <2>2 DEF skipMigration, MigrationTypeOK
<1>7. CASE clearUnfinished \/ insertStarted \/ rollback \/ markFinishedFails \/ markRolledBack
  <2>1. boot.m = f + 1 /\ f < Len(Migrations) /\ boot.applied \subseteq 1..f
    BY <1>1, <1>7 DEF clearUnfinished, insertStarted, rollback, markFinishedFails,
                      markRolledBack, At, PointOK
  <2>2. boot.m \in Names /\ log[boot.m] # "finished"
    BY <1>1, <1>2, <2>1, Lengths DEF LogHas
  <2>3. /\ log' \in [Names -> {"none", "started", "finished", "rolled_back"}]
        /\ \A m \in Names : log'[m] = "finished" <=> log[m] = "finished"
        /\ UNCHANGED db
    BY <1>2, <1>7, <2>2 DEF clearUnfinished, insertStarted, rollback, markFinishedFails,
                            markRolledBack, MigrationTypeOK
  <2>4. CASE insertStarted
    <3>1. boot' = [boot EXCEPT !.at = "run", !.step = 1] /\ work' = db
      BY <2>4 DEF insertStarted
    <3>2. Shape /\ boot'.at = "run" /\ boot'.m = f + 1 /\ boot'.step = 1
          /\ boot'.applied = boot.applied
      BY <1>2, <2>1, <3>1 DEF MigrationTypeOK
    <3>3. db.schema \in {Applied[boot.m - 1], Applied[boot.m]}
      BY <1>1, <1>2, <2>1 DEF SchemaIs
    <3>4. SchemaRun(boot.m, db.schema)[0] = db.schema
      BY <2>2, <3>3, Rerun
    <3>5. RunHas(boot.m, boot.step)'
      BY <2>1, <3>1, <3>2, <3>3, <3>4 DEF RunHas
    <3>6. PointOK(f)'
      BY <2>1, <2>2, <3>2, <3>5, Lengths DEF PointOK
    <3> QED BY <1>3, <2>3, <3>2, <3>6
  <2>5. CASE markRolledBack
    <3>1. Shape /\ boot'.at = "off"
      BY <2>5 DEF markRolledBack, NotBooted
    <3> QED BY <1>3, <2>3, <3>1 DEF PointOK
  <2>6. CASE clearUnfinished \/ rollback \/ markFinishedFails
    <3>1. Shape /\ boot'.at \in {"insert", "mark"} /\ boot'.m = f + 1 /\ boot'.applied = boot.applied
      BY <1>2, <2>1, <2>6 DEF clearUnfinished, rollback, markFinishedFails, Go, MigrationTypeOK
    <3> QED BY <1>3, <2>1, <2>3, <3>1 DEF PointOK
  <2> QED BY <1>7, <2>4, <2>5, <2>6
<1>8. CASE runStatement \/ commit
  BY <1>1, <1>2, <1>8, RunOK
<1>9. CASE markFinished
  <2>1. /\ boot.m = f + 1 /\ f < Len(Migrations) /\ boot.applied \subseteq 1..f
        /\ db.schema = Applied[f + 1]
    BY <1>1, <1>9 DEF markFinished, At, PointOK
  <2>2. /\ log' = [log EXCEPT ![f + 1] = "finished"] /\ UNCHANGED db
        /\ Advance(f + 2)
    BY <1>9, <2>1, <1>2 DEF markFinished
  <2>3. f + 1 \in 0..Len(Migrations) /\ f + 1 \in 1..(f + 1) /\ boot.applied \subseteq 1..(f + 1)
    BY <1>2, <2>1, Lengths
  <2>4. PointOK(f + 1)' /\ Shape
    BY <1>2, <2>1, <2>2, <2>3, AdvanceOK
  <2>5. LogHas(f + 1)' /\ SchemaIs(f + 1)' /\ MigrationTypeOK'
    BY <1>1, <1>2, <2>1, <2>2, <2>4, Lengths DEF LogHas, SchemaIs, MigrationTypeOK
  <2> QED BY <2>3, <2>4, <2>5 DEF MigrationInv
<1> QED BY <1>4, <1>5, <1>6, <1>7, <1>8, <1>9 DEF MigrationStep

LEMMA MigrationNextInv == MigrationInv /\ [Next]_vars => MigrationInv'
<1> SUFFICES ASSUME MigrationInv, [Next]_vars PROVE MigrationInv'
  OBVIOUS
<1>1. CASE MigrationStep
  BY <1>1, MigrationStepInv
<1>2. CASE UNCHANGED migVars
  BY <1>2 DEF MigrationInv, MigrationTypeOK, LogHas, SchemaIs, PointOK, RunHas, migVars
<1>3. CASE \/ whenReady \/ migrateLegacySettingsIfNeeded \/ ensureProfilesOnStartup
           \/ applyActiveProfileOnStartup \/ registerHandlers \/ stopApplication
  <2>1. UNCHANGED <<db, log>> /\ boot'.at \in {"legacy", "profiles", "apply", "backup", "ready", "off"}
        /\ boot' = [at |-> boot'.at, m |-> boot'.m, step |-> boot'.step, applied |-> boot'.applied]
    BY <1>3 DEF whenReady, migrateLegacySettingsIfNeeded, ensureProfilesOnStartup,
                applyActiveProfileOnStartup, registerHandlers, stopApplication, Go,
                NotBooted, MigrationInv, MigrationTypeOK
  <2>2. \A f \in 0..Len(Migrations) : PointOK(f)'
    BY <2>1 DEF PointOK
  <2> QED BY <2>1, <2>2 DEF MigrationInv, MigrationTypeOK, LogHas, SchemaIs
<1>4. ASSUME NEW c \in Calls, FolderStep(c) PROVE MigrationInv'
  <2>1. UNCHANGED <<db, log, boot, work>>
    BY <1>4 DEF FolderStep, chooseLibraryDir, writeFilesConfig, changeLook, syncRead, syncSave,
                callFails, migVars
  <2> QED BY <2>1 DEF MigrationInv, MigrationTypeOK, LogHas, SchemaIs, PointOK, RunHas
<1> QED BY <1>1, <1>2, <1>3, <1>4 DEF Next, Boot, vars

\* The database file always has the schema of a whole number of migrations, the
\* finished ones of the log or one more, wherever the application was stopped and
\* whatever statement failed (applySingleMigration commits before it writes
\* finished_at), for every list of migrations that RerunAssumption holds of.
THEOREM SchemaTheorem == Spec => []SchemaFollowsLog
<1>1. MigrationInv => SchemaFollowsLog
  <2> SUFFICES ASSUME MigrationInv PROVE SchemaFollowsLog
    OBVIOUS
  <2>1. PICK f \in 0..Len(Migrations) : LogHas(f) /\ SchemaIs(f)
    BY DEF MigrationInv
  <2>2. {m \in Names : log[m] = "finished"} = 1..f
    BY <2>1, Lengths DEF LogHas
  <2>3. f \in Nat
    BY Lengths
  <2>4. Cardinality(1..f) = f
    <3>1. CASE f = 0
      <4>1. 1..f = {}
        BY <3>1
      <4> QED BY <3>1, <4>1, FS_EmptySet
    <3>2. CASE f # 0
      <4>1. f > 0 /\ f - 1 + 1 = f /\ f \in Int /\ 1 \in Int
        BY <2>3, <3>2
      <4>2. Cardinality(1..f) = IF 1 > f THEN 0 ELSE f - 1 + 1
        BY ONLY <4>1, FS_Interval
      <4> QED BY <4>1, <4>2
    <3> QED BY <3>1, <3>2
  <2>5. Finished = f
    <3>1. Finished = Cardinality(1..f)
      BY ONLY <2>2 DEF Finished
    <3> QED BY <3>1, <2>4
  <2>6. {m \in Names : log[m] = "finished"} = 1..Finished
    BY <2>2, <2>5
  <2>7. \/ db.schema = Applied[Finished]
        \/ Finished < Len(Migrations) /\ db.schema = Applied[Finished + 1]
    BY <2>1, <2>5 DEF SchemaIs
  <2> QED BY <2>6, <2>7 DEF SchemaFollowsLog
<1> QED BY <1>1, MigrationInitInv, MigrationNextInv, PTL DEF Spec
=============================================================================
