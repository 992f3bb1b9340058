---------------------------- MODULE ProfileStore ----------------------------
(***************************************************************************)
(* The profiles of settings.json (main/settings.ts) and the settings:*     *)
(* handlers that change them (main/main.ts).                               *)
(*                                                                         *)
(* A handler reads the whole list of profiles, changes its copy and hands  *)
(* it to a queue that runs one read-patch-write cycle at a time.  The      *)
(* handler's read is outside the queue: its copy may be old when it is     *)
(* written, or the file may be half written when it is read.  Handlers     *)
(* that call ensureProfilesOnStartup while it is running get the same list *)
(* object, so that they see each other's changes to it.                    *)
(*                                                                         *)
(* A profile is its identifier: names, looks and mirror modes (see         *)
(* ProfileRuntime) are not told apart.                                     *)
(***************************************************************************)
EXTENDS Integers, FiniteSets, Sequences, SequencesExt

CONSTANTS
    Calls,          \* handlers that may run at the same time
    Ids,            \* identifiers of profiles, those that randomUUID gives too
    None,           \* no profile, no call
    Torn,           \* a settings.json that is being written, or was left half written
    Ops,            \* the operations that are requested
    Faults          \* whether writes may fail and the application may stop

ASSUME OpsAssumption ==
    /\ Ops \subseteq {"create", "activate", "rename", "save", "delete", "sync", "other"}
    /\ Faults \in BOOLEAN

\* What settings.json, a list object and a patch hold.
Profiles == [active : Ids \cup {None}, entries : Seq(Ids)]

ASSUME NothingAssumption ==
    /\ None \notin Ids \cup Calls
    /\ None \notin Profiles /\ Torn \notin Profiles

VARIABLES
    file,           \* the profiles of settings.json, Torn while it is written
    queue,          \* settingsWriteQueue: the patches that wait, first the running one
    writing,        \* what the running patch will have written, None if it has not begun
    ensuring,       \* ensureProfilesInFlight: the call that started it
    obj,            \* obj[c]: the list object that the call c got or shares with others
    call,           \* what each call does and how far it is
    used            \* the identifiers that profiles of the file have had

vars == <<file, queue, writing, ensuring, obj, call, used>>

NoProfiles == [active |-> None, entries |-> <<>>]

Idle == [op |-> "idle", id |-> None, at |-> "idle", owner |-> None, idx |-> 0]

Entries(state) == ToSet(state.entries)

\* Distinct profiles, and an active one among them.
WellFormed(state) ==
    /\ IsInjective(state.entries)
    /\ state.active \in Entries(state)

\* The application has started: ensureProfilesOnStartup has made a profile if
\* there was none.
Init ==
    /\ \E n \in 1..2 : \E s \in [1..n -> Ids], a \in Ids :
          /\ file = [active |-> a, entries |-> s]
          /\ WellFormed(file)
    /\ queue = <<>>
    /\ writing = None
    /\ ensuring = None
    /\ obj = [c \in Calls |-> NoProfiles]
    /\ call = [c \in Calls |-> Idle]
    /\ used = Entries(file)

\* The places where an element of s appears first, and s without repetitions.
Firsts(s) == {i \in DOMAIN s : \A j \in 1..(i - 1) : s[j] # s[i]}

Distinct(s) ==
    [n \in 1..Cardinality(Firsts(s)) |->
        s[CHOOSE i \in Firsts(s) : Cardinality({j \in Firsts(s) : j <= i}) = n]]

\* Mutant: an active profile that is not in the list is left in place.
normalizeProfilesConfig_KeepsActive(state) ==
    [active |-> state.active, entries |-> Distinct(state.entries)]

\* Repeated profiles are dropped; an active profile that is not in the list is
\* replaced by the first one.
normalizeProfilesConfig(state) ==
    LET entries == Distinct(state.entries)
    IN  [active  |-> IF state.active = None \/ Contains(entries, state.active)
                     THEN state.active
                     ELSE IF entries = <<>> THEN None ELSE Head(entries),
         entries |-> entries]

\* A file that cannot be parsed reads as one without profiles.
readProfilesState == IF file = Torn THEN NoProfiles ELSE file

\* randomUUID: an identifier that is nowhere.
FreshIds ==
    (Ids \ used)
      \ (Entries(readProfilesState)
             \cup UNION {Entries(obj[c]) : c \in Calls}
             \cup {call[c].id : c \in Calls}
             \cup (IF writing = None THEN {} ELSE Entries(writing))
             \cup UNION {Entries(queue[i].state) :
                            i \in {j \in DOMAIN queue : queue[j].kind = "profiles"}})

\* findIndex.
FirstIndex(entries, id) == CHOOSE i \in Firsts(entries) : entries[i] = id

\* The call ends, with or without an error.
Ended(c) == [call EXCEPT ![c] = Idle]

\* A list object that no call holds any more is forgotten.
Collect ==
    obj' = [c \in Calls |-> IF \E d \in Calls : call'[d].owner = c THEN obj[c] ELSE NoProfiles]

\* writeProfilesState: a normalised copy of the list enters the queue.
writeProfilesState(c, state) ==
    queue' = Append(queue, [kind |-> "profiles", call |-> c,
                            state |-> normalizeProfilesConfig(state)])

-----------------------------------------------------------------------------
(* The read of a handler: ensureProfilesOnStartup *)

\* A handler is called.  Its list object is the one of the read in flight, if
\* there is one.
begin(c, op, id) ==
    /\ call[c] = Idle
    /\ \A d \in Calls : call[d].owner # c
    /\ op \in {"create", "activate", "rename", "save", "delete"}
    /\ op = "create" => id \in FreshIds
    /\ op = "save" => id = None
    /\ op \in {"activate", "rename", "delete"} => id \in Ids
    /\ call' = [call EXCEPT ![c] = [op |-> op, id |-> id, at |-> "ensure", idx |-> 0,
                                    owner |-> IF ensuring = None THEN c ELSE ensuring]]
    /\ ensuring' = IF ensuring = None THEN c ELSE ensuring
    /\ UNCHANGED <<file, queue, writing, obj, used>>

\* The promise of ensureProfilesOnStartup is fulfilled: all who wait for it go on.
Resolve(o, state) ==
    /\ obj' = [obj EXCEPT ![o] = state]
    /\ ensuring' = None
    /\ call' = [c \in Calls |-> IF call[c].at # "idle" /\ call[c].owner = o
                                THEN [call[c] EXCEPT !.at = "ready"] ELSE call[c]]

\* The first read; a list without profiles is read again after the await of
\* buildProfileFromRuntime.
ensureRead(c) ==
    /\ ensuring = c /\ call[c].at = "ensure"
    /\ IF readProfilesState.entries # <<>>
         THEN Resolve(c, readProfilesState)
         ELSE /\ call' = [call EXCEPT ![c].at = "ensure2"]
              /\ UNCHANGED <<obj, ensuring>>
    /\ UNCHANGED <<file, queue, writing, used>>

ensureReread(c) ==
    /\ ensuring = c /\ call[c].at = "ensure2"
    /\ IF readProfilesState.entries # <<>>
         THEN Resolve(c, readProfilesState) /\ UNCHANGED queue
         ELSE \E id \in FreshIds :
                LET next == [active |-> id, entries |-> <<id>>]
                IN  /\ obj' = [obj EXCEPT ![c] = next]
                    /\ call' = [call EXCEPT ![c].at = "ensureWrite"]
                    /\ writeProfilesState(c, next)
                    /\ UNCHANGED ensuring
    /\ UNCHANGED <<file, writing, used>>

-----------------------------------------------------------------------------
(* The handlers, once they have their list *)

Ready(c, op) == call[c].at = "ready" /\ call[c].op = op

State(c) == obj[call[c].owner]

\* The handler changes its list object and waits for the write of a copy.
Submit(c, state) ==
    /\ obj' = [obj EXCEPT ![call[c].owner] = state]
    /\ call' = [call EXCEPT ![c].at = "queued"]
    /\ writeProfilesState(c, state)
    /\ UNCHANGED <<file, writing, ensuring, used>>

Refuse(c) ==
    /\ call' = Ended(c)
    /\ Collect
    /\ UNCHANGED <<file, queue, writing, ensuring, used>>

\* settings:createProfile: the snapshot of the runtime is awaited, then the new
\* profile is added and made the active one.
createProfile(c) ==
    /\ Ready(c, "create")
    /\ Submit(c, [active |-> call[c].id, entries |-> Append(State(c).entries, call[c].id)])

\* settings:activateProfile.
activateProfile(c) ==
    /\ Ready(c, "activate")
    /\ IF call[c].id \in Entries(State(c))
         THEN Submit(c, [State(c) EXCEPT !.active = call[c].id])
         ELSE Refuse(c)

\* settings:renameProfile.
renameProfile(c) ==
    /\ Ready(c, "rename")
    /\ IF call[c].id \in Entries(State(c)) THEN Submit(c, State(c)) ELSE Refuse(c)

\* settings:saveActiveProfile: the place of the active profile is looked up, then
\* the snapshot of the runtime is awaited.
saveActiveProfile(c) ==
    /\ Ready(c, "save")
    /\ IF State(c).active \in Entries(State(c))
         THEN /\ call' = [call EXCEPT
                            ![c].at = "snapshot",
                            ![c].id = State(c).active,
                            ![c].idx = FirstIndex(State(c).entries, State(c).active)]
              /\ UNCHANGED <<file, queue, writing, ensuring, obj, used>>
         ELSE Refuse(c)

\* ... and the profile is put at that place, whatever the list has become (past
\* its end it leaves holes, which the copy skips).
saveActiveWrite(c) ==
    /\ call[c].at = "snapshot" /\ call[c].op = "save"
    /\ LET entries == State(c).entries
       IN  Submit(c, [State(c) EXCEPT !.entries =
                        IF call[c].idx <= Len(entries)
                        THEN [entries EXCEPT ![call[c].idx] = call[c].id]
                        ELSE Append(entries, call[c].id)])

\* settings:deleteProfile: never the last one; the first one that is left becomes
\* active if the active one goes.
deleteProfile(c) ==
    /\ Ready(c, "delete")
    /\ LET state == State(c)
           rest == RemoveAt(state.entries, FirstIndex(state.entries, call[c].id))
       IN  IF Len(state.entries) > 1 /\ call[c].id \in Entries(state)
             THEN Submit(c, [active  |-> IF state.active \in {None, call[c].id}
                                         THEN Head(rest) ELSE state.active,
                             entries |-> rest])
             ELSE Refuse(c)

-----------------------------------------------------------------------------
(* syncActiveProfileFromRuntime, after a change of appearance or of mirror mode *)

beginSync(c) ==
    /\ call[c] = Idle
    /\ \A d \in Calls : call[d].owner # c
    /\ IF readProfilesState.active = None
         THEN UNCHANGED call
         ELSE call' = [call EXCEPT ![c] = [Idle EXCEPT !.op = "sync", !.at = "snapshot",
                                                       !.id = readProfilesState.active]]
    /\ UNCHANGED <<file, queue, writing, ensuring, obj, used>>

\* The list is read again, and the profile replaced in it or added to it.
syncWrite(c) ==
    /\ call[c].at = "snapshot" /\ call[c].op = "sync"
    /\ LET latest == readProfilesState
           id == call[c].id
       IN  writeProfilesState(c,
             [active  |-> IF latest.active = None THEN id ELSE latest.active,
              entries |-> IF id \in Entries(latest) THEN latest.entries
                          ELSE Append(latest.entries, id)])
    /\ call' = [call EXCEPT ![c].at = "queued"]
    /\ UNCHANGED <<file, writing, ensuring, obj, used>>

-----------------------------------------------------------------------------
(* The other settings, and the queue *)

\* A write of the theme, the shortcuts, the templates, the folder or the
\* projection: the profiles are the ones that the patch reads in the queue.
writeOther(c) ==
    /\ call[c] = Idle
    /\ \A d \in Calls : call[d].owner # c
    /\ call' = [call EXCEPT ![c] = [Idle EXCEPT !.op = "other", !.at = "queued"]]
    /\ queue' = Append(queue, [kind |-> "other", call |-> c])
    /\ UNCHANGED <<file, writing, ensuring, obj, used>>

\* patchSettingsConfig: the file is read and patched, and its rewriting begins.
patchBegin ==
    /\ queue # <<>> /\ writing = None
    /\ writing' = IF Head(queue).kind = "profiles" THEN Head(queue).state
                  ELSE readProfilesState
    /\ file' = Torn
    /\ UNCHANGED <<queue, ensuring, obj, call, used>>

\* The write is complete and its caller goes on.
patchEnd ==
    /\ writing # None
    /\ file' = writing
    /\ writing' = None
    /\ queue' = Tail(queue)
    /\ LET c == Head(queue).call
           id == call[c].id
       IN  IF call[c].at = "ensureWrite"
             THEN /\ Resolve(c, obj[c])
                  /\ UNCHANGED used
             ELSE /\ call' = Ended(c)
                  /\ used' = used \cup ({id} \cap Ids)
                  /\ Collect
                  /\ UNCHANGED ensuring

\* A write fails, before it has touched the file or half way.  The caller ends,
\* with it those who wait for its ensureProfilesOnStartup, and the queue goes on.
patchFails ==
    /\ Faults
    /\ queue # <<>>
    /\ queue' = Tail(queue)
    /\ writing' = None
    /\ LET c == Head(queue).call
       IN  IF call[c].at = "ensureWrite"
             THEN /\ call' = [d \in Calls |-> IF call[d].owner = c THEN Idle ELSE call[d]]
                  /\ ensuring' = None
             ELSE /\ call' = Ended(c)
                  /\ UNCHANGED ensuring
    /\ Collect
    /\ UNCHANGED <<file, used>>

\* The application stops, in the middle of a write perhaps, and starts again.
crash ==
    /\ Faults
    /\ queue' = <<>>
    /\ writing' = None
    /\ ensuring' = None
    /\ obj' = [c \in Calls |-> NoProfiles]
    /\ call' = [c \in Calls |-> Idle]
    /\ UNCHANGED <<file, used>>

-----------------------------------------------------------------------------
Request(c) ==
    \/ \E op \in Ops, id \in Ids \cup {None} : begin(c, op, id)
    \/ "sync" \in Ops /\ beginSync(c)
    \/ "other" \in Ops /\ writeOther(c)

Handler(c) ==
    \/ ensureRead(c)
    \/ ensureReread(c)
    \/ createProfile(c)
    \/ activateProfile(c)
    \/ renameProfile(c)
    \/ saveActiveProfile(c)
    \/ saveActiveWrite(c)
    \/ deleteProfile(c)
    \/ syncWrite(c)

Next ==
    \/ \E c \in Calls : Request(c)
    \/ \E c \in Calls : Handler(c)
    \/ patchBegin
    \/ patchEnd
    \/ patchFails
    \/ crash

Spec == Init /\ [][Next]_vars

-----------------------------------------------------------------------------
(* Properties *)

\* Every list of profiles on its way to settings.json has a profile, as
\* settings:deleteProfile promises ("At least one profile is required"), none
\* twice, and an active profile that is one of them; so has the file, unless a
\* fault has emptied it.  Whichever handlers overlap, share their list object,
\* read a half written file or write an old list.
ProfilesUsable ==
    /\ file \in {Torn, NoProfiles} \/ WellFormed(file)
    /\ \A i \in DOMAIN queue : queue[i].kind = "profiles" => WellFormed(queue[i].state)

=============================================================================
