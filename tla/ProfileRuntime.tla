--------------------------- MODULE ProfileRuntime ---------------------------
(***************************************************************************)
(* Settings profiles applied to the running screens: buildProfileFrom-     *)
(* Runtime, applyProfileToRuntime and the start of the application         *)
(* (main/settings.ts), together with everything that ScreenState does.     *)
(*                                                                         *)
(* A profile holds the look and the mirror mode of every screen.  Applying *)
(* one is not atomic: the looks are written first, the disk is awaited,    *)
(* and only then are the mirror modes written and all the screens sent; in *)
(* between the commands of ScreenState run.  Which profile settings.json   *)
(* holds at which moment is ProfileStore's subject: here it may hold any   *)
(* snapshot that was taken of the screens.                                 *)
(***************************************************************************)
EXTENDS ScreenState, FiniteSets

CONSTANTS
    Calls,          \* calls that may apply a profile at the same time
    None,           \* no call in flight
    MaxSaved        \* bound on the snapshots taken

ASSUME MaxSavedAssumption == MaxSaved \in Nat

\* What settings.json holds of a profile, and an application of it in flight.
Profile == [looks : [Screens -> AllLooks], mirrors : [Screens -> Screens \cup {FREE}]]

Application == [at : {"looks", "mirrors"}, profile : Profile]

ASSUME NoneAssumption == None \notin Application

VARIABLES
    saved,          \* the profiles that settings.json may hold
    call,           \* the profile that each call applies and how far it is
    unsent          \* history: an application failed before its broadcast

profileVars == <<saved, call, unsent>>

allVars == <<vars, profileVars>>

ProfileInit ==
    /\ Init
    /\ saved = {}
    /\ call = [c \in Calls |-> None]
    /\ unsent = FALSE

\* One snapshot of the looks and of the mirror modes, without an await.
buildProfileFromRuntime ==
    [looks |-> [k \in Screens |-> screenStates[k].look], mirrors |-> mirrors]

\* settings:createProfile, settings:saveActiveProfile, the default profile, and
\* the save that follows a change of appearance or of mirror mode.
saveProfile ==
    /\ Cardinality(saved) < MaxSaved
    /\ saved' = saved \cup {buildProfileFromRuntime}
    /\ UNCHANGED <<vars, call, unsent>>

\* settings:activateProfile, or settings:deleteProfile of the active one: the
\* profile is read, and the write of the active profile is awaited.
activateProfile(c, p) ==
    /\ call[c] = None
    /\ call' = [call EXCEPT ![c] = [at |-> "looks", profile |-> p]]
    /\ UNCHANGED <<vars, saved, unsent>>

\* applyProfileToRuntime up to the await of writeProjectionConfig: neither the
\* locks nor the mirror modes are looked at, and no window is told.
applyLooks(c) ==
    /\ call[c] # None /\ call[c].at = "looks"
    /\ screenStates' = [k \in Screens |->
                          [screenStates[k] EXCEPT !.look = call[c].profile.looks[k]]]
    /\ call' = [call EXCEPT ![c].at = "mirrors"]
    /\ UNCHANGED <<mirrors, liveState, projWins, view, saved, unsent>>

\* Mutant: the broadcast leaves out the screens that mirror another one.
applyMirrors_FreeOnly(c) ==
    /\ call[c] # None /\ call[c].at = "mirrors"
    /\ mirrors' = call[c].profile.mirrors
    /\ view' = sendScreenState(screenStates, {k \in Screens : mirrors'[k] = FREE})
    /\ call' = [call EXCEPT ![c] = None]
    /\ unsent' = FALSE
    /\ UNCHANGED <<screenStates, liveState, projWins, saved>>

\* The rest of it: the mirror modes, without the copy that setMirror makes,
\* and broadcastAllScreensState.
applyMirrors(c) ==
    /\ call[c] # None /\ call[c].at = "mirrors"
    /\ mirrors' = call[c].profile.mirrors
    /\ view' = sendScreenState(screenStates, Screens)
    /\ call' = [call EXCEPT ![c] = None]
    /\ unsent' = FALSE
    /\ UNCHANGED <<screenStates, liveState, projWins, saved>>

\* A write to the disk fails: the handler ends where it is.
applyFails(c) ==
    /\ call[c] # None
    /\ call' = [call EXCEPT ![c] = None]
    /\ unsent' = (unsent \/ call[c].at = "mirrors")
    /\ UNCHANGED <<vars, saved>>

\* The application is closed and started again: default states, then the
\* looks and the mirror modes of the active profile, before any window opens.
restart(p) ==
    /\ screenStates' = [k \in Screens |->
                          [createDefaultProjectionState EXCEPT !.look = p.looks[k]]]
    /\ mirrors' = p.mirrors
    /\ liveState' = createDefaultLiveState
    /\ projWins' = [k \in Screens |-> "closed"]
    /\ view' = [k \in Screens |-> createDefaultProjectionState]
    /\ call' = [c \in Calls |-> None]
    /\ unsent' = FALSE
    /\ UNCHANGED saved

ProfileStep ==
    \/ saveProfile
    \/ \E p \in saved : restart(p)
    \/ \E c \in Calls, p \in saved : activateProfile(c, p)
    \/ \E c \in Calls : applyLooks(c)
    \/ \E c \in Calls : applyMirrors(c)
    \/ \E c \in Calls : applyFails(c)

ProfileNext ==
    \/ Next /\ UNCHANGED profileVars
    \/ ProfileStep

ProfileSpec == ProfileInit /\ [][ProfileNext]_allVars

-----------------------------------------------------------------------------
(* Properties *)

\* When no application of a profile is in flight and the last one did not fail,
\* every loaded window shows its screen: what applyProfileToRuntime wrote before
\* its await has been sent, whichever commands, loads and other applications
\* came in between.
ShownWhenSettled ==
    (\A c \in Calls : call[c] = None) /\ ~unsent => WindowShowsScreen
=============================================================================
