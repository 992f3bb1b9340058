----------------------------- MODULE ScreenState -----------------------------
(***************************************************************************)
(* The projection state of the desktop application's main process          *)
(* (main/ipc/screenState.ts and the live:*, screens:* and projection:*     *)
(* handlers of main/main.ts): what each screen shows, which screens mirror *)
(* another one, the live state shared by the regie, the projection windows *)
(* and the remote controls, and the projection windows themselves.         *)
(*                                                                         *)
(* The main process is one JavaScript thread and none of these handlers    *)
(* awaits before its last state change, so each handler is one action.     *)
(* A handler that guardScreen refuses changes nothing: its action is not   *)
(* enabled.  The payloads are abstracted to members of small sets and the  *)
(* eighteen appearance fields to one "look".  Timestamps are left out.     *)
(***************************************************************************)
EXTENDS Integers

CONSTANTS
    Screens,        \* the screens (A, B and C in the program)
    MainScreen,     \* screen A: the first target, the source of the mirrors
    FREE,           \* the mirror mode of a screen that mirrors nothing
    MirrorChoices,  \* MirrorChoices[k]: the mirror modes requested for k
    Texts, Medias,  \* what setContentText and setContentMedia may show
    EMPTY,          \* the content of a screen that shows nothing yet
    Looks,          \* appearances that a patch may install
    DefaultLook,    \* the appearance of createDefaultProjectionState
    PlanIds,        \* identifiers of service plans
    Null,           \* the planId of a live session without a plan
    Absent,         \* a field that a patch leaves out
    LivePatches,    \* the payloads of live:set
    Displays,       \* the screens whose window is opened
    MaxCursor       \* bound on the cursor values that are explored

VARIABLES
    screenStates,   \* what each screen has to show
    mirrors,        \* FREE, or the screen that this screen mirrors
    liveState,      \* the live session: cursor, target, blanking, locks
    projWins,       \* the life cycle of each projection window
    view            \* the last screens:state that each window received

vars == <<screenStates, mirrors, liveState, projWins, view>>

Modes == {"NORMAL", "BLACK", "WHITE"}

Contents == Texts \cup Medias \cup {EMPTY}

AllLooks == Looks \cup {DefaultLook}

ProjectionState == [mode : Modes, current : Contents, look : AllLooks]

LiveState == [enabled : BOOLEAN, planId : PlanIds \cup {Null}, cursor : Nat,
              target : Screens, black : BOOLEAN, white : BOOLEAN,
              lockedScreens : [Screens -> BOOLEAN]]

Patch == [enabled : BOOLEAN \cup {Absent},
          planId : PlanIds \cup {Null, Absent},
          cursor : Int \cup {Absent},
          target : Screens \cup {Absent},
          black : BOOLEAN \cup {Absent},
          white : BOOLEAN \cup {Absent},
          lockedScreens : [Screens -> BOOLEAN] \cup {Absent}]

ASSUME ScreensAssumption ==
    /\ MainScreen \in Screens
    /\ FREE \notin Screens
    /\ MirrorChoices \in [Screens -> SUBSET (Screens \cup {FREE})]
    /\ Displays \subseteq Screens

ASSUME PatchesAssumption == LivePatches \subseteq Patch

ASSUME CursorAssumption == MaxCursor \in Nat

-----------------------------------------------------------------------------
createDefaultProjectionState ==
    [mode |-> "NORMAL", current |-> EMPTY, look |-> DefaultLook]

createDefaultLiveState ==
    [enabled |-> FALSE, planId |-> Null, cursor |-> 0, target |-> MainScreen,
     black |-> FALSE, white |-> FALSE,
     lockedScreens |-> [k \in Screens |-> FALSE]]

Init ==
    /\ screenStates = [k \in Screens |-> createDefaultProjectionState]
    /\ mirrors = [k \in Screens |-> IF k = MainScreen THEN FREE ELSE MainScreen]
    /\ liveState = createDefaultLiveState
    /\ projWins = [k \in Screens |-> "closed"]
    /\ view = [k \in Screens |-> createDefaultProjectionState]

-----------------------------------------------------------------------------
(***************************************************************************)
(* Writing a screen: the new state goes to the screen's window and is then *)
(* copied to the screens that mirror it directly, each broadcast in turn.  *)
(***************************************************************************)
MirrorsOf(source) == {k \in Screens \ {source} : mirrors[k] = source}

applyMirrorsFrom_Guarded(states, source) ==
    [k \in Screens |-> IF k \in MirrorsOf(source) /\ ~liveState.lockedScreens[k]
                       THEN states[source] ELSE states[k]]

applyMirrorsFrom(states, source) ==
    [k \in Screens |-> IF k \in MirrorsOf(source) THEN states[source] ELSE states[k]]

\* Only a window that has finished loading has a listener for the message.
sendScreenState(states, keys) ==
    [k \in Screens |-> IF k \in keys /\ projWins[k] = "ready"
                       THEN states[k] ELSE view[k]]

WriteScreen(k, state) ==
    LET states == applyMirrorsFrom([screenStates EXCEPT ![k] = state], k)
    IN  /\ screenStates' = states
        /\ view' = sendScreenState(states, {k} \cup MirrorsOf(k))

guardScreen_MirrorOnly(k) == mirrors[k] = FREE

guardScreen(k) == mirrors[k] = FREE /\ ~liveState.lockedScreens[k]

setContentText(k, text) ==
    /\ guardScreen(k)
    /\ WriteScreen(k, [screenStates[k] EXCEPT !.mode = "NORMAL", !.current = text])
    /\ UNCHANGED <<mirrors, liveState, projWins>>

setContentMedia(k, media) ==
    /\ guardScreen(k)
    /\ WriteScreen(k, [screenStates[k] EXCEPT !.mode = "NORMAL", !.current = media])
    /\ UNCHANGED <<mirrors, liveState, projWins>>

setMode(k, mode) ==
    /\ guardScreen(k)
    /\ WriteScreen(k, [screenStates[k] EXCEPT !.mode = mode])
    /\ UNCHANGED <<mirrors, liveState, projWins>>

setAppearance(k, look) ==
    /\ guardScreen(k)
    /\ WriteScreen(k, [screenStates[k] EXCEPT !.look = look])
    /\ UNCHANGED <<mirrors, liveState, projWins>>

setStatePatch(k, mode, current, look) ==
    /\ guardScreen(k)
    /\ WriteScreen(k, [mode |-> mode, current |-> current, look |-> look])
    /\ UNCHANGED <<mirrors, liveState, projWins>>

\* setMirror checks neither the lock of k nor whether other screens mirror k.
setMirror(k, mirror) ==
    /\ mirrors' = [mirrors EXCEPT ![k] = mirror]
    /\ IF mirror = FREE
       THEN UNCHANGED <<screenStates, view>>
       ELSE LET states == [screenStates EXCEPT ![k] = screenStates[mirror]]
            IN  /\ screenStates' = states
                /\ view' = sendScreenState(states, {k})
    /\ UNCHANGED <<liveState, projWins>>

-----------------------------------------------------------------------------
(***************************************************************************)
(* The live state.  Every live command goes through mergeLive, which also  *)
(* re-applies the blanking of the session to the target screen.            *)
(***************************************************************************)
Or(value, default) == IF value = Absent THEN default ELSE value

LiveMode(live) ==
    IF live.black THEN "BLACK" ELSE IF live.white THEN "WHITE" ELSE "NORMAL"

MergedLive_NoExclusion(patch) ==
    LET cursor == Or(patch.cursor, liveState.cursor)
    IN  [enabled |-> Or(patch.enabled, liveState.enabled),
         planId |-> Or(patch.planId, liveState.planId),
         cursor |-> IF cursor < 0 THEN 0 ELSE cursor,
         target |-> Or(patch.target, liveState.target),
         black |-> Or(patch.black, liveState.black),
         white |-> Or(patch.white, liveState.white),
         lockedScreens |-> Or(patch.lockedScreens, liveState.lockedScreens)]

MergedLive_NoClamp(patch) ==
    [enabled |-> Or(patch.enabled, liveState.enabled),
     planId |-> Or(patch.planId, liveState.planId),
     cursor |-> Or(patch.cursor, liveState.cursor),
     target |-> Or(patch.target, liveState.target),
     black |-> patch.white # TRUE /\ Or(patch.black, liveState.black),
     white |-> patch.black # TRUE /\ Or(patch.white, liveState.white),
     lockedScreens |-> Or(patch.lockedScreens, liveState.lockedScreens)]

\* A patch that turns one blanking on turns the other one off; a patch that
\* turns both on leaves both off.
MergedLive(patch) ==
    LET cursor == Or(patch.cursor, liveState.cursor)
    IN  [enabled |-> Or(patch.enabled, liveState.enabled),
         planId |-> Or(patch.planId, liveState.planId),
         cursor |-> IF cursor < 0 THEN 0 ELSE cursor,
         target |-> Or(patch.target, liveState.target),
         black |-> patch.white # TRUE /\ Or(patch.black, liveState.black),
         white |-> patch.black # TRUE /\ Or(patch.white, liveState.white),
         lockedScreens |-> Or(patch.lockedScreens, liveState.lockedScreens)]

applyLiveProjectionMode_Clears(live) ==
    IF live.lockedScreens[live.target] \/ mirrors[live.target] # FREE
    THEN UNCHANGED <<screenStates, view>>
    ELSE WriteScreen(live.target,
                     [screenStates[live.target] EXCEPT
                        !.mode = LiveMode(live),
                        !.current = IF LiveMode(live) = "NORMAL" THEN @ ELSE EMPTY])

applyLiveProjectionMode(live) ==
    IF live.lockedScreens[live.target] \/ mirrors[live.target] # FREE
    THEN UNCHANGED <<screenStates, view>>
    ELSE WriteScreen(live.target,
                     [screenStates[live.target] EXCEPT !.mode = LiveMode(live)])

mergeLive(patch) ==
    /\ liveState' = MergedLive(patch)
    /\ applyLiveProjectionMode(MergedLive(patch))
    /\ UNCHANGED <<mirrors, projWins>>

NoPatch == [enabled |-> Absent, planId |-> Absent, cursor |-> Absent,
            target |-> Absent, black |-> Absent, white |-> Absent,
            lockedScreens |-> Absent]

liveSet(patch) == mergeLive(patch)

liveToggle == mergeLive([NoPatch EXCEPT !.enabled = ~liveState.enabled])

liveNext ==
    /\ liveState.cursor < MaxCursor
    /\ mergeLive([NoPatch EXCEPT !.cursor = liveState.cursor + 1, !.enabled = TRUE])

livePrev ==
    LET prev == liveState.cursor - 1
    IN  mergeLive([NoPatch EXCEPT !.cursor = IF prev < 0 THEN 0 ELSE prev,
                                  !.enabled = TRUE])

\* The cursor of a request is any integer; -1 stands for the negative ones.
liveSetCursor(cursor) ==
    mergeLive([NoPatch EXCEPT !.cursor = cursor, !.enabled = TRUE])

liveSetTarget(target) == mergeLive([NoPatch EXCEPT !.target = target])

liveToggleBlack ==
    mergeLive([NoPatch EXCEPT !.black = ~liveState.black, !.enabled = TRUE])

liveToggleWhite ==
    mergeLive([NoPatch EXCEPT !.white = ~liveState.white, !.enabled = TRUE])

liveResume ==
    mergeLive([NoPatch EXCEPT !.black = FALSE, !.white = FALSE, !.enabled = TRUE])

liveSetLocked(k, locked) ==
    mergeLive([NoPatch EXCEPT
                 !.lockedScreens = [liveState.lockedScreens EXCEPT ![k] = locked]])

-----------------------------------------------------------------------------
(***************************************************************************)
(* The projection windows.  A second screens:open of an open window only   *)
(* brings it to the front.                                                 *)
(***************************************************************************)
createScreenWindow(k) ==
    /\ projWins[k] = "closed"
    /\ projWins' = [projWins EXCEPT ![k] = "loading"]
    /\ UNCHANGED <<screenStates, mirrors, liveState, view>>

didFinishLoad_Silent(k) ==
    /\ projWins[k] = "loading"
    /\ projWins' = [projWins EXCEPT ![k] = "ready"]
    /\ UNCHANGED <<screenStates, mirrors, liveState, view>>

didFinishLoad(k) ==
    /\ projWins[k] = "loading"
    /\ projWins' = [projWins EXCEPT ![k] = "ready"]
    /\ view' = [view EXCEPT ![k] = screenStates[k]]
    /\ UNCHANGED <<screenStates, mirrors, liveState>>

\* screens:close, or the window closed from the desktop; the page and what it
\* received go with the window.
windowClosed(k) ==
    /\ projWins[k] # "closed"
    /\ projWins' = [projWins EXCEPT ![k] = "closed"]
    /\ view' = [view EXCEPT ![k] = createDefaultProjectionState]
    /\ UNCHANGED <<screenStates, mirrors, liveState>>

-----------------------------------------------------------------------------
ScreenStep(k) ==
    \/ \E t \in Texts : setContentText(k, t)
    \/ \E m \in Medias : setContentMedia(k, m)
    \/ \E mode \in Modes : setMode(k, mode)
    \/ \E look \in Looks : setAppearance(k, look)
    \/ \E mode \in Modes, c \in Contents, look \in AllLooks :
            setStatePatch(k, mode, c, look)
    \/ \E mirror \in MirrorChoices[k] : setMirror(k, mirror)

LiveStep ==
    \/ \E patch \in LivePatches : liveSet(patch)
    \/ liveToggle
    \/ liveNext
    \/ livePrev
    \/ \E cursor \in -1..MaxCursor : liveSetCursor(cursor)
    \/ \E k \in Screens : liveSetTarget(k)
    \/ liveToggleBlack
    \/ liveToggleWhite
    \/ liveResume
    \/ \E k \in Screens, locked \in BOOLEAN : liveSetLocked(k, locked)

WindowStep(k) ==
    \/ createScreenWindow(k)
    \/ didFinishLoad(k)
    \/ windowClosed(k)

Next ==
    \/ \E k \in Screens : ScreenStep(k)
    \/ LiveStep
    \/ \E k \in Displays : WindowStep(k)

Spec == Init /\ [][Next]_vars

-----------------------------------------------------------------------------
(* Properties *)

\* The state has the types of shared/ipc.ts: in particular the cursor is never
\* negative and the target is always one of the screens, whatever a client of
\* live:set, live:prev or live:setCursor asks for.
TypeOK ==
    /\ screenStates \in [Screens -> ProjectionState]
    /\ mirrors \in [Screens -> Screens \cup {FREE}]
    /\ liveState \in LiveState
    /\ projWins \in [Screens -> {"closed", "loading", "ready"}]
    /\ view \in [Screens -> ProjectionState]

\* The mirror requests of the regie (SettingsDialog.tsx offers "Independant"
\* and "Miroir de A", and not for A): no screen mirrors a mirror.
StarMirrors ==
    /\ MirrorChoices[MainScreen] \subseteq {FREE}
    /\ \A k \in Screens : MirrorChoices[k] \subseteq {FREE, MainScreen}

\* A screen that mirrors another one has exactly the state of its source, after
\* every content, mode, appearance, mirror and live command (applyMirrorsFrom
\* and setMirror never leave a mirror behind).
MirrorInSync ==
    \A k \in Screens : mirrors[k] # FREE => screenStates[k] = screenStates[mirrors[k]]

\* A loaded projection window shows the current state of its screen: no handler
\* changes a screen, directly or through a mirror, without sending it
\* (sendScreenState, did-finish-load), and nothing is lost while it loads.
WindowShowsScreen ==
    \A k \in Screens : projWins[k] = "ready" => view[k] = screenStates[k]

\* The session is never black and white at once (mergeLive's mutual exclusion),
\* whichever toggles and live:set patches follow each other.
BlackWhiteExclusive == ~(liveState.black /\ liveState.white)

\* A screen that mirrors nothing and is locked before and after a step keeps
\* its state: neither the content, mode and appearance commands nor the
\* re-application of the blanking by any live command gets past the lock.
LockedScreenFrozen ==
    [][\A k \in Screens :
          (/\ mirrors[k] = FREE /\ mirrors'[k] = FREE
           /\ liveState.lockedScreens[k] /\ liveState'.lockedScreens[k])
          => screenStates'[k] = screenStates[k]]_vars

\* Blanking is an overlay: a live command (navigation, black, white, resume,
\* target, lock) changes at most the mode of a screen, never the content or
\* the appearance that resuming will bring back, on mirrors either.
LiveKeepsContent ==
    [][liveState' # liveState =>
          \A k \in Screens : /\ screenStates'[k].current = screenStates[k].current
                             /\ screenStates'[k].look = screenStates[k].look]_vars
=============================================================================
