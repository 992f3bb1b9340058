-------------------------- MODULE ScreenStateProofs --------------------------
(***************************************************************************)
(* Proofs about ScreenState and about ProfileRuntime on top of it, for any *)
(* set of screens, contents, looks, plans and calls, any payloads of       *)
(* live:set, any number of snapshots and any bound on the cursor.          *)
(*                                                                         *)
(* Every screen command is a guarded WriteScreen or a setMirror, and every *)
(* live command is a mergeLive of some patch: the two case lemmas below    *)
(* reduce the twenty actions of Next to these shapes, and each invariant   *)
(* is then proved once per shape.                                          *)
(***************************************************************************)
EXTENDS ProfileRuntime, TLAPS

-----------------------------------------------------------------------------
(* Typing *)

\* Writing a screen and its mirrors yields well-typed screens and views.
LEMMA WriteScreenType ==
    ASSUME TypeOK, NEW k \in Screens, NEW st \in ProjectionState, WriteScreen(k, st)
    PROVE  /\ screenStates' \in [Screens -> ProjectionState]
           /\ view' \in [Screens -> ProjectionState]
BY DEF TypeOK, WriteScreen, applyMirrorsFrom, sendScreenState

\* A screen command is a write past guardScreen, or a setMirror.
LEMMA ScreenStepCases ==
    ASSUME TypeOK, NEW k \in Screens, ScreenStep(k)
    PROVE  \/ /\ guardScreen(k)
              /\ \E st \in ProjectionState : WriteScreen(k, st)
              /\ UNCHANGED <<mirrors, liveState, projWins>>
           \/ \E mirror \in MirrorChoices[k] : setMirror(k, mirror)
<1>0. screenStates[k] \in ProjectionState
  BY DEF TypeOK
<1>1. CASE \E t \in Texts : setContentText(k, t)
  <2>1. PICK t \in Texts : setContentText(k, t)
    BY <1>1
  <2>2. [screenStates[k] EXCEPT !.mode = "NORMAL", !.current = t] \in ProjectionState
    BY <1>0 DEF ProjectionState, Modes, Contents
  <2>3. QED
    BY <2>1, <2>2 DEF setContentText
<1>2. CASE \E m \in Medias : setContentMedia(k, m)
  <2>1. PICK m \in Medias : setContentMedia(k, m)
    BY <1>2
  <2>2. [screenStates[k] EXCEPT !.mode = "NORMAL", !.current = m] \in ProjectionState
    BY <1>0 DEF ProjectionState, Modes, Contents
  <2>3. QED
    BY <2>1, <2>2 DEF setContentMedia
<1>3. CASE \E mode \in Modes : setMode(k, mode)
  <2>1. PICK mode \in Modes : setMode(k, mode)
    BY <1>3
  <2>2. [screenStates[k] EXCEPT !.mode = mode] \in ProjectionState
    BY <1>0 DEF ProjectionState
  <2>3. QED
    BY <2>1, <2>2 DEF setMode
<1>4. CASE \E look \in Looks : setAppearance(k, look)
  <2>1. PICK look \in Looks : setAppearance(k, look)
    BY <1>4
  <2>2. [screenStates[k] EXCEPT !.look = look] \in ProjectionState
    BY <1>0 DEF ProjectionState, AllLooks
  <2>3. QED
    BY <2>1, <2>2 DEF setAppearance
<1>5. CASE \E mode \in Modes, c \in Contents, look \in AllLooks :
              setStatePatch(k, mode, c, look)
  <2>1. PICK mode \in Modes, c \in Contents, look \in AllLooks :
            setStatePatch(k, mode, c, look)
    BY <1>5
  <2>2. [mode |-> mode, current |-> c, look |-> look] \in ProjectionState
    BY DEF ProjectionState
  <2>3. QED
    BY <2>1, <2>2 DEF setStatePatch
<1>6. CASE \E mirror \in MirrorChoices[k] : setMirror(k, mirror)
  BY <1>6
<1>7. QED
  BY <1>1, <1>2, <1>3, <1>4, <1>5, <1>6 DEF ScreenStep

\* A live command merges a patch with the fields of shared/ipc.ts.
LEMMA LiveStepCases ==
    ASSUME TypeOK, LiveStep
    PROVE  \E patch \in Patch : mergeLive(patch)
<1>0. liveState \in LiveState
  BY DEF TypeOK
<1>1. CASE \E patch \in LivePatches : liveSet(patch)
  BY <1>1, PatchesAssumption DEF liveSet
<1>2. CASE liveToggle
  <2>1. [NoPatch EXCEPT !.enabled = ~liveState.enabled] \in Patch
    BY <1>0 DEF NoPatch, Patch, LiveState
  <2>2. QED
    BY <1>2, <2>1 DEF liveToggle
<1>3. CASE liveNext
  <2>1. liveState.cursor + 1 \in Int
    BY <1>0 DEF LiveState
  <2>2. [NoPatch EXCEPT !.cursor = liveState.cursor + 1, !.enabled = TRUE] \in Patch
    BY <2>1 DEF NoPatch, Patch
  <2>3. QED
    BY <1>3, <2>2 DEF liveNext
<1>4. CASE livePrev
  <2> DEFINE prev == liveState.cursor - 1
             clamped == IF prev < 0 THEN 0 ELSE prev
  <2>1. clamped \in Int
    BY <1>0 DEF LiveState
  <2>2. mergeLive([NoPatch EXCEPT !.cursor = clamped, !.enabled = TRUE])
    BY <1>4 DEF livePrev
  <2> HIDE DEF clamped
  <2>3. [NoPatch EXCEPT !.cursor = clamped, !.enabled = TRUE] \in Patch
    BY <2>1 DEF NoPatch, Patch
  <2>4. QED
    BY <1>1, <2>2, <2>3
<1>5. CASE \E cursor \in -1..MaxCursor : liveSetCursor(cursor)
  <2>1. PICK cursor \in -1..MaxCursor : liveSetCursor(cursor)
    BY <1>5
  <2>2. cursor \in Int
    BY CursorAssumption
  <2>3. [NoPatch EXCEPT !.cursor = cursor, !.enabled = TRUE] \in Patch
    BY <2>2 DEF NoPatch, Patch
  <2>4. QED
    BY <2>1, <2>3 DEF liveSetCursor
<1>6. CASE \E k \in Screens : liveSetTarget(k)
  <2>1. PICK k \in Screens : liveSetTarget(k)
    BY <1>6
  <2>2. [NoPatch EXCEPT !.target = k] \in Patch
    BY DEF NoPatch, Patch
  <2>3. QED
    BY <2>1, <2>2 DEF liveSetTarget
<1>7. CASE liveToggleBlack
  <2>1. [NoPatch EXCEPT !.black = ~liveState.black, !.enabled = TRUE] \in Patch
    BY <1>0 DEF NoPatch, Patch, LiveState
  <2>2. QED
    BY <1>7, <2>1 DEF liveToggleBlack
<1>8. CASE liveToggleWhite
  <2>1. [NoPatch EXCEPT !.white = ~liveState.white, !.enabled = TRUE] \in Patch
    BY <1>0 DEF NoPatch, Patch, LiveState
  <2>2. QED
    BY <1>8, <2>1 DEF liveToggleWhite
<1>9. CASE liveResume
  <2>1. [NoPatch EXCEPT !.black = FALSE, !.white = FALSE, !.enabled = TRUE] \in Patch
    BY DEF NoPatch, Patch
  <2>2. QED
    BY <1>9, <2>1 DEF liveResume
<1>10. CASE \E k \in Screens, locked \in BOOLEAN : liveSetLocked(k, locked)
  <2>1. PICK k \in Screens, locked \in BOOLEAN : liveSetLocked(k, locked)
    BY <1>10
  <2>2. [liveState.lockedScreens EXCEPT ![k] = locked] \in [Screens -> BOOLEAN]
    BY <1>0 DEF LiveState
  <2>3. [NoPatch EXCEPT !.lockedScreens = [liveState.lockedScreens EXCEPT ![k] = locked]]
            \in Patch
    BY <2>2 DEF NoPatch, Patch
  <2>4. QED
    BY <2>1, <2>3 DEF liveSetLocked
<1>11. QED
  BY <1>1, <1>2, <1>3, <1>4, <1>5, <1>6, <1>7, <1>8, <1>9, <1>10 DEF LiveStep

\* The merged live state is well typed: the cursor is clamped at 0.
LEMMA MergedLiveType ==
    ASSUME TypeOK, NEW patch \in Patch
    PROVE  MergedLive(patch) \in LiveState
<1>1. liveState \in LiveState
  BY DEF TypeOK
<1>2. Or(patch.cursor, liveState.cursor) \in Int
  BY <1>1 DEF Or, Patch, LiveState
<1>3. /\ Or(patch.enabled, liveState.enabled) \in BOOLEAN
      /\ Or(patch.planId, liveState.planId) \in PlanIds \cup {Null}
      /\ Or(patch.target, liveState.target) \in Screens
      /\ Or(patch.lockedScreens, liveState.lockedScreens) \in [Screens -> BOOLEAN]
  BY <1>1 DEF Or, Patch, LiveState
<1>4. QED
  BY <1>2, <1>3 DEF MergedLive, LiveState

\* TypeOK is preserved by every step.
LEMMA TypeStep == TypeOK /\ [Next]_vars => TypeOK'
<1> SUFFICES ASSUME TypeOK, [Next]_vars
             PROVE  TypeOK'
  OBVIOUS
<1> USE ScreensAssumption
<1>1. ASSUME NEW k \in Screens, ScreenStep(k)
      PROVE  TypeOK'
  <2>1. CASE /\ guardScreen(k)
             /\ \E st \in ProjectionState : WriteScreen(k, st)
             /\ UNCHANGED <<mirrors, liveState, projWins>>
    <3>1. /\ screenStates' \in [Screens -> ProjectionState]
          /\ view' \in [Screens -> ProjectionState]
      BY <2>1, WriteScreenType
    <3>2. QED
      BY <2>1, <3>1 DEF TypeOK
  <2>2. CASE \E mirror \in MirrorChoices[k] : setMirror(k, mirror)
    <3>1. PICK mirror \in MirrorChoices[k] : setMirror(k, mirror)
      BY <2>2
    <3>2. mirror \in Screens \cup {FREE}
      OBVIOUS
    <3>3. QED
      BY <3>1, <3>2 DEF setMirror, sendScreenState, TypeOK
  <2>3. QED
    BY <1>1, <2>1, <2>2, ScreenStepCases
<1>2. ASSUME LiveStep
      PROVE  TypeOK'
  <2>1. PICK patch \in Patch : mergeLive(patch)
    BY <1>2, LiveStepCases
  <2> DEFINE live == MergedLive(patch)
  <2>2. live \in LiveState
    BY MergedLiveType
  <2>3. /\ live.target \in Screens
        /\ LiveMode(live) \in Modes
    BY <2>2 DEF LiveState, LiveMode, Modes
  <2>4. [screenStates[live.target] EXCEPT !.mode = LiveMode(live)] \in ProjectionState
    BY <2>3 DEF TypeOK, ProjectionState
  <2>5. /\ screenStates' \in [Screens -> ProjectionState]
        /\ view' \in [Screens -> ProjectionState]
    <3>1. CASE UNCHANGED <<screenStates, view>>
      BY <3>1 DEF TypeOK
    <3>2. CASE WriteScreen(live.target,
                           [screenStates[live.target] EXCEPT !.mode = LiveMode(live)])
      BY <2>3, <2>4, <3>2, WriteScreenType
    <3>3. QED
      BY <2>1, <3>1, <3>2 DEF mergeLive, applyLiveProjectionMode
  <2>6. QED
    BY <2>1, <2>2, <2>5 DEF mergeLive, TypeOK
<1>3. ASSUME NEW k \in Displays, WindowStep(k)
      PROVE  TypeOK'
  <2>1. createDefaultProjectionState \in ProjectionState
    BY DEF createDefaultProjectionState, ProjectionState, Modes, Contents, AllLooks
  <2>2. QED
    BY <1>3, <2>1 DEF WindowStep, createScreenWindow, didFinishLoad, windowClosed, TypeOK
<1>4. CASE UNCHANGED vars
  BY <1>4 DEF vars, TypeOK
<1>5. QED
  BY <1>1, <1>2, <1>3, <1>4 DEF Next

\* Every reachable state of the main process has the types of shared/ipc.ts,
\* whatever the payloads are.
THEOREM TypeCorrect == Spec => []TypeOK
<1>1. Init => TypeOK
  BY ScreensAssumption
  DEF Init, TypeOK, createDefaultProjectionState, createDefaultLiveState,
      ProjectionState, LiveState, Modes, Contents, AllLooks
<1>2. QED
  BY <1>1, TypeStep, PTL DEF Spec

-----------------------------------------------------------------------------
(* Mutual exclusion of the blankings *)

\* The session is never black and white at once.  The merge alone does not say
\* so: a patch that sets neither keeps what the invariant gives.
THEOREM BlackWhiteTheorem == Spec => []BlackWhiteExclusive
<1>1. Init => BlackWhiteExclusive
  BY DEF Init, BlackWhiteExclusive, createDefaultLiveState
<1>2. TypeOK /\ BlackWhiteExclusive /\ [Next]_vars => BlackWhiteExclusive'
  <2> SUFFICES ASSUME TypeOK, BlackWhiteExclusive, [Next]_vars
               PROVE  BlackWhiteExclusive'
    OBVIOUS
  <2>1. ASSUME LiveStep
        PROVE  BlackWhiteExclusive'
    <3>1. PICK patch \in Patch : mergeLive(patch)
      BY <2>1, LiveStepCases
    <3>2. /\ liveState'.black = (patch.white # TRUE /\ Or(patch.black, liveState.black))
          /\ liveState'.white = (patch.black # TRUE /\ Or(patch.white, liveState.white))
      BY <3>1 DEF mergeLive, MergedLive
    <3>3. /\ patch.black \in BOOLEAN \cup {Absent}
          /\ patch.white \in BOOLEAN \cup {Absent}
      BY DEF Patch
    <3>4. QED
      BY <3>2, <3>3 DEF BlackWhiteExclusive, Or
  <2>2. ASSUME NEW k \in Screens, ScreenStep(k)
        PROVE  liveState' = liveState
    BY <2>2, ScreenStepCases DEF setMirror
  <2>3. ASSUME NEW k \in Displays, WindowStep(k)
        PROVE  liveState' = liveState
    BY <2>3 DEF WindowStep, createScreenWindow, didFinishLoad, windowClosed
  <2>4. QED
    BY <2>1, <2>2, <2>3 DEF Next, vars, BlackWhiteExclusive
<1>3. QED
  BY <1>1, <1>2, TypeCorrect, PTL DEF Spec

-----------------------------------------------------------------------------
(* Mirrors *)

\* The strengthening of MirrorInSync: only MainScreen is ever mirrored, and it
\* mirrors nothing, so a write to a source has no mirror of a mirror to miss.
StarTopology ==
    /\ mirrors[MainScreen] = FREE
    /\ \A k \in Screens : mirrors[k] \in {FREE, MainScreen}

MirrorInv == TypeOK /\ StarTopology /\ MirrorInSync

\* A write to a screen that mirrors nothing brings all its mirrors along.
LEMMA WriteKeepsMirrors ==
    ASSUME MirrorInv, NEW k \in Screens, mirrors[k] = FREE,
           NEW st, WriteScreen(k, st), UNCHANGED mirrors
    PROVE  StarTopology' /\ MirrorInSync'
<1> USE ScreensAssumption DEF MirrorInv
<1>1. screenStates \in [Screens -> ProjectionState]
  BY DEF TypeOK
<1>2. screenStates' = [j \in Screens |->
          IF j \in MirrorsOf(k)
          THEN [screenStates EXCEPT ![k] = st][k]
          ELSE [screenStates EXCEPT ![k] = st][j]]
  BY DEF WriteScreen, applyMirrorsFrom
<1>3. \A j \in Screens : mirrors[j] = k => screenStates'[j] = screenStates'[k]
  BY <1>1, <1>2 DEF MirrorsOf
<1>4. \A j \in Screens : mirrors[j] # k /\ j # k => screenStates'[j] = screenStates[j]
  BY <1>1, <1>2 DEF MirrorsOf
<1>5. ASSUME NEW j \in Screens, mirrors[j] # FREE
      PROVE  screenStates'[j] = screenStates'[mirrors[j]]
  <2>1. mirrors[j] = MainScreen /\ j # MainScreen /\ j # k
    BY <1>5 DEF StarTopology
  <2>2. CASE k = MainScreen
    BY <1>3, <2>1, <2>2
  <2>3. CASE k # MainScreen
    <3>1. screenStates'[j] = screenStates[j]
      BY <1>4, <2>1, <2>3
    <3>2. screenStates'[MainScreen] = screenStates[MainScreen]
      BY <1>4, <2>3 DEF StarTopology
    <3>3. screenStates[j] = screenStates[MainScreen]
      BY <1>5, <2>1 DEF MirrorInSync
    <3>4. QED
      BY <2>1, <3>1, <3>2, <3>3
  <2>4. QED
    BY <1>1, <2>2, <2>3
<1>6. QED
  BY <1>5 DEF StarTopology, MirrorInSync

\* Every step keeps the mirrors in step with their source.
LEMMA MirrorStep ==
    ASSUME StarMirrors, MirrorInv, [Next]_vars
    PROVE  MirrorInv'
<1> USE ScreensAssumption DEF MirrorInv
<1>1. TypeOK'
  BY TypeStep
<1>2. ASSUME NEW k \in Screens, ScreenStep(k)
      PROVE  StarTopology' /\ MirrorInSync'
  <2>1. CASE /\ guardScreen(k)
             /\ \E st \in ProjectionState : WriteScreen(k, st)
             /\ UNCHANGED <<mirrors, liveState, projWins>>
    <3>1. PICK st \in ProjectionState : WriteScreen(k, st)
      BY <2>1
    <3>2. mirrors[k] = FREE /\ UNCHANGED mirrors
      BY <2>1 DEF guardScreen
    <3>3. QED
      BY <3>1, <3>2, WriteKeepsMirrors
  <2>2. CASE \E mirror \in MirrorChoices[k] : setMirror(k, mirror)
    <3>1. PICK mirror \in MirrorChoices[k] : setMirror(k, mirror)
      BY <2>2
    <3>2. mirror = FREE \/ (mirror = MainScreen /\ k # MainScreen)
      BY DEF StarMirrors
    <3>3. mirrors' = [mirrors EXCEPT ![k] = mirror]
      BY <3>1 DEF setMirror
    <3>4. StarTopology'
      BY <3>2, <3>3 DEF StarTopology, TypeOK
    <3>5. CASE mirror = FREE
      <4>1. UNCHANGED screenStates
        BY <3>1, <3>5 DEF setMirror
      <4>2. QED
        BY <3>3, <3>4, <3>5, <4>1 DEF MirrorInSync, TypeOK
    <3>6. CASE mirror = MainScreen /\ k # MainScreen
      <4>1. screenStates' = [screenStates EXCEPT ![k] = screenStates[MainScreen]]
        BY <3>1, <3>6 DEF setMirror
      <4>2. QED
        BY <3>3, <3>4, <3>6, <4>1 DEF MirrorInSync, StarTopology, TypeOK
    <3>7. QED
      BY <3>2, <3>5, <3>6
  <2>3. QED
    BY <1>2, <2>1, <2>2, ScreenStepCases
<1>3. ASSUME LiveStep
      PROVE  StarTopology' /\ MirrorInSync'
  <2>1. PICK patch \in Patch : mergeLive(patch)
    BY <1>3, LiveStepCases
  <2> DEFINE live == MergedLive(patch)
             blanked == [screenStates[live.target] EXCEPT !.mode = LiveMode(live)]
  <2>2. live.target \in Screens /\ UNCHANGED mirrors
    BY <2>1, MergedLiveType DEF LiveState, mergeLive
  <2>3. CASE UNCHANGED <<screenStates, view>>
    BY <2>2, <2>3 DEF StarTopology, MirrorInSync
  <2>4. CASE mirrors[live.target] = FREE /\ WriteScreen(live.target, blanked)
    <3> HIDE DEF live, blanked
    <3>1. QED
      BY <2>2, <2>4, WriteKeepsMirrors
  <2>5. QED
    BY <2>1, <2>3, <2>4 DEF mergeLive, applyLiveProjectionMode
<1>4. ASSUME NEW k \in Displays, WindowStep(k)
      PROVE  StarTopology' /\ MirrorInSync'
  <2>1. UNCHANGED <<screenStates, mirrors>>
    BY <1>4 DEF WindowStep, createScreenWindow, didFinishLoad, windowClosed
  <2>2. QED
    BY <2>1 DEF StarTopology, MirrorInSync
<1>5. CASE UNCHANGED vars
  <2>1. UNCHANGED <<screenStates, mirrors>>
    BY <1>5 DEF vars
  <2>2. StarTopology'
    BY <2>1 DEF StarTopology
  <2>3. MirrorInSync'
    BY <2>1 DEF MirrorInSync
  <2>4. QED
    BY <1>1, <2>2, <2>3
<1>6. QED
  BY <1>1, <1>2, <1>3, <1>4, <1>5 DEF Next

\* MirrorInv is an invariant when the mirror requests form a star.
LEMMA MirrorInvariant ==
    ASSUME StarMirrors
    PROVE  Spec => []MirrorInv
<1>1. Init => MirrorInv
  <2>1. Init => TypeOK
    BY ScreensAssumption
    DEF Init, TypeOK, createDefaultProjectionState, createDefaultLiveState,
        ProjectionState, LiveState, Modes, Contents, AllLooks
  <2>2. Init => StarTopology /\ MirrorInSync
    BY ScreensAssumption DEF Init, StarTopology, MirrorInSync
  <2>3. QED
    BY <2>1, <2>2 DEF MirrorInv
<1>2. MirrorInv /\ [Next]_vars => MirrorInv'
  BY MirrorStep
<1>3. QED
  BY <1>1, <1>2, PTL DEF Spec

\* With the mirror requests that the regie offers, a mirroring screen always
\* has exactly the state of its source: no command leaves a mirror behind.
THEOREM MirrorTheorem ==
    ASSUME StarMirrors
    PROVE  Spec => []MirrorInSync
<1>1. MirrorInv => MirrorInSync
  BY DEF MirrorInv
<1>2. QED
  BY <1>1, MirrorInvariant, PTL

-----------------------------------------------------------------------------
(* Windows *)

\* A write reaches every loaded window whose screen it changes.
LEMMA WriteIsShown ==
    ASSUME TypeOK, WindowShowsScreen, NEW k \in Screens,
           NEW st, WriteScreen(k, st), UNCHANGED projWins
    PROVE  WindowShowsScreen'
<1>1. screenStates \in [Screens -> ProjectionState]
  BY DEF TypeOK
<1>2. screenStates' = [j \in Screens |->
          IF j \in MirrorsOf(k)
          THEN [screenStates EXCEPT ![k] = st][k]
          ELSE [screenStates EXCEPT ![k] = st][j]]
  BY DEF WriteScreen, applyMirrorsFrom
<1>3. view' = [j \in Screens |->
          IF j \in {k} \cup MirrorsOf(k) /\ projWins[j] = "ready"
          THEN screenStates'[j] ELSE view[j]]
  BY DEF WriteScreen, sendScreenState
<1>4. \A j \in Screens : j \notin {k} \cup MirrorsOf(k) => screenStates'[j] = screenStates[j]
  BY <1>1, <1>2
<1>5. QED
  BY <1>3, <1>4 DEF WindowShowsScreen

\* No step of ScreenState leaves a loaded window behind.
LEMMA ShownStep == TypeOK /\ WindowShowsScreen /\ [Next]_vars => WindowShowsScreen'
<1> SUFFICES ASSUME TypeOK, WindowShowsScreen, [Next]_vars
             PROVE  WindowShowsScreen'
  OBVIOUS
<1> USE ScreensAssumption
<1>1. ASSUME NEW k \in Screens, ScreenStep(k)
      PROVE  WindowShowsScreen'
  <2>1. CASE /\ guardScreen(k)
             /\ \E st \in ProjectionState : WriteScreen(k, st)
             /\ UNCHANGED <<mirrors, liveState, projWins>>
    BY <2>1, WriteIsShown
  <2>2. CASE \E mirror \in MirrorChoices[k] : setMirror(k, mirror)
    <3>1. PICK mirror \in MirrorChoices[k] : setMirror(k, mirror)
      BY <2>2
    <3>2. CASE mirror = FREE
      BY <3>1, <3>2 DEF setMirror, WindowShowsScreen
    <3>3. CASE mirror # FREE
      BY <3>1, <3>3 DEF setMirror, sendScreenState, WindowShowsScreen, TypeOK
    <3>4. QED
      BY <3>2, <3>3
  <2>3. QED
    BY <1>1, <2>1, <2>2, ScreenStepCases
<1>2. ASSUME LiveStep
      PROVE  WindowShowsScreen'
  <2>1. PICK patch \in Patch : mergeLive(patch)
    BY <1>2, LiveStepCases
  <2> DEFINE live == MergedLive(patch)
             blanked == [screenStates[live.target] EXCEPT !.mode = LiveMode(live)]
  <2>2. live.target \in Screens /\ UNCHANGED projWins
    BY <2>1, MergedLiveType DEF LiveState, mergeLive
  <2>3. CASE UNCHANGED <<screenStates, view>>
    BY <2>2, <2>3 DEF WindowShowsScreen
  <2>4. CASE WriteScreen(live.target, blanked)
    <3> HIDE DEF live, blanked
    <3>1. QED
      BY <2>2, <2>4, WriteIsShown
  <2>5. QED
    BY <2>1, <2>3, <2>4 DEF mergeLive, applyLiveProjectionMode
<1>3. ASSUME NEW k \in Displays, WindowStep(k)
      PROVE  WindowShowsScreen'
  BY <1>3 DEF WindowStep, createScreenWindow, didFinishLoad, windowClosed,
              WindowShowsScreen, TypeOK
<1>4. CASE UNCHANGED vars
  <2>1. UNCHANGED <<screenStates, projWins, view>>
    BY <1>4 DEF vars
  <2>2. QED
    BY <2>1 DEF WindowShowsScreen
<1>5. QED
  BY <1>1, <1>2, <1>3, <1>4 DEF Next

\* Whatever the commands, the mirror modes and the windows that open, load and
\* close between them, a loaded window shows the current state of its screen.
THEOREM WindowTheorem == Spec => []WindowShowsScreen
<1>1. Init => WindowShowsScreen
  BY DEF Init, WindowShowsScreen
<1>2. QED
  BY <1>1, ShownStep, TypeCorrect, PTL DEF Spec

-----------------------------------------------------------------------------
(* Locks and blanking *)

\* A write to k leaves every other screen that mirrors nothing as it was.
LEMMA WriteTouchesOne ==
    ASSUME TypeOK, NEW k \in Screens, NEW st, WriteScreen(k, st),
           NEW j \in Screens, j # k, mirrors[j] = FREE
    PROVE  screenStates'[j] = screenStates[j]
BY ScreensAssumption DEF TypeOK, WriteScreen, applyMirrorsFrom, MirrorsOf

\* No step changes a screen that mirrors nothing and stays locked.
THEOREM LockTheorem == Spec => LockedScreenFrozen
<1>1. ASSUME TypeOK, [Next]_vars, NEW k \in Screens,
             mirrors[k] = FREE, mirrors'[k] = FREE,
             liveState.lockedScreens[k], liveState'.lockedScreens[k]
      PROVE  screenStates'[k] = screenStates[k]
  <2>1. ASSUME NEW j \in Screens, ScreenStep(j)
        PROVE  screenStates'[k] = screenStates[k]
    <3>1. CASE /\ guardScreen(j)
               /\ \E st \in ProjectionState : WriteScreen(j, st)
               /\ UNCHANGED <<mirrors, liveState, projWins>>
      <4>1. k # j
        BY <1>1, <3>1 DEF guardScreen
      <4>2. QED
        BY <1>1, <3>1, <4>1, WriteTouchesOne
    <3>2. CASE \E mirror \in MirrorChoices[j] : setMirror(j, mirror)
      <4>1. PICK mirror \in MirrorChoices[j] : setMirror(j, mirror)
        BY <3>2
      <4>2. CASE mirror = FREE
        BY <4>1, <4>2 DEF setMirror
      <4>3. CASE mirror # FREE
        BY <1>1, <4>1, <4>3 DEF setMirror, TypeOK
      <4>4. QED
        BY <4>2, <4>3
    <3>3. QED
      BY <1>1, <2>1, <3>1, <3>2, ScreenStepCases
  <2>2. ASSUME LiveStep
        PROVE  screenStates'[k] = screenStates[k]
    <3>1. PICK patch \in Patch : mergeLive(patch)
      BY <1>1, <2>2, LiveStepCases
    <3> DEFINE live == MergedLive(patch)
               blanked == [screenStates[live.target] EXCEPT !.mode = LiveMode(live)]
    <3>2. live.target \in Screens /\ liveState' = live
      BY <1>1, <3>1, MergedLiveType DEF LiveState, mergeLive
    <3>3. CASE UNCHANGED <<screenStates, view>>
      BY <3>3
    <3>4. CASE ~live.lockedScreens[live.target] /\ WriteScreen(live.target, blanked)
      <4>1. k # live.target
        BY <1>1, <3>2, <3>4
      <4> HIDE DEF live, blanked
      <4>2. QED
        BY <1>1, <3>2, <3>4, <4>1, WriteTouchesOne
    <3>5. QED
      BY <3>1, <3>3, <3>4 DEF mergeLive, applyLiveProjectionMode
  <2>3. ASSUME NEW j \in Displays, WindowStep(j)
        PROVE  screenStates'[k] = screenStates[k]
    BY <2>3 DEF WindowStep, createScreenWindow, didFinishLoad, windowClosed
  <2>4. QED
    BY <1>1, <2>1, <2>2, <2>3 DEF Next, vars
<1>2. TypeOK /\ [Next]_vars =>
        [\A k \in Screens :
          (/\ mirrors[k] = FREE /\ mirrors'[k] = FREE
           /\ liveState.lockedScreens[k] /\ liveState'.lockedScreens[k])
          => screenStates'[k] = screenStates[k]]_vars
  BY <1>1
<1>3. QED
  BY <1>2, TypeCorrect, PTL DEF Spec, LockedScreenFrozen

\* With the mirror requests that the regie offers, no live command touches the
\* content or the appearance of any screen.  For the mirrors of the target this
\* rests on MirrorInSync: the copy of the source differs only by its mode.
THEOREM LiveContentTheorem ==
    ASSUME StarMirrors
    PROVE  Spec => LiveKeepsContent
<1>1. ASSUME MirrorInv, [Next]_vars, liveState' # liveState, NEW k \in Screens
      PROVE  /\ screenStates'[k].current = screenStates[k].current
             /\ screenStates'[k].look = screenStates[k].look
  <2> USE ScreensAssumption
  <2>0. TypeOK /\ MirrorInSync /\ StarTopology
    BY <1>1 DEF MirrorInv
  <2>1. LiveStep
    <3>1. ASSUME NEW j \in Screens, ScreenStep(j)
          PROVE  FALSE
      BY <1>1, <2>0, <3>1, ScreenStepCases DEF setMirror
    <3>2. ASSUME NEW j \in Displays, WindowStep(j)
          PROVE  FALSE
      BY <1>1, <3>2 DEF WindowStep, createScreenWindow, didFinishLoad, windowClosed
    <3>3. QED
      BY <1>1, <3>1, <3>2 DEF Next, vars
  <2>2. PICK patch \in Patch : mergeLive(patch)
    BY <2>0, <2>1, LiveStepCases
  <2> DEFINE live == MergedLive(patch)
             blanked == [screenStates[live.target] EXCEPT !.mode = LiveMode(live)]
  <2>3. live.target \in Screens
    BY <2>0, MergedLiveType DEF LiveState
  <2>4. CASE UNCHANGED <<screenStates, view>>
    BY <2>4
  <2>5. CASE WriteScreen(live.target, blanked)
    <3>1. screenStates \in [Screens -> ProjectionState]
      BY <2>0 DEF TypeOK
    <3>2. /\ blanked.current = screenStates[live.target].current
          /\ blanked.look = screenStates[live.target].look
      BY <2>3, <3>1 DEF ProjectionState
    <3> HIDE DEF live, blanked
    <3>3. screenStates'[k] = IF k = live.target \/ k \in MirrorsOf(live.target)
                             THEN blanked ELSE screenStates[k]
      BY <2>3, <2>5, <3>1 DEF WriteScreen, applyMirrorsFrom, MirrorsOf
    <3>4. k \in MirrorsOf(live.target) => screenStates[k] = screenStates[live.target]
      BY <2>0, <2>3 DEF MirrorsOf, MirrorInSync
    <3>5. QED
      BY <3>2, <3>3, <3>4
  <2>6. QED
    BY <2>2, <2>4, <2>5 DEF mergeLive, applyLiveProjectionMode
<1>2. MirrorInv /\ [Next]_vars =>
        [liveState' # liveState =>
          \A k \in Screens : /\ screenStates'[k].current = screenStates[k].current
                             /\ screenStates'[k].look = screenStates[k].look]_vars
  BY <1>1
<1>3. QED
  BY <1>2, MirrorInvariant, PTL DEF Spec, LiveKeepsContent

-----------------------------------------------------------------------------
(***************************************************************************)
(* ProfileRuntime: the theorems of ScreenState that survive the profiles,  *)
(* which are applied in two steps while the commands of ScreenState go on. *)
(***************************************************************************)
ProfileTypeOK ==
    /\ TypeOK
    /\ saved \in SUBSET Profile
    /\ call \in [Calls -> Application \cup {None}]
    /\ unsent \in BOOLEAN

\* A call whose looks are written and whose broadcast is still to come.
Unfinished(c) == call[c] # None /\ call[c].at = "mirrors"

(***************************************************************************)
(* The inductive invariant: the windows show their screens as long as no   *)
(* call is between its two steps and none has failed there.  Until one     *)
(* starts, a call holds only the profile it has read.                      *)
(***************************************************************************)
ShownUnlessUnfinished ==
    (\A c \in Calls : ~Unfinished(c)) /\ ~unsent => WindowShowsScreen

ProfileInv == ProfileTypeOK /\ ShownUnlessUnfinished

LEMMA SnapshotType == ASSUME TypeOK PROVE buildProfileFromRuntime \in Profile
BY DEF TypeOK, buildProfileFromRuntime, Profile, ProjectionState

LEMMA ProfileInitInv == ProfileInit => ProfileInv
<1> SUFFICES ASSUME ProfileInit PROVE ProfileInv
  OBVIOUS
<1>1. TypeOK
  BY ScreensAssumption
  DEF ProfileInit, Init, TypeOK, createDefaultProjectionState, createDefaultLiveState,
      ProjectionState, LiveState, Modes, Contents, AllLooks
<1>2. WindowShowsScreen
  BY DEF ProfileInit, Init, WindowShowsScreen
<1> QED BY <1>1, <1>2 DEF ProfileInit, ProfileInv, ProfileTypeOK, ShownUnlessUnfinished

LEMMA ProfileStepInv == ASSUME ProfileInv, ProfileStep PROVE ProfileInv'
<1> USE DEF ProfileInv
<1>1. CASE saveProfile
  <2>1. ProfileTypeOK'
    BY <1>1, SnapshotType DEF saveProfile, ProfileTypeOK, TypeOK, vars
  <2> QED BY <1>1, <2>1 DEF saveProfile, ShownUnlessUnfinished, Unfinished, WindowShowsScreen, vars
<1>2. ASSUME NEW p \in saved, restart(p) PROVE ProfileInv'
  <2>1. p \in Profile
    BY DEF ProfileTypeOK
  <2>2. TypeOK'
    BY <1>2, <2>1, ScreensAssumption
    DEF restart, TypeOK, Profile, createDefaultProjectionState, createDefaultLiveState,
        ProjectionState, LiveState, Modes, Contents, AllLooks
  <2>3. WindowShowsScreen'
    BY <1>2 DEF restart, WindowShowsScreen
  <2> QED BY <1>2, <2>2, <2>3 DEF restart, ProfileTypeOK, ShownUnlessUnfinished
<1>3. ASSUME NEW c \in Calls, NEW p \in saved, activateProfile(c, p) PROVE ProfileInv'
  <2> DEFINE a == [at |-> "looks", profile |-> p]
  <2>1. a \in Application /\ a.at = "looks"
    BY DEF ProfileTypeOK, Application
  <2>2. call' = [call EXCEPT ![c] = a] /\ UNCHANGED <<vars, saved, unsent>>
    BY <1>3 DEF activateProfile
  <2> HIDE DEF a
  <2>3. ProfileTypeOK'
    BY <2>1, <2>2 DEF ProfileTypeOK, TypeOK, vars
  <2>4. \A d \in Calls : Unfinished(d)' => Unfinished(d)
    BY <1>3, <2>1, <2>2 DEF ProfileTypeOK, Unfinished
  <2>5. \A d \in Calls : Unfinished(d) => Unfinished(d)'
    BY <1>3, <2>2 DEF ProfileTypeOK, Unfinished, activateProfile
  <2> QED BY <2>2, <2>3, <2>5 DEF ShownUnlessUnfinished, WindowShowsScreen, vars
<1>4. ASSUME NEW c \in Calls, applyLooks(c) PROVE ProfileInv'
  <2>1. call[c] \in Application /\ call[c].profile \in Profile
    BY <1>4 DEF applyLooks, ProfileTypeOK, Application
  <2>2. TypeOK'
    <3>1. \A k \in Screens : call[c].profile.looks[k] \in AllLooks
      BY <2>1 DEF Profile
    <3> QED BY <1>4, <3>1 DEF applyLooks, ProfileTypeOK, TypeOK, ProjectionState
  <2> DEFINE a == [call[c] EXCEPT !.at = "mirrors"]
  <2>3. call' = [call EXCEPT ![c] = a] /\ UNCHANGED <<saved, unsent>>
    BY <1>4 DEF applyLooks
  <2>4. a \in Application /\ a.at = "mirrors"
    BY <2>1 DEF Application
  <2> HIDE DEF a
  <2>5. ProfileTypeOK'
    BY <2>2, <2>3, <2>4 DEF ProfileTypeOK
  <2>6. Unfinished(c)'
    BY <2>3, <2>4, NoneAssumption DEF Unfinished, ProfileTypeOK
  <2> QED BY <2>5, <2>6 DEF ShownUnlessUnfinished
<1>5. ASSUME NEW c \in Calls, applyMirrors(c) PROVE ProfileInv'
  <2>1. call[c].profile \in Profile
    BY <1>5 DEF applyMirrors, ProfileTypeOK, Application
  <2>2. TypeOK'
    BY <1>5, <2>1 DEF applyMirrors, ProfileTypeOK, TypeOK, Profile, sendScreenState
  <2>3. WindowShowsScreen'
    BY <1>5 DEF applyMirrors, sendScreenState, WindowShowsScreen
  <2> QED BY <1>5, <2>2, <2>3 DEF applyMirrors, ProfileTypeOK, ShownUnlessUnfinished
<1>6. ASSUME NEW c \in Calls, applyFails(c) PROVE ProfileInv'
  <2>1. ProfileTypeOK'
    BY <1>6 DEF applyFails, ProfileTypeOK, TypeOK, vars
  <2>2. CASE Unfinished(c)
    <3>1. unsent'
      BY <1>6, <2>2 DEF applyFails, Unfinished
    <3> QED BY <2>1, <3>1 DEF ShownUnlessUnfinished
  <2>3. CASE ~Unfinished(c)
    <3>1. \A d \in Calls : Unfinished(d) => Unfinished(d)'
      BY <1>6, <2>3 DEF applyFails, ProfileTypeOK, Unfinished
    <3>2. unsent' = unsent
      BY <1>6, <2>3 DEF applyFails, Unfinished, ProfileTypeOK
    <3> QED BY <1>6, <2>1, <3>1, <3>2 DEF applyFails, ShownUnlessUnfinished, WindowShowsScreen, vars
  <2> QED BY <2>2, <2>3
<1> QED BY <1>1, <1>2, <1>3, <1>4, <1>5, <1>6 DEF ProfileStep

LEMMA ProfileNextInv == ProfileInv /\ [ProfileNext]_allVars => ProfileInv'
<1> SUFFICES ASSUME ProfileInv, [ProfileNext]_allVars PROVE ProfileInv'
  OBVIOUS
<1>1. CASE ProfileStep
  BY <1>1, ProfileStepInv
<1>2. CASE [Next]_vars /\ UNCHANGED profileVars
  <2>1. TypeOK'
    BY <1>2, TypeStep DEF ProfileInv, ProfileTypeOK
  <2>2. ProfileTypeOK'
    BY <1>2, <2>1 DEF ProfileInv, ProfileTypeOK, profileVars
  <2>3. ShownUnlessUnfinished'
    BY <1>2, ShownStep DEF ProfileInv, ProfileTypeOK, ShownUnlessUnfinished, Unfinished, profileVars
  <2> QED BY <2>2, <2>3 DEF ProfileInv
<1> QED BY <1>1, <1>2 DEF ProfileNext, allVars

\* The screens, the profiles and the calls that apply them keep their types.
THEOREM ProfileTypeCorrect == ProfileSpec => []ProfileTypeOK
<1>1. ProfileInv => ProfileTypeOK
  BY DEF ProfileInv
<1> QED BY <1>1, ProfileInitInv, ProfileNextInv, PTL DEF ProfileSpec

\* Once every application of a profile has ended, and unless the last one failed
\* after writing the looks, each loaded window shows its screen: the broadcast of
\* applyProfileToRuntime makes up for its silent first half whatever commands,
\* window loads and other applications ran during its await.
THEOREM SettledTheorem == ProfileSpec => []ShownWhenSettled
<1>1. ProfileInv => ShownWhenSettled
  BY DEF ProfileInv, ShownUnlessUnfinished, Unfinished, ShownWhenSettled
<1> QED BY <1>1, ProfileInitInv, ProfileNextInv, PTL DEF ProfileSpec
=============================================================================
