-------------------------- MODULE MCProfileRuntime --------------------------
(* ProfileRuntime for TLC: screens A and B. *)
EXTENDS ProfileRuntime, TLC

CONSTANTS A, B

\* The mirror modes that the regie's settings dialog offers.
UIMirrorChoices ==
    [k \in Screens |-> IF k = MainScreen THEN {} ELSE {FREE, MainScreen}]

\* The calls play the same part.
CallSymmetry == Permutations(Calls)

\* The commands that write what a profile writes, or what guards it: the other
\* ones of ScreenState (texts, medias, cursor, target) are left to its own runs.
LookStep ==
    \/ \E k \in Screens, look \in AllLooks : setAppearance(k, look)
    \/ \E k \in Screens : \E m \in MirrorChoices[k] : setMirror(k, m)
    \/ \E k \in Displays : WindowStep(k)
    \/ liveToggleBlack
    \/ \E k \in Screens, locked \in BOOLEAN : liveSetLocked(k, locked)

LookNext ==
    \/ LookStep /\ UNCHANGED profileVars
    \/ ProfileStep

LookSpec == ProfileInit /\ [][LookNext]_allVars
=============================================================================
