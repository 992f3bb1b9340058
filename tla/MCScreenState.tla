---------------------------- MODULE MCScreenState ----------------------------
(* ScreenState for TLC: the three screens of the program. *)
EXTENDS ScreenState, TLC

CONSTANTS A, B, C

\* The mirror modes that the regie's settings dialog offers.
UIMirrorChoices ==
    [k \in Screens |-> IF k = MainScreen THEN {} ELSE {FREE, MainScreen}]

\* The payloads of live:set in the renderer: the start of a plan (Header), the
\* free mode (LiveContext, liveProjection) and, as the handler accepts them,
\* both blankings at once and a change of target under a blanking.
UILivePatches ==
    {[NoPatch EXCEPT !.planId = p, !.enabled = TRUE, !.cursor = 0] : p \in PlanIds \cup {Null}}
    \cup {[NoPatch EXCEPT !.planId = Null, !.enabled = TRUE, !.cursor = 0,
                          !.black = FALSE, !.white = FALSE],
          [NoPatch EXCEPT !.enabled = TRUE, !.black = FALSE, !.white = FALSE],
          [NoPatch EXCEPT !.black = TRUE, !.white = TRUE]}
    \cup {[NoPatch EXCEPT !.black = TRUE, !.target = k] : k \in Screens}
    \cup {[NoPatch EXCEPT !.white = TRUE, !.cursor = -1]}
=============================================================================
