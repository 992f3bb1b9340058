-------------------------------- MODULE Regie --------------------------------
(***************************************************************************)
(* The regie: its plan, its live session, its Bible panel and its songs.   *)
(* They keep state of their own and do not wait for each other, so that a  *)
(* behaviour is one of a panel while the others stand still, and the state *)
(* spaces add up.                                                          *)
(***************************************************************************)
EXTENDS PlanContext, LiveRegie, BibleTab, SongPanel

VARIABLE panel

workVars == <<planVars, vars, regieVars, bibleVars, songVars, panel>>

Panels == {"plan", "live", "passages", "search", "songList", "songEditor"}

Start ==
    /\ panel \in Panels
    /\ PlanInit /\ RegieInit /\ BibleInit /\ SongInit
    /\ panel # "live" =>
          liveState = createDefaultLiveState /\ mirrors = [k \in Screens |-> FREE]
    /\ panel = "songList" <=> songList = NoRead

Work ==
    \/ panel = "plan" /\ PlanStep /\ UNCHANGED <<vars, regieVars, bibleVars, songVars, panel>>
    \/ panel = "live" /\ LiveRegieStep /\ UNCHANGED <<planVars, bibleVars, songVars, panel>>
    \/ panel = "passages" /\ PassageStep /\ UNCHANGED <<planVars, vars, regieVars, songVars, panel>>
    \/ panel = "search" /\ SearchStep /\ UNCHANGED <<planVars, vars, regieVars, songVars, panel>>
    \/ panel = "songList" /\ ListStep /\ UNCHANGED <<planVars, vars, regieVars, bibleVars, panel>>
    \/ panel = "songEditor" /\ SongStep /\ UNCHANGED <<planVars, vars, regieVars, bibleVars, panel>>

\* The main process answers every call of the plan, with a result or an error,
\* and the regie goes on with the answer.
WorkSpec ==
    Start /\ [][Work]_workVars /\ \A c \in Chains : WF_planVars(panel = "plan" /\ Service(c))
=============================================================================
