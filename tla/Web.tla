--------------------------------- MODULE Web ---------------------------------
(***************************************************************************)
(* The web application: songs and plans, accounts, marks.  The three have  *)
(* no state in common, so that a behaviour is one of the part named by     *)
(* section and the state spaces add up.                                    *)
(***************************************************************************)
EXTENDS WebContent, WebUsers, WebMarks

VARIABLE section

webVars == <<contentVars, userVars, markVars, section>>

WebInit ==
    /\ section \in {"content", "users", "marks"}
    /\ ContentInit /\ UserInit /\ MarkInit
    /\ section # "content" => kind = "song"

WebNext ==
    \/ section = "content" /\ ContentStep /\ UNCHANGED <<userVars, markVars, section>>
    \/ section = "users" /\ UserStep /\ UNCHANGED <<contentVars, markVars, section>>
    \/ section = "marks" /\ MarkStep /\ UNCHANGED <<contentVars, userVars, section>>

WebSpec == WebInit /\ [][WebNext]_webVars
=============================================================================
