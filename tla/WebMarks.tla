------------------------------ MODULE WebMarks ------------------------------
(***************************************************************************)
(* The marks of a user of the web application on a song: favourite         *)
(* (components/songs/FavoriteToggle.tsx, app/api/songs/[id]/favorite) and  *)
(* learning status (LearningSelect.tsx, app/api/songs/[id]/learning), in   *)
(* several tabs.  A component sends one request at a time and shows the    *)
(* new mark when it is answered.  An answer may be lost after the request  *)
(* was served: a proxy then answers with an error.                         *)
(***************************************************************************)
EXTENDS Naturals

CONSTANTS
    Tabs, Statuses,
    NoMark,      \* neither favourite nor learnt; no request
    MaxMarks     \* bound on the requests

VARIABLES
    mark,        \* the database
    tab,         \* what each tab shows, "not open" before it is opened
    asked,       \* the request of each tab
    marks,
    synced       \* history: see MarkShown

markVars == <<mark, tab, asked, marks, synced>>

Kinds == {"favorite", "learning"}

Mark == Statuses \cup {"yes", NoMark}

MarkRequest == [method : {"POST", "DELETE", "PUT"}, value : Mark, served : BOOLEAN]

ASSUME MarksAssumption == "not open" \notin Mark /\ NoMark \notin MarkRequest

NotOpen == [k \in Kinds |-> "not open"]

MarkInit ==
    /\ mark = [k \in Kinds |-> NoMark]
    /\ tab = [t \in Tabs |-> NotOpen]
    /\ asked = [t \in Tabs |-> [k \in Kinds |-> NoMark]]
    /\ marks = 0
    /\ synced = [t \in Tabs |-> [k \in Kinds |-> FALSE]]

\* A page that shows the song reads its marks.
openSong(t) ==
    /\ tab[t] = NotOpen
    /\ tab' = [tab EXCEPT ![t] = mark]
    /\ synced' = [synced EXCEPT ![t] = [k \in Kinds |-> TRUE]]
    /\ UNCHANGED <<mark, asked, marks>>

Ask(t, k, method, value) ==
    /\ tab[t] # NotOpen /\ asked[t][k] = NoMark
    /\ marks < MaxMarks /\ marks' = marks + 1
    /\ asked' = [asked EXCEPT ![t][k] = [method |-> method, value |-> value, served |-> FALSE]]
    /\ UNCHANGED <<mark, tab, synced>>

toggle(t) ==
    IF tab[t]["favorite"] = NoMark THEN Ask(t, "favorite", "POST", "yes")
                                   ELSE Ask(t, "favorite", "DELETE", NoMark)

handleChange(t, status) == Ask(t, "learning", "PUT", status)

favorite_Flip(method) == IF mark["favorite"] = NoMark THEN "yes" ELSE NoMark

\* POST is an upsert and DELETE a deleteMany: a request may be repeated.
favorite(method) == IF method = "POST" THEN "yes" ELSE NoMark

serveMark(t, k) ==
    /\ asked[t][k] # NoMark /\ ~asked[t][k].served
    /\ mark' = [mark EXCEPT ![k] = IF k = "favorite" THEN favorite(asked[t][k].method)
                                                     ELSE asked[t][k].value]
    /\ asked' = [asked EXCEPT ![t][k].served = TRUE]
    /\ synced' = [u \in Tabs |-> [synced[u] EXCEPT ![k] = u = t]]
    /\ UNCHANGED <<tab, marks>>

answerMark(t, k) ==
    /\ asked[t][k] # NoMark /\ asked[t][k].served
    /\ tab' = [tab EXCEPT ![t][k] = asked[t][k].value]
    /\ asked' = [asked EXCEPT ![t][k] = NoMark]
    /\ UNCHANGED <<mark, marks, synced>>

\* The request, or only its answer, is lost: a message, and the mark stays.
loseMark(t, k) ==
    /\ asked[t][k] # NoMark
    /\ asked' = [asked EXCEPT ![t][k] = NoMark]
    /\ synced' = [synced EXCEPT ![t][k] = @ /\ ~asked[t][k].served]
    /\ UNCHANGED <<mark, tab, marks>>

MarkStep ==
    \E t \in Tabs :
        \/ openSong(t) \/ toggle(t)
        \/ \E status \in Statuses : handleChange(t, status)
        \/ \E k \in Kinds : serveMark(t, k) \/ answerMark(t, k) \/ loseMark(t, k)

-----------------------------------------------------------------------------
(* Properties *)

\* A tab whose request was the last one served, and answered, shows what the
\* database has: also when it repeats a request whose answer was lost, and when
\* another tab had set the same mark before.
MarkShown ==
    \A t \in Tabs, k \in Kinds :
        synced[t][k] /\ asked[t][k] = NoMark => tab[t][k] = mark[k]
=============================================================================
