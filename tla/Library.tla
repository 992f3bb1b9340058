------------------------------- MODULE Library -------------------------------
(***************************************************************************)
(* The libraries of the desktop application together: songs, media files   *)
(* and the documents that songs come from.  They share no state (a song    *)
(* file enters SongLibrary as the blocks that SongText gives it), so that  *)
(* a behaviour works with one of them, the one named by panel.             *)
(***************************************************************************)
EXTENDS SongText, SongLibrary, MediaLibrary

VARIABLE panel    \* the library that is worked with

vars == <<doc, libVars, mediaVars, panel>>

Init ==
    /\ DocInit /\ LibInit /\ MediaInit
    /\ panel \in {"documents", "songs", "media"}

Next ==
    \/ panel = "documents" /\ writeLine /\ UNCHANGED <<libVars, mediaVars, panel>>
    \/ panel = "songs" /\ LibraryStep /\ UNCHANGED <<doc, mediaVars, panel>>
    \/ panel = "media" /\ MediaStep /\ UNCHANGED <<doc, libVars, panel>>

Spec == Init /\ [][Next]_vars
=============================================================================
