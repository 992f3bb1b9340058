------------------------------ MODULE MCStartup ------------------------------
(* Startup for TLC: the shipped migrations over files of any earlier version. *)
EXTENDS Startup, MigrationFiles

\* Plan items with any numbers, repeated ones included.
AnyOrders == [Items -> 1..2]

\* What the regie is used for: the remote control server or the media folder.
\* Neither looks at the other's state.
VARIABLE used

UseInit == Init /\ used \in {"server", "folder"}

UseNext ==
    \/ Boot /\ UNCHANGED used
    \/ used = "server" /\ At("ready") /\ ServerStep /\ UNCHANGED <<migVars, folderVars, used>>
    \/ used = "folder" /\ (\E c \in Calls : FolderStep(c)) /\ UNCHANGED used
    \/ stopApplication /\ UNCHANGED used

\* The behaviours of Spec that use one of them, with the same fairness.
UseSpec ==
    /\ UseInit /\ [][UseNext]_<<vars, used>>
    /\ WF_<<vars, used>>(Boot /\ UNCHANGED used)
    /\ \A s \in Servers :
         WF_<<vars, used>>(/\ At("ready") /\ (listening(s) \/ serverError(s))
                           /\ UNCHANGED <<migVars, folderVars, used>>)
=============================================================================
