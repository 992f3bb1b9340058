----------------------------- MODULE MediaLibrary -----------------------------
(***************************************************************************)
(* The media files of the library folder (main/main.ts, files:* handlers,  *)
(* with main/library.ts and main/ipc/fileUtils.ts).                        *)
(*                                                                         *)
(* Each handler asks for the folder first and then works on the file in    *)
(* several awaited steps, so that two calls of the regie may interleave    *)
(* between a check and the step it protects.  Files of one kind and one    *)
(* subfolder are modelled; a name of another kind is refused by the        *)
(* handlers before anything happens.                                       *)
(***************************************************************************)
EXTENDS Naturals, FiniteSets

CONSTANTS
    Roots,        \* folders that may be the library
    FileNames,    \* names of media files
    Sources,      \* files elsewhere that may be picked: [name, data, valid]
    Calls,        \* calls under way at a time
    NoFile,       \* no file of that name
    MaxCalls      \* bound on the calls

ASSUME MediaAssumption == Roots # {} /\ \A s \in Sources : s.name \in FileNames

VARIABLES
    disk,       \* disk[r][n]: the content of file n in folder r
    rootDir,    \* the library folder of the settings
    call,       \* the calls under way
    listed,     \* the last answer of files:listMedia: names, or "failed"
    calls       \* calls so far

mediaVars == <<disk, rootDir, call, listed, calls>>

Idle == [op |-> "idle"]

MediaInit ==
    /\ disk = [r \in Roots |-> [n \in FileNames |-> NoFile]]
    /\ rootDir = CHOOSE r \in Roots : TRUE
    /\ call = [c \in Calls |-> Idle]
    /\ listed = {}
    /\ calls = 0

Files(r) == {n \in FileNames : disk[r][n] # NoFile}

Begin(c, record) ==
    /\ call[c] = Idle
    /\ calls < MaxCalls /\ calls' = calls + 1
    /\ call' = [call EXCEPT ![c] = record]

Done(c) == call' = [call EXCEPT ![c] = Idle]

\* A file of folder r appears or goes: what the other calls have seen is out of date.
Touch(c, r, names) ==
    call' = [d \in Calls |-> IF d = c THEN Idle
                             ELSE IF call[d] # Idle /\ call[d].root = r
                             THEN [call[d] EXCEPT !.stale = @ \cup names] ELSE call[d]]

\* The target gets the name of the source and is replaced if it is there.  A font
\* is only taken when its header is one of a font.
pickMedia(c) ==
    /\ \E s \in Sources :
        /\ s.valid
        /\ Begin(c, [op |-> "copy", root |-> rootDir, name |-> s.name, data |-> s.data, stale |-> {}])
    /\ UNCHANGED <<disk, rootDir, listed>>

copyFile(c) ==
    /\ call[c].op = "copy"
    /\ disk' = [disk EXCEPT ![call[c].root][call[c].name] = call[c].data]
    /\ Touch(c, call[c].root, {call[c].name})
    /\ UNCHANGED <<rootDir, listed, calls>>

renameMedia_NoCheck(c, from, to) ==
    /\ from # to
    /\ disk[rootDir][from] # NoFile
    /\ Begin(c, [op |-> "rename", root |-> rootDir, name |-> from, to |-> to, stale |-> {}])
    /\ UNCHANGED <<disk, rootDir, listed>>

\* The file must be there and no file may have the new name ...
renameMedia(c, from, to) ==
    /\ from # to
    /\ disk[rootDir][from] # NoFile
    /\ disk[rootDir][to] = NoFile
    /\ Begin(c, [op |-> "rename", root |-> rootDir, name |-> from, to |-> to, stale |-> {}])
    /\ UNCHANGED <<disk, rootDir, listed>>

\* ... and then the operating system renames it, over a file of that name.
renameFile(c) ==
    /\ call[c].op = "rename"
    /\ LET r == call[c].root  n == call[c].name
       IN  IF disk[r][n] = NoFile THEN Done(c) /\ UNCHANGED disk
           ELSE /\ disk' = [disk EXCEPT ![r][call[c].to] = disk[r][n], ![r][n] = NoFile]
                /\ Touch(c, r, {n, call[c].to})
    /\ UNCHANGED <<rootDir, listed, calls>>

\* pathExists, then unlink
deleteMedia(c, n) ==
    /\ disk[rootDir][n] # NoFile
    /\ Begin(c, [op |-> "unlink", root |-> rootDir, name |-> n, stale |-> {}])
    /\ UNCHANGED <<disk, rootDir, listed>>

unlinkFile(c) ==
    /\ call[c].op = "unlink"
    /\ disk' = [disk EXCEPT ![call[c].root][call[c].name] = NoFile]
    /\ Touch(c, call[c].root, {call[c].name})
    /\ UNCHANGED <<rootDir, listed, calls>>

\* readdir of the folder ...
listMedia(c) ==
    /\ Begin(c, [op |-> "list", root |-> rootDir, names |-> Files(rootDir),
                 left |-> Files(rootDir), stale |-> {}])
    /\ UNCHANGED <<disk, rootDir, listed>>

Answer(c, names, failed) ==
    listed' = [root |-> call[c].root, names |-> names, failed |-> failed] /\ Done(c)

statFile_OnlyLeft(c) ==
    /\ call[c].op = "list"
    /\ \/ call[c].left = {} /\ Answer(c, call[c].left, FALSE)
       \/ \E n \in call[c].left :
            IF disk[call[c].root][n] = NoFile THEN Answer(c, {}, TRUE)
            ELSE call' = [call EXCEPT ![c].left = @ \ {n}] /\ UNCHANGED listed
    /\ UNCHANGED <<disk, rootDir, calls>>

\* ... and stat of each name; one that is gone makes the whole call fail.
statFile(c) ==
    /\ call[c].op = "list"
    /\ \/ call[c].left = {} /\ Answer(c, call[c].names, FALSE)
       \/ \E n \in call[c].left :
            IF disk[call[c].root][n] = NoFile THEN Answer(c, {}, TRUE)
            ELSE call' = [call EXCEPT ![c].left = @ \ {n}] /\ UNCHANGED listed
    /\ UNCHANGED <<disk, rootDir, calls>>

chooseLibraryDir(r) ==
    /\ r # rootDir
    /\ calls < MaxCalls /\ calls' = calls + 1
    /\ rootDir' = r
    /\ UNCHANGED <<disk, call, listed>>

MediaStep ==
    \/ \E c \in Calls : \/ pickMedia(c) \/ copyFile(c) \/ renameFile(c) \/ unlinkFile(c)
                        \/ listMedia(c) \/ statFile(c)
                        \/ \E n \in FileNames : deleteMedia(c, n)
                        \/ \E n, m \in FileNames : renameMedia(c, n, m)
    \/ \E r \in Roots : chooseLibraryDir(r)

-----------------------------------------------------------------------------
(* Properties *)

\* A rename never takes the content of a file away, unless that file appeared after
\* renameMedia had looked for it (main.ts 923-927), and it renames the file that it
\* looked at or one that took its place: no other name changes.
RenameKeepsFiles ==
    [][\A c \in Calls :
        call[c].op = "rename" /\ call'[c] = Idle /\ disk' # disk =>
            LET r == call[c].root
            IN  /\ disk[r][call[c].to] # NoFile => call[c].to \in call[c].stale
                /\ disk'[r][call[c].to] = disk[r][call[c].name]
                /\ \A n \in FileNames \ {call[c].name, call[c].to} : disk'[r][n] = disk[r][n]
                /\ \A q \in Roots \ {r} : disk'[q] = disk[q]]_mediaVars

\* A file that files:listMedia answers with is in the folder that was the library
\* when the call came, unless another call took it away meanwhile, and the call only
\* fails for a file that went away while it ran (library.ts 102-111).
ListIsTrue ==
    [][\A c \in Calls :
        call[c].op = "list" /\ call'[c] = Idle =>
            /\ listed'.names \subseteq Files(call[c].root) \cup call[c].stale
            /\ Files(call[c].root) \ call[c].stale \subseteq listed'.names \/ listed'.failed
            /\ listed'.failed => call[c].stale \cap call[c].names # {}]_mediaVars
=============================================================================
