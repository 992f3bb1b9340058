------------------------------ MODULE SongPanel ------------------------------
(***************************************************************************)
(* The songs of the regie: the list with its search and its order          *)
(* (components/source/SongsTab.tsx), the panel of a song                   *)
(* (SongDetailPanel.tsx in MainPage.tsx's inspector) and the dialog that   *)
(* edits or makes one (dialogs/SongEditorDialog.tsx).                      *)
(*                                                                         *)
(* A read is served by the main process at one moment and answered at a    *)
(* later one; reads overlap and are answered in any order.  A dialog is    *)
(* modal; one save is modelled at a time and the panel stays open, with    *)
(* one dialog for all the songs: its fields keep what they hold until a    *)
(* read is answered.  A title and the blocks are values that know the song *)
(* they were written for.                                                  *)
(***************************************************************************)
EXTENDS Naturals

CONSTANTS
    SongIds,      \* 1..n; the first two are there at the start
    SearchWords,  \* what may be typed, "" for an empty field
    Orders,       \* CpSongSortField
    Reads,        \* the reads that can be under way together
    NoSong, NoRead,
    NotServed,    \* the answer of a read that the main process has not served
    MaxMoves,     \* bound on what the user does, and on the calls that are rejected
    MaxBreaks     \* bound on the calls that are rejected

VARIABLES
    songs,        \* the database
    query, sortBy, listTimer, songList,
    songId,       \* the song of the inspector
    song,         \* the song that the panel shows
    dialog,       \* "closed", "edit" (the panel's) or "new" (the list's)
    fields,       \* what the panel's dialog holds
    fieldsLoading,
    save,         \* the save under way
    reads,
    moves, breaks,
    made,         \* history: the songs that the dialog made
    listMixed, songMixed, hasty   \* history: see the properties

listVars == <<query, sortBy, listTimer, songList, listMixed>>

panelVars == <<songId, song, fields, fieldsLoading, songMixed, hasty>>

songVars == <<songs, listVars, panelVars, dialog, save, reads, moves, breaks, made>>

\* A value of a song, and the version of it that the user wrote.
written(i, v) == [of |-> i, v |-> v]

NoFields == [title |-> NoSong, blocks |-> NoSong]

Stored == {i \in SongIds : songs[i] # NoSong}

\* The values that the variables take.
Text == [title : [of : SongIds, v : {0, 1}], blocks : [of : SongIds, v : {0, 1}]]

ListArg == [q : SearchWords, sort : Orders]

SongList == [q : SearchWords, sort : Orders, ids : SUBSET SongIds]

Read ==
    [kind : {"list", "import", "song", "fields"}, arg : ListArg \cup SongIds,
     answer : {NotServed} \cup (SUBSET SongIds) \cup Text]

Saving ==
    [id : SongIds \cup {NoSong}, stage : {"meta", "blocks", "create", "newBlocks"},
     fields : Text \cup {NoFields}, shown : SongIds \cup {NoSong}]

ASSUME SongAssumption ==
    /\ {1, 2} \subseteq SongIds /\ SongIds \subseteq Nat \ {0}
    /\ "" \in SearchWords /\ "title" \in Orders
    /\ NoSong \notin SongIds /\ NoSong \notin Text /\ NoFields \notin Text
    /\ NoSong \notin [id : SongIds, text : Text]
    /\ NoRead \notin ListArg /\ NoRead \notin SongList /\ NoRead \notin Read
    /\ NoRead \notin Saving

newRead(kind, arg) == [kind |-> kind, arg |-> arg, answer |-> NotServed]

Reading(kinds) == {r \in Reads : reads[r] # NoRead /\ reads[r].kind \in kinds}

\* The list was just shown, or is there.
SongInit ==
    /\ songs = [i \in SongIds |-> IF i <= 2 THEN [title |-> written(i, 0), blocks |-> written(i, 0)]
                                  ELSE NoSong]
    /\ query = "" /\ sortBy = "title" /\ listTimer = NoRead
    /\ \/ /\ songList = NoRead
          /\ reads = [r \in Reads |-> IF r = 1 THEN newRead("list", [q |-> "", sort |-> "title"])
                                     ELSE NoRead]
       \/ /\ songList = [q |-> "", sort |-> "title", ids |-> {1, 2}]
          /\ reads = [r \in Reads |-> NoRead]
    /\ songId = NoSong /\ song = NoSong
    /\ dialog = "closed" /\ fields = NoFields /\ fieldsLoading = FALSE
    /\ save = NoRead
    /\ moves = 0 /\ breaks = 0
    /\ made = {}
    /\ listMixed = FALSE /\ songMixed = FALSE /\ hasty = FALSE

Move == dialog = "closed" /\ moves + breaks < MaxMoves /\ moves' = moves + 1

\* The slots are interchangeable: the first free one is used.
Ask(r, kind, arg) ==
    /\ reads[r] = NoRead /\ 1..(r - 1) \cap {s \in Reads : reads[s] = NoRead} = {}
    /\ reads' = [reads EXCEPT ![r] = newRead(kind, arg)]

-----------------------------------------------------------------------------
(***************************************************************************)
(* The list.                                                               *)
(***************************************************************************)
ListReads == Reading({"list", "import"})

\* Each key starts the 150 ms again, with the order of the moment.
handleSearch(q) ==
    /\ Move /\ q # query
    /\ query' = q
    /\ listTimer' = [q |-> q, sort |-> sortBy]
    /\ listMixed' = FALSE
    /\ UNCHANGED <<songs, sortBy, songList, panelVars, dialog, save, reads, breaks, made>>

searchStarts(r) ==
    /\ listTimer # NoRead
    /\ listMixed' = (listMixed \/ ListReads # {})
    /\ Ask(r, "list", listTimer)
    /\ listTimer' = NoRead
    /\ UNCHANGED <<songs, query, sortBy, songList, panelVars, dialog, save, moves, breaks, made>>

\* The search that waits is not taken back.
handleClearSearch(r) ==
    /\ Move /\ query # ""
    /\ query' = ""
    /\ listMixed' = (ListReads # {} \/ listTimer # NoRead)
    /\ Ask(r, "list", [q |-> "", sort |-> sortBy])
    /\ UNCHANGED <<songs, sortBy, listTimer, songList, panelVars, dialog, save, breaks, made>>

\* The effect of sortBy reads the whole list, whatever the search field has.
handleSortChange(r, sort) ==
    /\ Move /\ sort # sortBy
    /\ sortBy' = sort
    /\ listMixed' = (ListReads # {} \/ listTimer # NoRead \/ query # "")
    /\ Ask(r, "list", [q |-> "", sort |-> sort])
    /\ UNCHANGED <<songs, query, listTimer, songList, panelVars, dialog, save, breaks, made>>

\* songs:importAuto waits for the user and the files ...
importAuto(r) ==
    /\ Move
    /\ listMixed' = (listMixed \/ ListReads # {} \/ listTimer # NoRead)
    /\ Ask(r, "import", [q |-> query, sort |-> sortBy])
    /\ UNCHANGED <<songs, query, sortBy, listTimer, songList, panelVars, dialog, save, breaks, made>>

importEnds_NoRefresh(r) ==
    /\ reads[r] # NoRead /\ reads[r].kind = "import"
    /\ \/ \E i \in SongIds \ Stored :
             songs' = [songs EXCEPT ![i] = [title |-> written(i, 0), blocks |-> written(i, 0)]]
       \/ UNCHANGED songs
    /\ reads' = [reads EXCEPT ![r] = NoRead]
    /\ UNCHANGED <<listVars, panelVars, dialog, save, moves, breaks, made>>

\* ... and the list is read with the search of the moment when it was asked for.
importEnds(r) ==
    /\ reads[r] # NoRead /\ reads[r].kind = "import"
    /\ \/ /\ \E i \in SongIds \ Stored :
                songs' = [songs EXCEPT ![i] = [title |-> written(i, 0), blocks |-> written(i, 0)]]
          /\ reads' = [reads EXCEPT ![r] = newRead("list", @.arg)]
          /\ listMixed' = (listMixed \/ ListReads # {r} \/ listTimer # NoRead \/ query # reads[r].arg.q)
       \/ /\ reads' = [reads EXCEPT ![r] = NoRead]
          /\ UNCHANGED <<songs, listMixed>>
    /\ UNCHANGED <<query, sortBy, listTimer, songList, panelVars, dialog, save, moves, breaks, made>>

-----------------------------------------------------------------------------
(***************************************************************************)
(* The panel of a song and its dialog.                                     *)
(***************************************************************************)
Listed == IF songList = NoRead THEN {} ELSE songList.ids

\* The panel stays mounted: the song shown is the former one until the answer.
openSongInspector(r, i) ==
    /\ Move /\ i \in Listed /\ i # songId
    /\ songId' = i
    /\ songMixed' = (Reading({"song"}) # {})
    /\ Ask(r, "song", i)
    /\ UNCHANGED <<songs, listVars, song, fields, fieldsLoading, hasty, dialog, save, breaks, made>>

openEditor_KeepsFields(r) ==
    /\ Move /\ song # NoSong
    /\ dialog' = "edit"
    /\ IF fields # NoFields THEN UNCHANGED <<reads, fieldsLoading, hasty>>
       ELSE /\ hasty' = (hasty \/ Reading({"fields"}) # {})
            /\ Ask(r, "fields", song.id) /\ fieldsLoading' = TRUE
    /\ UNCHANGED <<songs, listVars, songId, song, fields, songMixed, save, breaks, made>>

\* The dialog is that of the song shown, and reads it again.
openEditor(r) ==
    /\ Move /\ song # NoSong
    /\ dialog' = "edit"
    /\ hasty' = (hasty \/ Reading({"fields"}) # {})
    /\ Ask(r, "fields", song.id)
    /\ fieldsLoading' = TRUE
    /\ UNCHANGED <<songs, listVars, songId, song, fields, songMixed, save, breaks, made>>

onCreateSong ==
    /\ Move
    /\ dialog' = "new"
    /\ UNCHANGED <<songs, listVars, panelVars, save, reads, breaks, made>>

\* A save that is under way goes on.
closeDialog ==
    /\ dialog # "closed"
    /\ dialog' = "closed"
    /\ UNCHANGED <<songs, listVars, panelVars, save, reads, moves, breaks, made>>

\* The fields are there when nothing is being read; the user edits the title and the blocks.
updateFields ==
    /\ dialog = "edit" /\ ~fieldsLoading /\ fields # NoFields
    /\ fields' = [fields EXCEPT !.title.v = 1, !.blocks.v = 1]
    /\ UNCHANGED <<songs, listVars, songId, song, fieldsLoading, songMixed, hasty, dialog, save,
                   reads, moves, breaks, made>>

\* The button of the dialog is there while its song is being read.  The fields of
\* a new song are all the user's.
handleSongSave ==
    /\ dialog # "closed" /\ save = NoRead
    /\ dialog = "edit" => fields # NoFields
    /\ save' = IF dialog = "edit"
               THEN [id |-> song.id, stage |-> "meta", fields |-> fields, shown |-> songId]
               ELSE [id |-> NoSong, stage |-> "create", fields |-> NoFields, shown |-> NoSong]
    /\ hasty' = (hasty \/ (dialog = "edit" /\ fieldsLoading))
    /\ UNCHANGED <<songs, listVars, songId, song, fields, fieldsLoading, songMixed, dialog, reads,
                   moves, breaks, made>>

\* songs:updateMeta, or songs:create with its two empty blocks.
saveMeta ==
    /\ save # NoRead
    /\ \/ /\ save.stage = "meta"
          /\ songs' = [songs EXCEPT ![save.id].title = save.fields.title]
          /\ save' = [save EXCEPT !.stage = "blocks"]
          /\ UNCHANGED made
       \/ /\ save.stage = "create"
          /\ \E i \in SongIds \ Stored :
                /\ songs' = [songs EXCEPT ![i] = [title |-> written(i, 0), blocks |-> written(i, 0)]]
                /\ save' = [save EXCEPT !.stage = "newBlocks", !.id = i]
                /\ made' = made \cup {i}
    /\ UNCHANGED <<listVars, panelVars, dialog, reads, moves, breaks>>

\* songs:replaceBlocks, then onSaved and onClose of the moment when the button was
\* pressed: the panel reads its song again, the list reads nothing.
saveBlocks(r) ==
    /\ save # NoRead
    /\ \/ /\ save.stage = "blocks"
          /\ songs' = [songs EXCEPT ![save.id].blocks = save.fields.blocks]
          /\ Ask(r, "song", save.shown)
          /\ songMixed' = (Reading({"song"}) # {} \/ save.shown # songId)
          /\ dialog' = IF dialog = "edit" THEN "closed" ELSE dialog
       \/ /\ save.stage = "newBlocks"
          /\ songs' = [songs EXCEPT ![save.id].blocks = written(save.id, 1)]
          /\ dialog' = IF dialog = "new" THEN "closed" ELSE dialog
          /\ songMixed' = (songMixed \/ save.id = songId)
          /\ UNCHANGED reads
    /\ save' = NoRead
    /\ UNCHANGED <<listVars, songId, song, fields, fieldsLoading, hasty, moves, breaks, made>>

\* A message; the dialog stays, the title may have been written.
saveFails ==
    /\ save # NoRead /\ breaks < MaxBreaks /\ moves + breaks < MaxMoves
    /\ breaks' = breaks + 1
    /\ songMixed' = (songMixed \/ save.stage = "blocks")
    /\ save' = NoRead
    /\ UNCHANGED <<songs, listVars, songId, song, fields, fieldsLoading, hasty, dialog, reads,
                   moves, made>>

-----------------------------------------------------------------------------
(***************************************************************************)
(* songs:list and songs:get.                                               *)
(***************************************************************************)
serveSongs(r) ==
    /\ reads[r] # NoRead /\ reads[r].kind # "import" /\ reads[r].answer = NotServed
    /\ reads' = [reads EXCEPT ![r].answer = IF reads[r].kind = "list" THEN Stored
                                                   ELSE songs[reads[r].arg]]
    /\ UNCHANGED <<songs, listVars, panelVars, dialog, save, moves, breaks, made>>

Answered(r, kind) ==
    /\ reads[r] # NoRead /\ reads[r].kind = kind /\ reads[r].answer # NotServed
    /\ UNCHANGED <<songs, save, moves, breaks, made>>

loadSongs(r) ==
    /\ Answered(r, "list")
    /\ songList' = [q |-> reads[r].arg.q, sort |-> reads[r].arg.sort, ids |-> reads[r].answer]
    /\ reads' = [reads EXCEPT ![r] = NoRead]
    /\ UNCHANGED <<query, sortBy, listTimer, listMixed, panelVars, dialog>>

\* A dialog that is open on another song reads its own again.
loadSong(r) ==
    /\ Answered(r, "song")
    /\ song' = [id |-> reads[r].arg, text |-> reads[r].answer]
    /\ IF dialog = "edit" /\ song.id # reads[r].arg
       THEN /\ reads' = [reads EXCEPT ![r] = newRead("fields", reads[r].arg)]
            /\ fieldsLoading' = TRUE
            /\ hasty' = (hasty \/ Reading({"fields"}) # {})
       ELSE /\ reads' = [reads EXCEPT ![r] = NoRead]
            /\ UNCHANGED <<fieldsLoading, hasty>>
    /\ UNCHANGED <<listVars, songId, fields, songMixed, dialog>>

loadFields(r) ==
    /\ Answered(r, "fields")
    /\ fields' = reads[r].answer
    /\ fieldsLoading' = FALSE
    /\ reads' = [reads EXCEPT ![r] = NoRead]
    /\ UNCHANGED <<listVars, songId, song, songMixed, hasty, dialog>>

\* The list and the song stay, the fields stay and are offered again.
readFails(r) ==
    /\ reads[r] # NoRead /\ breaks < MaxBreaks /\ moves + breaks < MaxMoves
    /\ breaks' = breaks + 1
    /\ listMixed' = (listMixed \/ reads[r].kind = "list")
    /\ songMixed' = (songMixed \/ reads[r].kind = "song")
    /\ hasty' = (hasty \/ reads[r].kind = "fields")
    /\ fieldsLoading' = (fieldsLoading /\ reads[r].kind # "fields")
    /\ reads' = [reads EXCEPT ![r] = NoRead]
    /\ UNCHANGED <<songs, query, sortBy, listTimer, songList, songId, song, fields, dialog, save,
                   moves, made>>

-----------------------------------------------------------------------------
ReadStep == \E r \in Reads : serveSongs(r) \/ loadSongs(r) \/ readFails(r)

ListStep ==
    \/ \E q \in SearchWords : handleSearch(q)
    \/ \E r \in Reads :
          \/ searchStarts(r) \/ handleClearSearch(r) \/ importAuto(r) \/ importEnds(r)
          \/ \E sort \in Orders : handleSortChange(r, sort)
    \/ ReadStep

SongStep ==
    \/ \E r \in Reads :
          \/ openEditor(r) \/ saveBlocks(r) \/ loadSong(r) \/ loadFields(r)
          \/ \E i \in SongIds : openSongInspector(r, i)
    \/ onCreateSong \/ closeDialog \/ handleSongSave \/ saveMeta \/ saveFails
    \/ updateFields
    \/ ReadStep

-----------------------------------------------------------------------------
(* Properties *)

\* When nothing is under way the list is that of the search field and of the order
\* chosen, with every song that was imported, and the panel shows the song that was
\* selected as the database has it.  The exceptions that the code has: a search or
\* an order that overlaps another or that is asked for while a key still waits, the
\* order changed during a search (SongsTab.tsx 65 reads the whole list), a call that
\* failed, a song selected while another is read or saved (SongDetailPanel.tsx 57).
\* The songs of the dialog are listed with the next read only.
SongsShown ==
    /\ ListReads = {} /\ listTimer = NoRead /\ songList # NoRead /\ ~listMixed =>
            /\ songList.q = query /\ songList.sort = sortBy
            /\ Stored \ made \subseteq songList.ids
    /\ Reading({"song"}) = {} /\ save = NoRead /\ songId # NoSong /\ ~songMixed =>
            song.id = songId /\ song.text = songs[songId]

\* The dialog is used for one song after the other, closed while it reads or saves,
\* and opened on a panel whose answers come late: no song ever gets the title or the
\* blocks of another one.  hasty are the cases in which the code lets it happen: the
\* button is pressed while the song is still read (SongEditorDialog.tsx 280), two
\* reads of the dialog overlap, or a read fails and the former fields stay.
SongEdited ==
    ~hasty => \A i \in Stored : songs[i].title.of = i /\ songs[i].blocks.of = i
=============================================================================
