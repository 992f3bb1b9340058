----------------------------- MODULE WebContent -----------------------------
(***************************************************************************)
(* Songs and plans of the web application: the forms of the browsers       *)
(* (components/songs/SongForm.tsx and ImportClient.tsx,                    *)
(* components/plans/PlanFormClient.tsx) and the API that they call         *)
(* (app/api/songs, app/api/plans) on the PostgreSQL database that the      *)
(* desktop applications share.                                             *)
(*                                                                         *)
(* A document is a song or a plan: a key that the database keeps unique,   *)
(* deleted documents included (title, date), and rows that it keeps unique *)
(* by their order (blocks, items).  A route reads, and writes later.  A    *)
(* transaction that replaces rows deletes those that it sees and inserts   *)
(* others; under READ COMMITTED it does not see what is committed between. *)
(* The users have the roles that the routes ask for (WebUsers has those).  *)
(***************************************************************************)
EXTENDS Naturals, FiniteSets, Sequences

CONSTANTS
    Browsers,
    DocIds,      \* 1..n; the first is there and the second deleted at the start
    Keys,        \* titles or dates, numbered like the documents that have them
    Batch,       \* the songs of the files that are imported
    NoDoc, NoForm, NoRequest, NoResult,
    MaxSubmits   \* bound on the requests, and on the edits of the forms

VARIABLES
    kind,        \* "song" or "plan": what a behaviour is about
    docs,        \* the database
    form,        \* the form that is open in each browser
    request,     \* what its submission has under way
    submits, formEdits,
    result       \* history: the last submission that ended well, alone on its document

contentVars == <<kind, docs, form, request, submits, formEdits, result>>

\* What a row holds: the fields that the web application takes, as one value, and
\* whether the desktop application has written others (refSubId, notes, mediaPath,
\* secondaryContent, backgroundConfig, or a refId that is not a song's).
text(words, more) == [words |-> words, more |-> more]

\* save tells the rows of a save from the equal rows of another one: the number
\* of the submission and, for an import, how many songs were left after this one.
row(order, txt, save) == [order |-> order, text |-> txt, save |-> save]

Unsaved == <<0, 0>>

\* The values that the variables take.
Words ==
    Browsers \cup {"p", "q"}
        \cup UNION {{Batch[i].rows[j].text.words : j \in DOMAIN Batch[i].rows} : i \in DOMAIN Batch}

Text == [words : Words, more : BOOLEAN]

SavedRow == [order : Nat, text : Text, save : Nat \X Nat]

Document == [key : Keys, deleted : BOOLEAN, rows : SUBSET SavedRow]

Form == [id : DocIds \cup {0}, key : Keys, rows : Seq(SavedRow)]

Song == [key : Keys, rows : Seq(SavedRow)]

Steps == {"checkKey", "create", "checkDoc", "update", "lock", "delete", "insert", "next"}

Request ==
    [id : DocIds \cup {0}, key : Keys \cup {0}, rows : SUBSET SavedRow, todo : Seq(Steps),
     seen : SUBSET SavedRow, alone : BOOLEAN, mode : {"none", "IGNORE", "OVERWRITE"},
     left : Seq(Song), save : Nat]

Result ==
    [id : DocIds \cup {0}, key : Keys \cup {0}, rows : SUBSET SavedRow,
     mode : {"none", "IGNORE", "OVERWRITE"}]

ASSUME ContentAssumption ==
    /\ DocIds \subseteq Nat \ {0} /\ {1, 2} \subseteq Keys
    /\ "nobody" \notin Browsers
    /\ Batch \in Seq(Song) /\ MaxSubmits \in Nat
    /\ NoDoc \notin Document /\ NoForm \notin Form
    /\ NoRequest \notin Request /\ NoResult \notin Result

Visible == {d \in DocIds : docs[d] # NoDoc /\ ~docs[d].deleted}

\* The desktop numbers rows from 1, and writes all the fields of an item.
ContentInit ==
    /\ kind \in {"song", "plan"}
    /\ docs = [d \in DocIds |->
                 IF d = 1 THEN [key |-> 1, deleted |-> FALSE,
                                rows |-> {row(1, text("p", kind = "plan"), Unsaved),
                                         row(2, text("q", kind = "plan"), Unsaved)}]
                 ELSE IF d = 2 THEN [key |-> 2, deleted |-> TRUE, rows |-> {}] ELSE NoDoc]
    /\ form = [c \in Browsers |-> NoForm]
    /\ request = [c \in Browsers |-> NoRequest]
    /\ submits = 0 /\ formEdits = 0
    /\ result = [c \in Browsers |-> NoResult]

-----------------------------------------------------------------------------
(***************************************************************************)
(* The forms.  A browser works on its form until the submission ends well. *)
(***************************************************************************)
Edits(c) == request[c] = NoRequest /\ UNCHANGED <<kind, docs, request, submits, result>>

openNew(c, key) ==
    /\ Edits(c) /\ form[c] = NoForm
    /\ form' = [form EXCEPT ![c] = [id |-> 0, key |-> key, rows |-> <<>>]]
    /\ UNCHANGED formEdits

Sorted(all) ==
    {rows \in [1..Cardinality(all) -> all] :
        \A i, j \in DOMAIN rows : i < j => rows[i].order < rows[j].order}

\* The rows in their order, each with the order that the database has.
openEdit(c, d) ==
    /\ Edits(c) /\ form[c] = NoForm /\ d \in Visible
    /\ \E rows \in Sorted(docs[d].rows) :
          form' = [form EXCEPT ![c] = [id |-> d, key |-> docs[d].key, rows |-> rows]]
    /\ UNCHANGED formEdits

EditForm(c) ==
    /\ Edits(c) /\ form[c] # NoForm
    /\ formEdits < MaxSubmits /\ formEdits' = formEdits + 1

addRow(c) ==
    /\ EditForm(c)
    /\ form' = [form EXCEPT ![c].rows = Append(@, row(Len(@), text(c, FALSE), Unsaved))]

removeRow(c, i) ==
    /\ EditForm(c) /\ i \in 1..Len(form[c].rows)
    /\ form' = [form EXCEPT ![c].rows =
                  [j \in 1..(Len(@) - 1) |->
                      row(j - 1, IF j < i THEN @[j].text ELSE @[j + 1].text, Unsaved)]]

setKey(c, key) ==
    /\ EditForm(c) /\ key # form[c].key
    /\ form' = [form EXCEPT ![c].key = key]

\* What is sent is numbered from 0, whatever the orders in the form.
payload_KeepsOrder(rows, save) == {row(rows[i].order, rows[i].text, save) : i \in 1..Len(rows)}

payload(rows, save) == {row(i - 1, rows[i].text, save) : i \in 1..Len(rows)}

-----------------------------------------------------------------------------
(***************************************************************************)
(* Submissions.  A request is a list of routes, each answered before the   *)
(* next is called; todo is what is left of the one under way.              *)
(***************************************************************************)
newRequest(id, key, rows, todo) ==
    [id |-> id, key |-> key, rows |-> rows, todo |-> todo, seen |-> {}, alone |-> TRUE,
     mode |-> "none", left |-> <<>>, save |-> submits + 1]

Submit(c, r) ==
    /\ request[c] = NoRequest /\ submits < MaxSubmits
    /\ submits' = submits + 1
    /\ request' = [request EXCEPT ![c] = r]
    /\ result' = [result EXCEPT ![c] = NoResult]
    /\ UNCHANGED <<kind, docs, form, formEdits>>

submitSong(c) ==
    /\ kind = "song" /\ form[c] # NoForm /\ form[c].rows # <<>>
    /\ Submit(c, newRequest(form[c].id, form[c].key, payload(form[c].rows, <<submits + 1, 0>>),
                            IF form[c].id = 0 THEN <<"checkKey", "create">>
                            ELSE <<"checkDoc", "lock", "delete", "insert">>))

submitPlan_IgnoresItems(c) ==
    /\ kind = "plan" /\ form[c] # NoForm
    /\ Submit(c, newRequest(form[c].id, form[c].key, payload(form[c].rows, <<submits + 1, 0>>),
                            IF form[c].id = 0 THEN <<"checkKey", "create">> ELSE <<"checkDoc", "update">>))

\* The items are sent in a second request, and only if there are any.
submitPlan(c) ==
    /\ kind = "plan" /\ form[c] # NoForm
    /\ LET rows == payload(form[c].rows, <<submits + 1, 0>>)
       IN  Submit(c, newRequest(form[c].id, form[c].key, rows,
                                (IF form[c].id = 0 THEN <<"checkKey", "create">>
                                                   ELSE <<"checkDoc", "update">>)
                                \o (IF rows = {} THEN <<>> ELSE <<"checkDoc", "delete", "insert">>)))

processImport(c, mode) ==
    /\ kind = "song" /\ form[c] = NoForm
    /\ Submit(c, [newRequest(0, 0, {}, <<"next">>) EXCEPT !.mode = mode, !.left = Batch])

-----------------------------------------------------------------------------
(***************************************************************************)
(* The steps of the routes.                                                *)
(***************************************************************************)
At(c, what) == request[c] # NoRequest /\ request[c].todo # <<>> /\ Head(request[c].todo) = what

\* c writes the document d: what others have under way or done there is not alone.
Others(c, d, r) ==
    [b \in Browsers |-> IF b = c THEN r
                        ELSE IF request[b] # NoRequest /\ (request[b].id = d \/ request[b].mode # "none")
                             THEN [request[b] EXCEPT !.alone = FALSE] ELSE request[b]]

Overwritten(c, d) ==
    [b \in Browsers |-> IF b # c /\ result[b] # NoResult /\ (result[b].id = d \/ result[b].mode # "none")
                        THEN NoResult ELSE result[b]]

GoOn(r) == [r EXCEPT !.todo = Tail(@)]

Read(c, r) ==
    /\ request' = [request EXCEPT ![c] = r]
    /\ UNCHANGED <<kind, docs, form, submits, formEdits, result>>

Write(c, d, r) ==
    /\ request' = Others(c, d, r)
    /\ result' = Overwritten(c, d)
    /\ UNCHANGED <<kind, form, submits, formEdits>>

\* An answer that is not ok, or none although all is done: the form stays as it is.
fail(c) ==
    /\ request[c] # NoRequest
    /\ request' = [request EXCEPT ![c] = NoRequest]
    /\ UNCHANGED <<kind, docs, form, submits, formEdits, result>>

KeyTaken(c, ids) == \E d \in ids : docs[d] # NoDoc /\ docs[d].key = request[c].key /\ d # request[c].id

\* POST: no visible document has the key ...
checkKey(c) ==
    /\ At(c, "checkKey") /\ ~KeyTaken(c, Visible)
    /\ Read(c, GoOn(request[c]))

\* ... and no document at all when it is created.  The items of a plan come later.
create(c) ==
    /\ At(c, "create") /\ ~KeyTaken(c, DocIds)
    /\ \E d \in DocIds :
          /\ docs[d] = NoDoc /\ \A e \in DocIds : docs[e] = NoDoc => d <= e
          /\ LET rows == IF kind = "song" THEN request[c].rows ELSE {}
             IN  /\ docs' = [docs EXCEPT ![d] = [key |-> request[c].key, deleted |-> FALSE, rows |-> rows]]
                 /\ Write(c, d, [GoOn(request[c]) EXCEPT !.id = d])

checkDoc(c) ==
    /\ At(c, "checkDoc") /\ request[c].id \in Visible
    /\ Read(c, GoOn(request[c]))

\* PATCH of a plan.
update(c) ==
    /\ At(c, "update") /\ ~KeyTaken(c, DocIds)
    /\ docs' = [docs EXCEPT ![request[c].id].key = request[c].key]
    /\ Write(c, request[c].id, GoOn(request[c]))

\* PATCH of a song writes the song first: two of them follow each other.
lock(c) ==
    /\ At(c, "lock")
    /\ \A b \in Browsers \ {c} : ~(request[b] # NoRequest /\ request[b].id = request[c].id
                                     /\ request[b].todo \in {<<"delete", "insert">>, <<"insert">>}
                                     /\ request[b].mode = "none")
    /\ Read(c, GoOn(request[c]))

\* deleteMany: the rows that are committed now.
deleteMany(c) ==
    /\ At(c, "delete")
    /\ Read(c, [GoOn(request[c]) EXCEPT !.seen = docs[request[c].id].rows])

\* ItemSchema drops what else an item has, also of the items that the form left alone.
taken(k, rows) == IF k = "song" THEN rows ELSE {[x EXCEPT !.text.more = FALSE] : x \in rows}

\* createMany and the commit.  The routes that lock a song also set its title.
createMany(c) ==
    /\ At(c, "insert")
    /\ LET d == request[c].id
           kept == docs[d].rows \ request[c].seen
           key == IF kind = "song" /\ request[c].mode = "none" THEN request[c].key ELSE docs[d].key
       IN  /\ \A a \in kept, b \in request[c].rows : a.order # b.order
           /\ \A a, b \in request[c].rows : a.order = b.order => a = b
           /\ kind = "song" /\ request[c].mode = "none" => ~KeyTaken(c, DocIds)
           /\ docs' = [docs EXCEPT ![d].rows = kept \cup taken(kind, request[c].rows), ![d].key = key]
           /\ Write(c, d, GoOn(request[c]))

-----------------------------------------------------------------------------
(***************************************************************************)
(* The import: the songs of the files one after the other.                 *)
(***************************************************************************)
existing(song) == {d \in Visible : docs[d].key = song.key}

importNext(c) ==
    /\ At(c, "next") /\ request[c].left # <<>>
    /\ LET song == Head(request[c].left)
           found == existing(song)
           rest == [request[c] EXCEPT !.left = Tail(@)]
           Start(d, todo) ==
               [rest EXCEPT !.id = d, !.key = song.key, !.todo = todo,
                            !.rows = payload(song.rows, <<rest.save, Len(rest.left)>>)]
       IN  \/ found = {} /\ Read(c, Start(0, <<"create", "next">>))
           \/ found # {} /\ request[c].mode = "IGNORE" /\ Read(c, rest)
           \/ /\ request[c].mode = "OVERWRITE"
              /\ \E d \in found : Read(c, Start(d, <<"delete", "insert", "next">>))

\* The last answer is ok: the browser leaves the form.
succeed(c) ==
    /\ request[c] # NoRequest
    /\ request[c].todo = <<>> \/ (At(c, "next") /\ request[c].left = <<>>)
    /\ result' = [result EXCEPT ![c] =
                    IF request[c].alone
                    THEN [id |-> request[c].id, key |-> request[c].key, rows |-> request[c].rows,
                          mode |-> request[c].mode]
                    ELSE NoResult]
    /\ form' = [form EXCEPT ![c] = NoForm]
    /\ request' = [request EXCEPT ![c] = NoRequest]
    /\ UNCHANGED <<kind, docs, submits, formEdits>>

\* DELETE, which leaves the document and its rows.
deleteDoc(d) ==
    /\ d \in Visible
    /\ docs' = [docs EXCEPT ![d].deleted = TRUE]
    /\ request' = Others("nobody", d, NoRequest)
    /\ result' = Overwritten("nobody", d)
    /\ UNCHANGED <<kind, form, submits, formEdits>>

-----------------------------------------------------------------------------
ContentStep ==
    \/ \E c \in Browsers :
          \/ \E key \in Keys : openNew(c, key) \/ setKey(c, key)
          \/ \E d \in DocIds : openEdit(c, d)
          \/ addRow(c) \/ \E i \in 1..3 : removeRow(c, i)
          \/ submitSong(c) \/ submitPlan(c)
          \/ \E mode \in {"IGNORE", "OVERWRITE"} : processImport(c, mode)
          \/ checkKey(c) \/ create(c) \/ checkDoc(c) \/ update(c) \/ lock(c)
          \/ deleteMany(c) \/ createMany(c) \/ importNext(c) \/ succeed(c) \/ fail(c)
    \/ \E d \in DocIds : deleteDoc(d)

-----------------------------------------------------------------------------
(* Properties *)

\* Whoever saves the same song or plan at the same time, its rows are always
\* those of one save or import as a whole: two transactions never leave a mixture,
\* because every browser numbers its rows from 0 and the database refuses the same
\* order twice, although the rows that came from the desktop are numbered from 1.
RowsOfOneSave ==
    \A d \in DocIds : docs[d] # NoDoc => \A a, b \in docs[d].rows : a.save = b.save

\* What the forms show of rows.
Shown(rows) == {<<r.order, r.text.words, r.save>> : r \in rows}

\* After "Chant modifié", "Plan créé" and the like the database has the key and the
\* rows of the form, in its order, unless somebody else wrote the same document
\* meanwhile or since.  A plan that was emptied is the exception: its items are
\* not sent, and stay.  Nothing is said of the fields of an item that the form does
\* not show: the route drops them (items/route.ts:9).
SavedAsShown ==
    \A c \in Browsers : result[c] # NoResult /\ result[c].mode = "none" =>
        /\ result[c].id \in Visible
        /\ docs[result[c].id].key = result[c].key
        /\ result[c].rows # {} => Shown(docs[result[c].id].rows) = Shown(result[c].rows)

Texts(rows) == {<<r.order, r.text>> : r \in rows}

LastOfItsKey(i) == \A j \in DOMAIN Batch : j > i => Batch[j].key # Batch[i].key

\* After "Import terminé" every song of the files is in the library, and with
\* OVERWRITE it has the blocks of the last file with its title, unless somebody
\* else wrote meanwhile.
ImportDone ==
    \A c \in Browsers : result[c] # NoResult /\ result[c].mode # "none" =>
        \A i \in 1..Len(Batch) : \E d \in Visible :
            /\ docs[d].key = Batch[i].key
            /\ result[c].mode = "OVERWRITE" /\ LastOfItsKey(i)
                 => Texts(docs[d].rows) = Texts(payload(Batch[i].rows, Unsaved))

\* A success message of the web application is true of the database: the forms
\* (SongForm.tsx, PlanFormClient.tsx) and the import of files (confirm/route.ts)
\* report what was written although other browsers write in between.
DoneAsSaid == SavedAsShown /\ ImportDone
=============================================================================
