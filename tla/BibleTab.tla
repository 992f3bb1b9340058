------------------------------ MODULE BibleTab ------------------------------
(***************************************************************************)
(* The Bible panel of the regie (components/source/BibleTab.tsx): browsing *)
(* to a chapter or typing a reference, the verses shown, their selection   *)
(* and cursor, their projection, and the search; with the chapters of      *)
(* bible/bollsApi.ts, which come from the network, from a local cache or,  *)
(* for one translation, from a file of the application.                    *)
(*                                                                         *)
(* Loads and searches overlap and are answered in any order.  A text is    *)
(* the translation, book and chapter that it comes from.  The comparison   *)
(* translations and the passage mode are left out.                         *)
(***************************************************************************)
EXTENDS Integers, FiniteSets

CONSTANTS
    Translations, OfflineTranslation,
    Books, Chapters,
    VerseCount,      \* VerseCount[tr][b, c]: the number of verses, in a translation
    References,      \* what may be typed: a chapter, 0 if it does not exist, and a range of verses
    Queries,         \* the words searched for
    Nothing,         \* no book, chapter, text, reference, load or search
    Requests,        \* the loads, and the searches, that can overlap
    MaxActs          \* bound on the actions of the user and of the network

VARIABLES
    bibleView, selectedBook, selectedChapter, verses, selectedVerses,
    cursorVerseNum,  \* 0 for none
    translation, loading,
    refTimer,        \* the reference that waits for the end of typing
    loads,
    chapterCache,    \* localStorage
    online,
    pending,         \* the projections that wait for live:set
    projected,       \* the last verse projected and its title
    searchQuery, searchTimer, searches, searchResults,
    acts,
    kept,            \* history: the texts that the cache or the file of the application has
    asked, crossed, astray, lost, mixed  \* history: see the properties

browseVars == <<bibleView, selectedBook, selectedChapter, verses, selectedVerses, cursorVerseNum,
                loading, refTimer, loads, chapterCache, pending, projected,
                kept, asked, crossed, astray, lost>>

searchVars == <<searchQuery, searchTimer, searches, searchResults, mixed>>

bibleVars == <<browseVars, searchVars, translation, online, acts>>

\* The values that the variables take.
Reference == [book : Books, chapter : Chapters \cup {0}, from : Int, to : Int]

Passage == [tr : Translations, book : Books, chapter : Chapters \cup {0}]

Load ==
    [kind : {"reference", "chapter"}, text : Passage, sel : SUBSET Int,
     cached : SUBSET Passage, known : BOOLEAN]

Search == [q : Queries, tr : Translations]

ASSUME BibleAssumption ==
    /\ OfflineTranslation \in Translations /\ References \subseteq Reference
    /\ Nothing \notin Books /\ Nothing \notin Chapters /\ Nothing # 0 /\ Nothing \notin Queries
    /\ Nothing \notin Reference /\ Nothing \notin Passage
    /\ Nothing \notin Load /\ Nothing \notin Search

text(tr, b, c) == [tr |-> tr, book |-> b, chapter |-> c]

BibleInit ==
    /\ bibleView = "reference"
    /\ selectedBook = Nothing /\ selectedChapter = Nothing /\ verses = Nothing
    /\ selectedVerses = {} /\ cursorVerseNum = 0
    /\ translation = OfflineTranslation
    /\ loading = FALSE
    /\ refTimer = Nothing
    /\ loads = [r \in Requests |-> Nothing]
    /\ chapterCache = {}
    /\ online = TRUE
    /\ pending = {} /\ projected = Nothing
    /\ searchQuery = Nothing /\ searchTimer = Nothing /\ searchResults = Nothing
    /\ searches = [r \in Requests |-> Nothing]
    /\ acts = 0
    /\ kept = {} /\ asked = Nothing /\ crossed = FALSE /\ astray = FALSE /\ lost = FALSE
    /\ mixed = FALSE

Act == acts < MaxActs /\ acts' = acts + 1

-----------------------------------------------------------------------------
(***************************************************************************)
(* The local cache of chapters.                                            *)
(***************************************************************************)
cacheKey(t) == <<t.tr, t.book, t.chapter>>

readCache(t) == {e.text : e \in {e \in chapterCache : e.key = cacheKey(t)}}

\* A failure of the storage is ignored.
writeCache(t) ==
    \/ /\ chapterCache' = {e \in chapterCache : e.key # cacheKey(t)} \cup {[key |-> cacheKey(t), text |-> t]}
       /\ kept' = kept \cup {t}
    \/ UNCHANGED <<chapterCache, kept>>

-----------------------------------------------------------------------------
(***************************************************************************)
(* Loads.                                                                  *)
(***************************************************************************)
\* Nothing is a field that was emptied.
typeReference(ref) ==
    /\ refTimer # ref /\ Act
    /\ refTimer' = ref
    /\ UNCHANGED <<bibleView, selectedBook, selectedChapter, verses, selectedVerses, cursorVerseNum,
                   loading, loads, chapterCache, pending, projected, kept, asked, crossed, astray, lost,
                   searchVars, translation, online>>

BeginLoad(r, kind, b, c, sel) ==
    LET t == text(translation, b, c)
    IN  /\ loads[r] = Nothing
        /\ loads' = [loads EXCEPT ![r] = [kind |-> kind, text |-> t, sel |-> sel,
                                          cached |-> readCache(t), known |-> t \in kept]]
        /\ loading' = TRUE

\* 400 ms after the last key.
handleRefInput(r) ==
    /\ refTimer # Nothing
    /\ BeginLoad(r, "reference", refTimer.book, refTimer.chapter, refTimer.from..refTimer.to)
    /\ refTimer' = Nothing
    /\ UNCHANGED <<bibleView, selectedBook, selectedChapter, verses, selectedVerses, cursorVerseNum,
                   chapterCache, pending, projected, kept, asked, crossed, astray, lost,
                   searchVars, translation, online, acts>>

handleSelectChapter(r, c) ==
    /\ Act
    /\ bibleView = "chapters" /\ ~loading /\ selectedBook # Nothing
    /\ BeginLoad(r, "chapter", selectedBook, c, {})
    /\ UNCHANGED <<bibleView, selectedBook, selectedChapter, verses, selectedVerses, cursorVerseNum,
                   refTimer, chapterCache, pending, projected, kept, asked, crossed, astray, lost,
                   searchVars, translation, online>>

\* What getChapter may answer: the network first, then the cache as it was at
\* the start, then the file for its translation.
Answers(l) ==
    IF l.text.tr = OfflineTranslation \/ online THEN {l.text} ELSE l.cached

Loaded(l, t) ==
    /\ IF l.text.tr # OfflineTranslation /\ online THEN writeCache(t)
       ELSE /\ kept' = IF l.text.tr = OfflineTranslation THEN kept \cup {t} ELSE kept
            /\ UNCHANGED chapterCache
    /\ asked' = l.text
    /\ verses' = t
    /\ selectedVerses' = l.sel
    /\ bibleView' = "verses"

\* The cursor is reset when the book or the chapter changes, and stays when the same
\* chapter comes in another translation, whose verses may be numbered otherwise.
ResetCursor(b, c) == IF b = selectedBook /\ c = selectedChapter THEN cursorVerseNum ELSE 0

Renumbered(t) == verses # Nothing /\ verses.tr # t.tr

Moved == {[p EXCEPT !.moved = TRUE] : p \in pending}

referenceLoaded_KeepsBook(r) ==
    /\ loads[r] # Nothing /\ loads[r].kind = "reference" /\ loads[r].text.chapter # 0
    /\ \E t \in Answers(loads[r]) : Loaded(loads[r], t)
    /\ selectedChapter' = loads[r].text.chapter
    /\ cursorVerseNum' = ResetCursor(selectedBook, loads[r].text.chapter)
    /\ astray' = (astray \/ Renumbered(loads[r].text))
    /\ pending' = Moved
    /\ crossed' = FALSE
    /\ loads' = [loads EXCEPT ![r] = Nothing] /\ loading' = FALSE
    /\ UNCHANGED <<selectedBook, refTimer, projected, lost, searchVars, translation, online, acts>>

referenceLoaded(r) ==
    /\ loads[r] # Nothing /\ loads[r].kind = "reference" /\ loads[r].text.chapter # 0
    /\ \E t \in Answers(loads[r]) : Loaded(loads[r], t)
    /\ selectedBook' = loads[r].text.book
    /\ selectedChapter' = loads[r].text.chapter
    /\ cursorVerseNum' = ResetCursor(loads[r].text.book, loads[r].text.chapter)
    /\ astray' = (astray \/ Renumbered(loads[r].text))
    /\ pending' = Moved
    /\ crossed' = FALSE
    /\ loads' = [loads EXCEPT ![r] = Nothing] /\ loading' = FALSE
    /\ UNCHANGED <<refTimer, projected, lost, searchVars, translation, online, acts>>

\* The chapter is set with its verses, the book was set when it was chosen.
chapterLoaded(r) ==
    /\ loads[r] # Nothing /\ loads[r].kind = "chapter"
    /\ \E t \in Answers(loads[r]) : Loaded(loads[r], t)
    /\ selectedChapter' = loads[r].text.chapter
    /\ cursorVerseNum' = 0
    /\ pending' = Moved
    /\ crossed' = (loads[r].text.book # selectedBook)
    /\ loads' = [loads EXCEPT ![r] = Nothing] /\ loading' = FALSE
    /\ UNCHANGED <<selectedBook, refTimer, projected, astray, lost, searchVars, translation, online, acts>>

\* No such chapter, or no answer: a message at most.
loadFails(r) ==
    /\ loads[r] # Nothing
    /\ loads[r].text.chapter = 0 \/ Answers(loads[r]) = {}
    /\ lost' = (lost \/ (loads[r].known /\ loads[r].text.chapter # 0))
    /\ loads' = [loads EXCEPT ![r] = Nothing] /\ loading' = FALSE
    /\ UNCHANGED <<bibleView, selectedBook, selectedChapter, verses, selectedVerses, cursorVerseNum,
                   refTimer, chapterCache, pending, projected, kept, asked, crossed, astray,
                   searchVars, translation, online, acts>>

-----------------------------------------------------------------------------
(***************************************************************************)
(* Browsing, selecting and projecting.                                     *)
(***************************************************************************)
showBooks ==
    /\ bibleView # "books" /\ Act
    /\ bibleView' = "books"
    /\ UNCHANGED <<selectedBook, selectedChapter, verses, selectedVerses, cursorVerseNum, loading,
                   refTimer, loads, chapterCache, pending, projected, kept, asked, crossed, astray, lost,
                   searchVars, translation, online>>

VersesShown == bibleView = "verses" /\ verses # Nothing

Numbers == IF verses = Nothing THEN {} ELSE 1..VerseCount[verses.tr][verses.book, verses.chapter]

\* Back to the chapters of the book.
onBack ==
    /\ VersesShown /\ ~loading /\ Act
    /\ bibleView' = IF selectedBook = Nothing THEN "reference" ELSE "chapters"
    /\ UNCHANGED <<selectedBook, selectedChapter, verses, selectedVerses, cursorVerseNum, loading,
                   refTimer, loads, chapterCache, pending, projected, kept, asked, crossed, astray, lost,
                   searchVars, translation, online>>

handleSelectBook(b) ==
    /\ Act
    /\ bibleView = "books" /\ ~loading
    /\ selectedBook' = b /\ selectedChapter' = Nothing
    /\ cursorVerseNum' = ResetCursor(b, Nothing)
    /\ bibleView' = "chapters"
    /\ pending' = Moved
    /\ UNCHANGED <<verses, selectedVerses, loading, refTimer, loads, chapterCache, projected,
                   kept, asked, crossed, astray, lost, searchVars, translation, online>>

toggleVerse(n) ==
    /\ Act
    /\ VersesShown /\ ~loading /\ n \in Numbers
    /\ selectedVerses' = (selectedVerses \ {n}) \cup ({n} \ selectedVerses)
    /\ UNCHANGED <<bibleView, selectedBook, selectedChapter, verses, cursorVerseNum, loading,
                   refTimer, loads, chapterCache, pending, projected, kept, asked, crossed, astray, lost,
                   searchVars, translation, online>>

\* The verse is kept, the title is built when the session is ready.
Project(n, first) ==
    pending' = pending \cup {[text |-> verses, verse |-> n, first |-> first, moved |-> crossed]}

handleVerseClickInVerseMode(n) ==
    /\ Act
    /\ VersesShown /\ ~loading /\ n \in Numbers
    /\ cursorVerseNum' = n
    /\ selectedVerses' = selectedVerses \cup {n}
    /\ astray' = crossed
    /\ Project(n, FALSE)
    /\ UNCHANGED <<bibleView, selectedBook, selectedChapter, verses, loading, refTimer, loads,
                   chapterCache, projected, kept, asked, crossed, lost, searchVars, translation, online>>

navigateThrough == IF Cardinality(selectedVerses) > 1 THEN selectedVerses ELSE Numbers

Least(S) == CHOOSE n \in S : \A m \in S : n <= m

Greatest(S) == CHOOSE n \in S : \A m \in S : n >= m

\* The neighbour of the cursor; a cursor that is not there counts as before the first.
Neighbour(dir) ==
    LET through == navigateThrough
        after == {n \in through : n > cursorVerseNum}
        before == {n \in through : n < cursorVerseNum}
    IN  IF cursorVerseNum \notin through \/ (dir = -1 /\ before = {}) THEN Least(through)
        ELSE IF dir = 1 THEN IF after = {} THEN cursorVerseNum ELSE Least(after)
        ELSE Greatest(before)

handleVerseCursorMove(dir) ==
    /\ Act
    /\ VersesShown /\ Neighbour(dir) \in Numbers
    /\ cursorVerseNum' = Neighbour(dir)
    /\ astray' = crossed
    /\ Project(Neighbour(dir), FALSE)
    /\ UNCHANGED <<bibleView, selectedBook, selectedChapter, verses, selectedVerses, loading,
                   refTimer, loads, chapterCache, projected, kept, asked, crossed, lost,
                   searchVars, translation, online>>

\* The button projects the first verse that is selected ...
handleProject ==
    /\ Act
    /\ VersesShown /\ ~loading
    /\ selectedVerses # {} /\ Least(selectedVerses) \in Numbers
    /\ Project(Least(selectedVerses), TRUE)
    /\ UNCHANGED <<bibleView, selectedBook, selectedChapter, verses, selectedVerses, cursorVerseNum,
                   loading, refTimer, loads, chapterCache, projected, kept, asked, crossed, astray, lost,
                   searchVars, translation, online>>

\* ... and puts the cursor on it after a live:set of its own.
projectFirst(p) ==
    /\ p \in pending /\ p.first
    /\ pending' = (pending \ {p}) \cup {[p EXCEPT !.first = FALSE]}
    /\ cursorVerseNum' = p.verse
    /\ astray' = p.moved
    /\ UNCHANGED <<bibleView, selectedBook, selectedChapter, verses, selectedVerses, loading,
                   refTimer, loads, chapterCache, projected, kept, asked, crossed, lost,
                   searchVars, translation, online, acts>>

\* After ensureReadyForFreeProjection: the title is that of the book and chapter of now.
handleProjectSingle(p) ==
    /\ p \in pending /\ ~p.first
    /\ pending' = pending \ {p}
    /\ projected' = IF selectedBook = Nothing \/ selectedChapter = Nothing THEN projected
                    ELSE [book |-> selectedBook, chapter |-> selectedChapter, of |-> p]
    /\ UNCHANGED <<bibleView, selectedBook, selectedChapter, verses, selectedVerses, cursorVerseNum,
                   loading, refTimer, loads, chapterCache, kept, asked, crossed, astray, lost,
                   searchVars, translation, online, acts>>

-----------------------------------------------------------------------------
(***************************************************************************)
(* The search.  A search begins 600 ms after the last key, with the        *)
(* translation of the moment when that key was pressed, or at once when    *)
(* the translation changes.                                                *)
(***************************************************************************)
Searching == {r \in Requests : searches[r] # Nothing}

handleSearchInput(q) ==
    /\ Act
    /\ q # searchQuery
    /\ searchQuery' = q
    /\ searchTimer' = IF q = Nothing THEN Nothing ELSE [q |-> q, tr |-> translation]
    /\ searchResults' = IF q = Nothing THEN Nothing ELSE searchResults
    /\ mixed' = (Searching # {})
    /\ UNCHANGED <<browseVars, searches, translation, online>>

searchBegins(r) ==
    /\ searchTimer # Nothing /\ searches[r] = Nothing
    /\ searches' = [searches EXCEPT ![r] = searchTimer]
    /\ searchTimer' = Nothing
    /\ mixed' = (mixed \/ Searching # {})
    /\ UNCHANGED <<browseVars, searchQuery, searchResults, translation, online, acts>>

searchAnswers_KeepsOld(r) ==
    /\ searches[r] # Nothing
    /\ searchResults' = IF online THEN searches[r] ELSE searchResults
    /\ searches' = [searches EXCEPT ![r] = Nothing]
    /\ UNCHANGED <<browseVars, searchQuery, searchTimer, mixed, translation, online, acts>>

\* Without a connection the results are cleared.
searchAnswers(r) ==
    /\ searches[r] # Nothing
    /\ searchResults' = IF online THEN searches[r] ELSE Nothing
    /\ searches' = [searches EXCEPT ![r] = Nothing]
    /\ UNCHANGED <<browseVars, searchQuery, searchTimer, mixed, translation, online, acts>>

\* The verses that are shown stay, in the translation that they were loaded in.
handleTranslationChange(r, tr) ==
    /\ Act
    /\ tr # translation
    /\ translation' = tr
    /\ searchResults' = Nothing
    /\ IF searchQuery = Nothing
       THEN UNCHANGED searches
       ELSE searches[r] = Nothing
            /\ searches' = [searches EXCEPT ![r] = [q |-> searchQuery, tr |-> tr]]
    /\ mixed' = (searchTimer # Nothing \/ Searching # {})
    /\ UNCHANGED <<browseVars, searchQuery, searchTimer, online>>

connection ==
    /\ Act
    /\ online' = ~online
    /\ UNCHANGED <<browseVars, searchVars, translation>>

-----------------------------------------------------------------------------
PassageStep ==
    \/ \E ref \in References \cup {Nothing} : typeReference(ref)
    \/ \E r \in Requests :
          \/ handleRefInput(r) \/ referenceLoaded(r) \/ chapterLoaded(r) \/ loadFails(r)
          \/ \E c \in Chapters : handleSelectChapter(r, c)
          \/ \E tr \in Translations : handleTranslationChange(r, tr)
    \/ showBooks \/ onBack \/ handleProject
    \/ \E b \in Books : handleSelectBook(b)
    \/ \E n \in Numbers : toggleVerse(n) \/ handleVerseClickInVerseMode(n)
    \/ \E dir \in {1, -1} : handleVerseCursorMove(dir)
    \/ \E p \in pending : projectFirst(p) \/ handleProjectSingle(p)
    \/ connection

SearchStep ==
    \/ \E q \in Queries \cup {Nothing} : handleSearchInput(q)
    \/ \E r \in Requests :
          \/ searchBegins(r) \/ searchAnswers(r)
          \/ \E tr \in Translations : handleTranslationChange(r, tr)
    \/ connection

-----------------------------------------------------------------------------
(* Properties *)

\* The title that the panel gives to the verses, and to a verse that it projects,
\* is that of the text: however loads overlap and in whatever order they are
\* answered.  The exceptions that the code has: a chapter that is answered after
\* another book was opened, and a passage opened between the press of a key and
\* the answer of live:set.
TextIsLabelled ==
    /\ bibleView = "verses" /\ ~crossed =>
            verses.book = selectedBook /\ verses.chapter = selectedChapter
    /\ projected # Nothing /\ ~projected.of.moved =>
            projected.book = projected.of.text.book /\ projected.chapter = projected.of.text.chapter

\* The cursor of the verse navigation never points outside the chapter shown,
\* also when the same chapter number of a shorter book replaces it.  astray is a
\* cursor that was put on a verse of a chapter shown under another book, or by
\* the button of a passage that was left before the answer of live:set, or that
\* stayed when the chapter came in another translation (BibleTab.tsx 130-133).
CursorInChapter ==
    VersesShown /\ cursorVerseNum # 0 /\ ~astray => cursorVerseNum \in Numbers

\* The text shown is in the translation that it was asked for in, or there is
\* none: neither the cache nor the offline file stands in for another one.
ChapterAsAsked == verses = asked

\* A chapter that the cache has taken, or that the file has, can be shown again
\* without a connection; one that the storage refused, which nobody is told, cannot.
ChapterKeptOffline == ~lost

\* When every search is answered the results are those of the words and of the
\* translation in the panel, unless searches overlapped or the translation
\* changed while one was about to begin.
SearchMatches ==
    Searching = {} /\ searchTimer = Nothing /\ ~mixed /\ searchResults # Nothing =>
        searchResults = [q |-> searchQuery, tr |-> translation]

\* The passage that the panel shows is the one it names, in the translation that
\* it was asked for in, with the cursor on one of its verses, however the loads of
\* BibleTab.tsx (137-191, 578-594) and the cache of bollsApi.ts overlap, and it is
\* found again without a connection once the cache has it.
PassageShown == TextIsLabelled /\ CursorInChapter /\ ChapterAsAsked /\ ChapterKeptOffline
=============================================================================
