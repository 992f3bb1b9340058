----------------------------- MODULE RegieProofs -----------------------------
(***************************************************************************)
(* Proofs about the regie (Regie.tla), for every set of plans, screens,    *)
(* books, chapters, songs and requests and every bound.                    *)
(***************************************************************************)
EXTENDS Regie, FiniteSetTheorems, TLAPS

-----------------------------------------------------------------------------
(***************************************************************************)
(* The search of the Bible panel.  While nothing was mixed, every search   *)
(* that waits or is under way is the one of the panel.                     *)
(***************************************************************************)
Current(s) == s = [q |-> searchQuery, tr |-> translation]

SearchTypeOK ==
    /\ translation \in Translations
    /\ searchQuery \in Queries \cup {Nothing}
    /\ searchTimer \in Search \cup {Nothing}
    /\ searches \in [Requests -> Search \cup {Nothing}]

SearchesCurrent ==
    /\ searchTimer # Nothing => Searching = {} /\ Current(searchTimer)
    /\ \A r \in Searching : Current(searches[r])

SearchInv ==
    /\ SearchTypeOK
    /\ ~mixed => SearchesCurrent
    /\ SearchMatches

LEMMA SearchInitially == BibleInit => SearchInv
BY BibleAssumption
   DEF BibleInit, SearchInv, SearchTypeOK, SearchesCurrent, SearchMatches, Searching

LEMMA SearchInputKept ==
    ASSUME SearchInv, NEW q \in Queries \cup {Nothing}, handleSearchInput(q)
    PROVE  SearchInv'
<1>1. SearchTypeOK'
  BY DEF SearchInv, SearchTypeOK, handleSearchInput, Search
<1>2. Searching' = Searching
  BY DEF Searching, handleSearchInput
<1>3. searchTimer' # Nothing => Current(searchTimer)'
  BY DEF handleSearchInput, Current
<1>4. searchTimer' = Nothing => searchResults' = Nothing
  BY BibleAssumption DEF handleSearchInput, SearchInv, SearchTypeOK, Search
<1> QED
  BY <1>1, <1>2, <1>3, <1>4 DEF SearchInv, SearchesCurrent, SearchMatches, handleSearchInput

LEMMA SearchBeginsKept ==
    ASSUME SearchInv, NEW r \in Requests, searchBegins(r)
    PROVE  SearchInv'
<1>1. SearchTypeOK'
  BY DEF SearchInv, SearchTypeOK, searchBegins
<1>2. /\ Searching' = Searching \cup {r} /\ searches'[r] = searchTimer
      /\ \A s \in Requests \ {r} : searches'[s] = searches[s]
  BY DEF Searching, searchBegins, SearchInv, SearchTypeOK
<1>3. ~mixed' => ~mixed /\ Searching = {} /\ searchTimer' = Nothing
  BY DEF searchBegins
<1>4. Searching' # {} /\ UNCHANGED <<searchQuery, translation>>
  BY <1>2 DEF searchBegins
<1> QED
  BY <1>1, <1>2, <1>3, <1>4 DEF SearchInv, SearchesCurrent, SearchMatches, Current, searchBegins

LEMMA SearchAnswersKept ==
    ASSUME SearchInv, NEW r \in Requests, searchAnswers(r)
    PROVE  SearchInv'
<1>1. SearchTypeOK'
  BY DEF SearchInv, SearchTypeOK, searchAnswers
<1>2. /\ r \in Searching /\ Searching' = Searching \ {r}
      /\ \A s \in Requests \ {r} : searches'[s] = searches[s]
      /\ searchResults' # Nothing => searchResults' = searches[r]
  BY DEF Searching, searchAnswers, SearchInv, SearchTypeOK
<1>3. UNCHANGED <<searchQuery, searchTimer, mixed, translation>>
  BY DEF searchAnswers
<1> QED
  BY <1>1, <1>2, <1>3 DEF SearchInv, SearchesCurrent, SearchMatches, Current, Searching

LEMMA TranslationKept ==
    ASSUME SearchInv, NEW r \in Requests, NEW tr \in Translations, handleTranslationChange(r, tr)
    PROVE  SearchInv'
<1>1. SearchTypeOK'
  BY DEF SearchInv, SearchTypeOK, handleTranslationChange, Search
<1>2. ~mixed' => searchTimer' = Nothing /\ Searching = {}
  BY DEF handleTranslationChange
<1>3. ~mixed' => \A s \in Searching' : Current(searches[s])'
  BY <1>2 DEF handleTranslationChange, Searching, Current, SearchInv, SearchTypeOK
<1>4. searchResults' = Nothing
  BY DEF handleTranslationChange
<1> QED
  BY <1>1, <1>2, <1>3, <1>4 DEF SearchInv, SearchesCurrent, SearchMatches

LEMMA SearchUnchanged ==
    ASSUME SearchInv, UNCHANGED <<searchVars, translation>>
    PROVE  SearchInv'
BY DEF searchVars, SearchInv, SearchTypeOK, SearchesCurrent, SearchMatches, Searching, Current

LEMMA SearchKept == SearchInv /\ [Work]_workVars => SearchInv'
<1> SUFFICES ASSUME SearchInv, [Work]_workVars PROVE SearchInv'
  OBVIOUS
<1>1. CASE PassageStep
  BY <1>1, SearchUnchanged, TranslationKept
     DEF PassageStep, typeReference, handleRefInput, referenceLoaded, chapterLoaded, loadFails,
         handleSelectChapter, showBooks, onBack, handleProject, handleSelectBook, toggleVerse,
         handleVerseClickInVerseMode, handleVerseCursorMove, projectFirst, handleProjectSingle,
         connection
<1>2. CASE SearchStep
  BY <1>2, SearchUnchanged, SearchInputKept, SearchBeginsKept, SearchAnswersKept, TranslationKept
     DEF SearchStep, connection
<1>3. CASE UNCHANGED bibleVars
  BY <1>3, SearchUnchanged DEF bibleVars
<1> QED
  BY <1>1, <1>2, <1>3 DEF Work, workVars

\* When every search is answered the results are those of the words and of the
\* translation in the panel, however many searches can overlap (handleSearchInput,
\* handleTranslationChange and the answers of bolls.life in BibleTab.tsx).
THEOREM SearchTheorem == WorkSpec => []SearchMatches
<1>1. Start => SearchInv
  BY SearchInitially DEF Start
<1>2. SearchInv => SearchMatches
  BY DEF SearchInv
<1> QED
  BY <1>1, <1>2, SearchKept, PTL DEF WorkSpec

-----------------------------------------------------------------------------
(***************************************************************************)
(* The passages.  The library is the cache with the loads that read it;    *)
(* the panel is what is shown, selected and projected.                     *)
(***************************************************************************)
Entry == [key : Translations \X Books \X (Chapters \cup {0}), text : Passage]

CachedTexts == {e.text : e \in chapterCache}

\* A load has at most its own text from the cache, and has it when the text was
\* shown before.
LoadOK(l) ==
    /\ l.cached \subseteq {l.text} \cap CachedTexts
    /\ l.known /\ l.text.tr # OfflineTranslation => l.cached = {l.text}

LibraryOK ==
    /\ translation \in Translations /\ online \in BOOLEAN
    /\ refTimer \in Reference \cup {Nothing}
    /\ selectedBook \in Books \cup {Nothing}
    /\ loads \in [Requests -> Load \cup {Nothing}]
    /\ \A r \in Requests : loads[r] # Nothing => LoadOK(loads[r])
    /\ chapterCache \subseteq Entry /\ \A e \in chapterCache : e.key = cacheKey(e.text)
    /\ \A t \in kept : t.tr # OfflineTranslation => t \in CachedTexts
    /\ ChapterKeptOffline

Verses(t) == 1..VerseCount[t.tr][t.book, t.chapter]

\* The verse of a projection is one of its text; the panel is on that text unless
\* the projection is said to have been overtaken.
PendingOK(p) ==
    /\ p \in [text : Passage, verse : Verses(p.text), first : BOOLEAN,
              moved : BOOLEAN]
    /\ ~p.moved => p.text = verses /\ p.text.book = selectedBook /\ p.text.chapter = selectedChapter
    /\ crossed => p.moved

CursorOK ==
    cursorVerseNum # 0 /\ ~astray =>
        /\ ~crossed
        /\ verses # Nothing
        /\ verses.book = selectedBook /\ verses.chapter = selectedChapter
        /\ cursorVerseNum \in Verses(verses)

PanelOK ==
    /\ verses \in Passage \cup {Nothing} /\ crossed \in BOOLEAN
    /\ bibleView = "verses" => verses # Nothing
    /\ \A p \in pending : PendingOK(p)
    /\ CursorOK
    /\ TextIsLabelled /\ ChapterAsAsked

PassageInv == LibraryOK /\ PanelOK

LEMMA PassageInitially == BibleInit => PassageInv
BY BibleAssumption
   DEF BibleInit, PassageInv, LibraryOK, PanelOK, CursorOK, TextIsLabelled, ChapterAsAsked,
       ChapterKeptOffline

LEMMA PassageImplies == PassageInv => PassageShown
BY DEF PassageInv, LibraryOK, PanelOK, CursorOK, PassageShown, CursorInChapter, TextIsLabelled,
       VersesShown, Numbers, Verses

\* The cache answers with the text itself.
LEMMA CacheReads ==
    ASSUME LibraryOK, NEW t \in Passage
    PROVE  /\ readCache(t) \subseteq {t} \cap CachedTexts
           /\ t \in CachedTexts => readCache(t) = {t}
<1>1. \A e \in chapterCache : e.key = cacheKey(t) => e.text = t
  BY DEF LibraryOK, Entry, cacheKey, Passage
<1>2. \A e \in chapterCache : e.text = t => e.key = cacheKey(t)
  BY DEF LibraryOK
<1> QED BY <1>1, <1>2 DEF readCache, CachedTexts

\* ... and keeps what it has.
LEMMA CacheWrites ==
    ASSUME LibraryOK, NEW t \in Passage, writeCache(t)
    PROVE  /\ chapterCache' \subseteq Entry /\ \A e \in chapterCache' : e.key = cacheKey(e.text)
           /\ CachedTexts \subseteq CachedTexts'
           /\ \A s \in kept' : s \in kept \/ s \in CachedTexts'
<1> DEFINE new == [key |-> cacheKey(t), text |-> t]
<1>1. new \in Entry /\ new.key = cacheKey(new.text) /\ new.text = t
  BY DEF Entry, cacheKey, Passage
<1>2. CASE /\ chapterCache' = {e \in chapterCache : e.key # cacheKey(t)} \cup {new}
           /\ kept' = kept \cup {t}
  <2> HIDE DEF new
  <2>1. \A e \in chapterCache : e.key = cacheKey(t) => e.text = t
    BY DEF LibraryOK, Entry, cacheKey, Passage
  <2> QED BY <1>1, <1>2, <2>1 DEF LibraryOK, CachedTexts
<1>3. CASE UNCHANGED <<chapterCache, kept>>
  BY <1>3 DEF LibraryOK, CachedTexts
<1> QED BY <1>2, <1>3 DEF writeCache

LEMMA LoadBegins ==
    ASSUME LibraryOK, NEW r \in Requests, NEW kind \in {"reference", "chapter"}, NEW b \in Books,
           NEW c \in Chapters \cup {0}, NEW sel \in SUBSET Int, BeginLoad(r, kind, b, c, sel),
           refTimer' \in {refTimer, Nothing},
           UNCHANGED <<selectedBook, chapterCache, kept, lost, translation, online>>
    PROVE  LibraryOK'
<1> DEFINE t == text(translation, b, c)
           l == [kind |-> kind, text |-> t, sel |-> sel, cached |-> readCache(t), known |-> t \in kept]
<1>1. t \in Passage
  BY DEF text, Passage, LibraryOK
<1>2. /\ readCache(t) \subseteq {t} \cap CachedTexts
      /\ t \in CachedTexts => readCache(t) = {t}
  BY <1>1, CacheReads
<1> HIDE DEF t
<1>3. l \in Load /\ LoadOK(l)
  <2>1. l \in Load
    BY <1>1, <1>2 DEF Load
  <2>2. l.known => t \in kept
    OBVIOUS
  <2> QED BY <1>2, <2>1, <2>2 DEF LoadOK, LibraryOK
<1>4. loads' = [loads EXCEPT ![r] = l]
  BY DEF BeginLoad, t
<1> HIDE DEF l
<1>5. CachedTexts' = CachedTexts
  BY DEF CachedTexts
<1>6. loads' \in [Requests -> Load \cup {Nothing}]
  BY <1>3, <1>4 DEF LibraryOK
<1>7. \A s \in Requests : loads'[s] # Nothing => LoadOK(loads'[s])
  BY <1>3, <1>4 DEF LibraryOK
<1>8. \A m : LoadOK(m) => LoadOK(m)'
  BY <1>5 DEF LoadOK
<1> QED BY <1>5, <1>6, <1>7, <1>8 DEF LibraryOK, ChapterKeptOffline, LoadOK

\* A load that is answered: the text is the one that was asked for.
LEMMA LoadAnswered ==
    ASSUME LibraryOK, NEW r \in Requests, loads[r] # Nothing, NEW t \in Answers(loads[r]),
           Loaded(loads[r], t)
    PROVE  /\ t = loads[r].text /\ t \in Passage /\ verses' = t /\ asked' = t /\ bibleView' = "verses"
           /\ chapterCache' \subseteq Entry /\ \A e \in chapterCache' : e.key = cacheKey(e.text)
           /\ CachedTexts \subseteq CachedTexts'
           /\ \A s \in kept' : s.tr # OfflineTranslation => s \in CachedTexts'
<1> DEFINE l == loads[r]
<1>1. l \in Load /\ LoadOK(l) /\ l.text \in Passage
  BY DEF LibraryOK, Load
<1>2. t = l.text
  BY <1>1 DEF Answers, LoadOK
<1>3. verses' = t /\ asked' = t /\ bibleView' = "verses"
  BY <1>2 DEF Loaded
<1>5. CASE t.tr # OfflineTranslation /\ online
  <2>1. writeCache(t)
    BY <1>2, <1>5 DEF Loaded
  <2>2. /\ chapterCache' \subseteq Entry /\ \A e \in chapterCache' : e.key = cacheKey(e.text)
        /\ CachedTexts \subseteq CachedTexts'
        /\ \A s \in kept' : s \in kept \/ s \in CachedTexts'
    BY <1>1, <1>2, <2>1, CacheWrites
  <2> QED BY <1>1, <1>2, <1>3, <2>2 DEF LibraryOK
<1>6. CASE ~(t.tr # OfflineTranslation /\ online)
  <2>1. /\ chapterCache' = chapterCache /\ CachedTexts' = CachedTexts
        /\ kept' = IF t.tr = OfflineTranslation THEN kept \cup {t} ELSE kept
    BY <1>2, <1>6 DEF CachedTexts, Loaded
  <2> QED BY <1>1, <1>2, <1>3, <2>1 DEF LibraryOK
<1> QED BY <1>5, <1>6

\* The library after a load that was answered or that failed.
LEMMA LibraryAfterLoad ==
    ASSUME LibraryOK, NEW r \in Requests, loads' = [loads EXCEPT ![r] = Nothing],
           chapterCache' \subseteq Entry, \A e \in chapterCache' : e.key = cacheKey(e.text),
           CachedTexts \subseteq CachedTexts',
           \A s \in kept' : s.tr # OfflineTranslation => s \in CachedTexts',
           selectedBook' \in Books \cup {Nothing}, ~lost',
           UNCHANGED <<refTimer, translation, online>>
    PROVE  LibraryOK'
<1>1. \A l : LoadOK(l) => LoadOK(l)'
  BY DEF LoadOK
<1>2. loads' \in [Requests -> Load \cup {Nothing}]
  BY DEF LibraryOK
<1>3. \A s \in Requests : loads'[s] # Nothing => LoadOK(loads'[s])
  BY DEF LibraryOK
<1> QED BY <1>1, <1>2, <1>3 DEF LibraryOK, ChapterKeptOffline, LoadOK

\* The panel after a load: the labels of the text are set with it.
LEMMA PanelAfterLoad ==
    ASSUME PanelOK, NEW t \in Passage, verses' = t, asked' = t,
           selectedChapter' = t.chapter, crossed' = (selectedBook' # t.book),
           \/ /\ cursorVerseNum' = ResetCursor(selectedBook', selectedChapter') /\ selectedBook' = t.book
              /\ astray' = (astray \/ Renumbered(t))
           \/ cursorVerseNum' = 0 /\ astray' = astray,
           pending' = Moved, UNCHANGED projected
    PROVE  PanelOK'
<1>1. \A p \in pending' : PendingOK(p)'
  <2> TAKE p \in pending'
  <2>1. PICK q \in pending : p = [q EXCEPT !.moved = TRUE]
    BY DEF Moved
  <2>2. p.text = q.text /\ p.verse = q.verse /\ p.moved
        /\ p \in [text : Passage, verse : Verses(q.text), first : BOOLEAN,
                  moved : BOOLEAN]
    BY <2>1 DEF PanelOK, PendingOK
  <2> QED BY <2>2 DEF PanelOK, PendingOK
<1>2. CursorOK'
  <2>1. CASE cursorVerseNum' = 0
    BY <2>1 DEF CursorOK
  <2>2. CASE /\ cursorVerseNum' # 0 /\ cursorVerseNum' = ResetCursor(selectedBook', selectedChapter')
             /\ selectedBook' = t.book /\ astray' = (astray \/ Renumbered(t))
    <3>1. /\ selectedBook = t.book /\ selectedChapter = t.chapter /\ cursorVerseNum' = cursorVerseNum
      BY <2>2 DEF ResetCursor
    <3> SUFFICES ASSUME ~astray'
                 PROVE  /\ ~crossed' /\ t # Nothing /\ cursorVerseNum \in Verses(t)
      BY <3>1 DEF CursorOK, Verses
    <3>2. /\ ~astray /\ verses # Nothing /\ verses.tr = t.tr
          /\ verses.book = t.book /\ verses.chapter = t.chapter
          /\ cursorVerseNum \in Verses(verses)
      BY <2>2, <3>1 DEF PanelOK, CursorOK, Renumbered
    <3> QED BY <2>2, <3>2, BibleAssumption DEF Verses
  <2> QED BY <2>1, <2>2
<1>3. TextIsLabelled' /\ ChapterAsAsked'
  BY DEF PanelOK, TextIsLabelled, ChapterAsAsked
<1>4. t # Nothing
  BY BibleAssumption
<1> QED BY <1>1, <1>2, <1>3, <1>4 DEF PanelOK

LEMMA ReferenceLoadedKept ==
    ASSUME PassageInv, NEW r \in Requests, referenceLoaded(r)
    PROVE  PassageInv'
<1>1. PICK t \in Answers(loads[r]) : Loaded(loads[r], t)
  BY DEF referenceLoaded
<1>2. /\ t = loads[r].text /\ t \in Passage /\ verses' = t /\ asked' = t /\ bibleView' = "verses"
      /\ chapterCache' \subseteq Entry /\ \A e \in chapterCache' : e.key = cacheKey(e.text)
      /\ CachedTexts \subseteq CachedTexts'
      /\ \A s \in kept' : s.tr # OfflineTranslation => s \in CachedTexts'
  BY <1>1, LoadAnswered DEF PassageInv, referenceLoaded
<1>3. /\ selectedBook' = t.book /\ selectedChapter' = t.chapter /\ crossed' = (selectedBook' # t.book)
      /\ cursorVerseNum' = ResetCursor(selectedBook', selectedChapter')
      /\ pending' = Moved /\ loads' = [loads EXCEPT ![r] = Nothing] /\ ~lost'
      /\ astray' = (astray \/ Renumbered(t))
      /\ UNCHANGED <<projected, refTimer, translation, online>>
  BY <1>2 DEF referenceLoaded, PassageInv, LibraryOK, ChapterKeptOffline
<1>4. t.book \in Books
  BY <1>2 DEF Passage
<1>5. LibraryOK'
  BY <1>2, <1>3, <1>4, LibraryAfterLoad DEF PassageInv
<1>6. PanelOK'
  BY <1>2, <1>3, PanelAfterLoad DEF PassageInv
<1> QED BY <1>5, <1>6 DEF PassageInv

LEMMA ChapterLoadedKept ==
    ASSUME PassageInv, NEW r \in Requests, chapterLoaded(r)
    PROVE  PassageInv'
<1>1. PICK t \in Answers(loads[r]) : Loaded(loads[r], t)
  BY DEF chapterLoaded
<1>2. /\ t = loads[r].text /\ t \in Passage /\ verses' = t /\ asked' = t /\ bibleView' = "verses"
      /\ chapterCache' \subseteq Entry /\ \A e \in chapterCache' : e.key = cacheKey(e.text)
      /\ CachedTexts \subseteq CachedTexts'
      /\ \A s \in kept' : s.tr # OfflineTranslation => s \in CachedTexts'
  BY <1>1, LoadAnswered DEF PassageInv, chapterLoaded
<1>3. /\ selectedBook' = selectedBook /\ selectedChapter' = t.chapter
      /\ crossed' = (selectedBook' # t.book) /\ cursorVerseNum' = 0
      /\ pending' = Moved /\ loads' = [loads EXCEPT ![r] = Nothing] /\ ~lost'
      /\ UNCHANGED <<projected, astray, refTimer, translation, online>>
  BY <1>2 DEF chapterLoaded, PassageInv, LibraryOK, ChapterKeptOffline
<1>4. selectedBook' \in Books \cup {Nothing}
  BY <1>3 DEF PassageInv, LibraryOK
<1>5. LibraryOK'
  BY <1>2, <1>3, <1>4, LibraryAfterLoad DEF PassageInv
<1>6. PanelOK'
  BY <1>2, <1>3, PanelAfterLoad DEF PassageInv
<1> QED BY <1>5, <1>6 DEF PassageInv

\* A load fails only when its text was never shown or does not exist.
LEMMA LoadFailsKept ==
    ASSUME PassageInv, NEW r \in Requests, loadFails(r)
    PROVE  PassageInv'
<1>1. loads[r] \in Load /\ LoadOK(loads[r]) /\ ~lost
  BY DEF loadFails, PassageInv, LibraryOK, ChapterKeptOffline
<1>2. loads[r].known => loads[r].text.chapter = 0
  BY <1>1 DEF loadFails, Answers, LoadOK, Load
<1>3. ~lost'
  BY <1>1, <1>2 DEF loadFails
<1>4. CachedTexts' = CachedTexts
  BY DEF CachedTexts, loadFails
<1>5. LibraryOK'
  BY <1>3, <1>4, LibraryAfterLoad DEF loadFails, PassageInv, LibraryOK
<1>6. PanelOK'
  BY DEF loadFails, PassageInv, PanelOK, PendingOK, CursorOK, TextIsLabelled, ChapterAsAsked
<1> QED BY <1>5, <1>6 DEF PassageInv

\* The steps of the panel leave the library alone.
LEMMA LibraryUnchanged ==
    ASSUME LibraryOK, refTimer' \in Reference \cup {Nothing}, translation' \in Translations,
           online' \in BOOLEAN, selectedBook' \in Books \cup {Nothing},
           UNCHANGED <<loads, chapterCache, kept, lost>>
    PROVE  LibraryOK'
<1>1. CachedTexts' = CachedTexts
  BY DEF CachedTexts
<1>2. \A l : LoadOK(l)' <=> LoadOK(l)
  BY <1>1 DEF LoadOK
<1> QED BY <1>1, <1>2 DEF LibraryOK, ChapterKeptOffline

LEMMA PanelUnchanged ==
    ASSUME PanelOK, bibleView' \in {bibleView, "books", "chapters", "reference"},
           UNCHANGED <<selectedBook, selectedChapter, verses, cursorVerseNum, pending, projected,
                       asked, crossed, astray>>
    PROVE  PanelOK'
BY DEF PanelOK, PendingOK, CursorOK, TextIsLabelled, ChapterAsAsked

\* A verse of the text that is shown is projected, with the cursor on it or not yet.
LEMMA PanelProjects ==
    ASSUME PanelOK, VersesShown, NEW n \in Numbers, NEW first \in BOOLEAN, Project(n, first),
           \/ cursorVerseNum' = n /\ astray' = crossed
           \/ UNCHANGED <<cursorVerseNum, astray>>,
           UNCHANGED <<bibleView, selectedBook, selectedChapter, verses, projected, asked, crossed>>
    PROVE  PanelOK'
<1> DEFINE p == [text |-> verses, verse |-> n, first |-> first, moved |-> crossed]
<1>1. verses \in Passage /\ n \in Verses(verses)
  BY DEF PanelOK, VersesShown, Numbers, Verses
<1>2. ~crossed => verses.book = selectedBook /\ verses.chapter = selectedChapter
  BY DEF PanelOK, VersesShown, TextIsLabelled
<1>3. PendingOK(p)
  <2>1. crossed \in BOOLEAN
    BY DEF PanelOK
  <2> QED BY <1>1, <1>2, <2>1 DEF PendingOK
<1>4. pending' = pending \cup {p}
  BY DEF Project
<1>5. CursorOK'
  BY <1>1, <1>2, BibleAssumption DEF PanelOK, CursorOK, Passage
<1> HIDE DEF p
<1>6. \A q \in pending' : PendingOK(q)'
  <2>1. \A q \in pending' : PendingOK(q)
    BY <1>3, <1>4 DEF PanelOK
  <2> QED BY <2>1 DEF PendingOK
<1> QED BY <1>5, <1>6 DEF PanelOK, TextIsLabelled, ChapterAsAsked

LEMMA SelectBookKept ==
    ASSUME PassageInv, NEW b \in Books, handleSelectBook(b)
    PROVE  PassageInv'
<1>1. LibraryOK'
  BY LibraryUnchanged DEF handleSelectBook, PassageInv, LibraryOK, ChapterKeptOffline
<1>2. \A p \in pending' : PendingOK(p)'
  <2> TAKE p \in pending'
  <2>1. PICK q \in pending : p = [q EXCEPT !.moved = TRUE]
    BY DEF handleSelectBook, Moved
  <2>2. p.text = q.text /\ p.verse = q.verse /\ p.moved
        /\ p \in [text : Passage, verse : Verses(q.text), first : BOOLEAN,
                  moved : BOOLEAN]
    BY <2>1 DEF PassageInv, PanelOK, PendingOK
  <2> QED BY <2>2 DEF PassageInv, PanelOK, PendingOK
<1>3. CursorOK'
  BY DEF handleSelectBook, ResetCursor, PassageInv, PanelOK, CursorOK
<1> QED
  BY <1>1, <1>2, <1>3
  DEF handleSelectBook, PassageInv, PanelOK, TextIsLabelled, ChapterAsAsked

LEMMA ProjectFirstKept ==
    ASSUME PassageInv, NEW p \in pending, projectFirst(p)
    PROVE  PassageInv'
<1> DEFINE q == [p EXCEPT !.first = FALSE]
<1>1. LibraryOK'
  BY LibraryUnchanged DEF projectFirst, PassageInv, LibraryOK, ChapterKeptOffline
<1>2. PendingOK(p)
  BY DEF PassageInv, PanelOK
<1>3. PendingOK(q)
  BY <1>2 DEF PendingOK
<1>4. pending' = (pending \ {p}) \cup {q}
  BY DEF projectFirst
<1> HIDE DEF q
<1>5. \A o \in pending' : PendingOK(o)'
  BY <1>3, <1>4 DEF PassageInv, PanelOK, PendingOK, projectFirst
<1>6. CursorOK'
  BY <1>2, BibleAssumption DEF projectFirst, PendingOK, CursorOK, Passage
<1> QED
  BY <1>1, <1>5, <1>6
  DEF projectFirst, PassageInv, PanelOK, TextIsLabelled, ChapterAsAsked

LEMMA ProjectSingleKept ==
    ASSUME PassageInv, NEW p \in pending, handleProjectSingle(p)
    PROVE  PassageInv'
<1>1. LibraryOK'
  BY LibraryUnchanged DEF handleProjectSingle, PassageInv, LibraryOK, ChapterKeptOffline
<1>2. PendingOK(p)
  BY DEF PassageInv, PanelOK
<1>3. /\ \A o \in pending' : PendingOK(o)'
      /\ CursorOK'
  BY DEF handleProjectSingle, PassageInv, PanelOK, PendingOK, CursorOK
<1>4. TextIsLabelled'
  BY <1>2 DEF handleProjectSingle, PassageInv, PanelOK, PendingOK, TextIsLabelled
<1> QED BY <1>1, <1>3, <1>4 DEF handleProjectSingle, PassageInv, PanelOK, ChapterAsAsked

LEMMA PassageStepKept == ASSUME PassageInv, PassageStep PROVE PassageInv'
<1>1. ASSUME NEW ref \in References \cup {Nothing}, typeReference(ref) PROVE PassageInv'
  BY <1>1, LibraryUnchanged, PanelUnchanged, BibleAssumption
  DEF typeReference, PassageInv, LibraryOK, ChapterKeptOffline
<1>2. ASSUME NEW r \in Requests, handleRefInput(r) PROVE PassageInv'
  <2>1. /\ refTimer \in Reference /\ refTimer.book \in Books /\ refTimer.chapter \in Chapters \cup {0}
        /\ refTimer.from..refTimer.to \in SUBSET Int
    BY <1>2 DEF handleRefInput, PassageInv, LibraryOK, Reference
  <2>2. LibraryOK'
    BY <1>2, <2>1, LoadBegins DEF handleRefInput, PassageInv
  <2> QED BY <1>2, <2>2, PanelUnchanged DEF handleRefInput, PassageInv
<1>3. ASSUME NEW r \in Requests, NEW c \in Chapters, handleSelectChapter(r, c) PROVE PassageInv'
  <2>1. selectedBook \in Books /\ {} \in SUBSET Int /\ c \in Chapters \cup {0}
    BY <1>3 DEF handleSelectChapter, PassageInv, LibraryOK
  <2>2. LibraryOK'
    BY <1>3, <2>1, LoadBegins DEF handleSelectChapter, PassageInv
  <2> QED BY <1>3, <2>2, PanelUnchanged DEF handleSelectChapter, PassageInv
<1>4. ASSUME NEW r \in Requests, NEW tr \in Translations, handleTranslationChange(r, tr)
      PROVE  PassageInv'
  BY <1>4, LibraryUnchanged, PanelUnchanged
  DEF handleTranslationChange, browseVars, PassageInv, LibraryOK, ChapterKeptOffline
<1>5. ASSUME showBooks \/ onBack \/ \E n \in Numbers : toggleVerse(n) PROVE PassageInv'
  BY <1>5, LibraryUnchanged, PanelUnchanged
  DEF showBooks, onBack, toggleVerse, PassageInv, LibraryOK, ChapterKeptOffline
<1>6. ASSUME NEW n \in Numbers, handleVerseClickInVerseMode(n) PROVE PassageInv'
  BY <1>6, LibraryUnchanged, PanelProjects
  DEF handleVerseClickInVerseMode, PassageInv, LibraryOK, ChapterKeptOffline
<1>7. ASSUME NEW dir \in {1, -1}, handleVerseCursorMove(dir) PROVE PassageInv'
  BY <1>7, LibraryUnchanged, PanelProjects
  DEF handleVerseCursorMove, PassageInv, LibraryOK, ChapterKeptOffline
<1>8. ASSUME handleProject PROVE PassageInv'
  BY <1>8, LibraryUnchanged, PanelProjects
  DEF handleProject, PassageInv, LibraryOK, ChapterKeptOffline
<1>9. ASSUME connection PROVE PassageInv'
  BY <1>9, LibraryUnchanged, PanelUnchanged
  DEF connection, browseVars, PassageInv, LibraryOK, ChapterKeptOffline
<1> QED
  BY <1>1, <1>2, <1>3, <1>4, <1>5, <1>6, <1>7, <1>8, <1>9, ReferenceLoadedKept, ChapterLoadedKept,
     LoadFailsKept, SelectBookKept, ProjectFirstKept, ProjectSingleKept
  DEF PassageStep

LEMMA PassageUnchanged ==
    ASSUME PassageInv, UNCHANGED browseVars, translation' \in Translations, online' \in BOOLEAN
    PROVE  PassageInv'
BY LibraryUnchanged, PanelUnchanged DEF browseVars, PassageInv, LibraryOK, ChapterKeptOffline

LEMMA SearchStepKeepsPassage == ASSUME PassageInv, SearchStep PROVE PassageInv'
<1>1. UNCHANGED browseVars /\ translation' \in Translations /\ online' \in BOOLEAN
  BY DEF SearchStep, handleSearchInput, searchBegins, searchAnswers, handleTranslationChange,
         connection, PassageInv, LibraryOK
<1> QED BY <1>1, PassageUnchanged

\* The passage that the panel shows is the one it names, in the translation that it
\* was asked for in, with the cursor on one of its verses, and a chapter that the cache
\* has is found again without a connection, however many loads of BibleTab.tsx
\* overlap and whatever bollsApi.ts answers them with.
THEOREM PassageTheorem == WorkSpec => []PassageShown
<1>1. Start => PassageInv
  BY PassageInitially DEF Start
<1>2. PassageInv /\ [Work]_workVars => PassageInv'
  <2> SUFFICES ASSUME PassageInv, [Work]_workVars PROVE PassageInv'
    OBVIOUS
  <2>1. CASE UNCHANGED bibleVars
    BY <2>1, PassageUnchanged DEF bibleVars, PassageInv, LibraryOK
  <2> QED BY <2>1, PassageStepKept, SearchStepKeepsPassage DEF Work, workVars
<1> QED BY <1>1, <1>2, PassageImplies, PTL DEF WorkSpec

-----------------------------------------------------------------------------
(***************************************************************************)
(* The copies of the live state.  The last update on the way to a window,  *)
(* or else the copy of the window, is the live state of the main process.  *)
(***************************************************************************)
Latest(q, copy, live) ==
    /\ \A i \in 1..Len(q) :
          q[i].kind = "live" /\ (\A j \in 1..Len(q) : j > i => q[j].kind # "live") => q[i].live = live
    /\ (\A i \in 1..Len(q) : q[i].kind # "live") => copy = live

CacheInv ==
    /\ \E S : down \in [Clients -> Seq(S)]
    /\ cache \in [Clients -> {cache[w] : w \in Clients}]
    /\ \A w \in Clients : Latest(down[w], cache[w], liveState)

LEMMA LatestAfterAppend ==
    ASSUME NEW S, NEW q \in Seq(S), NEW m, NEW copy, NEW live, NEW next,
           m.kind = "live" => m.live = next,
           m.kind # "live" => next = live /\ Latest(q, copy, live)
    PROVE  Append(q, m) \in Seq(S \cup {m}) /\ Latest(Append(q, m), copy, next)
<1> DEFINE s == Append(q, m)
<1>1. q \in Seq(S \cup {m}) /\ m \in S \cup {m}
  OBVIOUS
<1>2. s \in Seq(S \cup {m}) /\ Len(s) = Len(q) + 1 /\ s[Len(s)] = m /\ Len(q) \in Nat
      /\ \A i \in 1..Len(q) : s[i] = q[i]
  BY <1>1
<1> HIDE DEF s
<1>3. CASE m.kind = "live"
  BY <1>2, <1>3 DEF Latest
<1>4. CASE m.kind # "live"
  BY <1>2, <1>4 DEF Latest
<1> QED BY <1>2, <1>3, <1>4

LEMMA LatestAfterTail ==
    ASSUME NEW S, NEW q \in Seq(S), q # <<>>, NEW copy, NEW live, Latest(q, copy, live)
    PROVE  /\ Tail(q) \in Seq(S)
           /\ Latest(Tail(q), IF Head(q).kind = "live" THEN Head(q).live ELSE copy, live)
<1> DEFINE s == Tail(q)
<1>1. s \in Seq(S) /\ Len(s) = Len(q) - 1 /\ Len(q) \in Nat /\ Len(q) >= 1 /\ Head(q) = q[1]
  OBVIOUS
<1>2. \A i \in 1..Len(s) : s[i] = q[i + 1]
  OBVIOUS
<1> HIDE DEF s
<1>3. \A j \in 2..Len(q) : q[j] = s[j - 1] /\ j - 1 \in 1..Len(s)
  BY <1>1, <1>2
<1>4. ASSUME NEW i \in 1..Len(s), s[i].kind = "live", \A j \in 1..Len(s) : j > i => s[j].kind # "live"
      PROVE  s[i].live = live
  <2>1. i + 1 \in 1..Len(q) /\ q[i + 1].kind = "live" /\ q[i + 1].live = s[i].live
    BY <1>1, <1>2, <1>4
  <2>2. \A j \in 1..Len(q) : j > i + 1 => q[j].kind # "live"
    BY <1>1, <1>3, <1>4
  <2> QED BY <2>1, <2>2 DEF Latest
<1>5. ASSUME \A i \in 1..Len(s) : s[i].kind # "live"
      PROVE  /\ q[1].kind = "live" => q[1].live = live
             /\ q[1].kind # "live" => copy = live
  <2>1. \A j \in 1..Len(q) : j > 1 => q[j].kind # "live"
    BY <1>1, <1>3, <1>5
  <2>2. q[1].kind = "live" => q[1].live = live
    BY <1>1, <2>1 DEF Latest
  <2>3. ASSUME q[1].kind # "live" PROVE copy = live
    <3>1. \A j \in 1..Len(q) : q[j].kind # "live"
      BY <1>1, <2>1, <2>3
    <3> QED BY <3>1 DEF Latest
  <2> QED BY <2>2, <2>3
<1>6. Latest(s, IF Head(q).kind = "live" THEN Head(q).live ELSE copy, live)
  BY <1>1, <1>4, <1>5 DEF Latest
<1> QED BY <1>1, <1>6 DEF s

\* Every window hears of a change: the steps of the main process.
LEMMA AllHear ==
    ASSUME CacheInv, UNCHANGED cache, down' = Broadcast
    PROVE  CacheInv'
<1>1. PICK S : down \in [Clients -> Seq(S)]
  BY DEF CacheInv
<1>2. \A w \in Clients : /\ down'[w] = Append(down[w], Update)
                         /\ Append(down[w], Update) \in Seq(S \cup {Update})
                         /\ Latest(Append(down[w], Update), cache[w], liveState')
  <2> TAKE w \in Clients
  <2>1. Update.kind = "live" /\ Update.live = liveState'
    BY DEF Update
  <2>2. down[w] \in Seq(S)
    BY <1>1
  <2> QED BY <2>1, <2>2, LatestAfterAppend DEF Broadcast
<1>3. down' \in [Clients -> Seq(S \cup {Update})]
  BY <1>2 DEF Broadcast
<1> QED BY <1>2, <1>3 DEF CacheInv

LEMMA AllHearAndReply ==
    ASSUME CacheInv, UNCHANGED cache, NEW w \in Clients, NEW t,
           down' = [Broadcast EXCEPT ![w] = Append(@, Reply(t, liveState'))]
    PROVE  CacheInv'
<1> DEFINE r == Reply(t, liveState')
<1>1. PICK S : down \in [Clients -> Seq(S)]
  BY DEF CacheInv
<1>2. \A v \in Clients : /\ Append(down[v], Update) \in Seq(S \cup {Update})
                         /\ Latest(Append(down[v], Update), cache[v], liveState')
  <2> TAKE v \in Clients
  <2>1. Update.kind = "live" /\ Update.live = liveState'
    BY DEF Update
  <2>2. down[v] \in Seq(S)
    BY <1>1
  <2> QED BY <2>1, <2>2, LatestAfterAppend
<1>3. \A v \in Clients : Append(down[v], Update) \in Seq(S \cup {Update} \cup {r})
  BY <1>2
<1>4. r.kind = "reply"
  BY DEF Reply
<1>5. /\ Append(Append(down[w], Update), r) \in Seq(S \cup {Update} \cup {r})
      /\ Latest(Append(Append(down[w], Update), r), cache[w], liveState')
  <2> HIDE DEF r
  <2> QED BY <1>2, <1>4, LatestAfterAppend
<1>6. down' = [v \in Clients |-> IF v = w THEN Append(Append(down[w], Update), r)
                                 ELSE Append(down[v], Update)]
  BY DEF Broadcast
<1> HIDE DEF r
<1>7. down' \in [Clients -> Seq(S \cup {Update} \cup {r})]
  BY <1>3, <1>5, <1>6
<1> QED BY <1>2, <1>5, <1>6, <1>7 DEF CacheInv

\* A message that announces nothing.
LEMMA OneHears ==
    ASSUME CacheInv, UNCHANGED <<cache, liveState>>, NEW w \in Clients, NEW m, m.kind # "live",
           down' = [down EXCEPT ![w] = Append(@, m)]
    PROVE  CacheInv'
<1>1. PICK S : down \in [Clients -> Seq(S)]
  BY DEF CacheInv
<1>2. /\ Append(down[w], m) \in Seq(S \cup {m})
      /\ Latest(Append(down[w], m), cache[w], liveState)
  BY <1>1, LatestAfterAppend DEF CacheInv
<1>3. down' \in [Clients -> Seq(S \cup {m})]
  <2>1. \A v \in Clients : down[v] \in Seq(S \cup {m})
    BY <1>1
  <2> QED BY <1>1, <1>2, <2>1
<1>4. down'[w] = Append(down[w], m) /\ \A v \in Clients \ {w} : down'[v] = down[v]
  BY <1>1
<1> QED BY <1>2, <1>3, <1>4 DEF CacheInv

\* A window takes its first message.
LEMMA OneTakes ==
    ASSUME CacheInv, NEW w \in Clients, down[w] # <<>>, down' = [down EXCEPT ![w] = Tail(@)],
           cache' = IF Head(down[w]).kind = "live"
                    THEN [cache EXCEPT ![w] = Head(down[w]).live] ELSE cache,
           UNCHANGED liveState
    PROVE  CacheInv'
<1>1. PICK S : down \in [Clients -> Seq(S)]
  BY DEF CacheInv
<1>2. /\ Tail(down[w]) \in Seq(S)
      /\ Latest(Tail(down[w]), IF Head(down[w]).kind = "live" THEN Head(down[w]).live ELSE cache[w],
                liveState)
  BY <1>1, LatestAfterTail DEF CacheInv
<1>3. down' \in [Clients -> Seq(S)]
  BY <1>1, <1>2
<1>4. down'[w] = Tail(down[w]) /\ \A v \in Clients \ {w} : down'[v] = down[v]
  BY <1>1
<1>5. /\ cache'[w] = IF Head(down[w]).kind = "live" THEN Head(down[w]).live ELSE cache[w]
      /\ \A v \in Clients \ {w} : cache'[v] = cache[v]
      /\ DOMAIN cache' = Clients
  BY DEF CacheInv
<1>6. cache' \in [Clients -> {cache'[v] : v \in Clients}]
  BY <1>5 DEF CacheInv
<1> QED BY <1>2, <1>3, <1>4, <1>5, <1>6 DEF CacheInv

LEMMA NobodyHears ==
    ASSUME CacheInv, UNCHANGED <<cache, down, liveState>>
    PROVE  CacheInv'
BY DEF CacheInv

LEMMA OperationsKeepCaches ==
    ASSUME CacheInv,
           \/ \E dir \in {1, -1} :
                 handleNavigate(dir) \/ onKeyDown(dir) \/ freeNavigate(dir) \/ onPanelKey(dir)
           \/ \E i \in 1..Len(PlanItems) : handleItemClick(i) \/ handleClick(i)
           \/ \E i \in 1..Len(Blocks) : handleProjectBlock(i)
           \/ handlePlanModeToggle
    PROVE  CacheInv'
<1>1. CASE UNCHANGED <<cache, down, liveState>>
  BY <1>1, NobodyHears
<1>2. ASSUME NEW dir \in {1, -1}, freeNavigate(dir) PROVE CacheInv'
  <2> DEFINE m == [kind |-> "press", job |-> presses + 1, dir |-> dir]
  <2>1. /\ m.kind # "live" /\ "regie" \in Clients
        /\ UNCHANGED <<cache, liveState>>
        /\ down' = [down EXCEPT !["regie"] = Append(@, m)]
    BY <1>2 DEF freeNavigate, Clients, vars
  <2> HIDE DEF m
  <2> QED BY <2>1, OneHears
<1> QED
  BY <1>1, <1>2
  DEF handleNavigate, onKeyDown, onPanelKey, handleItemClick, handleClick, handleProjectBlock,
      handlePlanModeToggle, handleBlockCursorMove, Press, Launch, vars

LEMMA ServicesKeepCaches ==
    ASSUME CacheInv, NEW w \in Clients, serve(w) \/ serveSlow(w)
    PROVE  CacheInv'
<1>1. ASSUME NEW t, serveLive(w, t), UNCHANGED cache PROVE CacheInv'
  BY <1>1, AllHearAndReply DEF serveLive
<1>2. ASSUME NEW t, serveScreen(w, t), UNCHANGED cache PROVE CacheInv'
  <2>1. UNCHANGED liveState
    BY <1>2 DEF serveScreen, createScreenWindow, setContentMedia, setContentText, vars
  <2>2. Reply(t, liveState').kind # "live"
    BY DEF Reply
  <2> QED BY <1>2, <2>1, <2>2, OneHears DEF serveScreen
<1>3. ASSUME serveSlow(w) PROVE CacheInv'
  <2>1. PICK t : down' = [down EXCEPT ![w] = Append(@, Reply(t, liveState))]
    BY <1>3 DEF serveSlow
  <2>2. Reply(t, liveState).kind # "live" /\ UNCHANGED <<cache, liveState>>
    BY <1>3 DEF Reply, serveSlow, vars
  <2> QED BY <2>1, <2>2, OneHears
<1> QED BY <1>1, <1>2, <1>3 DEF serve

LEMMA WindowsKeepCaches ==
    ASSUME CacheInv, (\E w \in Clients : receive(w) \/ mediaMissing(w)) \/ onFreeNavigate
    PROVE  CacheInv'
<1>1. ASSUME NEW w \in Clients, receive(w) PROVE CacheInv'
  BY <1>1, OneTakes DEF receive, vars
<1>2. ASSUME NEW w \in Clients, mediaMissing(w) PROVE CacheInv'
  BY <1>2, OneTakes DEF mediaMissing, vars
<1>3. ASSUME onFreeNavigate PROVE CacheInv'
  <2>1. UNCHANGED <<cache, liveState>>
    BY <1>3 DEF onFreeNavigate, handleBlockCursorMove, Launch, vars
  <2> QED BY <1>3, <2>1, OneTakes DEF onFreeNavigate, Clients
<1> QED BY <1>1, <1>2, <1>3

LEMMA LiveStepKeepsCaches == ASSUME CacheInv, LiveRegieStep PROVE CacheInv'
<1>1. ASSUME otherCommand PROVE CacheInv'
  BY <1>1, AllHear DEF otherCommand
<1>2. ASSUME otherMirror PROVE CacheInv'
  BY <1>2, NobodyHears DEF otherMirror, setMirror
<1>3. ASSUME NEW k \in Screens, handleToggleWindow(k) PROVE CacheInv'
  BY <1>3, NobodyHears DEF handleToggleWindow, createScreenWindow, windowClosed
<1> QED
  BY <1>1, <1>2, <1>3, OperationsKeepCaches, ServicesKeepCaches, WindowsKeepCaches
  DEF LiveRegieStep

\* Each window ends up with the live state of the main process, whoever changed it
\* and in whatever order requests, replies and updates cross (main.ts broadcasts
\* every change to all windows, LiveContext.tsx and ProjectionPage.tsx take them in
\* order).
THEOREM CacheTheorem == WorkSpec => []CachesCurrent
<1>1. Start => CacheInv
  <2> SUFFICES ASSUME Start PROVE CacheInv
    OBVIOUS
  <2>1. /\ cache = [w \in Clients |-> liveState]
        /\ down = [w \in Clients |-> <<>>]
    BY DEF Start, RegieInit
  <2>2. down \in [Clients -> Seq({})]
    BY <2>1
  <2>3. \A w \in Clients : Latest(down[w], cache[w], liveState)
    BY <2>1 DEF Latest
  <2> QED BY <2>1, <2>2, <2>3 DEF CacheInv
<1>2. CacheInv /\ [Work]_workVars => CacheInv'
  <2> SUFFICES ASSUME CacheInv, [Work]_workVars PROVE CacheInv'
    OBVIOUS
  <2>1. CASE UNCHANGED <<vars, regieVars>>
    BY <2>1, NobodyHears DEF vars, regieVars
  <2> QED BY <2>1, LiveStepKeepsCaches DEF Work, workVars
<1>3. CacheInv => CachesCurrent
  <2> SUFFICES ASSUME CacheInv, NEW w \in Clients, down[w] = <<>> PROVE cache[w] = liveState
    BY DEF CachesCurrent
  <2>1. Latest(down[w], cache[w], liveState) /\ 1..Len(down[w]) = {}
    BY DEF CacheInv
  <2> QED BY <2>1 DEF Latest
<1> QED BY <1>1, <1>2, <1>3, PTL DEF WorkSpec

-----------------------------------------------------------------------------
(***************************************************************************)
(* The songs: the values of their state.  A song that is stored stays, so  *)
(* that whatever refers to one may be kept.                                *)
(***************************************************************************)
ReadOK(x, S) ==
    /\ x \in Read
    /\ x.kind \in {"list", "import"} =>
          x.arg \in ListArg /\ (x.answer = NotServed \/ x.answer \subseteq S)
    /\ x.kind \in {"song", "fields"} => x.arg \in S /\ (x.answer = NotServed \/ x.answer \in Text)

SaveOK(x, S) ==
    /\ x \in Saving
    /\ x.stage \in {"meta", "blocks"} => x.id \in S /\ x.fields \in Text /\ x.shown \in S
    /\ x.stage = "newBlocks" => x.id \in S

SongTypeOK ==
    /\ songs \in [SongIds -> Text \cup {NoSong}]
    /\ query \in SearchWords /\ sortBy \in Orders
    /\ listTimer \in ListArg \cup {NoRead}
    /\ songList \in SongList \cup {NoRead} /\ (songList # NoRead => songList.ids \subseteq Stored)
    /\ songId \in Stored \cup {NoSong}
    /\ song \in [id : Stored, text : Text] \cup {NoSong}
    /\ dialog \in {"closed", "edit", "new"} /\ (dialog = "edit" => song # NoSong)
    /\ fields \in Text \cup {NoFields}
    /\ fieldsLoading \in BOOLEAN
    /\ save # NoRead => SaveOK(save, Stored)
    /\ reads \in [Reads -> Read \cup {NoRead}]
    /\ \A r \in Reads : reads[r] # NoRead => ReadOK(reads[r], Stored)

\* As long as no song was opened there is none to show or to save.
NothingOpen ==
    songId = NoSong =>
        /\ song = NoSong /\ Reading({"song"}) = {}
        /\ save # NoRead => save.stage \notin {"meta", "blocks"}

LEMMA SongTypeInitially == SongInit => SongTypeOK
<1> SUFFICES ASSUME SongInit PROVE SongTypeOK
  OBVIOUS
<1>1. songs \in [SongIds -> Text \cup {NoSong}]
  BY DEF SongInit, Text, written
<1>2. Stored = {1, 2}
  <2>1. \A i \in SongIds : i <= 2 <=> i \in {1, 2}
    <3>1. \A i \in SongIds : i \in Nat /\ i # 0
      BY SongAssumption
    <3>2. \A i \in Nat : i # 0 => (i <= 2 <=> i \in {1, 2})
      OBVIOUS
    <3> QED BY <3>1, <3>2
  <2>2. \A i \in SongIds : i <= 2 => songs[i] \in Text
    BY DEF SongInit, Text, written
  <2>3. \A i \in SongIds : songs[i] # NoSong <=> i <= 2
    BY <2>2, SongAssumption DEF SongInit
  <2> QED BY <2>1, <2>3, SongAssumption DEF Stored
<1>3. newRead("list", [q |-> "", sort |-> "title"]) \in Read
      /\ ReadOK(newRead("list", [q |-> "", sort |-> "title"]), Stored)
  BY SongAssumption DEF newRead, Read, ReadOK, ListArg
<1>4. songList \in SongList \cup {NoRead} /\ (songList # NoRead => songList.ids \subseteq Stored)
  <2> DEFINE l == [q |-> "", sort |-> "title", ids |-> {1, 2}]
  <2>1. songList \in {NoRead, l}
    BY DEF SongInit
  <2>2. {1, 2} \in SUBSET SongIds
    BY SongAssumption
  <2>3. l \in SongList /\ l.ids = {1, 2}
    BY <2>2, SongAssumption DEF SongList
  <2> HIDE DEF l
  <2> QED BY <1>2, <2>1, <2>3
<1>6. \A r \in Reads : reads[r] \in {NoRead, newRead("list", [q |-> "", sort |-> "title"])}
  BY DEF SongInit
<1>7. reads \in [Reads -> Read \cup {NoRead}]
  BY <1>3, <1>6 DEF SongInit
<1> QED
  BY <1>1, <1>3, <1>4, <1>6, <1>7, SongAssumption
  DEF SongInit, SongTypeOK

\* A read begins, is answered or ends.
LEMMA ReadsTyped ==
    ASSUME SongTypeOK, NEW r \in Reads, NEW x, x # NoRead => ReadOK(x, Stored'),
           reads' = [reads EXCEPT ![r] = x], Stored \subseteq Stored'
    PROVE  /\ reads' \in [Reads -> Read \cup {NoRead}]
           /\ \A s \in Reads : reads'[s] # NoRead => ReadOK(reads'[s], Stored')
<1>1. reads'[r] = x /\ \A s \in Reads \ {r} : reads'[s] = reads[s]
  BY DEF SongTypeOK
<1>2. \A y : ReadOK(y, Stored) => ReadOK(y, Stored')
  BY DEF ReadOK
<1>3. x \in Read \cup {NoRead}
  BY DEF ReadOK
<1> QED BY <1>1, <1>2, <1>3 DEF SongTypeOK

\* A song is made.
LEMMA SongMade ==
    ASSUME SongTypeOK, NEW i \in SongIds \ Stored,
           songs' = [songs EXCEPT ![i] = [title |-> written(i, 0), blocks |-> written(i, 0)]]
    PROVE  /\ songs' \in [SongIds -> Text \cup {NoSong}]
           /\ Stored' = Stored \cup {i}
           /\ songs'[i] = [title |-> written(i, 0), blocks |-> written(i, 0)]
           /\ \A j \in Stored : songs'[j] = songs[j]
<1> DEFINE t == [title |-> written(i, 0), blocks |-> written(i, 0)]
<1>1. t \in Text
  BY DEF Text, written
<1>2. t # NoSong
  BY <1>1, SongAssumption
<1>3. songs' = [songs EXCEPT ![i] = t]
  OBVIOUS
<1>4. songs'[i] = t
  BY <1>3 DEF SongTypeOK
<1> HIDE DEF t
<1>5. songs' \in [SongIds -> Text \cup {NoSong}]
  BY <1>1, <1>3 DEF SongTypeOK
<1>6. \A j \in SongIds \ {i} : songs'[j] = songs[j]
  BY <1>3 DEF SongTypeOK
<1>7. Stored' = Stored \cup {i}
  BY <1>2, <1>4, <1>6 DEF Stored
<1>8. \A j \in Stored : songs'[j] = songs[j]
  BY <1>6 DEF Stored
<1> QED BY <1>4, <1>5, <1>7, <1>8 DEF t

\* A song is written.
LEMMA SongWritten ==
    ASSUME SongTypeOK, NEW i \in Stored, NEW v \in [of : SongIds, v : {0, 1}],
           songs' = [songs EXCEPT ![i].title = v] \/ songs' = [songs EXCEPT ![i].blocks = v]
    PROVE  /\ songs' \in [SongIds -> Text \cup {NoSong}] /\ Stored' = Stored
           /\ \A j \in Stored \ {i} : songs'[j] = songs[j]
           /\ songs'[i].title \in {v, songs[i].title} /\ songs'[i].blocks \in {v, songs[i].blocks}
<1>1. songs[i] \in Text /\ i \in SongIds
  BY DEF SongTypeOK, Stored
<1> DEFINE t == IF songs' = [songs EXCEPT ![i].title = v] THEN [songs[i] EXCEPT !.title = v]
                                                         ELSE [songs[i] EXCEPT !.blocks = v]
<1>2. t \in Text /\ t.title \in {v, songs[i].title} /\ t.blocks \in {v, songs[i].blocks}
  BY <1>1 DEF Text
<1>3. songs' = [songs EXCEPT ![i] = t]
  BY <1>1 DEF SongTypeOK
<1> HIDE DEF t
<1>4. t # NoSong
  BY <1>2, SongAssumption
<1>5. songs'[i] = t /\ \A j \in SongIds \ {i} : songs'[j] = songs[j]
  BY <1>1, <1>3 DEF SongTypeOK
<1>6. Stored' = Stored
  BY <1>1, <1>4, <1>5 DEF Stored
<1> QED BY <1>1, <1>2, <1>3, <1>5, <1>6 DEF SongTypeOK, Stored

LEMMA ListTypeKept ==
    ASSUME SongTypeOK,
           \/ \E q \in SearchWords : handleSearch(q)
           \/ \E r \in Reads :
                 \/ searchStarts(r) \/ handleClearSearch(r) \/ importAuto(r) \/ loadSongs(r)
                 \/ \E sort \in Orders : handleSortChange(r, sort)
    PROVE  SongTypeOK' /\ Stored' = Stored
<1>1. Stored' = Stored
  BY DEF handleSearch, searchStarts, handleClearSearch, importAuto, loadSongs, handleSortChange,
         Answered, Stored
<1>2. ASSUME NEW q \in SearchWords, handleSearch(q) PROVE SongTypeOK'
  BY <1>1, <1>2 DEF handleSearch, Move, panelVars, SongTypeOK, ListArg
<1>3. ASSUME NEW r \in Reads, NEW arg \in ListArg, NEW kind \in {"list", "import"}, Ask(r, kind, arg)
      PROVE  /\ reads' \in [Reads -> Read \cup {NoRead}]
             /\ \A s \in Reads : reads'[s] # NoRead => ReadOK(reads'[s], Stored')
  <2> DEFINE x == newRead(kind, arg)
  <2>1. ReadOK(x, Stored') /\ reads' = [reads EXCEPT ![r] = x]
    BY <1>3 DEF Ask, newRead, ReadOK, Read
  <2> HIDE DEF x
  <2> QED BY <1>1, <2>1, ReadsTyped
<1>4. ASSUME NEW r \in Reads, searchStarts(r) PROVE SongTypeOK'
  <2>1. listTimer \in ListArg
    BY <1>4 DEF searchStarts, SongTypeOK
  <2> QED BY <1>1, <1>3, <1>4, <2>1 DEF searchStarts, panelVars, SongTypeOK
<1>5. ASSUME NEW r \in Reads, handleClearSearch(r) PROVE SongTypeOK'
  <2>1. [q |-> "", sort |-> sortBy] \in ListArg
    BY SongAssumption DEF SongTypeOK, ListArg
  <2> QED BY <1>1, <1>3, <1>5, <2>1, SongAssumption DEF handleClearSearch, Move, panelVars, SongTypeOK
<1>6. ASSUME NEW r \in Reads, NEW sort \in Orders, handleSortChange(r, sort) PROVE SongTypeOK'
  <2>1. [q |-> "", sort |-> sort] \in ListArg
    BY SongAssumption DEF SongTypeOK, ListArg
  <2> QED BY <1>1, <1>3, <1>6, <2>1 DEF handleSortChange, Move, panelVars, SongTypeOK
<1>7. ASSUME NEW r \in Reads, importAuto(r) PROVE SongTypeOK'
  <2>1. [q |-> query, sort |-> sortBy] \in ListArg
    BY DEF SongTypeOK, ListArg
  <2> QED BY <1>1, <1>3, <1>7, <2>1 DEF importAuto, Move, panelVars, SongTypeOK
<1>8. ASSUME NEW r \in Reads, loadSongs(r) PROVE SongTypeOK'
  <2>1. reads[r] \in Read /\ reads[r].arg \in ListArg /\ reads[r].answer \subseteq Stored
    BY <1>8 DEF loadSongs, Answered, SongTypeOK, ReadOK
  <2>2. reads[r].answer \in SUBSET SongIds
    BY <2>1 DEF Stored
  <2>3. songList' \in SongList /\ songList'.ids \subseteq Stored
    BY <1>8, <2>1, <2>2 DEF loadSongs, SongList, ListArg
  <2>4. /\ reads' \in [Reads -> Read \cup {NoRead}]
        /\ \A s \in Reads : reads'[s] # NoRead => ReadOK(reads'[s], Stored')
    BY <1>1, <1>8, ReadsTyped DEF loadSongs
  <2> QED BY <1>1, <1>8, <2>3, <2>4 DEF loadSongs, Answered, panelVars, SongTypeOK
<1> QED BY <1>1, <1>2, <1>4, <1>5, <1>6, <1>7, <1>8

LEMMA ImportTypeKept ==
    ASSUME SongTypeOK, NEW r \in Reads, importEnds(r)
    PROVE  SongTypeOK' /\ Stored \subseteq Stored'
<1>1. reads[r] \in Read /\ reads[r].kind = "import" /\ reads[r].arg \in ListArg
  BY DEF importEnds, SongTypeOK, ReadOK
<1>2. CASE UNCHANGED songs /\ reads' = [reads EXCEPT ![r] = NoRead]
  <2>1. Stored' = Stored
    BY <1>2 DEF Stored
  <2>2. /\ reads' \in [Reads -> Read \cup {NoRead}]
        /\ \A s \in Reads : reads'[s] # NoRead => ReadOK(reads'[s], Stored')
    BY <1>2, <2>1, ReadsTyped
  <2> QED BY <1>2, <2>1, <2>2 DEF importEnds, panelVars, SongTypeOK
<1>3. ASSUME NEW i \in SongIds \ Stored,
             songs' = [songs EXCEPT ![i] = [title |-> written(i, 0), blocks |-> written(i, 0)]],
             reads' = [reads EXCEPT ![r] = newRead("list", @.arg)]
      PROVE  SongTypeOK' /\ Stored \subseteq Stored'
  <2>1. songs' \in [SongIds -> Text \cup {NoSong}] /\ Stored' = Stored \cup {i}
    BY <1>3, SongMade
  <2> DEFINE x == newRead("list", reads[r].arg)
  <2>2. ReadOK(x, Stored') /\ reads' = [reads EXCEPT ![r] = x]
    BY <1>1, <1>3 DEF newRead, ReadOK, Read
  <2> HIDE DEF x
  <2>3. /\ reads' \in [Reads -> Read \cup {NoRead}]
        /\ \A s \in Reads : reads'[s] # NoRead => ReadOK(reads'[s], Stored')
    BY <2>1, <2>2, ReadsTyped
  <2>4. song' \in [id : Stored', text : Text] \cup {NoSong}
    BY <2>1 DEF importEnds, panelVars, SongTypeOK
  <2>5. save' # NoRead => SaveOK(save', Stored')
    BY <2>1 DEF importEnds, SongTypeOK, SaveOK
  <2> QED BY <2>1, <2>3, <2>4, <2>5 DEF importEnds, panelVars, SongTypeOK
<1> QED BY <1>2, <1>3 DEF importEnds

LEMMA DialogTypeKept ==
    ASSUME SongTypeOK, NothingOpen,
           \/ \E r \in Reads : openEditor(r) \/ \E i \in SongIds : openSongInspector(r, i)
           \/ onCreateSong \/ closeDialog \/ handleSongSave \/ updateFields \/ saveFails
    PROVE  SongTypeOK' /\ Stored' = Stored
<1>1. Stored' = Stored
  BY DEF openEditor, openSongInspector, onCreateSong, closeDialog, handleSongSave, updateFields,
         saveFails, Stored
<1>2. ASSUME NEW r \in Reads, NEW arg \in Stored, NEW kind \in {"song", "fields"}, Ask(r, kind, arg)
      PROVE  /\ reads' \in [Reads -> Read \cup {NoRead}]
             /\ \A s \in Reads : reads'[s] # NoRead => ReadOK(reads'[s], Stored')
  <2> DEFINE x == newRead(kind, arg)
  <2>1. arg \in SongIds
    BY DEF Stored
  <2>2. ReadOK(x, Stored') /\ reads' = [reads EXCEPT ![r] = x]
    BY <1>1, <1>2, <2>1 DEF Ask, newRead, ReadOK, Read
  <2> HIDE DEF x
  <2> QED BY <1>1, <2>2, ReadsTyped
<1>3. ASSUME NEW r \in Reads, openEditor(r) PROVE SongTypeOK'
  <2>1. song.id \in Stored
    BY <1>3 DEF openEditor, SongTypeOK
  <2> QED BY <1>1, <1>2, <1>3, <2>1 DEF openEditor, Move, listVars, SongTypeOK
<1>4. ASSUME NEW r \in Reads, NEW i \in SongIds, openSongInspector(r, i) PROVE SongTypeOK'
  <2>1. i \in Stored
    BY <1>4 DEF openSongInspector, Listed, SongTypeOK
  <2> QED BY <1>1, <1>2, <1>4, <2>1 DEF openSongInspector, Move, listVars, SongTypeOK
<1>5. ASSUME onCreateSong \/ closeDialog PROVE SongTypeOK'
  BY <1>1, <1>5 DEF onCreateSong, closeDialog, Move, listVars, panelVars, SongTypeOK
<1>6. ASSUME updateFields PROVE SongTypeOK'
  <2>1. fields \in Text
    BY <1>6 DEF updateFields, SongTypeOK
  <2>2. fields' \in Text
    BY <1>6, <2>1 DEF updateFields, Text
  <2> QED BY <1>1, <1>6, <2>2 DEF updateFields, listVars, SongTypeOK
<1>7. ASSUME handleSongSave PROVE SongTypeOK'
  <2>1. CASE dialog = "edit"
    <3> DEFINE x == [id |-> song.id, stage |-> "meta", fields |-> fields, shown |-> songId]
    <3>1. song.id \in Stored /\ fields \in Text /\ songId \in Stored /\ Stored \subseteq SongIds
      BY <1>7, <2>1 DEF handleSongSave, SongTypeOK, NothingOpen, Stored
    <3>2. SaveOK(x, Stored) /\ save' = x
      BY <1>7, <2>1, <3>1 DEF handleSongSave, SaveOK, Saving
    <3> HIDE DEF x
    <3> QED BY <1>1, <1>7, <3>2 DEF handleSongSave, listVars, SongTypeOK
  <2>2. CASE dialog # "edit"
    <3> DEFINE x == [id |-> NoSong, stage |-> "create", fields |-> NoFields, shown |-> NoSong]
    <3>1. SaveOK(x, Stored) /\ save' = x
      BY <1>7, <2>2 DEF handleSongSave, SaveOK, Saving
    <3> HIDE DEF x
    <3> QED BY <1>1, <1>7, <3>1 DEF handleSongSave, listVars, SongTypeOK
  <2> QED BY <2>1, <2>2
<1>8. ASSUME saveFails PROVE SongTypeOK'
  BY <1>1, <1>8 DEF saveFails, listVars, SongTypeOK
<1> QED BY <1>1, <1>3, <1>4, <1>5, <1>6, <1>7, <1>8

LEMMA SaveMetaTypeKept ==
    ASSUME SongTypeOK, saveMeta
    PROVE  SongTypeOK' /\ Stored \subseteq Stored'
<1>1. SaveOK(save, Stored)
  BY DEF saveMeta, SongTypeOK
<1>2. CASE save.stage = "meta"
  <2>1. save.id \in Stored /\ save.fields.title \in [of : SongIds, v : {0, 1}]
    BY <1>1, <1>2 DEF SaveOK, Text
  <2>2. /\ songs' = [songs EXCEPT ![save.id].title = save.fields.title]
        /\ save' = [save EXCEPT !.stage = "blocks"]
    BY <1>2 DEF saveMeta
  <2>3. songs' \in [SongIds -> Text \cup {NoSong}] /\ Stored' = Stored
    BY <2>1, <2>2, SongWritten
  <2>4. SaveOK(save', Stored)
    BY <1>1, <1>2, <2>2 DEF SaveOK, Saving
  <2> QED BY <2>3, <2>4 DEF saveMeta, listVars, panelVars, SongTypeOK
<1>3. CASE save.stage = "create"
  <2>1. PICK i \in SongIds \ Stored :
          /\ songs' = [songs EXCEPT ![i] = [title |-> written(i, 0), blocks |-> written(i, 0)]]
          /\ save' = [save EXCEPT !.stage = "newBlocks", !.id = i]
    BY <1>3 DEF saveMeta
  <2>2. songs' \in [SongIds -> Text \cup {NoSong}] /\ Stored' = Stored \cup {i}
    BY <2>1, SongMade
  <2>3. SaveOK(save', Stored')
    BY <1>1, <1>3, <2>1, <2>2 DEF SaveOK, Saving
  <2>4. \A x : ReadOK(x, Stored) => ReadOK(x, Stored')
    BY <2>2 DEF ReadOK
  <2> QED BY <2>2, <2>3, <2>4 DEF saveMeta, listVars, panelVars, SongTypeOK
<1> QED BY <1>2, <1>3 DEF saveMeta

LEMMA SaveBlocksTypeKept ==
    ASSUME SongTypeOK, NEW r \in Reads, saveBlocks(r)
    PROVE  SongTypeOK' /\ Stored' = Stored
<1>1. SaveOK(save, Stored) /\ save' = NoRead
  BY DEF saveBlocks, SongTypeOK
<1>2. CASE save.stage = "blocks"
  <2>1. /\ save.id \in Stored /\ save.fields.blocks \in [of : SongIds, v : {0, 1}]
        /\ save.shown \in Stored /\ save.shown \in SongIds
    BY <1>1, <1>2 DEF SaveOK, Text, Stored
  <2>2. songs' = [songs EXCEPT ![save.id].blocks = save.fields.blocks]
    BY <1>2 DEF saveBlocks
  <2>3. songs' \in [SongIds -> Text \cup {NoSong}] /\ Stored' = Stored
    BY <2>1, <2>2, SongWritten
  <2> DEFINE x == newRead("song", save.shown)
  <2>4. ReadOK(x, Stored') /\ reads' = [reads EXCEPT ![r] = x]
    BY <1>2, <2>1, <2>3 DEF saveBlocks, Ask, newRead, ReadOK, Read
  <2> HIDE DEF x
  <2>5. /\ reads' \in [Reads -> Read \cup {NoRead}]
        /\ \A s \in Reads : reads'[s] # NoRead => ReadOK(reads'[s], Stored')
    BY <2>3, <2>4, ReadsTyped
  <2> QED BY <1>1, <1>2, <2>3, <2>5 DEF saveBlocks, listVars, SongTypeOK
<1>3. CASE save.stage = "newBlocks"
  <2>1. save.id \in Stored /\ save.id \in SongIds
    BY <1>1, <1>3 DEF SaveOK, Stored
  <2>2. written(save.id, 1) \in [of : SongIds, v : {0, 1}]
    BY <2>1 DEF written
  <2>3. songs' = [songs EXCEPT ![save.id].blocks = written(save.id, 1)]
    BY <1>3 DEF saveBlocks
  <2>4. songs' \in [SongIds -> Text \cup {NoSong}] /\ Stored' = Stored
    BY <2>1, <2>2, <2>3, SongWritten
  <2> QED BY <1>1, <1>3, <2>4 DEF saveBlocks, listVars, SongTypeOK
<1> QED BY <1>2, <1>3 DEF saveBlocks

LEMMA AnswersTypeKept ==
    ASSUME SongTypeOK, NothingOpen, NEW r \in Reads,
           serveSongs(r) \/ loadSong(r) \/ loadFields(r) \/ readFails(r)
    PROVE  SongTypeOK' /\ Stored' = Stored
<1>1. Stored' = Stored
  BY DEF serveSongs, loadSong, loadFields, readFails, Answered, Stored
<1>2. reads[r] # NoRead /\ ReadOK(reads[r], Stored)
  BY DEF serveSongs, loadSong, loadFields, readFails, Answered, SongTypeOK
<1>3. ASSUME NEW x, x # NoRead => ReadOK(x, Stored), reads' = [reads EXCEPT ![r] = x]
      PROVE  /\ reads' \in [Reads -> Read \cup {NoRead}]
             /\ \A s \in Reads : reads'[s] # NoRead => ReadOK(reads'[s], Stored')
  BY <1>1, <1>3, ReadsTyped
<1>4. ASSUME serveSongs(r) PROVE SongTypeOK'
  <2> DEFINE a == IF reads[r].kind = "list" THEN Stored ELSE songs[reads[r].arg]
             x == [reads[r] EXCEPT !.answer = a]
  <2>1. reads[r].kind # "list" => reads[r].arg \in Stored /\ a \in Text
    BY <1>2, <1>4 DEF serveSongs, ReadOK, Read, SongTypeOK, Stored
  <2>2. Stored \in SUBSET SongIds
    BY DEF Stored
  <2>3. a \in (SUBSET SongIds) \cup Text
    BY <2>1, <2>2
  <2>4. reads[r].kind = "list" => a = Stored
    OBVIOUS
  <2> HIDE DEF a
  <2>5. ReadOK(x, Stored)
    BY <1>2, <1>4, <2>1, <2>2, <2>3, <2>4 DEF serveSongs, ReadOK, Read
  <2>6. reads' = [reads EXCEPT ![r] = x]
    BY <1>4 DEF serveSongs, a, SongTypeOK
  <2> HIDE DEF x
  <2> QED BY <1>1, <1>3, <1>4, <2>5, <2>6 DEF serveSongs, listVars, panelVars, SongTypeOK
<1>5. ASSUME loadSong(r) PROVE SongTypeOK'
  <2>1. reads[r].arg \in Stored /\ reads[r].answer \in Text
    BY <1>2, <1>5 DEF loadSong, Answered, ReadOK
  <2> DEFINE x == newRead("fields", reads[r].arg)
  <2>2. ReadOK(x, Stored)
    BY <2>1 DEF newRead, ReadOK, Read, Stored
  <2>3. reads' \in {[reads EXCEPT ![r] = x], [reads EXCEPT ![r] = NoRead]}
        /\ fieldsLoading' \in {TRUE, fieldsLoading}
    BY <1>5 DEF loadSong
  <2> HIDE DEF x
  <2>4. /\ reads' \in [Reads -> Read \cup {NoRead}]
        /\ \A s \in Reads : reads'[s] # NoRead => ReadOK(reads'[s], Stored')
    BY <1>3, <2>2, <2>3
  <2>5. song' \in [id : Stored, text : Text] /\ song' # NoSong
    <3>1. song' \in [id : SongIds, text : Text] /\ song'.id \in Stored
      BY <1>5, <2>1 DEF loadSong, Stored
    <3> QED BY <1>5, <2>1, <3>1, SongAssumption DEF loadSong
  <2> QED BY <1>1, <1>5, <2>3, <2>4, <2>5 DEF loadSong, Answered, listVars, SongTypeOK
<1>6. ASSUME loadFields(r) PROVE SongTypeOK'
  <2>1. reads[r].answer \in Text
    BY <1>2, <1>6 DEF loadFields, Answered, ReadOK
  <2> QED BY <1>1, <1>3, <1>6, <2>1 DEF loadFields, Answered, listVars, SongTypeOK
<1>7. ASSUME readFails(r) PROVE SongTypeOK'
  BY <1>1, <1>3, <1>7 DEF readFails, SongTypeOK
<1> QED BY <1>1, <1>4, <1>5, <1>6, <1>7

\* The reads of some kinds after one of them began or ended.
LEMMA ReadingAfter ==
    ASSUME SongTypeOK, NEW r \in Reads, NEW x, reads' = [reads EXCEPT ![r] = x], NEW kinds
    PROVE  /\ reads'[r] = x /\ \A s \in Reads \ {r} : reads'[s] = reads[s]
           /\ x # NoRead /\ x.kind \in kinds => Reading(kinds)' = Reading(kinds) \cup {r}
           /\ x = NoRead \/ x.kind \notin kinds => Reading(kinds)' = Reading(kinds) \ {r}
BY DEF SongTypeOK, Reading

\* A step that begins, answers or ends a read of one of these kinds, at most.
ReadsIn(kinds) ==
    \/ UNCHANGED reads
    \/ \E r \in Reads, x \in Read \cup {NoRead} :
          /\ reads' = [reads EXCEPT ![r] = x]
          /\ reads[r] # NoRead => reads[r].kind \in kinds
          /\ x # NoRead => x.kind \in kinds

LEMMA NothingOpenKept ==
    ASSUME SongTypeOK, NothingOpen, ListStep \/ SongStep
    PROVE  NothingOpen'
<1> SUFFICES ASSUME songId' = NoSong
             PROVE  /\ song' = NoSong /\ Reading({"song"})' = {}
                    /\ save' # NoRead => save'.stage \notin {"meta", "blocks"}
  BY DEF NothingOpen
<1>1. ASSUME NEW r \in Reads, NEW i \in SongIds, openSongInspector(r, i) PROVE FALSE
  BY <1>1, SongAssumption DEF openSongInspector
<1>2. songId = NoSong
  BY <1>1 DEF ListStep, SongStep, ReadStep, handleSearch, searchStarts, handleClearSearch, importAuto,
     importEnds, handleSortChange, openEditor, saveBlocks, loadSong, loadFields, onCreateSong,
     closeDialog, handleSongSave, saveMeta, saveFails, updateFields, serveSongs, loadSongs, readFails,
     panelVars
<1>3. /\ song = NoSong /\ Reading({"song"}) = {}
      /\ save # NoRead => save.stage \notin {"meta", "blocks"}
  BY <1>2 DEF NothingOpen
<1>4. \A r \in Reads : ~loadSong(r) /\ ~openEditor(r)
  BY <1>3 DEF loadSong, Answered, Reading, openEditor
<1>5. song' = NoSong
  BY <1>3, <1>4 DEF ListStep, SongStep, ReadStep, handleSearch, searchStarts, handleClearSearch,
     importAuto, importEnds, handleSortChange, openSongInspector, saveBlocks, loadFields, onCreateSong,
     closeDialog, handleSongSave, saveMeta, saveFails, updateFields, serveSongs, loadSongs, readFails,
     Answered, panelVars
<1>6. save' # NoRead => save'.stage \notin {"meta", "blocks"}
  <2>1. CASE UNCHANGED save \/ save' = NoRead
    BY <1>3, <2>1
  <2>2. ASSUME handleSongSave PROVE save'.stage = "create"
    BY <1>3, <2>2 DEF handleSongSave, SongTypeOK
  <2>3. ASSUME saveMeta PROVE save'.stage = "newBlocks"
    BY <1>3, <2>3 DEF saveMeta, SongTypeOK, SaveOK, Saving
  <2> QED
    BY <2>1, <2>2, <2>3 DEF ListStep, SongStep, ReadStep, handleSearch, searchStarts,
       handleClearSearch, importAuto, importEnds, handleSortChange, openEditor, openSongInspector,
       saveBlocks, loadSong, loadFields, onCreateSong, closeDialog, saveFails, updateFields,
       serveSongs, loadSongs, readFails, Answered
<1>7. Reading({"song"})' = {}
  <2>1. CASE UNCHANGED reads
    BY <1>3, <2>1 DEF Reading
  <2>2. ASSUME NEW r \in Reads, NEW x, reads' = [reads EXCEPT ![r] = x], x = NoRead \/ x.kind # "song"
        PROVE  Reading({"song"})' = {}
    BY <1>3, <2>2 DEF Reading, SongTypeOK
  <2>3. ASSUME NEW r \in Reads, NEW kind \in {"list", "import", "fields"}, NEW arg, Ask(r, kind, arg)
        PROVE  Reading({"song"})' = {}
    <3>1. newRead(kind, arg).kind # "song"
      BY DEF newRead
    <3> QED BY <2>2, <2>3, <3>1 DEF Ask
  <2>4. ASSUME NEW r \in Reads, importEnds(r) PROVE Reading({"song"})' = {}
    <3>1. newRead("list", reads[r].arg).kind # "song"
      BY DEF newRead
    <3> QED BY <2>2, <2>4, <3>1 DEF importEnds
  <2>5. ASSUME NEW r \in Reads, serveSongs(r) PROVE Reading({"song"})' = {}
    <3> DEFINE x == [reads[r] EXCEPT !.answer = IF reads[r].kind = "list" THEN Stored
                                                ELSE songs[reads[r].arg]]
    <3>1. reads[r] \in Read /\ reads[r].kind # "song"
      BY <1>3, <2>5 DEF serveSongs, Reading, SongTypeOK
    <3>2. x.kind # "song" /\ reads' = [reads EXCEPT ![r] = x]
      BY <2>5, <3>1 DEF serveSongs, Read
    <3> HIDE DEF x
    <3> QED BY <2>2, <3>2
  <2>6. ASSUME NEW r \in Reads, saveBlocks(r) PROVE UNCHANGED reads
    BY <1>3, <2>6 DEF saveBlocks
  <2> QED
    BY <1>1, <1>4, <2>1, <2>2, <2>3, <2>4, <2>5, <2>6 DEF ListStep, SongStep, ReadStep, handleSearch,
       searchStarts, handleClearSearch, importAuto, handleSortChange, loadFields, onCreateSong,
       closeDialog, handleSongSave, saveMeta, saveFails, updateFields, loadSongs, readFails
<1> QED BY <1>5, <1>6, <1>7

-----------------------------------------------------------------------------
(***************************************************************************)
(* The list.  While nothing was mixed, what waits, what is read and what   *)
(* is shown are all for the words and the order of now, and one read at    *)
(* most is under way.                                                      *)
(***************************************************************************)
Chosen == [q |-> query, sort |-> sortBy]

Lists(l) == l.q = query /\ l.sort = sortBy /\ Stored \ made \subseteq l.ids

ListSettling ==
    /\ \A r, s \in ListReads : r = s
    /\ \A r \in ListReads : reads[r].arg = Chosen
    /\ \A r \in Reading({"list"}) :
          reads[r].answer # NotServed => Stored \ made \subseteq reads[r].answer
    /\ Reading({"list"}) = {} /\ songList # NoRead => Lists(songList)

ListInv ==
    ~listMixed =>
        /\ listTimer # NoRead => listTimer = Chosen
        /\ listTimer = NoRead => ListSettling

LEMMA ListInitially == SongInit => ListInv
<1> SUFFICES ASSUME SongInit PROVE ListInv
  OBVIOUS
<1>1. SongTypeOK /\ made = {} /\ listTimer = NoRead /\ query = "" /\ sortBy = "title"
  BY SongTypeInitially DEF SongInit
<1> DEFINE x == newRead("list", [q |-> "", sort |-> "title"])
           l == [q |-> "", sort |-> "title", ids |-> {1, 2}]
<1>2. x.kind = "list" /\ x.arg = Chosen /\ x.answer = NotServed
  BY <1>1 DEF newRead, Chosen
<1>3. l.q = "" /\ l.sort = "title" /\ l.ids = {1, 2}
  OBVIOUS
<1>4. \/ songList = NoRead /\ reads = [r \in Reads |-> IF r = 1 THEN x ELSE NoRead]
      \/ songList = l /\ reads = [r \in Reads |-> NoRead]
  BY DEF SongInit
<1> HIDE DEF x, l
<1>5. Stored \subseteq {1, 2}
  <2>1. \A i \in SongIds : i <= 2 => i \in {1, 2}
    <3>1. \A i \in SongIds : i \in Nat /\ i # 0
      BY SongAssumption
    <3> QED BY <3>1
  <2> QED BY <2>1 DEF SongInit, Stored
<1>6. CASE songList = NoRead /\ reads = [r \in Reads |-> IF r = 1 THEN x ELSE NoRead]
  <2>1. ListReads \subseteq {1} /\ \A r \in ListReads : reads[r] = x
    BY <1>6 DEF ListReads, Reading
  <2> QED BY <1>1, <1>2, <1>6, <2>1 DEF ListInv, ListSettling, ListReads, Reading
<1>7. CASE songList = l /\ reads = [r \in Reads |-> NoRead]
  BY <1>1, <1>3, <1>5, <1>7 DEF ListInv, ListSettling, Lists, ListReads, Reading
<1> QED BY <1>4, <1>6, <1>7

\* Reads of the panel and of its dialog, and songs that the dialog makes.
LEMMA ListUntouched ==
    ASSUME ListInv, SongTypeOK, UNCHANGED listVars, Stored' \ made' \subseteq Stored \ made,
           ReadsIn({"song", "fields"})
    PROVE  ListInv'
<1>1. /\ ListReads' = ListReads /\ Reading({"list"})' = Reading({"list"})
      /\ \A r \in ListReads : reads'[r] = reads[r]
  BY DEF ReadsIn, ListReads, Reading, SongTypeOK
<1>2. Reading({"list"}) \subseteq ListReads
  BY DEF ListReads, Reading
<1>3. UNCHANGED <<query, sortBy, listTimer, songList, listMixed>>
  BY DEF listVars
<1>4. ListSettling => ListSettling'
  BY <1>1, <1>2, <1>3 DEF ListSettling, Chosen, Lists
<1> QED BY <1>3, <1>4 DEF ListInv, Chosen

LEMMA SearchKeyKept ==
    ASSUME ListInv, SongTypeOK, NEW q \in SearchWords, handleSearch(q)
    PROVE  ListInv'
<1>1. listTimer' = [q |-> query', sort |-> sortBy'] /\ listTimer' \in ListArg
  BY DEF handleSearch, SongTypeOK, ListArg
<1> QED BY <1>1, SongAssumption DEF ListInv, Chosen

\* The list is asked for when nothing else is under way, or is mixed.
LEMMA ListAsked ==
    ASSUME ListInv, SongTypeOK, SongTypeOK', NEW r \in Reads, NEW kind \in {"list", "import"},
           Ask(r, kind, [q |-> query', sort |-> sortBy']),
           ~listMixed' => ListReads = {} /\ listTimer' = NoRead,
           kind = "import" /\ ~listMixed' => ~listMixed /\ listTimer = NoRead,
           kind = "import" => UNCHANGED <<query, sortBy>>,
           UNCHANGED <<songs, made, songList>>
    PROVE  ListInv'
<1> DEFINE x == newRead(kind, [q |-> query', sort |-> sortBy'])
<1>1. x.kind = kind /\ x.arg = Chosen' /\ x.answer = NotServed
  BY DEF newRead, Chosen
<1>2. x # NoRead
  <2>1. [q |-> query', sort |-> sortBy'] \in ListArg
    BY DEF SongTypeOK, ListArg
  <2>2. x \in Read
    BY <2>1 DEF newRead, Read
  <2> QED BY <2>2, SongAssumption
<1>3. reads' = [reads EXCEPT ![r] = x]
  BY DEF Ask
<1> HIDE DEF x
<1>4. /\ reads'[r] = x
      /\ ListReads' = ListReads \cup {r}
      /\ kind = "list" => Reading({"list"})' = Reading({"list"}) \cup {r}
      /\ kind = "import" => Reading({"list"})' = Reading({"list"}) \ {r}
  <2>1. Reading({"list", "import"})' = Reading({"list", "import"}) \cup {r} /\ reads'[r] = x
    BY <1>1, <1>2, <1>3 DEF Reading, SongTypeOK
  <2>2. kind = "list" => Reading({"list"})' = Reading({"list"}) \cup {r}
    BY <1>1, <1>2, <1>3 DEF Reading, SongTypeOK
  <2>3. kind = "import" => Reading({"list"})' = Reading({"list"}) \ {r}
    BY <1>1, <1>2, <1>3, ReadingAfter
  <2> QED BY <2>1, <2>2, <2>3 DEF ListReads
<1>5. Reading({"list"}) \subseteq ListReads
  BY DEF ListReads, Reading
<1> SUFFICES ASSUME ~listMixed' PROVE ListSettling'
  BY DEF ListInv
<1>6. ListReads' = {r} /\ Reading({"list"}) = {} /\ Reading({"list"})' \subseteq {r}
  BY <1>4, <1>5
<1>7. kind = "import" => (songList' # NoRead => Lists(songList)')
  BY <1>6 DEF ListInv, ListSettling, Lists, Stored
<1> QED BY <1>1, <1>4, <1>6, <1>7 DEF ListSettling

LEMMA ListAskedKept ==
    ASSUME ListInv, SongTypeOK, SongTypeOK', NEW r \in Reads,
           searchStarts(r) \/ handleClearSearch(r) \/ importAuto(r)
              \/ \E sort \in Orders : handleSortChange(r, sort)
    PROVE  ListInv'
<1>1. ASSUME searchStarts(r) PROVE ListInv'
  <2>1. CASE listMixed'
    BY <2>1 DEF ListInv
  <2>2. CASE ~listMixed'
    <3>1. listTimer = [q |-> query', sort |-> sortBy']
      BY <1>1, <2>2 DEF searchStarts, ListInv, Chosen
    <3> QED BY <1>1, <2>2, <3>1, ListAsked DEF searchStarts
  <2> QED BY <2>1, <2>2
<1>2. ASSUME handleClearSearch(r) PROVE ListInv'
  BY <1>2, ListAsked DEF handleClearSearch
<1>3. ASSUME NEW sort \in Orders, handleSortChange(r, sort) PROVE ListInv'
  <2>1. CASE listMixed'
    BY <2>1 DEF ListInv
  <2>2. CASE ~listMixed'
    <3>1. query' = "" /\ sortBy' = sort
      BY <1>3, <2>2 DEF handleSortChange
    <3> QED BY <1>3, <2>2, <3>1, ListAsked DEF handleSortChange
  <2> QED BY <2>1, <2>2
<1>4. ASSUME importAuto(r) PROVE ListInv'
  BY <1>4, ListAsked DEF importAuto
<1> QED BY <1>1, <1>2, <1>3, <1>4

LEMMA ImportKeepsList ==
    ASSUME ListInv, SongTypeOK, NEW r \in Reads, importEnds(r)
    PROVE  ListInv'
<1>1. r \in ListReads /\ reads[r].kind = "import" /\ reads[r].arg \in ListArg
  BY DEF importEnds, ListReads, Reading, SongTypeOK, ReadOK
<1>2. CASE reads' = [reads EXCEPT ![r] = NoRead] /\ UNCHANGED <<songs, listMixed>>
  <2>1. ListReads' = ListReads \ {r} /\ Reading({"list"})' = Reading({"list"}) \ {r}
        /\ \A s \in Reads \ {r} : reads'[s] = reads[s]
    BY <1>2, ReadingAfter DEF ListReads
  <2>2. r \notin Reading({"list"}) /\ Reading({"list"}) \subseteq ListReads /\ ListReads \subseteq Reads
    BY <1>1 DEF Reading, ListReads
  <2>3. UNCHANGED <<query, sortBy, listTimer, songList, made, songs>>
    BY <1>2 DEF importEnds
  <2>4. ListSettling => ListSettling'
    BY <2>1, <2>2, <2>3 DEF ListSettling, Lists, Chosen, Stored
  <2> QED BY <1>2, <2>3, <2>4 DEF ListInv, Chosen
<1>3. CASE /\ reads' = [reads EXCEPT ![r] = newRead("list", @.arg)]
           /\ listMixed' = (listMixed \/ ListReads # {r} \/ listTimer # NoRead \/ query # reads[r].arg.q)
  <2> SUFFICES ASSUME ~listMixed' PROVE ListSettling'
    BY <1>3 DEF ListInv, importEnds
  <2> DEFINE x == newRead("list", reads[r].arg)
  <2>1. x.kind = "list" /\ x.arg = reads[r].arg /\ x.answer = NotServed /\ x \in Read
    BY <1>1 DEF newRead, Read
  <2>2. reads' = [reads EXCEPT ![r] = x]
    BY <1>3
  <2> HIDE DEF x
  <2>3. ListReads' = ListReads \cup {r} /\ Reading({"list"})' = Reading({"list"}) \cup {r}
        /\ reads'[r] = x
    <3>1. x # NoRead
      BY <2>1, SongAssumption
    <3>2. Reading({"list", "import"})' = Reading({"list", "import"}) \cup {r} /\ reads'[r] = x
      BY <2>1, <2>2, <3>1 DEF Reading, SongTypeOK
    <3>3. Reading({"list"})' = Reading({"list"}) \cup {r}
      BY <2>1, <2>2, <3>1 DEF Reading, SongTypeOK
    <3> QED BY <3>2, <3>3 DEF ListReads
  <2>4. ListReads = {r} /\ Reading({"list"}) \subseteq {r} /\ reads[r].arg = Chosen
    <3>1. ListReads = {r} /\ listTimer = NoRead /\ ~listMixed
      BY <1>3
    <3>2. Reading({"list"}) \subseteq ListReads
      BY DEF ListReads, Reading
    <3> QED BY <3>1, <3>2 DEF ListInv, ListSettling
  <2>5. Chosen' = Chosen
    BY DEF importEnds, Chosen
  <2> QED BY <2>1, <2>3, <2>4, <2>5 DEF ListSettling
<1> QED BY <1>2, <1>3 DEF importEnds

LEMMA AnswersKeepList ==
    ASSUME ListInv, SongTypeOK, NEW r \in Reads, serveSongs(r) \/ loadSongs(r) \/ readFails(r)
    PROVE  ListInv'
<1>1. reads[r] # NoRead /\ ReadOK(reads[r], Stored) /\ reads[r] \in Read
  BY DEF serveSongs, loadSongs, readFails, Answered, SongTypeOK, ReadOK
<1>2. Reading({"list"}) \subseteq ListReads /\ ListReads \subseteq Reads
  BY DEF ListReads, Reading
<1>3. ASSUME serveSongs(r) PROVE ListInv'
  <2> DEFINE a == IF reads[r].kind = "list" THEN Stored ELSE songs[reads[r].arg]
             x == [reads[r] EXCEPT !.answer = a]
  <2>1. /\ x.kind = reads[r].kind /\ x.arg = reads[r].arg /\ x.answer = a
        /\ x \in [kind : {reads[r].kind}, arg : {reads[r].arg}, answer : {a}]
    BY <1>1 DEF Read
  <2>2. reads' = [reads EXCEPT ![r] = x]
    BY <1>3 DEF serveSongs
  <2>3. reads[r].kind = "list" => a = Stored
    OBVIOUS
  <2>4. UNCHANGED <<query, sortBy, listTimer, songList, listMixed, made, songs>>
    BY <1>3 DEF serveSongs, listVars
  <2> HIDE DEF x, a
  <2>5. x # NoRead
    <3> CASE reads[r].kind = "list"
      <4>1. a \in SUBSET SongIds
        BY <2>3 DEF Stored
      <4>2. x \in Read
        BY <1>1, <2>1, <4>1 DEF Read
      <4> QED BY <4>2, SongAssumption
    <3> CASE reads[r].kind # "list"
      <4>1. a \in Text
        BY <1>1, <1>3 DEF serveSongs, ReadOK, Read, SongTypeOK, Stored, a
      <4>2. x \in Read
        BY <1>1, <2>1, <4>1 DEF Read
      <4> QED BY <4>2, SongAssumption
    <3> QED OBVIOUS
  <2>6. /\ reads'[r] = x /\ \A s \in Reads \ {r} : reads'[s] = reads[s]
        /\ ListReads' = ListReads /\ Reading({"list"})' = Reading({"list"})
    BY <1>1, <2>1, <2>2, <2>5 DEF ListReads, Reading, SongTypeOK
  <2>7. ListSettling => ListSettling'
    BY <1>2, <2>1, <2>3, <2>4, <2>6 DEF ListSettling, Lists, Chosen, Stored, Reading
  <2> QED BY <2>4, <2>7 DEF ListInv, Chosen
<1>4. ASSUME loadSongs(r) PROVE ListInv'
  <2>1. /\ reads[r].kind = "list" /\ reads[r].answer # NotServed
        /\ songList' = [q |-> reads[r].arg.q, sort |-> reads[r].arg.sort, ids |-> reads[r].answer]
        /\ reads' = [reads EXCEPT ![r] = NoRead]
        /\ UNCHANGED <<query, sortBy, listTimer, listMixed, made, songs>>
    BY <1>4 DEF loadSongs, Answered
  <2>2. ListReads' = ListReads \ {r} /\ Reading({"list"})' = Reading({"list"}) \ {r}
        /\ \A s \in Reads \ {r} : reads'[s] = reads[s]
    BY <2>1, ReadingAfter DEF ListReads
  <2>3. r \in Reading({"list"})
    BY <1>1, <2>1 DEF Reading
  <2>4. songList'.q = reads[r].arg.q /\ songList'.sort = reads[r].arg.sort
        /\ songList'.ids = reads[r].answer
    BY <2>1
  <2>5. Chosen.q = query /\ Chosen.sort = sortBy /\ Chosen' = Chosen
    BY <2>1 DEF Chosen
  <2>6. ListSettling => ListSettling'
    <3> SUFFICES ASSUME ListSettling PROVE ListSettling'
      OBVIOUS
    <3>1. ListReads' = {} /\ Reading({"list"})' = {}
      BY <1>2, <2>2, <2>3 DEF ListSettling
    <3>2. Lists(songList)'
      BY <1>2, <2>1, <2>3, <2>4, <2>5 DEF ListSettling, Lists, Stored
    <3> QED BY <3>1, <3>2 DEF ListSettling
  <2> QED BY <2>1, <2>5, <2>6 DEF ListInv
<1>5. ASSUME readFails(r) PROVE ListInv'
  <2>1. /\ listMixed' = (listMixed \/ reads[r].kind = "list")
        /\ reads' = [reads EXCEPT ![r] = NoRead]
        /\ UNCHANGED <<query, sortBy, listTimer, songList, made, songs>>
    BY <1>5 DEF readFails
  <2>2. ListReads' = ListReads \ {r} /\ Reading({"list"})' = Reading({"list"}) \ {r}
        /\ \A s \in Reads \ {r} : reads'[s] = reads[s]
    BY <2>1, ReadingAfter DEF ListReads
  <2>3. reads[r].kind # "list" => r \notin Reading({"list"})
    BY DEF Reading
  <2>4. ListSettling /\ reads[r].kind # "list" => ListSettling'
    BY <1>2, <2>1, <2>2, <2>3 DEF ListSettling, Lists, Chosen, Stored
  <2> QED BY <2>1, <2>4 DEF ListInv, Chosen
<1> QED BY <1>3, <1>4, <1>5

\* The panel and its dialog read other things and make songs that are not listed yet.
PanelStep ==
    \/ \E r \in Reads :
          \/ openEditor(r) \/ saveBlocks(r) \/ loadSong(r) \/ loadFields(r)
          \/ \E i \in SongIds : openSongInspector(r, i)
    \/ onCreateSong \/ closeDialog \/ handleSongSave \/ saveMeta \/ saveFails \/ updateFields

LEMMA PanelReads ==
    ASSUME SongTypeOK, SongTypeOK', PanelStep
    PROVE  ReadsIn({"song", "fields"})
<1> DEFINE Goal == \E r \in Reads, x \in Read \cup {NoRead} :
                      /\ reads' = [reads EXCEPT ![r] = x]
                      /\ reads[r] # NoRead => reads[r].kind \in {"song", "fields"}
                      /\ x # NoRead => x.kind \in {"song", "fields"}
<1>1. ASSUME NEW r \in Reads, NEW x, reads' = [reads EXCEPT ![r] = x],
             reads[r] # NoRead => reads[r].kind \in {"song", "fields"},
             x # NoRead => x.kind \in {"song", "fields"}
      PROVE  Goal
  <2>1. x \in Read \cup {NoRead}
    BY <1>1 DEF SongTypeOK
  <2> QED BY <1>1, <2>1
<1>2. ASSUME NEW r \in Reads, NEW kind \in {"song", "fields"}, NEW arg, Ask(r, kind, arg) PROVE Goal
  <2>1. newRead(kind, arg).kind \in {"song", "fields"}
    BY DEF newRead
  <2> QED BY <1>1, <1>2, <2>1 DEF Ask
<1>3. ASSUME NEW r \in Reads, loadSong(r) PROVE Goal
  <2>1. newRead("fields", reads[r].arg).kind = "fields" /\ reads[r].kind = "song"
    BY <1>3 DEF newRead, loadSong, Answered
  <2> QED BY <1>1, <1>3, <2>1 DEF loadSong
<1>4. ASSUME NEW r \in Reads, loadFields(r) PROVE Goal
  <2>1. reads[r].kind = "fields" /\ reads' = [reads EXCEPT ![r] = NoRead]
    BY <1>4 DEF loadFields, Answered
  <2> QED BY <1>1, <2>1
<1> HIDE DEF Goal
<1>5. UNCHANGED reads \/ Goal
  BY <1>2, <1>3, <1>4 DEF PanelStep, openEditor, saveBlocks, openSongInspector, onCreateSong,
     closeDialog, handleSongSave, saveMeta, saveFails, updateFields
<1> QED BY <1>5 DEF Goal, ReadsIn

LEMMA PanelKeepsList ==
    ASSUME ListInv, SongTypeOK, SongTypeOK', PanelStep
    PROVE  ListInv'
<1>1. UNCHANGED listVars
  BY DEF PanelStep, openEditor, saveBlocks, loadSong, loadFields, openSongInspector,
         onCreateSong, closeDialog, handleSongSave, saveMeta, saveFails, updateFields
<1>2. Stored' \ made' \subseteq Stored \ made
  <2>1. CASE UNCHANGED <<songs, made>>
    BY <2>1 DEF Stored
  <2>2. ASSUME saveMeta PROVE Stored' \ made' \subseteq Stored \ made
    <3>1. SaveOK(save, Stored)
      BY <2>2 DEF saveMeta, SongTypeOK
    <3>2. CASE save.stage = "meta"
      <4>1. save.id \in Stored /\ save.fields.title \in [of : SongIds, v : {0, 1}] /\ UNCHANGED made
            /\ songs' = [songs EXCEPT ![save.id].title = save.fields.title]
        BY <2>2, <3>1, <3>2 DEF saveMeta, SaveOK, Text
      <4>2. Stored' = Stored
        BY <4>1, SongWritten
      <4> QED BY <4>1, <4>2
    <3>3. CASE save.stage = "create"
      <4>1. PICK i \in SongIds \ Stored :
              /\ songs' = [songs EXCEPT ![i] = [title |-> written(i, 0), blocks |-> written(i, 0)]]
              /\ made' = made \cup {i}
        BY <2>2, <3>3 DEF saveMeta
      <4>2. Stored' = Stored \cup {i}
        BY <4>1, SongMade
      <4> QED BY <4>1, <4>2
    <3> QED BY <2>2, <3>2, <3>3 DEF saveMeta
  <2>3. ASSUME NEW r \in Reads, saveBlocks(r) PROVE Stored' \ made' \subseteq Stored \ made
    BY <2>3, SaveBlocksTypeKept DEF saveBlocks
  <2> QED
    BY <2>1, <2>2, <2>3 DEF PanelStep, openEditor, loadSong, loadFields, openSongInspector,
       onCreateSong, closeDialog, handleSongSave, saveFails, updateFields, Answered
<1> QED BY <1>1, <1>2, ListUntouched, PanelReads

LEMMA FieldReads ==
    ASSUME SongTypeOK, SongTypeOK', NEW r \in Reads, openEditor(r) \/ loadFields(r)
    PROVE  ReadsIn({"fields"})
<1>1. reads'[r] \in Read \cup {NoRead}
  BY DEF SongTypeOK
<1>2. ASSUME openEditor(r) PROVE ReadsIn({"fields"})
  <2> DEFINE x == newRead("fields", song.id)
  <2>1. x.kind = "fields" /\ reads[r] = NoRead /\ reads' = [reads EXCEPT ![r] = x]
    BY <1>2 DEF openEditor, Ask, newRead
  <2> HIDE DEF x
  <2>2. x = reads'[r]
    BY <2>1 DEF SongTypeOK
  <2> QED BY <1>1, <2>1, <2>2 DEF ReadsIn
<1>3. ASSUME loadFields(r) PROVE ReadsIn({"fields"})
  BY <1>3 DEF loadFields, Answered, ReadsIn
<1> QED BY <1>2, <1>3

ListAction ==
    \/ \E q \in SearchWords : handleSearch(q)
    \/ \E r \in Reads :
          \/ searchStarts(r) \/ handleClearSearch(r) \/ importAuto(r) \/ loadSongs(r) \/ importEnds(r)
          \/ \E sort \in Orders : handleSortChange(r, sort)

LEMMA ListReadsOnly ==
    ASSUME SongTypeOK, SongTypeOK', ListAction
    PROVE  ReadsIn({"list", "import"})
<1> DEFINE Goal == \E r \in Reads, x \in Read \cup {NoRead} :
                      /\ reads' = [reads EXCEPT ![r] = x]
                      /\ reads[r] # NoRead => reads[r].kind \in {"list", "import"}
                      /\ x # NoRead => x.kind \in {"list", "import"}
<1>1. ASSUME NEW r \in Reads, NEW x, reads' = [reads EXCEPT ![r] = x],
             reads[r] # NoRead => reads[r].kind \in {"list", "import"},
             x # NoRead => x.kind \in {"list", "import"}
      PROVE  Goal
  <2>1. x \in Read \cup {NoRead}
    BY <1>1 DEF SongTypeOK
  <2> QED BY <1>1, <2>1
<1>2. ASSUME NEW r \in Reads, NEW kind \in {"list", "import"}, NEW arg, Ask(r, kind, arg) PROVE Goal
  <2>1. newRead(kind, arg).kind \in {"list", "import"}
    BY DEF newRead
  <2> QED BY <1>1, <1>2, <2>1 DEF Ask
<1>3. ASSUME NEW r \in Reads, importEnds(r) PROVE Goal
  <2>1. newRead("list", reads[r].arg).kind = "list" /\ reads[r].kind = "import"
    BY <1>3 DEF newRead, importEnds
  <2> QED BY <1>1, <1>3, <2>1 DEF importEnds
<1>4. ASSUME NEW r \in Reads, loadSongs(r) PROVE Goal
  <2>1. reads[r].kind = "list" /\ reads' = [reads EXCEPT ![r] = NoRead]
    BY <1>4 DEF loadSongs, Answered
  <2> QED BY <1>1, <2>1
<1> HIDE DEF Goal
<1>5. UNCHANGED reads \/ Goal
  BY <1>2, <1>3, <1>4
  DEF ListAction, handleSearch, searchStarts, handleClearSearch, importAuto, handleSortChange
<1> QED BY <1>5 DEF Goal, ReadsIn

\* The main process answers a read with what the database has.
LEMMA ServedRead ==
    ASSUME SongTypeOK, SongTypeOK', NEW r \in Reads, serveSongs(r)
    PROVE  /\ reads[r] # NoRead /\ reads'[r] # NoRead
           /\ reads'[r].kind = reads[r].kind /\ reads'[r].arg = reads[r].arg
           /\ reads[r].kind # "list" => reads'[r].answer = songs[reads[r].arg]
           /\ \A s \in Reads \ {r} : reads'[s] = reads[s]
<1> DEFINE a == IF reads[r].kind = "list" THEN Stored ELSE songs[reads[r].arg]
           x == [reads[r] EXCEPT !.answer = a]
<1>1. reads[r] # NoRead /\ ReadOK(reads[r], Stored) /\ reads[r] \in Read /\ reads[r].kind # "import"
  BY DEF serveSongs, SongTypeOK, ReadOK
<1>2. x.kind = reads[r].kind /\ x.arg = reads[r].arg /\ x.answer = a
  BY <1>1 DEF Read
<1>3. reads' = [reads EXCEPT ![r] = x]
  BY DEF serveSongs
<1>4. reads[r].kind # "list" => a = songs[reads[r].arg]
  OBVIOUS
<1>5. (SUBSET SongIds) \cup Text \subseteq {NotServed} \cup (SUBSET SongIds) \cup Text
  OBVIOUS
<1>6. a \in (SUBSET SongIds) \cup Text
  <2>1. reads[r].kind # "list" => reads[r].arg \in Stored /\ songs[reads[r].arg] \in Text
    BY <1>1 DEF ReadOK, Read, SongTypeOK, Stored
  <2>2. Stored \in SUBSET SongIds
    BY DEF Stored
  <2> QED BY <2>1, <2>2
<1> HIDE DEF a
<1>7. x \in Read
  BY <1>1, <1>5, <1>6 DEF Read
<1> HIDE DEF x
<1>8. x # NoRead
  BY <1>7, SongAssumption
<1>9. reads'[r] = x /\ \A s \in Reads \ {r} : reads'[s] = reads[s]
  BY <1>3 DEF SongTypeOK
<1> QED BY <1>1, <1>2, <1>4, <1>8, <1>9

-----------------------------------------------------------------------------
(***************************************************************************)
(* The panel of a song.  While nothing was mixed, the one read of a song   *)
(* that may be under way is for the song selected; and except between the  *)
(* two calls of a save, what it was answered, or else what the panel       *)
(* shows, is what the database has.                                        *)
(***************************************************************************)
SongReads == Reading({"song"})

Quiet(x) == x = NoRead \/ x.stage # "blocks"

ShownInv ==
    ~songMixed /\ songId # NoSong =>
        /\ \A r, s \in SongReads : r = s
        /\ \A r \in SongReads : reads[r].arg = songId
        /\ Quiet(save) =>
             /\ \A r \in SongReads : reads[r].answer # NotServed => reads[r].answer = songs[songId]
             /\ SongReads = {} => song.id = songId /\ song.text = songs[songId]

LEMMA ShownUntouched ==
    ASSUME ShownInv, UNCHANGED <<songId, song>>, songMixed => songMixed',
           songId # NoSong => songs'[songId] = songs[songId] \/ ~Quiet(save') \/ songMixed',
           Quiet(save') => Quiet(save) \/ songMixed',
           SongReads' = SongReads, \A r \in SongReads : reads'[r] = reads[r]
    PROVE  ShownInv'
BY DEF ShownInv

LEMMA OtherReads ==
    ASSUME SongTypeOK, NEW kinds, "song" \notin kinds, ReadsIn(kinds)
    PROVE  SongReads' = SongReads /\ \A r \in SongReads : reads'[r] = reads[r]
BY DEF ReadsIn, SongReads, Reading, SongTypeOK

LEMMA ListKeepsShown ==
    ASSUME ShownInv, SongTypeOK, SongTypeOK', ListAction
    PROVE  ShownInv'
<1>1. SongReads' = SongReads /\ \A r \in SongReads : reads'[r] = reads[r]
  BY OtherReads, ListReadsOnly
<1>2. songId # NoSong => songs'[songId] = songs[songId]
  <2>1. CASE UNCHANGED songs
    BY <2>1
  <2>2. ASSUME NEW r \in Reads, importEnds(r), NEW i \in SongIds \ Stored,
               songs' = [songs EXCEPT ![i] = [title |-> written(i, 0), blocks |-> written(i, 0)]]
        PROVE  songId # NoSong => songs'[songId] = songs[songId]
    BY <2>2, SongMade DEF SongTypeOK
  <2> QED
    BY <2>1, <2>2 DEF ListAction, handleSearch, searchStarts, handleClearSearch, importAuto,
       handleSortChange, loadSongs, importEnds, Answered
<1>3. UNCHANGED <<songId, song, save, songMixed>>
  BY DEF ListAction, handleSearch, searchStarts, handleClearSearch, importAuto, handleSortChange,
         loadSongs, importEnds, Answered, panelVars
<1> QED BY <1>1, <1>2, <1>3, ShownUntouched

LEMMA DialogKeepsShown ==
    ASSUME ShownInv, SongTypeOK, SongTypeOK',
           \/ \E r \in Reads : openEditor(r) \/ loadFields(r)
           \/ onCreateSong \/ closeDialog \/ handleSongSave \/ updateFields \/ saveFails
    PROVE  ShownInv'
<1>1. SongReads' = SongReads /\ \A r \in SongReads : reads'[r] = reads[r]
  <2>1. CASE UNCHANGED reads
    BY <2>1 DEF SongReads, Reading
  <2>2. CASE \E r \in Reads : openEditor(r) \/ loadFields(r)
    BY <2>2, OtherReads, FieldReads
  <2> QED BY <2>1, <2>2 DEF onCreateSong, closeDialog, handleSongSave, updateFields, saveFails
<1>2. UNCHANGED <<songs, songId, song>>
  BY DEF openEditor, loadFields, onCreateSong, closeDialog, handleSongSave, updateFields, saveFails,
         Answered, panelVars
<1>3. songMixed => songMixed'
  BY DEF openEditor, loadFields, onCreateSong, closeDialog, handleSongSave, updateFields, saveFails,
         Answered, panelVars
<1>4. Quiet(save') => Quiet(save) \/ songMixed'
  BY DEF openEditor, loadFields, onCreateSong, closeDialog, handleSongSave, updateFields, saveFails,
         Answered, Quiet
<1> QED BY <1>1, <1>2, <1>3, <1>4, ShownUntouched

LEMMA SelectKeepsShown ==
    ASSUME ShownInv, SongTypeOK, SongTypeOK', NEW r \in Reads, NEW i \in SongIds, openSongInspector(r, i)
    PROVE  ShownInv'
<1> DEFINE x == newRead("song", i)
<1>1. x.kind = "song" /\ x.arg = i /\ x.answer = NotServed
  BY DEF newRead
<1>2. reads' = [reads EXCEPT ![r] = x]
  BY DEF openSongInspector, Ask
<1> HIDE DEF x
<1>3. reads'[r] = x /\ SongReads' \subseteq SongReads \cup {r}
  BY <1>2 DEF SongTypeOK, SongReads, Reading
<1>4. ~songMixed' => SongReads' \subseteq {r}
  BY <1>3 DEF openSongInspector, SongReads
<1>5. songId' = i
  BY DEF openSongInspector
<1>6. x # NoRead
  <2>1. i \in SongIds /\ i \in ListArg \cup SongIds
    OBVIOUS
  <2>2. x \in Read
    BY <2>1 DEF x, newRead, Read
  <2> QED BY <2>2, SongAssumption
<1>7. r \in SongReads'
  BY <1>1, <1>3, <1>6 DEF SongReads, Reading
<1> QED BY <1>1, <1>3, <1>4, <1>5, <1>7 DEF ShownInv

LEMMA SaveMetaKeepsShown ==
    ASSUME ShownInv, SongTypeOK, SongTypeOK', saveMeta
    PROVE  ShownInv'
<1>1. SongReads' = SongReads /\ UNCHANGED <<reads, songId, song, songMixed>>
  BY DEF saveMeta, panelVars, SongReads, Reading
<1>2. SaveOK(save, Stored)
  BY DEF saveMeta, SongTypeOK
<1>3. CASE save.stage = "meta"
  <2>1. ~Quiet(save')
    <3>1. save' = [save EXCEPT !.stage = "blocks"]
      BY <1>3 DEF saveMeta
    <3>2. save' \in Saving /\ save'.stage = "blocks"
      BY <1>2, <3>1 DEF SaveOK, Saving
    <3> QED BY <3>2, SongAssumption DEF Quiet
  <2> QED BY <1>1, <2>1, ShownUntouched
<1>4. CASE save.stage = "create"
  <2>1. PICK i \in SongIds \ Stored :
          songs' = [songs EXCEPT ![i] = [title |-> written(i, 0), blocks |-> written(i, 0)]]
    BY <1>4 DEF saveMeta
  <2>2. songId # NoSong => songs'[songId] = songs[songId]
    BY <2>1, SongMade DEF SongTypeOK
  <2> QED BY <1>1, <1>4, <2>2, ShownUntouched DEF Quiet
<1> QED BY <1>3, <1>4 DEF saveMeta

LEMMA SaveBlocksKeepsShown ==
    ASSUME ShownInv, SongTypeOK, SongTypeOK', NEW r \in Reads, saveBlocks(r)
    PROVE  ShownInv'
<1>1. SaveOK(save, Stored) /\ save' = NoRead /\ UNCHANGED <<songId, song>>
  BY DEF saveBlocks, SongTypeOK
<1>2. CASE save.stage = "blocks"
  <2> DEFINE x == newRead("song", save.shown)
  <2>1. x.kind = "song" /\ x.arg = save.shown /\ x.answer = NotServed
    BY DEF newRead
  <2>2. reads' = [reads EXCEPT ![r] = x] /\ save.shown \in SongIds
    BY <1>1, <1>2 DEF saveBlocks, Ask, SaveOK, Stored
  <2>3. x # NoRead
    <3>1. x \in Read
      BY <2>2 DEF newRead, Read
    <3> QED BY <3>1, SongAssumption
  <2> HIDE DEF x
  <2>4. reads'[r] = x /\ SongReads' = SongReads \cup {r}
    BY <2>1, <2>2, <2>3 DEF SongTypeOK, SongReads, Reading
  <2>5. ~songMixed' => SongReads = {} /\ save.shown = songId
    BY <1>2 DEF saveBlocks, SongReads
  <2> QED BY <1>1, <2>1, <2>4, <2>5 DEF ShownInv
<1>3. CASE save.stage = "newBlocks"
  <2>1. /\ save.id \in Stored /\ written(save.id, 1) \in [of : SongIds, v : {0, 1}]
        /\ songs' = [songs EXCEPT ![save.id].blocks = written(save.id, 1)]
        /\ songMixed' = (songMixed \/ save.id = songId) /\ UNCHANGED reads
    BY <1>1, <1>3 DEF saveBlocks, SaveOK, Stored, written
  <2>2. \A j \in Stored \ {save.id} : songs'[j] = songs[j]
    BY <2>1, SongWritten
  <2>3. songId # NoSong => songs'[songId] = songs[songId] \/ songMixed'
    BY <2>1, <2>2 DEF SongTypeOK
  <2>4. Quiet(save)
    BY <1>3 DEF Quiet
  <2>5. SongReads' = SongReads
    BY <2>1 DEF SongReads, Reading
  <2> QED BY <1>1, <2>1, <2>3, <2>4, <2>5, ShownUntouched
<1> QED BY <1>2, <1>3 DEF saveBlocks

LEMMA AnswersKeepShown ==
    ASSUME ShownInv, SongTypeOK, SongTypeOK', NEW r \in Reads,
           serveSongs(r) \/ loadSong(r) \/ readFails(r)
    PROVE  ShownInv'
<1>1. ASSUME serveSongs(r) PROVE ShownInv'
  <2>1. /\ reads[r] # NoRead /\ reads'[r] # NoRead
        /\ reads'[r].kind = reads[r].kind /\ reads'[r].arg = reads[r].arg
        /\ reads[r].kind # "list" => reads'[r].answer = songs[reads[r].arg]
        /\ \A s \in Reads \ {r} : reads'[s] = reads[s]
    BY <1>1, ServedRead
  <2>2. UNCHANGED <<songs, songId, song, songMixed, save>>
    BY <1>1 DEF serveSongs, panelVars
  <2>3. SongReads' = SongReads
    BY <2>1 DEF SongReads, Reading
  <2>4. \A s \in SongReads : s \in Reads /\ reads[s].kind = "song"
    BY DEF SongReads, Reading
  <2> QED BY <2>1, <2>2, <2>3, <2>4 DEF ShownInv
<1>2. ASSUME loadSong(r) PROVE ShownInv'
  <2>1. /\ r \in SongReads /\ reads[r].answer # NotServed
        /\ UNCHANGED <<songs, songId, songMixed, save>>
        /\ song' = [id |-> reads[r].arg, text |-> reads[r].answer]
    BY <1>2 DEF loadSong, Answered, SongReads, Reading
  <2>2. SongReads' \subseteq SongReads \ {r} /\ \A s \in SongReads' : reads'[s] = reads[s]
    <3> DEFINE x == newRead("fields", reads[r].arg)
    <3>1. x.kind # "song"
      BY DEF newRead
    <3>2. reads' = [reads EXCEPT ![r] = x] \/ reads' = [reads EXCEPT ![r] = NoRead]
      BY <1>2 DEF loadSong
    <3> HIDE DEF x
    <3> QED BY <3>1, <3>2 DEF SongReads, Reading, SongTypeOK
  <2>3. song'.id = reads[r].arg /\ song'.text = reads[r].answer
    BY <2>1
  <2> QED BY <2>1, <2>2, <2>3 DEF ShownInv
<1>3. ASSUME readFails(r) PROVE ShownInv'
  <2>1. UNCHANGED <<songs, songId, song, save>> /\ songMixed' = (songMixed \/ reads[r].kind = "song")
        /\ reads' = [reads EXCEPT ![r] = NoRead]
    BY <1>3 DEF readFails
  <2>2. reads[r].kind # "song" => SongReads' = SongReads /\ \A s \in SongReads : reads'[s] = reads[s]
    BY <2>1 DEF SongReads, Reading, SongTypeOK
  <2> QED BY <2>1, <2>2 DEF ShownInv
<1> QED BY <1>1, <1>2, <1>3

-----------------------------------------------------------------------------
(***************************************************************************)
(* The dialog.  Until the user is hasty one read of its fields at most is  *)
(* under way, the dialog says so, and what the dialog reads, holds and     *)
(* saves is of the song that it is open on.                                *)
(***************************************************************************)
FieldsReads == Reading({"fields"})

Owned(t, i) == t.title.of = i /\ t.blocks.of = i

EditInv ==
    ~hasty =>
        /\ \A i \in Stored : Owned(songs[i], i)
        /\ \A r, s \in FieldsReads : r = s
        /\ fieldsLoading <=> FieldsReads # {}
        /\ \A r \in FieldsReads : reads[r].answer # NotServed => Owned(reads[r].answer, reads[r].arg)
        /\ dialog = "edit" =>
              /\ \A r \in FieldsReads : reads[r].arg = song.id
              /\ ~fieldsLoading /\ fields # NoFields => Owned(fields, song.id)
        /\ save # NoRead /\ save.stage \in {"meta", "blocks"} => Owned(save.fields, save.id)

LEMMA EditUntouched ==
    ASSUME EditInv, UNCHANGED <<fields, fieldsLoading, song>>, hasty => hasty',
           ~hasty /\ ~hasty' /\ (\A i \in Stored : Owned(songs[i], i)) =>
               \A i \in Stored' : Owned(songs'[i], i),
           dialog' = "edit" => dialog = "edit",
           UNCHANGED save \/ save' = NoRead,
           FieldsReads' = FieldsReads, \A r \in FieldsReads : reads'[r] = reads[r]
    PROVE  EditInv'
BY DEF EditInv

LEMMA ReadsOfOthers ==
    ASSUME SongTypeOK, NEW kinds, "fields" \notin kinds, ReadsIn(kinds)
    PROVE  FieldsReads' = FieldsReads /\ \A r \in FieldsReads : reads'[r] = reads[r]
BY DEF ReadsIn, FieldsReads, Reading, SongTypeOK

LEMMA ListKeepsEdit ==
    ASSUME EditInv, SongTypeOK, SongTypeOK', ListAction
    PROVE  EditInv'
<1>1. FieldsReads' = FieldsReads /\ \A r \in FieldsReads : reads'[r] = reads[r]
  BY ReadsOfOthers, ListReadsOnly
<1>2. (\A i \in Stored : Owned(songs[i], i)) => \A i \in Stored' : Owned(songs'[i], i)
  <2>1. CASE UNCHANGED songs
    BY <2>1 DEF Stored
  <2>2. ASSUME NEW r \in Reads, importEnds(r), NEW i \in SongIds \ Stored,
               songs' = [songs EXCEPT ![i] = [title |-> written(i, 0), blocks |-> written(i, 0)]]
        PROVE  (\A j \in Stored : Owned(songs[j], j)) => \A j \in Stored' : Owned(songs'[j], j)
    <3>1. Owned([title |-> written(i, 0), blocks |-> written(i, 0)], i)
      BY DEF Owned, written
    <3> QED BY <2>2, <3>1, SongMade
  <2> QED
    BY <2>1, <2>2 DEF ListAction, handleSearch, searchStarts, handleClearSearch, importAuto,
       handleSortChange, loadSongs, importEnds, Answered
<1>3. UNCHANGED <<fields, fieldsLoading, song, hasty, dialog, save>>
  BY DEF ListAction, handleSearch, searchStarts, handleClearSearch, importAuto, handleSortChange,
         loadSongs, importEnds, Answered, panelVars
<1> QED BY <1>1, <1>2, <1>3, EditUntouched

LEMMA PanelKeepsEdit ==
    ASSUME EditInv, SongTypeOK, SongTypeOK',
           \/ \E r \in Reads : readFails(r) \/ \E i \in SongIds : openSongInspector(r, i)
           \/ onCreateSong \/ closeDialog \/ saveFails
    PROVE  EditInv'
<1>1. ASSUME NEW r \in Reads, NEW i \in SongIds, openSongInspector(r, i) PROVE EditInv'
  <2> DEFINE x == newRead("song", i)
  <2>1. reads' = [reads EXCEPT ![r] = x] /\ reads[r] = NoRead /\ x.kind # "fields"
    BY <1>1 DEF openSongInspector, Ask, newRead
  <2> HIDE DEF x
  <2>2. FieldsReads' = FieldsReads /\ \A s \in FieldsReads : reads'[s] = reads[s]
    BY <2>1 DEF FieldsReads, Reading, SongTypeOK
  <2> QED BY <1>1, <2>2, EditUntouched DEF openSongInspector, Stored
<1>2. ASSUME onCreateSong \/ closeDialog \/ saveFails PROVE EditInv'
  <2>1. FieldsReads' = FieldsReads /\ UNCHANGED <<reads, songs>>
    BY <1>2 DEF onCreateSong, closeDialog, saveFails, FieldsReads, Reading
  <2> QED BY <1>2, <2>1, EditUntouched DEF onCreateSong, closeDialog, saveFails, panelVars, Stored
<1>3. ASSUME NEW r \in Reads, readFails(r) PROVE EditInv'
  <2>1. CASE reads[r].kind = "fields"
    BY <1>3, <2>1 DEF readFails, EditInv
  <2>2. CASE reads[r].kind # "fields"
    <3>1. FieldsReads' = FieldsReads /\ \A s \in FieldsReads : reads'[s] = reads[s]
      BY <1>3, <2>2 DEF readFails, FieldsReads, Reading, SongTypeOK
    <3>2. UNCHANGED <<songs, fields, fieldsLoading, song, dialog, save>> /\ (hasty => hasty')
      BY <1>3, <2>2 DEF readFails, SongTypeOK
    <3> QED BY <3>1, <3>2, EditUntouched DEF Stored
  <2> QED BY <2>1, <2>2
<1> QED BY <1>1, <1>2, <1>3

LEMMA EditorKeepsEdit ==
    ASSUME EditInv, SongTypeOK, SongTypeOK', NEW r \in Reads, openEditor(r)
    PROVE  EditInv'
<1> DEFINE x == newRead("fields", song.id)
<1>1. x.kind = "fields" /\ x.arg = song.id /\ x.answer = NotServed
  BY DEF newRead
<1>2. reads' = [reads EXCEPT ![r] = x]
  BY DEF openEditor, Ask
<1>3. x # NoRead
  <2>1. song.id \in SongIds
    BY DEF openEditor, SongTypeOK, Stored
  <2>2. x \in Read
    BY <2>1 DEF newRead, Read
  <2> QED BY <2>2, SongAssumption
<1> HIDE DEF x
<1>4. reads'[r] = x /\ FieldsReads' = FieldsReads \cup {r}
  BY <1>1, <1>2, <1>3 DEF SongTypeOK, FieldsReads, Reading
<1>5. ~hasty' => ~hasty /\ FieldsReads = {}
  BY DEF openEditor, FieldsReads
<1>6. UNCHANGED <<songs, song, save>> /\ fieldsLoading'
  BY DEF openEditor
<1> QED BY <1>1, <1>4, <1>5, <1>6 DEF EditInv, Stored

LEMMA FieldsKeepEdit ==
    ASSUME EditInv, SongTypeOK, SongTypeOK', updateFields \/ \E r \in Reads : loadFields(r)
    PROVE  EditInv'
<1>1. ASSUME updateFields PROVE EditInv'
  <2>1. fields \in Text /\ fields' = [fields EXCEPT !.title.v = 1, !.blocks.v = 1]
    BY <1>1 DEF updateFields, SongTypeOK
  <2>2. fields'.title.of = fields.title.of /\ fields'.blocks.of = fields.blocks.of
    BY <2>1 DEF Text
  <2>3. UNCHANGED <<songs, song, save, reads, fieldsLoading, hasty, dialog>> /\ fields # NoFields
    BY <1>1 DEF updateFields
  <2>4. FieldsReads' = FieldsReads
    BY <2>3 DEF FieldsReads, Reading
  <2> QED BY <2>2, <2>3, <2>4 DEF EditInv, Owned, Stored
<1>2. ASSUME NEW r \in Reads, loadFields(r) PROVE EditInv'
  <2>1. /\ r \in FieldsReads /\ reads[r].answer # NotServed
        /\ UNCHANGED <<songs, song, save, hasty, dialog>> /\ ~fieldsLoading'
        /\ fields' = reads[r].answer
    BY <1>2 DEF loadFields, Answered, FieldsReads, Reading
  <2>2. FieldsReads' = FieldsReads \ {r}
    BY <1>2 DEF loadFields, FieldsReads, Reading, SongTypeOK
  <2> QED BY <2>1, <2>2 DEF EditInv, Stored
<1> QED BY <1>1, <1>2

LEMMA SaveBeginsKeepsEdit ==
    ASSUME EditInv, SongTypeOK, SongTypeOK', handleSongSave
    PROVE  EditInv'
<1>1. UNCHANGED <<songs, song, fields, fieldsLoading, dialog, reads>>
  BY DEF handleSongSave
<1>2. FieldsReads' = FieldsReads
  BY <1>1 DEF FieldsReads, Reading
<1>3. ~hasty' => ~hasty /\ (dialog = "edit" => ~fieldsLoading /\ fields # NoFields)
  BY DEF handleSongSave
<1>4. /\ save'.stage \in {"meta", "blocks"} => dialog = "edit"
      /\ dialog = "edit" => save'.fields = fields /\ save'.id = song.id
  BY DEF handleSongSave
<1> QED BY <1>1, <1>2, <1>3, <1>4 DEF EditInv, Stored

LEMMA SaveMetaKeepsEdit ==
    ASSUME EditInv, SongTypeOK, SongTypeOK', saveMeta
    PROVE  EditInv'
<1>1. FieldsReads' = FieldsReads /\ UNCHANGED <<reads, song, fields, fieldsLoading, dialog, hasty>>
  BY DEF saveMeta, panelVars, FieldsReads, Reading
<1>2. SaveOK(save, Stored) /\ save # NoRead
  BY DEF saveMeta, SongTypeOK
<1>3. CASE save.stage = "meta"
  <2>1. /\ save.id \in Stored /\ save.fields.title \in [of : SongIds, v : {0, 1}]
        /\ songs' = [songs EXCEPT ![save.id].title = save.fields.title]
        /\ save' = [save EXCEPT !.stage = "blocks"]
    BY <1>2, <1>3 DEF saveMeta, SaveOK, Text
  <2>2. save'.id = save.id /\ save'.fields = save.fields
    BY <1>2, <2>1 DEF SaveOK, Saving
  <2>3. /\ Stored' = Stored /\ \A j \in Stored \ {save.id} : songs'[j] = songs[j]
        /\ songs'[save.id].title \in {save.fields.title, songs[save.id].title}
        /\ songs'[save.id].blocks \in {save.fields.title, songs[save.id].blocks}
    BY <2>1, SongWritten
  <2>4. ~hasty => Owned(save.fields, save.id) /\ \A i \in Stored : Owned(songs[i], i)
    BY <1>2, <1>3 DEF EditInv
  <2>5. ~hasty => \A i \in Stored' : Owned(songs'[i], i)
    BY <2>1, <2>3, <2>4 DEF Owned
  <2> QED BY <1>1, <2>2, <2>4, <2>5 DEF EditInv
<1>4. CASE save.stage = "create"
  <2>1. PICK i \in SongIds \ Stored :
          /\ songs' = [songs EXCEPT ![i] = [title |-> written(i, 0), blocks |-> written(i, 0)]]
          /\ save' = [save EXCEPT !.stage = "newBlocks", !.id = i]
    BY <1>4 DEF saveMeta
  <2>2. save'.stage = "newBlocks"
    BY <1>2, <2>1 DEF SaveOK, Saving
  <2>3. Owned([title |-> written(i, 0), blocks |-> written(i, 0)], i)
    BY DEF Owned, written
  <2>4. (\A j \in Stored : Owned(songs[j], j)) => \A j \in Stored' : Owned(songs'[j], j)
    BY <2>1, <2>3, SongMade
  <2> QED BY <1>1, <2>2, <2>4 DEF EditInv
<1> QED BY <1>3, <1>4 DEF saveMeta

LEMMA SaveBlocksKeepsEdit ==
    ASSUME EditInv, SongTypeOK, SongTypeOK', NEW r \in Reads, saveBlocks(r)
    PROVE  EditInv'
<1>1. SaveOK(save, Stored) /\ save # NoRead /\ save' = NoRead
      /\ UNCHANGED <<song, fields, fieldsLoading, hasty>>
  BY DEF saveBlocks, SongTypeOK
<1>2. dialog' = "edit" => dialog = "edit"
  BY DEF saveBlocks
<1>3. FieldsReads' = FieldsReads /\ \A s \in FieldsReads : reads'[s] = reads[s]
  <2> DEFINE x == newRead("song", save.shown)
  <2>1. x.kind # "fields"
    BY DEF newRead
  <2>2. UNCHANGED reads \/ (reads[r] = NoRead /\ reads' = [reads EXCEPT ![r] = x])
    BY DEF saveBlocks, Ask
  <2> HIDE DEF x
  <2> QED BY <2>1, <2>2 DEF FieldsReads, Reading, SongTypeOK
<1>4. ASSUME NEW v \in [of : SongIds, v : {0, 1}], songs' = [songs EXCEPT ![save.id].blocks = v],
             save.id \in Stored, v.of = save.id, \A i \in Stored : Owned(songs[i], i)
      PROVE  \A i \in Stored' : Owned(songs'[i], i)
  <2>1. /\ Stored' = Stored /\ \A j \in Stored \ {save.id} : songs'[j] = songs[j]
        /\ songs'[save.id].title = songs[save.id].title
        /\ songs'[save.id].blocks \in {v, songs[save.id].blocks}
    <3>1. songs[save.id] \in Text /\ save.id \in SongIds
      BY <1>4 DEF SongTypeOK, Stored
    <3>2. songs'[save.id].title = songs[save.id].title
      BY <1>4, <3>1 DEF SongTypeOK, Text
    <3> QED BY <1>4, <3>2, SongWritten
  <2> QED BY <1>4, <2>1 DEF Owned
<1>5. CASE save.stage = "blocks"
  <2>1. /\ save.id \in Stored /\ save.fields.blocks \in [of : SongIds, v : {0, 1}]
        /\ songs' = [songs EXCEPT ![save.id].blocks = save.fields.blocks]
    BY <1>1, <1>5 DEF saveBlocks, SaveOK, Text
  <2>2. ~hasty => save.fields.blocks.of = save.id
    BY <1>1, <1>5 DEF EditInv, Owned
  <2>3. ~hasty /\ (\A i \in Stored : Owned(songs[i], i)) => \A i \in Stored' : Owned(songs'[i], i)
    BY <1>4, <2>1, <2>2
  <2> QED BY <1>1, <1>2, <1>3, <2>3, EditUntouched
<1>6. CASE save.stage = "newBlocks"
  <2>1. /\ save.id \in Stored /\ written(save.id, 1) \in [of : SongIds, v : {0, 1}]
        /\ written(save.id, 1).of = save.id
        /\ songs' = [songs EXCEPT ![save.id].blocks = written(save.id, 1)]
    BY <1>1, <1>6 DEF saveBlocks, SaveOK, Stored, written
  <2>2. (\A i \in Stored : Owned(songs[i], i)) => \A i \in Stored' : Owned(songs'[i], i)
    BY <1>4, <2>1
  <2> QED BY <1>1, <1>2, <1>3, <2>2, EditUntouched
<1> QED BY <1>5, <1>6 DEF saveBlocks

LEMMA AnswersKeepEdit ==
    ASSUME EditInv, SongTypeOK, SongTypeOK', NEW r \in Reads, serveSongs(r) \/ loadSong(r)
    PROVE  EditInv'
<1>1. ASSUME serveSongs(r) PROVE EditInv'
  <2>1. /\ reads[r] # NoRead /\ reads'[r] # NoRead
        /\ reads'[r].kind = reads[r].kind /\ reads'[r].arg = reads[r].arg
        /\ reads[r].kind # "list" => reads'[r].answer = songs[reads[r].arg]
        /\ \A s \in Reads \ {r} : reads'[s] = reads[s]
    BY <1>1, ServedRead
  <2>2. UNCHANGED <<songs, fields, fieldsLoading, song, hasty, dialog, save>>
    BY <1>1 DEF serveSongs, panelVars
  <2>3. FieldsReads' = FieldsReads
    BY <2>1 DEF FieldsReads, Reading
  <2>4. \A s \in FieldsReads : s \in Reads /\ reads[s].kind = "fields" /\ reads[s].arg \in Stored
    BY DEF FieldsReads, Reading, SongTypeOK, ReadOK
  <2> QED BY <2>1, <2>2, <2>3, <2>4 DEF EditInv, Stored
<1>2. ASSUME loadSong(r) PROVE EditInv'
  <2> DEFINE i == reads[r].arg
             x == newRead("fields", i)
  <2>1. /\ reads[r] # NoRead /\ reads[r].kind = "song" /\ i \in SongIds
        /\ UNCHANGED <<songs, fields, dialog, save>> /\ song'.id = i
    BY <1>2 DEF loadSong, Answered, SongTypeOK, ReadOK, Stored
  <2>2. r \notin FieldsReads
    BY <2>1 DEF FieldsReads, Reading
  <2>3. CASE dialog = "edit" /\ song.id # i
    <3>1. reads' = [reads EXCEPT ![r] = x] /\ fieldsLoading' /\ (~hasty' => ~hasty /\ FieldsReads = {})
      BY <1>2, <2>3 DEF loadSong, FieldsReads
    <3>2. x.kind = "fields" /\ x.arg = i /\ x.answer = NotServed /\ x \in Read
      BY <2>1 DEF newRead, Read
    <3> HIDE DEF x
    <3>3. reads'[r] = x /\ FieldsReads' = FieldsReads \cup {r}
      BY <3>1, <3>2, SongAssumption DEF SongTypeOK, FieldsReads, Reading
    <3> QED BY <2>1, <2>3, <3>1, <3>2, <3>3 DEF EditInv, Stored
  <2>4. CASE ~(dialog = "edit" /\ song.id # i)
    <3>1. reads' = [reads EXCEPT ![r] = NoRead] /\ UNCHANGED <<fieldsLoading, hasty>>
      BY <1>2, <2>4 DEF loadSong
    <3>2. FieldsReads' = FieldsReads /\ \A s \in FieldsReads : reads'[s] = reads[s]
      BY <2>2, <3>1 DEF FieldsReads, Reading, SongTypeOK
    <3> QED BY <2>1, <2>4, <3>1, <3>2 DEF EditInv, Stored
  <2> QED BY <2>3, <2>4
<1> QED BY <1>1, <1>2

SongInv == SongTypeOK /\ NothingOpen /\ ListInv /\ ShownInv /\ EditInv

LEMMA SongInitially == SongInit => SongInv
<1> SUFFICES ASSUME SongInit PROVE SongInv
  OBVIOUS
<1>1. songId = NoSong /\ song = NoSong /\ save = NoRead /\ dialog = "closed" /\ fieldsLoading = FALSE
  BY DEF SongInit
<1>2. SongReads = {} /\ FieldsReads = {}
  <2> DEFINE x == newRead("list", [q |-> "", sort |-> "title"])
  <2>1. x.kind = "list"
    BY DEF newRead
  <2>2. \A r \in Reads : reads[r] \in {NoRead, x}
    BY DEF SongInit
  <2> HIDE DEF x
  <2> QED BY <2>1, <2>2 DEF SongReads, FieldsReads, Reading
<1>3. \A i \in Stored : Owned(songs[i], i)
  <2>1. \A i \in Stored : songs[i] = [title |-> written(i, 0), blocks |-> written(i, 0)]
    BY DEF SongInit, Stored
  <2> TAKE i \in Stored
  <2> DEFINE x == [title |-> written(i, 0), blocks |-> written(i, 0)]
  <2>2. Owned(x, i)
    BY DEF Owned, written
  <2>3. songs[i] = x
    BY <2>1
  <2> HIDE DEF x
  <2> QED BY <2>2, <2>3
<1>4. NothingOpen /\ ShownInv /\ EditInv
  BY <1>1, <1>2, <1>3 DEF NothingOpen, ShownInv, EditInv, SongReads
<1> QED BY <1>4, SongTypeInitially, ListInitially DEF SongInv

LEMMA SongTypeKept == ASSUME SongInv, ListStep \/ SongStep PROVE SongTypeOK'
BY ListTypeKept, ImportTypeKept, DialogTypeKept, SaveMetaTypeKept, SaveBlocksTypeKept, AnswersTypeKept
   DEF SongInv, ListStep, SongStep, ReadStep

LEMMA SongStepKept == ASSUME SongInv, ListStep \/ SongStep PROVE SongInv'
<1>1. SongTypeOK' /\ NothingOpen'
  BY SongTypeKept, NothingOpenKept DEF SongInv
<1>2. CASE ListAction
  <2>1. ListInv'
    BY <1>1, <1>2, SearchKeyKept, ListAskedKept, ImportKeepsList, AnswersKeepList DEF ListAction, SongInv
  <2> QED BY <1>1, <1>2, <2>1, ListKeepsShown, ListKeepsEdit DEF SongInv
<1>3. CASE PanelStep
  <2>1. ShownInv'
    BY <1>1, <1>3, DialogKeepsShown, SelectKeepsShown, SaveMetaKeepsShown, SaveBlocksKeepsShown,
       AnswersKeepShown DEF PanelStep, SongInv
  <2>2. EditInv'
    BY <1>1, <1>3, PanelKeepsEdit, EditorKeepsEdit, FieldsKeepEdit, SaveBeginsKeepsEdit,
       SaveMetaKeepsEdit, SaveBlocksKeepsEdit, AnswersKeepEdit DEF PanelStep, SongInv
  <2> QED BY <1>1, <1>3, <2>1, <2>2, PanelKeepsList DEF SongInv
<1>4. ASSUME NEW r \in Reads, serveSongs(r) \/ readFails(r) PROVE SongInv'
  BY <1>1, <1>4, AnswersKeepList, AnswersKeepShown, AnswersKeepEdit, PanelKeepsEdit DEF SongInv
<1> QED BY <1>2, <1>3, <1>4 DEF ListStep, SongStep, ReadStep, ListAction, PanelStep

LEMMA SongInvInductive == SongInv /\ [Work]_workVars => SongInv'
<1> SUFFICES ASSUME SongInv, [Work]_workVars PROVE SongInv'
  OBVIOUS
<1>1. CASE UNCHANGED songVars
  BY <1>1 DEF songVars, listVars, panelVars, SongInv, SongTypeOK, NothingOpen, ListInv, ListSettling,
     ListReads, Lists, Chosen, ShownInv, SongReads, EditInv, FieldsReads, Reading, Stored
<1> QED BY <1>1, SongStepKept DEF Work, workVars

\* When nothing is under way the list is that of the search field and of the order
\* chosen, and the panel shows the song that was selected as the database has it,
\* however many reads overlap and whichever of them fail (SongsTab.tsx,
\* SongDetailPanel.tsx).
THEOREM SongsTheorem == WorkSpec => []SongsShown
<1>1. Start => SongInv
  BY SongInitially DEF Start
<1>2. SongInv => SongsShown
  <2> SUFFICES ASSUME SongInv PROVE SongsShown
    OBVIOUS
  <2>1. Reading({"list"}) \subseteq ListReads
    BY DEF ListReads, Reading
  <2> QED BY <2>1 DEF SongInv, ListInv, ListSettling, Lists, ShownInv, SongReads, Quiet, SongsShown
<1> QED BY <1>1, <1>2, SongInvInductive, PTL DEF WorkSpec

\* No song ever gets the title or the blocks of another one from the dialog of the
\* panel, until the user is hasty (SongEditorDialog.tsx).
THEOREM EditTheorem == WorkSpec => []SongEdited
<1>1. Start => SongInv
  BY SongInitially DEF Start
<1>2. SongInv => SongEdited
  BY DEF SongInv, EditInv, Owned, SongEdited
<1> QED BY <1>1, <1>2, SongInvInductive, PTL DEF WorkSpec

-----------------------------------------------------------------------------
(***************************************************************************)
(* The plan of the regie.                                                  *)
(***************************************************************************)
Plans == {p \in AllPlans : p < nextPlan}

Store(p) == IF p = NoPlan THEN NoPlan ELSE stored[p]

PlanOrNone(p) == p # NoPlan => p \in PlanRecord /\ IsFiniteSet(p.items)

PlanDataOK ==
    /\ stored \in [AllPlans -> PlanRecord \cup {NoPlan}]
    /\ \A p \in AllPlans : PlanOrNone(stored[p])
    /\ PlanOrNone(plan)
    /\ nextPlan \in Nat /\ nextItem \in Nat
    /\ PlansListed \subseteq Plans
    /\ planList \subseteq Plans
    /\ selectedPlanId \in Plans \cup {NoPlan}
    /\ selectedItemIds \subseteq Nat
    /\ calm \in [plan : BOOLEAN, list : BOOLEAN]

\* The calls that an operation makes.
Channels(op) ==
    CASE op \in {"add", "template"} -> {"add", "get"}
      [] op \in {"update", "background"} -> {"update", "get"}
      [] op = "import" -> {"add"}
      [] op = "remove" -> {"remove", "get"}
      [] op = "rename" -> {"rename", "list"}
      [] op = "planBackground" -> {"background", "get"}
      [] op \in {"create", "duplicate"} -> {"create", "list"}
      [] op = "delete" -> {"delete", "list"}
      [] op = "select" -> {"get"}
      [] op = "mount" -> {"list"}
      [] OTHER -> {}

Args == Nat \cup Value \cup Seq(Value) \cup (SUBSET Nat) \cup [ids : SUBSET Nat, v : Value]

CallNames ==
    {"get", "list", "add", "update", "remove", "rename", "background", "create", "delete"}

Call == [channel : CallNames, arg : Args]

Operations ==
    {"add", "template", "update", "background", "import", "remove", "rename", "planBackground",
     "create", "duplicate", "delete", "select", "mount"}

Chain ==
    [op : Operations, planId : AllPlans \cup {NoPlan}, todo : Seq(Call),
     snap : PlanRecord \cup {NoPlan, Unasked} \cup (SUBSET AllPlans), alone : BOOLEAN]

CallOK(t) ==
    /\ t.channel = "get" => t.arg = 0
    /\ t.channel = "list" => t.arg \in Plans \cup {0}
    /\ t.channel = "add" => t.arg \in Seq(Value)
    /\ t.channel = "update" => t.arg.v \in Value
    /\ t.channel \in {"rename", "background"} => t.arg \in Value

\* What every rest of an operation keeps: after the edit of an item or of the
\* background of the plan it reads the plan, after an edit of the plans it reads
\* the list; a template and a song background read the plan at the end.
ToDoOK(op, todo) ==
    /\ todo \in Seq(Call) /\ Len(todo) > 0
    /\ \A i \in 1..Len(todo) : CallOK(todo[i]) /\ todo[i].channel \in Channels(op)
    /\ op \in {"add", "update", "planBackground"} =>
          \A i \in 1..Len(todo) :
             todo[i].channel # "get" => i < Len(todo) /\ todo[i + 1].channel = "get"
    /\ op \in {"rename", "create", "duplicate", "delete"} =>
          \A i \in 1..Len(todo) :
             todo[i].channel # "list" => i < Len(todo) /\ todo[i + 1].channel = "list"
    /\ op \in {"import", "remove", "select", "mount"} => Len(todo) = 1
    /\ op = "template" => Last(todo).channel = "get"
    /\ op = "background" =>
          /\ \A i \in 3..(Len(todo) - 1) : todo[i].channel # "get"
          /\ \A i \in 1..Len(todo) : todo[i].channel = "get" => Last(todo).channel = "get"

\* The reads of an operation are of the plan that was selected as it began.
ChainOK(ch) ==
    /\ ch \in Chain
    /\ ToDoOK(ch.op, ch.todo)
    /\ ch.planId \in Plans \cup {NoPlan}
    /\ ch.planId = NoPlan => ch.op \in {"mount", "create"}
    /\ ch.snap # Unasked =>
         /\ Head(ch.todo).channel = "get" => PlanOrNone(ch.snap)
         /\ Head(ch.todo).channel = "list" => ch.snap \subseteq Plans

ChainsOK ==
    /\ chain \in [Chains -> Chain \cup {Idle}]
    /\ \A c \in Busy : ChainOK(chain[c])

\* An operation that is alone has read what is stored.
AloneOK ==
    \A c \in Busy : chain[c].alone =>
        /\ Busy = {c}
        /\ chain[c].snap # Unasked =>
             /\ Head(chain[c].todo).channel = "get" => chain[c].snap = Store(chain[c].planId)
             /\ Head(chain[c].todo).channel = "list" => chain[c].snap = PlansListed

\* An operation that has changed the plan and will read it.
Rereads(ch) ==
    \/ Head(ch.todo).channel = "get"
    \/ ch.op \in {"template", "background"} /\ Last(ch.todo).channel = "get"

\* The items that the user has removed and the main process still holds.
Removing == {c \in Busy : Head(chain[c].todo).channel = "remove"}

Gone == UNION {Head(chain[c].todo).arg : c \in Removing}

PlanAhead ==
    \/ selectedPlanId = NoPlan /\ plan = NoPlan
    \/ /\ selectedPlanId # NoPlan
       /\ \A c \in Busy : chain[c].planId = selectedPlanId
       /\ plan = Without(stored[selectedPlanId], Gone)

PlanShownOK ==
    calm.plan =>
        /\ (\E c \in Busy : Rereads(chain[c])) \/ PlanAhead
        /\ \A c \in Busy : chain[c].op = "background" => Last(chain[c].todo).channel = "get"

ListShownOK ==
    calm.list => (\E c \in Busy : Head(chain[c].todo).channel = "list") \/ planList = PlansListed

PlanInv == PlanDataOK /\ ChainsOK /\ AloneOK /\ PlanShownOK /\ ListShownOK

LEMMA ToDoRest ==
    ASSUME NEW op, NEW todo, ToDoOK(op, todo), Len(todo) > 1
    PROVE  /\ ToDoOK(op, Tail(todo))
           /\ Head(Tail(todo)) = todo[2]
           /\ Last(Tail(todo)) = Last(todo)
           /\ Len(Tail(todo)) = Len(todo) - 1
<1> DEFINE rest == Tail(todo)
<1>1. todo \in Seq(Call) /\ Len(todo) \in Nat
  BY DEF ToDoOK
<1>2. /\ rest \in Seq(Call) /\ Len(rest) = Len(todo) - 1
      /\ \A i \in 1..Len(rest) : i + 1 \in 1..Len(todo) /\ rest[i] = todo[i + 1]
  BY <1>1
<1>3. Last(rest) = Last(todo)
  BY <1>1, <1>2 DEF Last
<1>4. Head(rest) = todo[2]
  BY <1>1, <1>2
<1> HIDE DEF rest
<1>5. \A i \in 1..Len(rest) : CallOK(rest[i]) /\ rest[i].channel \in Channels(op)
  BY <1>2 DEF ToDoOK
<1>6. op \in {"add", "update", "planBackground"} =>
          \A i \in 1..Len(rest) :
             rest[i].channel # "get" => i < Len(rest) /\ rest[i + 1].channel = "get"
  BY <1>1, <1>2 DEF ToDoOK
<1>7. op \in {"rename", "create", "duplicate", "delete"} =>
          \A i \in 1..Len(rest) :
             rest[i].channel # "list" => i < Len(rest) /\ rest[i + 1].channel = "list"
  BY <1>1, <1>2 DEF ToDoOK
<1>8. op = "background" =>
        /\ \A i \in 3..(Len(rest) - 1) : rest[i].channel # "get"
        /\ \A i \in 1..Len(rest) : rest[i].channel = "get" => Last(rest).channel = "get"
  BY <1>1, <1>2, <1>3 DEF ToDoOK
<1>9. ToDoOK(op, rest)
  BY <1>1, <1>2, <1>3, <1>5, <1>6, <1>7, <1>8 DEF ToDoOK
<1> QED
  BY <1>2, <1>3, <1>4, <1>9 DEF rest

LEMMA ToDoFront ==
    ASSUME NEW todo, ToDoOK("background", todo), Len(todo) > 1,
           Head(todo).channel # "get", Len(todo) > 2 => todo[2].channel # "get",
           NEW rest, rest = Front(Tail(todo))
    PROVE  rest = <<>> \/ (ToDoOK("background", rest) /\ Last(rest).channel # "get")
<1>1. todo \in Seq(Call) /\ Len(todo) \in Nat
  BY DEF ToDoOK
<1>2. /\ Tail(todo) \in Seq(Call) /\ Len(Tail(todo)) = Len(todo) - 1
      /\ \A i \in 1..Len(Tail(todo)) : i + 1 \in 1..Len(todo) /\ Tail(todo)[i] = todo[i + 1]
  BY <1>1
<1>3. /\ rest \in Seq(Call) /\ Len(rest) = Len(todo) - 2
      /\ \A i \in 1..Len(rest) : i + 1 \in 2..(Len(todo) - 1) /\ rest[i] = todo[i + 1]
  BY <1>1, <1>2 DEF Front
<1>4. \A i \in 1..Len(rest) : CallOK(rest[i]) /\ rest[i].channel \in Channels("background")
  <2> TAKE i \in 1..Len(rest)
  <2>1. i + 1 \in 1..Len(todo)
    BY <1>1, <1>3
  <2> QED
    BY <2>1, <1>3 DEF ToDoOK
<1>5. \A i \in 1..Len(rest) : rest[i].channel # "get"
  <2> TAKE i \in 1..Len(rest)
  <2>1. i + 1 = 2 \/ i + 1 \in 3..(Len(todo) - 1)
    BY <1>1, <1>3
  <2>2. Len(todo) > 2
    BY <1>1, <1>3
  <2> QED
    BY <2>1, <2>2, <1>3 DEF ToDoOK
<1>6. CASE Len(rest) = 0
  BY <1>3, <1>6
<1>7. CASE Len(rest) > 0
  <2>1. Last(rest).channel # "get"
    BY <1>3, <1>5, <1>7 DEF Last
  <2>2. ToDoOK("background", rest)
    BY <1>3, <1>4, <1>5, <1>7 DEF ToDoOK
  <2> QED
    BY <2>1, <2>2
<1> QED
  BY <1>1, <1>3, <1>6, <1>7

\* What is at the head of an operation.
LEMMA ToDoHead ==
    ASSUME NEW op, NEW todo, ToDoOK(op, todo)
    PROVE  /\ Head(todo) = todo[1] /\ CallOK(Head(todo)) /\ Head(todo) \in Call
           /\ Head(todo).channel \in Channels(op)
           /\ (Head(todo) = get) <=> (Head(todo).channel = "get")
           /\ Len(todo) \in Nat /\ todo # <<>> /\ (todo[1] = get <=> todo[1].channel = "get")
<1>1. todo \in Seq(Call) /\ Len(todo) \in Nat /\ Len(todo) > 0
  BY DEF ToDoOK
<1>2. Head(todo) = todo[1] /\ todo[1] \in Call /\ todo # <<>>
  BY <1>1
<1>3. CallOK(Head(todo)) /\ Head(todo).channel \in Channels(op)
  BY <1>1, <1>2 DEF ToDoOK
<1>4. (Head(todo) = get) <=> (Head(todo).channel = "get")
  BY <1>2, <1>3 DEF CallOK, get, call, Call
<1> QED
  BY <1>1, <1>2, <1>3, <1>4

\* The calls that the operations are made of.
LEMMA Calls ==
    /\ get \in Call /\ CallOK(get) /\ get.channel = "get"
    /\ list \in Call /\ CallOK(list) /\ list.channel = "list"
    /\ \A p \in Plans : call("list", p) \in Call /\ CallOK(call("list", p)) /\ call("list", p).channel = "list"
    /\ \A vs \in Seq(Value) :
          call("add", vs) \in Call /\ CallOK(call("add", vs)) /\ call("add", vs).channel = "add"
    /\ \A a \in [ids : SUBSET Nat, v : Value] :
          call("update", a) \in Call /\ CallOK(call("update", a)) /\ call("update", a).channel = "update"
    /\ \A a \in SUBSET Nat :
          call("remove", a) \in Call /\ CallOK(call("remove", a)) /\ call("remove", a).channel = "remove"
    /\ \A channel \in {"rename", "background"}, v \in Value :
          /\ call(channel, v) \in Call /\ CallOK(call(channel, v))
          /\ call(channel, v).channel = channel
    /\ \A channel \in {"create", "delete"} :
          /\ call(channel, 0) \in Call /\ CallOK(call(channel, 0))
          /\ call(channel, 0).channel = channel
<1>1. \A channel \in CallNames, a \in Args :
        /\ call(channel, a) \in Call
        /\ call(channel, a).channel = channel /\ call(channel, a).arg = a
  BY DEF call, Call
<1>2. Nat \subseteq Args /\ Value \subseteq Args /\ Seq(Value) \subseteq Args
  BY Zenon DEF Args
<1>3. SUBSET Nat \subseteq Args /\ [ids : SUBSET Nat, v : Value] \subseteq Args
  BY Zenon DEF Args
<1>4. Plans \subseteq Nat
  BY PlanAssumption DEF Plans
<1>5. 0 \in Args /\ Plans \subseteq Args
  BY <1>2, <1>4
<1>6. get = call("get", 0) /\ list = call("list", 0)
  BY DEF get, list
<1>7. \A a \in [ids : SUBSET Nat, v : Value] : a.v \in Value
  OBVIOUS
<1>8. \A p \in Plans : call("list", p) \in Call /\ CallOK(call("list", p)) /\ call("list", p).channel = "list"
  <2> TAKE p \in Plans
  <2> DEFINE t == call("list", p)
  <2>1. p \in Args /\ "list" \in CallNames
    BY <1>5 DEF CallNames
  <2>2. t \in Call /\ t.channel = "list" /\ t.arg = p
    BY <1>1, <2>1
  <2> HIDE DEF t
  <2>3. CallOK(t)
    BY <2>2 DEF CallOK
  <2> QED
    BY <2>2, <2>3 DEF t
<1>9. \A vs \in Seq(Value) :
        call("add", vs) \in Call /\ CallOK(call("add", vs)) /\ call("add", vs).channel = "add"
  <2> TAKE vs \in Seq(Value)
  <2> DEFINE t == call("add", vs)
  <2>1. vs \in Args /\ "add" \in CallNames
    BY <1>2 DEF CallNames
  <2>2. t \in Call /\ t.channel = "add" /\ t.arg = vs
    BY <1>1, <2>1
  <2> HIDE DEF t
  <2>3. CallOK(t)
    BY <2>2 DEF CallOK
  <2> QED
    BY <2>2, <2>3 DEF t
<1>10. \A a \in [ids : SUBSET Nat, v : Value] :
        call("update", a) \in Call /\ CallOK(call("update", a)) /\ call("update", a).channel = "update"
  <2> TAKE a \in [ids : SUBSET Nat, v : Value]
  <2> DEFINE t == call("update", a)
  <2>1. a \in Args /\ "update" \in CallNames
    BY <1>3 DEF CallNames
  <2>2. t \in Call /\ t.channel = "update" /\ t.arg = a
    BY <1>1, <2>1
  <2> HIDE DEF t
  <2>3. CallOK(t)
    BY <2>2, <1>7 DEF CallOK
  <2> QED
    BY <2>2, <2>3 DEF t
<1>11. \A a \in SUBSET Nat :
        call("remove", a) \in Call /\ CallOK(call("remove", a)) /\ call("remove", a).channel = "remove"
  <2> TAKE a \in SUBSET Nat
  <2> DEFINE t == call("remove", a)
  <2>1. a \in Args /\ "remove" \in CallNames
    BY <1>3 DEF CallNames
  <2>2. t \in Call /\ t.channel = "remove" /\ t.arg = a
    BY <1>1, <2>1
  <2> HIDE DEF t
  <2>3. CallOK(t)
    BY <2>2 DEF CallOK
  <2> QED
    BY <2>2, <2>3 DEF t
<1>12. \A channel \in {"rename", "background"}, v \in Value :
        /\ call(channel, v) \in Call /\ CallOK(call(channel, v))
        /\ call(channel, v).channel = channel
  <2> TAKE channel \in {"rename", "background"}, v \in Value
  <2> DEFINE t == call(channel, v)
  <2>1. v \in Args /\ channel \in CallNames
    BY <1>2 DEF CallNames
  <2>2. t \in Call /\ t.channel = channel /\ t.arg = v
    BY <1>1, <2>1
  <2> HIDE DEF t
  <2>3. CallOK(t)
    BY <2>2 DEF CallOK
  <2> QED
    BY <2>2, <2>3 DEF t
<1>13. \A channel \in {"create", "delete", "get", "list"} :
        /\ call(channel, 0) \in Call /\ CallOK(call(channel, 0))
        /\ call(channel, 0).channel = channel
  <2> TAKE channel \in {"create", "delete", "get", "list"}
  <2> DEFINE t == call(channel, 0)
  <2>1. 0 \in Args /\ channel \in CallNames
    BY <1>5 DEF CallNames
  <2>2. t \in Call /\ t.channel = channel /\ t.arg = 0
    BY <1>1, <2>1
  <2> HIDE DEF t
  <2>3. CallOK(t)
    BY <2>2 DEF CallOK
  <2> QED
    BY <2>2, <2>3 DEF t
<1> QED
  BY <1>6, <1>8, <1>9, <1>10, <1>11, <1>12, <1>13

LEMMA OneCall ==
    ASSUME NEW op, NEW a \in Call, CallOK(a), a.channel \in Channels(op),
           op \in {"add", "update", "planBackground", "template"} => a.channel = "get",
           op \in {"rename", "create", "duplicate", "delete"} => a.channel = "list"
    PROVE  ToDoOK(op, <<a>>) /\ Last(<<a>>) = a /\ Head(<<a>>) = a
<1> DEFINE todo == <<a>>
<1>1. todo \in Seq(Call) /\ Len(todo) = 1 /\ todo[1] = a
  OBVIOUS
<1>2. Last(todo) = a /\ Head(todo) = a
  BY <1>1 DEF Last
<1> HIDE DEF todo
<1>3. \A i \in 1..Len(todo) : i = 1
  BY <1>1
<1>4. ToDoOK(op, todo)
  BY <1>1, <1>2, <1>3 DEF ToDoOK
<1> QED
  BY <1>2, <1>4 DEF todo

LEMMA TwoCalls ==
    ASSUME NEW op, NEW a \in Call, CallOK(a), a.channel \in Channels(op),
           NEW b \in Call, CallOK(b), b.channel \in Channels(op),
           op \in {"add", "update", "planBackground", "template"} => b.channel = "get",
           op \in {"rename", "create", "duplicate", "delete"} => b.channel = "list",
           op \notin {"background", "import", "remove", "select", "mount"}
    PROVE  ToDoOK(op, <<a, b>>) /\ Last(<<a, b>>) = b /\ Head(<<a, b>>) = a
<1> DEFINE todo == <<a, b>>
<1>1. todo \in Seq(Call) /\ Len(todo) = 2 /\ todo[1] = a /\ todo[2] = b
  OBVIOUS
<1>2. Last(todo) = b /\ Head(todo) = a
  BY <1>1 DEF Last
<1> HIDE DEF todo
<1>3. \A i \in 1..Len(todo) : i = 1 \/ i = 2
  BY <1>1
<1>4. ToDoOK(op, todo)
  BY <1>1, <1>2, <1>3 DEF ToDoOK
<1> QED
  BY <1>2, <1>4 DEF todo

LEMMA MoreCalls ==
    ASSUME NEW v \in Value, NEW w \in Value,
           NEW a \in Call, CallOK(a), a.channel = "add",
           NEW b \in Call, CallOK(b), b.channel = "add"
    PROVE  /\ ToDoOK("add", <<a, get, b, get>>) /\ Head(<<a, get, b, get>>) = a
           /\ ToDoOK("template", <<a, b, get>>) /\ Head(<<a, b, get>>) = a
           /\ Last(<<a, b, get>>) = get
<1> DEFINE four == <<a, get, b, get>>
           three == <<a, b, get>>
<1>1. /\ four \in Seq(Call) /\ Len(four) = 4
      /\ four[1] = a /\ four[2] = get /\ four[3] = b /\ four[4] = get
  BY Calls
<1>2. /\ three \in Seq(Call) /\ Len(three) = 3
      /\ three[1] = a /\ three[2] = b /\ three[3] = get
  BY Calls
<1>3. Last(three) = get /\ Head(three) = a /\ Head(four) = a
  BY <1>1, <1>2 DEF Last
<1> HIDE DEF three, four
<1>4. \A i \in 1..Len(four) : i = 1 \/ i = 2 \/ i = 3 \/ i = 4
  BY <1>1
<1>5. \A i \in 1..Len(three) : i = 1 \/ i = 2 \/ i = 3
  BY <1>2
<1>6. get.channel = "get" /\ CallOK(get)
  BY Calls
<1>7. ToDoOK("add", four)
  BY <1>1, <1>4, <1>6 DEF ToDoOK, Channels
<1>8. ToDoOK("template", three)
  BY <1>2, <1>3, <1>5, <1>6 DEF ToDoOK, Channels
<1> QED
  BY <1>3, <1>7, <1>8 DEF three, four

\* Any sequence of the elements of a finite set.
LEMMA SequenceOfSet ==
    ASSUME NEW S, IsFiniteSet(S)
    PROVE  SetToSeq(S) \in Seq(S)
<1>1. Cardinality(S) \in Nat /\ ExistsBijection(1..Cardinality(S), S)
  BY FS_CardinalityType
<1>2. \E f \in [1..Cardinality(S) -> S] : IsInjective(f)
  BY <1>1 DEF ExistsBijection, Bijection, Injection
<1>3. SetToSeq(S) \in [1..Cardinality(S) -> S]
  BY <1>2 DEF SetToSeq
<1> QED
  BY <1>1, <1>3

LEMMA BackgroundCalls ==
    ASSUME NEW a \in Call, CallOK(a), a.channel = "update",
           NEW us \in Seq(Call), \A i \in 1..Len(us) : CallOK(us[i]) /\ us[i].channel = "update",
           NEW todo, todo = <<a, get>> \o us \o <<get>>
    PROVE  ToDoOK("background", todo) /\ Head(todo) = a /\ Last(todo).channel = "get"
<1>1. /\ <<a, get>> \in Seq(Call) /\ Len(<<a, get>>) = 2
      /\ <<a, get>>[1] = a /\ <<a, get>>[2] = get
      /\ <<get>> \in Seq(Call) /\ Len(<<get>>) = 1 /\ <<get>>[1] = get
  BY Calls
<1> DEFINE start == <<a, get>> \o us
<1>2. /\ start \in Seq(Call) /\ Len(start) = 2 + Len(us)
      /\ start[1] = a /\ start[2] = get
      /\ \A i \in 3..Len(start) : i - 2 \in 1..Len(us) /\ start[i] = us[i - 2]
  BY <1>1
<1> HIDE DEF start
<1>3. Len(us) \in Nat
  OBVIOUS
<1>4. todo = start \o <<get>>
  BY DEF start
<1>5. /\ todo \in Seq(Call) /\ Len(todo) = 3 + Len(us)
      /\ todo[1] = a /\ todo[2] = get /\ todo[Len(todo)] = get
      /\ \A i \in 3..(Len(todo) - 1) : i - 2 \in 1..Len(us) /\ todo[i] = us[i - 2]
  BY <1>1, <1>2, <1>3, <1>4
<1>6. \A i \in 1..Len(todo) : i = 1 \/ i = 2 \/ i = Len(todo) \/ i \in 3..(Len(todo) - 1)
  BY <1>3, <1>5
<1>7. get.channel = "get" /\ CallOK(get)
  BY Calls
<1>8. \A i \in 1..Len(todo) : CallOK(todo[i]) /\ todo[i].channel \in {"update", "get"}
  BY <1>5, <1>6, <1>7
<1>9. Head(todo) = a /\ Last(todo).channel = "get"
  BY <1>3, <1>5, <1>7 DEF Last
<1>10. \A i \in 3..(Len(todo) - 1) : todo[i].channel # "get"
  BY <1>5
<1>11. \A i \in 1..Len(todo) : CallOK(todo[i]) /\ todo[i].channel \in Channels("background")
  BY <1>8 DEF Channels
<1>12. todo \in Seq(Call) /\ Len(todo) > 0
  BY <1>3, <1>5
<1>13. ToDoOK("background", todo)
  BY <1>9, <1>10, <1>11, <1>12 DEF ToDoOK
<1> QED
  BY <1>9, <1>13

-----------------------------------------------------------------------------
LEMMA BusyChain ==
    ASSUME ChainsOK, NEW c \in Busy
    PROVE  /\ c \in Chains /\ chain[c] \in Chain /\ ChainOK(chain[c])
           /\ ToDoOK(chain[c].op, chain[c].todo)
           /\ chain[c].op \in Operations /\ chain[c].todo \in Seq(Call) /\ chain[c].alone \in BOOLEAN
           /\ chain[c].todo # <<>> /\ Len(chain[c].todo) \in Nat /\ Len(chain[c].todo) > 0
           /\ Head(chain[c].todo) = chain[c].todo[1] /\ Head(chain[c].todo) \in Call
           /\ CallOK(Head(chain[c].todo))
           /\ Head(chain[c].todo).channel \in Channels(chain[c].op)
           /\ (Head(chain[c].todo) = get) <=> (Head(chain[c].todo).channel = "get")
<1>1. c \in Chains /\ ChainOK(chain[c])
  BY DEF ChainsOK, Busy
<1>2. /\ chain[c] \in Chain /\ ToDoOK(chain[c].op, chain[c].todo)
  BY <1>1 DEF ChainOK
<1>3. /\ chain[c].op \in Operations /\ chain[c].todo \in Seq(Call) /\ chain[c].alone \in BOOLEAN
  BY <1>2 DEF Chain
<1>4. chain[c].todo # <<>>
  BY DEF Busy
<1>5. Len(chain[c].todo) > 0 /\ Len(chain[c].todo) \in Nat
  BY <1>2 DEF ToDoOK
<1> QED
  BY <1>1, <1>2, <1>3, <1>4, <1>5, ToDoHead

\* Only one operation takes a step.
Takes(c, x) ==
    /\ chain'[c] = x
    /\ \A d \in Chains \ {c} : chain'[d] = chain[d]
    /\ Busy' = IF x.todo = <<>> THEN Busy \ {c} ELSE Busy \cup {c}

LEMMA OneChanges ==
    ASSUME ChainsOK, NEW c \in Chains, NEW x, chain' = [chain EXCEPT ![c] = x]
    PROVE  Takes(c, x)
<1>1. chain'[c] = x /\ \A d \in Chains \ {c} : chain'[d] = chain[d]
  BY DEF ChainsOK
<1> QED
  BY <1>1 DEF Takes, Busy

LEMMA ChainGrows ==
    ASSUME NEW ch, ChainOK(ch), Plans \subseteq Plans'
    PROVE  ChainOK(ch)'
<1>1. \A t : CallOK(t) => CallOK(t)'
  BY DEF CallOK
<1>2. ToDoOK(ch.op, ch.todo)'
  BY <1>1 DEF ToDoOK, ChainOK
<1> QED
  BY <1>2 DEF ChainOK, PlanOrNone

LEMMA ToDoGrows ==
    ASSUME NEW op, NEW todo, ToDoOK(op, todo), Plans \subseteq Plans'
    PROVE  ToDoOK(op, todo)'
<1>1. \A t : CallOK(t) => CallOK(t)'
  BY DEF CallOK
<1> QED
  BY <1>1 DEF ToDoOK

LEMMA ChainsKept ==
    ASSUME ChainsOK, Plans \subseteq Plans',
           NEW c \in Chains, NEW x, chain' = [chain EXCEPT ![c] = x],
           x = Idle \/ ChainOK(x)'
    PROVE  ChainsOK'
<1>1. x \in Chain \cup {Idle}
  BY DEF ChainOK
<1>2. chain' \in [Chains -> Chain \cup {Idle}]
  BY <1>1 DEF ChainsOK
<1>3. ASSUME NEW d \in Busy' PROVE ChainOK(chain[d])'
  <2>1. d \in Chains /\ chain'[d].todo # <<>>
    BY <1>3 DEF Busy
  <2>2. CASE d = c
    <3>1. chain'[d] = x
      BY <2>2, OneChanges DEF Takes
    <3>2. x # Idle
      BY <2>1, <3>1 DEF Idle
    <3> QED
      BY <3>1, <3>2 DEF ChainOK
  <2>3. CASE d # c
    <3>1. chain'[d] = chain[d]
      BY <2>1, <2>3, OneChanges DEF Takes
    <3>2. d \in Busy
      BY <2>1, <3>1 DEF Busy
    <3>3. PICK ch : ch = chain[d]
      OBVIOUS
    <3>4. ChainOK(ch)'
      BY <3>2, <3>3, ChainGrows DEF ChainsOK
    <3> QED
      BY <3>1, <3>3, <3>4 DEF ChainOK
  <2> QED
    BY <2>2, <2>3
<1> QED
  BY <1>2, <1>3 DEF ChainsOK

\* Nobody is alone while another operation takes a step.
LEMMA AloneKept ==
    ASSUME ChainsOK, AloneOK, NEW c \in Busy, NEW x, Takes(c, x),
           x.todo # <<>> /\ x.alone => Busy = {c},
           x.todo # <<>> /\ x.alone /\ x.snap # Unasked
              => /\ Head(x.todo).channel = "get" => x.snap = Store(x.planId)'
                 /\ Head(x.todo).channel = "list" => x.snap = PlansListed'
    PROVE  AloneOK'
<1> SUFFICES ASSUME NEW d \in Busy', chain'[d].alone
             PROVE  /\ Busy' = {d}
                    /\ chain'[d].snap # Unasked =>
                         /\ Head(chain'[d].todo).channel = "get" => chain'[d].snap = Store(chain[d].planId)'
                         /\ Head(chain'[d].todo).channel = "list" => chain'[d].snap = PlansListed'
  BY DEF AloneOK
<1>1. d \in Chains /\ c \in Chains /\ chain'[d].todo # <<>>
  BY DEF Busy
<1>2. CASE d = c
  <2>1. chain'[d] = x
    BY <1>2 DEF Takes
  <2>2. Busy' = {d}
    BY <2>1, <1>1, <1>2 DEF Takes
  <2> QED
    BY <2>1, <2>2, <1>1, <1>2 DEF Store
<1>3. CASE d # c
  <2>1. chain'[d] = chain[d]
    BY <1>1, <1>3 DEF Takes
  <2>2. d \in Busy
    BY <1>1, <2>1 DEF Busy
  <2>3. Busy = {d}
    BY <2>1, <2>2 DEF AloneOK
  <2> QED
    BY <1>3, <2>3
<1> QED
  BY <1>2, <1>3

\* What remains of an operation after an answer, with a new call at its head.
LEMMA GoesOn ==
    ASSUME ChainsOK, AloneOK, Plans \subseteq Plans', NEW c \in Busy, NEW todo, GoOn(c, todo),
           NEW op, op = chain[c].op, todo = <<>> \/ ToDoOK(op, todo)'
    PROVE  \E x : /\ Takes(c, x) /\ ChainsOK' /\ AloneOK' /\ x.todo = todo
                  /\ todo # <<>> => x.op = op /\ x.planId = chain[c].planId
<1>1. PICK x : x = IF todo = <<>> THEN Idle
                   ELSE [chain[c] EXCEPT !.todo = todo, !.snap = Unasked, !.alone = Busy = {c}]
  OBVIOUS
<1>2. chain' = [chain EXCEPT ![c] = x] /\ c \in Chains
  BY <1>1, BusyChain DEF GoOn
<1>3. Takes(c, x)
  BY <1>2, OneChanges
<1>4. CASE todo = <<>>
  <2>1. x = Idle /\ x.todo = <<>>
    BY <1>1, <1>4 DEF Idle
  <2>2. ChainsOK'
    BY <1>2, <2>1, ChainsKept
  <2>3. AloneOK'
    BY <1>3, <2>1, AloneKept
  <2> QED
    BY <1>3, <1>4, <2>1, <2>2, <2>3
<1>5. CASE todo # <<>>
  <2>1. chain[c] \in Chain
    BY BusyChain
  <2>2. todo \in Seq(Call)
    BY <1>5 DEF ToDoOK
  <2>3. /\ x \in Chain /\ x.op = op /\ x.planId = chain[c].planId /\ x.todo = todo
        /\ x.snap = Unasked /\ x.alone = (Busy = {c})
    BY <1>1, <1>5, <2>1, <2>2 DEF Chain
  <2>4. ChainOK(chain[c])
    BY BusyChain
  <2>5. ChainOK(x)'
    BY <1>5, <2>3, <2>4 DEF ChainOK
  <2>6. ChainsOK'
    BY <1>2, <2>5, ChainsKept
  <2>7. AloneOK'
    BY <1>3, <2>3, AloneKept
  <2> QED
    BY <1>3, <2>3, <2>6, <2>7
<1> QED
  BY <1>4, <1>5

-----------------------------------------------------------------------------
LEMMA FiniteImage ==
    ASSUME NEW S, IsFiniteSet(S), NEW f, NEW T, \A y : y \in T <=> \E x \in S : y = f[x]
    PROVE  IsFiniteSet(T)
<1> DEFINE g == [x \in S |-> f[x]]
<1>1. g \in Surjection(S, T)
  BY DEF Surjection
<1> QED
  BY <1>1, FS_Surjection

\* A plan with other fields.
LEMMA PlanFields ==
    ASSUME NEW p, p \in PlanRecord
    PROVE  /\ p # NoPlan
           /\ p.items \subseteq [id : Nat, v : Value]
           /\ \A v \in Value : [p EXCEPT !.title = v] \in PlanRecord /\ [p EXCEPT !.title = v].items = p.items
           /\ \A v \in Value :
                 [p EXCEPT !.background = v] \in PlanRecord /\ [p EXCEPT !.background = v].items = p.items
           /\ \A S : S \subseteq [id : Nat, v : Value] =>
                 [p EXCEPT !.items = S] \in PlanRecord /\ [p EXCEPT !.items = S].items = S
<1>1. p # NoPlan
  BY PlanAssumption
<1> QED
  BY <1>1 DEF PlanRecord

LEMMA AddedTyped ==
    ASSUME NEW p, p \in PlanRecord, IsFiniteSet(p.items), nextItem \in Nat,
           NEW values \in Seq(Value)
    PROVE  added(p, values) \in PlanRecord /\ IsFiniteSet(added(p, values).items)
<1> DEFINE f == [i \in 1..Len(values) |-> item(nextItem + i - 1, values[i])]
           new == {item(nextItem + i - 1, values[i]) : i \in 1..Len(values)}
<1>1. Len(values) \in Nat /\ 1 \in Int /\ Len(values) \in Int
  OBVIOUS
<1>2. \A i \in 1..Len(values) : nextItem + i - 1 \in Nat /\ values[i] \in Value
  BY <1>1
<1>3. \A n \in Nat, v \in Value : item(n, v) \in [id : Nat, v : Value]
  BY DEF item
<1>4. new \subseteq [id : Nat, v : Value]
  BY <1>2, <1>3
<1>5. IsFiniteSet(1..Len(values))
  BY <1>1, FS_Interval
<1>6. \A y : y \in new <=> \E i \in 1..Len(values) : y = f[i]
  OBVIOUS
<1> HIDE DEF f, new
<1>7. IsFiniteSet(new)
  BY <1>5, <1>6, FiniteImage
<1>8. IsFiniteSet(p.items \cup new)
  BY <1>7, FS_Union
<1>9. p.items \subseteq [id : Nat, v : Value]
  BY PlanFields
<1>10. PICK S : S = p.items \cup new
  OBVIOUS
<1>11. added(p, values) = [p EXCEPT !.items = S]
  BY <1>10 DEF added, new
<1>12. S \subseteq [id : Nat, v : Value]
  BY <1>4, <1>9, <1>10
<1>13. [p EXCEPT !.items = S] \in PlanRecord /\ [p EXCEPT !.items = S].items = S
  BY ONLY p \in PlanRecord, <1>12 DEF PlanRecord
<1> QED
  BY <1>8, <1>10, <1>11, <1>13

LEMMA UpdatedTyped ==
    ASSUME NEW p, p \in PlanRecord, IsFiniteSet(p.items), NEW some, NEW v \in Value
    PROVE  updated(p, some, v) \in PlanRecord /\ IsFiniteSet(updated(p, some, v).items)
<1> DEFINE f == [it \in p.items |-> IF it.id \in some THEN item(it.id, v) ELSE it]
           new == {IF it.id \in some THEN item(it.id, v) ELSE it : it \in p.items}
<1>1. p.items \subseteq [id : Nat, v : Value]
  BY PlanFields
<1>2. \A it \in p.items : item(it.id, v) \in [id : Nat, v : Value]
  BY <1>1 DEF item
<1>3. new \subseteq [id : Nat, v : Value]
  BY <1>1, <1>2
<1>4. \A y : y \in new <=> \E it \in p.items : y = f[it]
  OBVIOUS
<1>5. updated(p, some, v) = [p EXCEPT !.items = new]
  BY DEF updated
<1> HIDE DEF new, f
<1>6. IsFiniteSet(new)
  BY <1>4, FiniteImage
<1> QED
  BY <1>3, <1>5, <1>6, PlanFields

LEMMA WithoutTyped ==
    ASSUME NEW p, PlanOrNone(p), NEW gone
    PROVE  PlanOrNone(Without(p, gone)) /\ (Without(p, gone) = NoPlan <=> p = NoPlan)
<1>1. CASE p = NoPlan
  BY <1>1 DEF Without, PlanOrNone
<1>2. CASE p # NoPlan
  <2> DEFINE rest == {it \in p.items : it.id \notin gone}
  <2>1. p \in PlanRecord /\ IsFiniteSet(p.items)
    BY <1>2 DEF PlanOrNone
  <2>2. rest \in SUBSET p.items
    OBVIOUS
  <2>3. IsFiniteSet(rest)
    BY <2>1, <2>2, FS_Subset
  <2>4. rest \subseteq [id : Nat, v : Value]
    BY <2>1, <2>2, PlanFields
  <2>5. Without(p, gone) = [p EXCEPT !.items = rest]
    BY <1>2 DEF Without
  <2> HIDE DEF rest
  <2>6. Without(p, gone) \in PlanRecord /\ Without(p, gone).items = rest
    BY <2>1, <2>4, <2>5, PlanFields
  <2> QED
    BY <1>2, <2>3, <2>6, PlanAssumption DEF PlanOrNone
<1> QED
  BY <1>1, <1>2

LEMMA CopyTyped ==
    ASSUME NEW p, p \in PlanRecord, IsFiniteSet(p.items), nextItem \in Nat
    PROVE  copied(p) \in SUBSET [id : Nat, v : Value] /\ IsFiniteSet(copied(p))
<1> DEFINE rank(it) == Cardinality({jt \in p.items : jt.id < it.id})
           f == [it \in p.items |-> item(nextItem + rank(it), it.v)]
<1>1. p.items \subseteq [id : Nat, v : Value]
  BY PlanFields
<1>2. \A it \in p.items : rank(it) \in Nat
  <2> TAKE it \in p.items
  <2>1. {jt \in p.items : jt.id < it.id} \in SUBSET p.items
    OBVIOUS
  <2> QED
    BY <2>1, FS_Subset, FS_CardinalityType
<1> HIDE DEF rank
<1>3. \A it \in p.items : item(nextItem + rank(it), it.v) \in [id : Nat, v : Value]
  <2> TAKE it \in p.items
  <2>1. nextItem + rank(it) \in Nat /\ it.v \in Value
    BY <1>1, <1>2
  <2> QED
    BY <2>1 DEF item
<1>4. copied(p) = {item(nextItem + rank(it), it.v) : it \in p.items}
  BY DEF copied, rank
<1>5. \A y : y \in copied(p) <=> \E it \in p.items : y = f[it]
  BY <1>4
<1> HIDE DEF f
<1>6. IsFiniteSet(copied(p))
  BY <1>5, FiniteImage
<1> QED
  BY <1>3, <1>4, <1>6

LEMMA NewPlanTyped ==
    ASSUME NEW p \in AllPlans, NEW items \in SUBSET [id : Nat, v : Value], IsFiniteSet(items)
    PROVE  newPlan(p, items) \in PlanRecord /\ PlanOrNone(newPlan(p, items)) /\ newPlan(p, items) # NoPlan
<1>1. newPlan(p, items) \in PlanRecord /\ newPlan(p, items).items = items
  BY DEF newPlan, PlanRecord, Value
<1> QED
  BY <1>1, PlanAssumption DEF PlanOrNone

LEMMA ChangedTyped ==
    ASSUME NEW p, PlanOrNone(p), nextItem \in Nat, NEW t, CallOK(t),
           t.channel \in {"add", "update", "remove", "rename", "background", "delete"}
    PROVE  /\ PlanOrNone(Changed(p, t))
           /\ Changed(p, t) = NoPlan <=> p = NoPlan
<1>1. CASE p = NoPlan
  BY <1>1 DEF Changed, PlanOrNone
<1>2. CASE p # NoPlan
  <2>1. p \in PlanRecord /\ IsFiniteSet(p.items)
    BY <1>2 DEF PlanOrNone
  <2>2. \A q : q \in PlanRecord /\ IsFiniteSet(q.items) => PlanOrNone(q) /\ q # NoPlan
    BY PlanAssumption DEF PlanOrNone
  <2>3. CASE t.channel = "add"
    <3>1. Changed(p, t) = added(p, t.arg) /\ t.arg \in Seq(Value)
      BY <1>2, <2>3 DEF Changed, CallOK
    <3> QED
      BY <2>1, <2>2, <2>3, <3>1, AddedTyped
  <2>4. CASE t.channel = "update"
    <3>1. Changed(p, t) = updated(p, t.arg.ids, t.arg.v) /\ t.arg.v \in Value
      BY <1>2, <2>4 DEF Changed, CallOK
    <3> QED
      BY <2>1, <2>2, <2>4, <3>1, UpdatedTyped
  <2>5. CASE t.channel = "remove"
    <3>1. Changed(p, t) = Without(p, t.arg)
      BY <1>2, <2>5 DEF Changed
    <3> QED
      BY <1>2, <2>5, <3>1, WithoutTyped
  <2>6. CASE t.channel = "rename"
    <3>1. Changed(p, t) = [p EXCEPT !.title = t.arg] /\ t.arg \in Value
      BY <1>2, <2>6 DEF Changed, CallOK
    <3> QED
      BY <2>1, <2>2, <2>6, <3>1, PlanFields
  <2>7. CASE t.channel = "background"
    <3>1. Changed(p, t) = [p EXCEPT !.background = t.arg] /\ t.arg \in Value
      BY <1>2, <2>7 DEF Changed, CallOK
    <3> QED
      BY <2>1, <2>2, <2>7, <3>1, PlanFields
  <2>8. CASE t.channel = "delete"
    <3>1. Changed(p, t) = p
      BY <1>2, <2>8 DEF Changed
    <3> QED
      BY <1>2, <3>1
  <2> QED
    BY <2>3, <2>4, <2>5, <2>6, <2>7, <2>8
<1> QED
  BY <1>1, <1>2

-----------------------------------------------------------------------------
LEMMA ShownByOne ==
    ASSUME ChainsOK, PlanShownOK, NEW c \in Busy, NEW x, Takes(c, x),
           calm'.plan => calm.plan,
           x.todo # <<>> /\ calm'.plan /\ x.op = "background" => Last(x.todo).channel = "get",
           calm'.plan => \/ x.todo # <<>> /\ Rereads(x)
                         \/ ~Rereads(chain[c]) /\ (PlanAhead => PlanAhead')
    PROVE  PlanShownOK'
<1> SUFFICES ASSUME calm'.plan
             PROVE  /\ (\E d \in Busy' : Rereads(chain'[d])) \/ PlanAhead'
                    /\ \A d \in Busy' : chain'[d].op = "background"
                                         => Last(chain'[d].todo).channel = "get"
  BY DEF PlanShownOK, Rereads
<1>1. /\ (\E d \in Busy : Rereads(chain[d])) \/ PlanAhead
      /\ \A d \in Busy : chain[d].op = "background" => Last(chain[d].todo).channel = "get"
  BY DEF PlanShownOK
<1>2. c \in Chains /\ chain'[c] = x /\ \A d \in Chains \ {c} : chain'[d] = chain[d]
  BY DEF Takes, Busy
<1>3. /\ \A d \in Busy \ {c} : d \in Busy' /\ chain'[d] = chain[d]
      /\ \A d \in Busy' \ {c} : d \in Busy /\ chain'[d] = chain[d]
      /\ c \in Busy' <=> x.todo # <<>>
  BY <1>2 DEF Takes, Busy
<1>4. \A d \in Busy' : chain'[d].op = "background" => Last(chain'[d].todo).channel = "get"
  BY <1>1, <1>2, <1>3
<1>5. CASE x.todo # <<>> /\ Rereads(x)
  BY <1>2, <1>3, <1>4, <1>5
<1>6. CASE ~Rereads(chain[c]) /\ (PlanAhead => PlanAhead')
  BY <1>1, <1>3, <1>4, <1>6
<1> QED
  BY <1>5, <1>6

\* The plan stays ahead of the database when nothing of it changes.
LEMMA AheadByOne ==
    ASSUME ChainsOK, PlanAhead, NEW c \in Busy, NEW x, Takes(c, x),
           UNCHANGED <<selectedPlanId, plan>>,
           selectedPlanId # NoPlan => stored'[selectedPlanId] = stored[selectedPlanId],
           c \notin Removing,
           x.todo # <<>> => x.planId = chain[c].planId /\ Head(x.todo).channel # "remove"
    PROVE  PlanAhead'
<1>1. c \in Chains /\ chain'[c] = x /\ \A d \in Chains \ {c} : chain'[d] = chain[d]
  BY DEF Takes, Busy
<1>2. /\ \A d \in Busy \ {c} : d \in Busy' /\ chain'[d] = chain[d]
      /\ \A d \in Busy' \ {c} : d \in Busy /\ chain'[d] = chain[d]
      /\ c \in Busy' <=> x.todo # <<>>
  BY <1>1 DEF Takes, Busy
<1>3. Removing' = Removing
  BY <1>1, <1>2 DEF Removing
<1>4. \A d \in Removing : chain'[d] = chain[d]
  BY <1>2 DEF Removing
<1>5. Gone' = Gone
  BY <1>3, <1>4 DEF Gone
<1>6. \A d \in Busy' : d \in Busy /\ chain'[d].planId = chain[d].planId
  BY <1>1, <1>2
<1> QED
  BY <1>5, <1>6 DEF PlanAhead, Without

LEMMA ListByOne ==
    ASSUME ChainsOK, ListShownOK, NEW c \in Busy, NEW x, Takes(c, x),
           calm'.list => calm.list,
           \/ x.todo # <<>> /\ Head(x.todo).channel = "list"
           \/ /\ Head(chain[c].todo).channel # "list"
              /\ planList' = planList /\ PlansListed' = PlansListed
    PROVE  ListShownOK'
<1>1. c \in Chains /\ chain'[c] = x /\ \A d \in Chains \ {c} : chain'[d] = chain[d]
  BY DEF Takes, Busy
<1>2. /\ \A d \in Busy \ {c} : d \in Busy' /\ chain'[d] = chain[d]
      /\ c \in Busy' <=> x.todo # <<>>
  BY <1>1 DEF Takes, Busy
<1> QED
  BY <1>1, <1>2 DEF ListShownOK

\* The plan of an operation that edits or reads one.
LEMMA PlanOfChain ==
    ASSUME PlanDataOK, ChainsOK, NEW c \in Busy, chain[c].op \notin {"mount", "create"}
    PROVE  /\ chain[c].planId \in Plans /\ chain[c].planId \in AllPlans
           /\ chain[c].planId # NoPlan /\ PlanOrNone(stored[chain[c].planId])
<1>1. chain[c].planId \in Plans
  BY BusyChain DEF ChainOK
<1> QED
  BY <1>1, PlanAssumption DEF Plans, PlanDataOK

EditChannels == {"add", "update", "remove", "rename", "background", "delete"}

LEMMA OpsOfChannels ==
    ASSUME NEW op \in Operations
    PROVE  /\ "add" \in Channels(op) => op \in {"add", "template", "import"}
           /\ "update" \in Channels(op) => op \in {"update", "background"}
           /\ "remove" \in Channels(op) => op = "remove"
           /\ "rename" \in Channels(op) => op = "rename"
           /\ "background" \in Channels(op) => op = "planBackground"
           /\ "delete" \in Channels(op) => op = "delete"
           /\ "create" \in Channels(op) => op \in {"create", "duplicate"}
           /\ "get" \in Channels(op) =>
                 op \in {"add", "template", "update", "background", "remove", "planBackground", "select"}
           /\ "list" \in Channels(op) =>
                 op \in {"rename", "create", "duplicate", "delete", "mount"}
BY DEF Operations, Channels

LEMMA EditStored ==
    ASSUME PlanDataOK, ChainsOK, NEW c \in Busy, Head(chain[c].todo).channel \in EditChannels,
           stored' = [stored EXCEPT ![chain[c].planId] = Changed(@, Head(chain[c].todo))],
           deleted' = IF Head(chain[c].todo).channel = "delete" THEN deleted \cup {chain[c].planId} ELSE deleted
    PROVE  /\ stored' \in [AllPlans -> PlanRecord \cup {NoPlan}]
           /\ \A p \in AllPlans : PlanOrNone(stored'[p])
           /\ PlansListed' = IF Head(chain[c].todo).channel = "delete"
                             THEN PlansListed \ {chain[c].planId} ELSE PlansListed
           /\ chain[c].planId \in AllPlans
           /\ stored'[chain[c].planId] = Changed(stored[chain[c].planId], Head(chain[c].todo))
           /\ \A p \in AllPlans \ {chain[c].planId} : stored'[p] = stored[p]
<1>1. chain[c].op \in Operations \ {"mount", "create"}
  BY BusyChain, OpsOfChannels DEF EditChannels
<1>2. PICK p : p = chain[c].planId
  OBVIOUS
<1>3. PICK q : q = Changed(stored[p], Head(chain[c].todo))
  OBVIOUS
<1>4. p \in AllPlans /\ PlanOrNone(stored[p])
  BY <1>1, <1>2, PlanOfChain
<1>5. stored' = [stored EXCEPT ![p] = q]
  BY <1>2, <1>3
<1>6. /\ PlanOrNone(q)
      /\ q = NoPlan <=> stored[p] = NoPlan
  BY <1>3, <1>4, BusyChain, ChangedTyped DEF PlanDataOK, EditChannels
<1>7. q \in PlanRecord \cup {NoPlan}
  BY <1>6 DEF PlanOrNone
<1>8. stored \in [AllPlans -> PlanRecord \cup {NoPlan}] /\ \A r \in AllPlans : PlanOrNone(stored[r])
  BY DEF PlanDataOK
<1>9. stored'[p] = q /\ \A r \in AllPlans \ {p} : stored'[r] = stored[r]
  BY <1>4, <1>5, <1>8
<1>10. stored' \in [AllPlans -> PlanRecord \cup {NoPlan}]
  BY <1>4, <1>5, <1>7, <1>8
<1>11. \A r \in AllPlans : PlanOrNone(stored'[r])
  BY <1>6, <1>8, <1>9
<1>12. PlansListed' = IF Head(chain[c].todo).channel = "delete" THEN PlansListed \ {p} ELSE PlansListed
  BY <1>2, <1>4, <1>6, <1>9 DEF PlansListed
<1> QED
  BY <1>2, <1>3, <1>4, <1>9, <1>10, <1>11, <1>12

LEMMA EditData ==
    ASSUME PlanDataOK, ChainsOK, NEW c \in Busy, serveEdit(c)
    PROVE  PlanDataOK' /\ Plans' = Plans
<1>1. PICK t : t = Head(chain[c].todo)
  OBVIOUS
<1>2. /\ t.channel \in EditChannels /\ CallOK(t)
      /\ stored' = [stored EXCEPT ![chain[c].planId] = Changed(@, t)]
      /\ nextItem' = IF t.channel = "add" THEN nextItem + Len(t.arg) ELSE nextItem
      /\ plan' = IF t.channel = "rename" /\ plan # NoPlan
                 THEN [plan EXCEPT !.title = t.arg]
                 ELSE IF t.channel = "delete" /\ selectedPlanId # NoPlan THEN NoPlan ELSE plan
      /\ selectedPlanId' = IF t.channel = "delete" THEN NoPlan ELSE selectedPlanId
      /\ deleted' = IF t.channel = "delete" THEN deleted \cup {chain[c].planId} ELSE deleted
      /\ calm' = [calm EXCEPT !.plan = @ /\ chain[c].op # "import"]
      /\ UNCHANGED <<nextPlan, planList, selectedItemIds>>
  BY <1>1, BusyChain DEF serveEdit, EditChannels
<1>3. Plans' = Plans
  BY <1>2 DEF Plans
<1>4. /\ stored' \in [AllPlans -> PlanRecord \cup {NoPlan}]
      /\ \A p \in AllPlans : PlanOrNone(stored'[p])
      /\ PlansListed' \subseteq PlansListed
  BY <1>1, <1>2, EditStored
<1>5. nextItem' \in Nat
  BY <1>2 DEF PlanDataOK, CallOK
<1>6. PlanOrNone(plan')
  <2>1. CASE t.channel = "rename" /\ plan # NoPlan
    <3>1. plan \in PlanRecord /\ IsFiniteSet(plan.items) /\ t.arg \in Value
      BY <1>2, <2>1 DEF PlanDataOK, PlanOrNone, CallOK
    <3>2. plan' \in PlanRecord /\ plan'.items = plan.items
      BY <1>2, <2>1, <3>1, PlanFields
    <3> QED
      BY <3>1, <3>2 DEF PlanOrNone
  <2>2. CASE ~(t.channel = "rename" /\ plan # NoPlan)
    BY <1>2, <2>2 DEF PlanDataOK, PlanOrNone
  <2> QED
    BY <2>1, <2>2
<1>7. calm' \in [plan : BOOLEAN, list : BOOLEAN]
  BY <1>2 DEF PlanDataOK
<1>8. selectedPlanId' \in Plans \cup {NoPlan}
  BY <1>2 DEF PlanDataOK
<1>9. PlansListed' \subseteq Plans' /\ planList' \subseteq Plans'
  BY <1>2, <1>3, <1>4 DEF PlanDataOK
<1>10. PlanOrNone(plan)'
  BY <1>6 DEF PlanOrNone
<1>11. \A p \in AllPlans : PlanOrNone(stored[p])'
  BY <1>4 DEF PlanOrNone
<1> QED
  BY <1>2, <1>3, <1>4, <1>5, <1>7, <1>8, <1>9, <1>10, <1>11 DEF PlanDataOK

LEMMA OneOrMore == \A n \in Nat : n > 0 => n = 1 \/ n > 1
OBVIOUS

-----------------------------------------------------------------------------
LEMMA WithoutTwice ==
    ASSUME NEW p, PlanOrNone(p), NEW A, NEW B
    PROVE  Without(Without(p, A), B) = Without(p, A \cup B)
<1>1. CASE p = NoPlan
  BY <1>1 DEF Without
<1>2. CASE p # NoPlan
  <2>1. p \in PlanRecord
    BY <1>2 DEF PlanOrNone
  <2>2. PICK S : S = {it \in p.items : it.id \notin A}
    OBVIOUS
  <2>3. PICK T : T = {it \in p.items : it.id \notin A \cup B}
    OBVIOUS
  <2>4. {it \in S : it.id \notin B} = T
    BY <2>2, <2>3
  <2>5. Without(p, A) = [p EXCEPT !.items = S] /\ Without(p, A \cup B) = [p EXCEPT !.items = T]
    BY <1>2, <2>2, <2>3 DEF Without
  <2>6. S \subseteq [id : Nat, v : Value]
    BY <2>1, <2>2, PlanFields
  <2>7. PICK q : q = [p EXCEPT !.items = S]
    OBVIOUS
  <2>8. q \in PlanRecord /\ q.items = S /\ q # NoPlan
    BY <2>1, <2>6, <2>7, PlanFields
  <2>9. Without(q, B) = [q EXCEPT !.items = T]
    BY <2>4, <2>8 DEF Without
  <2>10. [q EXCEPT !.items = T] = [p EXCEPT !.items = T]
    BY ONLY <2>1, <2>7 DEF PlanRecord
  <2> QED
    BY <2>5, <2>7, <2>9, <2>10
<1> QED
  BY <1>1, <1>2

LEMMA WithoutRenamed ==
    ASSUME NEW p, p \in PlanRecord, NEW A, NEW v \in Value
    PROVE  Without([p EXCEPT !.title = v], A) = [Without(p, A) EXCEPT !.title = v]
<1>1. PICK S : S = {it \in p.items : it.id \notin A}
  OBVIOUS
<1>2. Without(p, A) = [p EXCEPT !.items = S]
  BY <1>1, PlanFields DEF Without
<1>3. PICK q : q = [p EXCEPT !.title = v]
  OBVIOUS
<1>4. q \in PlanRecord /\ q.items = p.items /\ q # NoPlan
  BY <1>3, PlanFields
<1>5. Without(q, A) = [q EXCEPT !.items = S]
  BY <1>1, <1>4 DEF Without
<1>6. [[p EXCEPT !.title = v] EXCEPT !.items = S] = [[p EXCEPT !.items = S] EXCEPT !.title = v]
  BY ONLY p \in PlanRecord DEF PlanRecord
<1> QED
  BY <1>2, <1>3, <1>5, <1>6

\* The main process removes the items that the plan shown has lost already.
LEMMA RemoveAhead ==
    ASSUME PlanDataOK, ChainsOK, PlanAhead, NEW c \in Busy, Head(chain[c].todo).channel = "remove",
           NEW x, Takes(c, x), x.todo = <<>>,
           stored' = [stored EXCEPT ![chain[c].planId] = Changed(@, Head(chain[c].todo))],
           deleted' = IF Head(chain[c].todo).channel = "delete" THEN deleted \cup {chain[c].planId} ELSE deleted,
           UNCHANGED <<selectedPlanId, plan>>
    PROVE  PlanAhead'
<1>1. CASE selectedPlanId = NoPlan
  BY <1>1 DEF PlanAhead
<1>2. CASE selectedPlanId # NoPlan
  <2>1. PICK p : p = selectedPlanId
    OBVIOUS
  <2>2. PICK s : s = stored[p]
    OBVIOUS
  <2>3. PICK arg : arg = Head(chain[c].todo).arg
    OBVIOUS
  <2>4. \A d \in Busy : chain[d].planId = p
    BY <1>2, <2>1 DEF PlanAhead
  <2>5. /\ stored'[p] = Changed(s, Head(chain[c].todo)) /\ p \in AllPlans
    BY <2>2, <2>4, EditStored DEF EditChannels
  <2>6. PlanOrNone(s)
    BY <2>2, <2>5 DEF PlanDataOK
  <2>7. stored'[p] = Without(s, arg)
    BY <2>3, <2>5 DEF Changed, Without
  <2>8. /\ Busy' = Busy \ {c} /\ \A d \in Busy \ {c} : chain'[d] = chain[d]
    BY DEF Takes, Busy
  <2>9. c \in Removing /\ Removing' = Removing \ {c}
    BY <2>8 DEF Removing
  <2>10. \A d \in Removing \ {c} : chain'[d] = chain[d]
    BY <2>8 DEF Removing
  <2>11. Gone = arg \cup Gone'
    BY <2>3, <2>9, <2>10 DEF Gone
  <2>12. plan = Without(s, arg \cup Gone')
    BY <1>2, <2>1, <2>2, <2>11 DEF PlanAhead
  <2>13. PICK gone : gone = Gone'
    OBVIOUS
  <2>14. plan = Without(Without(s, arg), gone)
    BY <2>6, <2>12, <2>13, WithoutTwice
  <2>15. plan' = Without(stored'[p], Gone')
    BY <2>7, <2>13, <2>14
  <2> QED
    BY <1>2, <2>1, <2>4, <2>8, <2>15 DEF PlanAhead, Without
<1> QED
  BY <1>1, <1>2

\* The title is changed in the plan shown and in the database.
LEMMA RenameAhead ==
    ASSUME PlanDataOK, ChainsOK, PlanAhead, NEW c \in Busy, Head(chain[c].todo).channel = "rename",
           NEW x, Takes(c, x), x.todo # <<>> => x.planId = chain[c].planId /\ Head(x.todo).channel # "remove",
           stored' = [stored EXCEPT ![chain[c].planId] = Changed(@, Head(chain[c].todo))],
           deleted' = IF Head(chain[c].todo).channel = "delete" THEN deleted \cup {chain[c].planId} ELSE deleted,
           selectedPlanId' = selectedPlanId,
           plan' = IF plan # NoPlan THEN [plan EXCEPT !.title = Head(chain[c].todo).arg] ELSE plan
    PROVE  PlanAhead'
<1>1. CASE selectedPlanId = NoPlan
  BY <1>1 DEF PlanAhead
<1>2. CASE selectedPlanId # NoPlan
  <2>1. PICK p : p = selectedPlanId
    OBVIOUS
  <2>2. PICK s : s = stored[p]
    OBVIOUS
  <2>3. PICK arg : arg = Head(chain[c].todo).arg
    OBVIOUS
  <2>4. \A d \in Busy : chain[d].planId = p
    BY <1>2, <2>1 DEF PlanAhead
  <2>5. /\ stored'[p] = Changed(s, Head(chain[c].todo)) /\ p \in AllPlans
    BY <2>2, <2>4, EditStored DEF EditChannels
  <2>6. PlanOrNone(s) /\ arg \in Value
    BY <2>2, <2>3, <2>5, BusyChain DEF PlanDataOK, CallOK
  <2>7. /\ Busy' \subseteq Busy /\ Busy \ {c} \subseteq Busy' /\ \A d \in Busy \ {c} : chain'[d] = chain[d]
        /\ chain'[c] = x /\ (c \in Busy' <=> x.todo # <<>>)
    BY DEF Takes, Busy
  <2>8. Removing' = Removing /\ c \notin Removing
    BY <2>7 DEF Removing
  <2>9. \A d \in Removing : chain'[d] = chain[d]
    BY <2>7, <2>8 DEF Removing
  <2>10. Gone' = Gone
    BY <2>8, <2>9 DEF Gone
  <2>11. plan = Without(s, Gone)
    BY <1>2, <2>1, <2>2 DEF PlanAhead
  <2>12. PICK gone : gone = Gone
    OBVIOUS
  <2>13. plan' = Without(stored'[p], gone)
    <3>1. CASE s = NoPlan
      BY <2>5, <2>11, <2>12, <3>1 DEF Changed, Without
    <3>2. CASE s # NoPlan
      <4>1. s \in PlanRecord
        BY <2>6, <3>2 DEF PlanOrNone
      <4>2. stored'[p] = [s EXCEPT !.title = arg]
        BY <2>3, <2>5, <3>2 DEF Changed
      <4>3. plan # NoPlan
        BY <2>6, <2>11, <2>12, <3>2, WithoutTyped
      <4>4. plan' = [Without(s, gone) EXCEPT !.title = arg]
        BY <2>3, <2>11, <2>12, <4>3
      <4> QED
        BY <2>6, <4>1, <4>2, <4>4, WithoutRenamed
    <3> QED
      BY <3>1, <3>2
  <2>14. \A d \in Busy' : chain'[d].planId = p
    BY <2>4, <2>7
  <2> QED
    BY <1>2, <2>1, <2>10, <2>12, <2>13, <2>14 DEF PlanAhead, Without
<1> QED
  BY <1>1, <1>2

LEMMA DeleteAhead ==
    ASSUME PlanDataOK, ChainsOK, PlanAhead, NEW c \in Busy, Head(chain[c].todo).channel = "delete",
           selectedPlanId' = NoPlan,
           plan' = IF selectedPlanId # NoPlan THEN NoPlan ELSE plan
    PROVE  PlanAhead'
<1>1. CASE selectedPlanId = NoPlan
  BY <1>1 DEF PlanAhead
<1>2. CASE selectedPlanId # NoPlan
  BY <1>2 DEF PlanAhead
<1> QED
  BY <1>1, <1>2

LEMMA EditKept ==
    ASSUME PlanInv, NEW c \in Busy, serveEdit(c)
    PROVE  PlanInv'
<1>1. /\ PlanDataOK /\ ChainsOK /\ AloneOK /\ PlanShownOK /\ ListShownOK
  BY DEF PlanInv
<1>2. PlanDataOK' /\ Plans' = Plans
  BY <1>1, EditData
<1>3. PICK t : t = Head(chain[c].todo)
  OBVIOUS
<1>4. PICK todo : todo = chain[c].todo
  OBVIOUS
<1>5. PICK rest : rest = Tail(todo)
  OBVIOUS
<1>6. PICK op : op = chain[c].op
  OBVIOUS
<1>7. /\ t.channel \in EditChannels
      /\ stored' = [stored EXCEPT ![chain[c].planId] = Changed(@, t)]
      /\ plan' = IF t.channel = "rename" /\ plan # NoPlan
                 THEN [plan EXCEPT !.title = t.arg]
                 ELSE IF t.channel = "delete" /\ selectedPlanId # NoPlan THEN NoPlan ELSE plan
      /\ selectedPlanId' = IF t.channel = "delete" THEN NoPlan ELSE selectedPlanId
      /\ deleted' = IF t.channel = "delete" THEN deleted \cup {chain[c].planId} ELSE deleted
      /\ calm' = [calm EXCEPT !.plan = @ /\ op # "import"]
      /\ GoOn(c, rest)
      /\ UNCHANGED planList
  BY <1>3, <1>4, <1>5, <1>6 DEF serveEdit, EditChannels
<1>8. /\ todo \in Seq(Call) /\ Len(todo) \in Nat /\ Len(todo) > 0 /\ t = todo[1]
      /\ ToDoOK(op, todo) /\ op \in Operations /\ t.channel \in Channels(op)
  BY <1>1, <1>3, <1>4, <1>6, BusyChain
<1>9. /\ Len(todo) = 1 <=> rest = <<>>
      /\ Len(todo) = 1 \/ Len(todo) > 1
      /\ Len(todo) > 1 => /\ rest # <<>> /\ ToDoOK(op, rest)
                          /\ Head(rest) = todo[2] /\ Last(rest) = Last(todo)
  <2>1. Len(todo) = 1 => rest = <<>>
    BY <1>5, <1>8
  <2>2. Len(todo) > 1 => /\ ToDoOK(op, rest) /\ Head(rest) = todo[2] /\ Last(rest) = Last(todo)
    BY <1>5, <1>8, ToDoRest
  <2>3. Len(todo) > 1 => rest # <<>>
    BY <2>2, ToDoHead
  <2>4. Len(todo) \in Nat /\ Len(todo) > 0
    BY <1>8
  <2>5. Len(todo) = 1 \/ Len(todo) > 1
    BY <2>4, OneOrMore
  <2> QED
    BY <2>1, <2>2, <2>3, <2>5
<1>10. rest = <<>> \/ ToDoOK(op, rest)'
  <2>1. rest = <<>> \/ ToDoOK(op, rest)
    BY <1>9
  <2>2. Plans \subseteq Plans'
    BY <1>2
  <2> QED
    BY <2>1, <2>2, ToDoGrows
<1>11. PICK x : /\ Takes(c, x) /\ ChainsOK' /\ AloneOK' /\ x.todo = rest
                /\ rest # <<>> => x.op = op /\ x.planId = chain[c].planId
  BY <1>1, <1>2, <1>6, <1>7, <1>10, GoesOn
<1>12. /\ calm'.plan => calm.plan /\ op # "import"
       /\ calm'.list = calm.list
  BY <1>1, <1>7 DEF PlanDataOK
<1>13. op = "background" /\ calm.plan => Last(todo).channel = "get"
  BY <1>1, <1>4, <1>6 DEF PlanShownOK
<1>14. rest # <<>> /\ calm'.plan /\ x.op = "background" => Last(rest).channel = "get"
  <2>1. rest # <<>> => Last(rest) = Last(todo) /\ x.op = op
    BY <1>9, <1>11
  <2> QED
    BY <1>12, <1>13, <2>1
<1>15. Last(todo) = todo[Len(todo)]
  BY DEF Last
<1>16. PlanShownOK'
  <2>1. CASE t.channel \in {"add", "update", "background"}
    <3> SUFFICES ASSUME calm'.plan PROVE rest # <<>> /\ Rereads(x)
      BY <1>1, <1>11, <1>12, <1>14, ShownByOne
    <3>1. op \in {"add", "template", "update", "background", "planBackground"}
      BY <1>8, <1>12, <2>1, OpsOfChannels
    <3>2. CASE op \in {"add", "update", "planBackground"}
      <4>1. Len(todo) > 1 /\ todo[2].channel = "get"
        BY <1>8, <2>1, <3>2 DEF ToDoOK
      <4> QED
        BY <1>9, <1>11, <4>1 DEF Rereads
    <3>3. CASE op \in {"template", "background"}
      <4>1. Last(todo).channel = "get"
        BY <1>8, <1>12, <1>13, <3>3 DEF ToDoOK
      <4>2. Len(todo) > 1
        BY <1>8, <1>15, <2>1, <4>1
      <4> QED
        BY <1>9, <1>11, <3>3, <4>1, <4>2 DEF Rereads
    <3> QED
      BY <3>1, <3>2, <3>3
  <2>2. CASE t.channel \in {"remove", "rename", "delete"}
    <3>1. op \in {"remove", "rename", "delete"} /\ op = t.channel
      BY <1>8, <2>2, OpsOfChannels
    <3>2. ~Rereads(chain[c])
      BY <1>3, <1>6, <2>2, <3>1 DEF Rereads
    <3>3. rest # <<>> => Head(rest).channel = "list"
      <4>1. CASE op = "remove"
        BY <1>8, <1>9, <4>1 DEF ToDoOK
      <4>2. CASE op \in {"rename", "delete"}
        BY <1>8, <1>9, <2>2, <4>2 DEF ToDoOK
      <4> QED
        BY <3>1, <4>1, <4>2
    <3>4. PlanAhead => PlanAhead'
      <4> SUFFICES ASSUME PlanAhead PROVE PlanAhead'
        OBVIOUS
      <4>1. CASE t.channel = "remove"
        <5>1. rest = <<>>
          BY <1>8, <1>9, <3>1, <4>1 DEF ToDoOK
        <5> QED
          BY <1>1, <1>3, <1>7, <1>11, <4>1, <5>1, RemoveAhead
      <4>2. CASE t.channel = "rename"
        BY <1>1, <1>3, <1>7, <1>11, <3>3, <4>2, RenameAhead
      <4>3. CASE t.channel = "delete"
        BY <1>1, <1>3, <1>7, <4>3, DeleteAhead
      <4> QED
        BY <2>2, <4>1, <4>2, <4>3
    <3> QED
      BY <1>1, <1>11, <1>12, <1>14, <3>2, <3>4, ShownByOne
  <2> QED
    BY <1>7, <2>1, <2>2 DEF EditChannels
<1>17. ListShownOK'
  <2>1. CASE t.channel = "delete"
    <3>1. op = "delete"
      BY <1>8, <2>1, OpsOfChannels
    <3>2. rest # <<>> /\ Head(rest).channel = "list"
      BY <1>8, <1>9, <2>1, <3>1 DEF ToDoOK
    <3> QED
      BY <1>1, <1>11, <1>12, <3>2, ListByOne
  <2>2. CASE t.channel # "delete"
    <3>1. PlansListed' = PlansListed
      BY <1>1, <1>3, <1>7, <2>2, EditStored
    <3>2. t.channel # "list"
      BY <1>7 DEF EditChannels
    <3> QED
      BY <1>1, <1>3, <1>7, <1>11, <1>12, <3>1, <3>2, ListByOne
  <2> QED
    BY <2>1, <2>2
<1> QED
  BY <1>2, <1>11, <1>16, <1>17 DEF PlanInv

-----------------------------------------------------------------------------
\* The first free slot takes a new operation; nobody is alone any more.
LEMMA BeginChains ==
    ASSUME ChainsOK, NEW p, NEW c \in Chains, NEW op, NEW todo, BeginFor(p, c, op, todo),
           ToDoOK(op, todo), op \in Operations, p \in Plans \cup {NoPlan},
           p = NoPlan => op = "create", UNCHANGED nextPlan
    PROVE  /\ ChainsOK' /\ AloneOK'
           /\ c \notin Busy /\ Busy' = Busy \cup {c} /\ Plans' = Plans
           /\ chain'[c].op = op /\ chain'[c].planId = p /\ chain'[c].todo = todo
           /\ \A d \in Busy : /\ chain'[d].op = chain[d].op /\ chain'[d].planId = chain[d].planId
                              /\ chain'[d].todo = chain[d].todo
<1>1. /\ c \notin Busy
      /\ chain' = [Disturbed(Chains \ {c}) EXCEPT ![c] = newChain(op, p, todo)]
  BY DEF BeginFor
<1>2. PICK x : x = newChain(op, p, todo)
  OBVIOUS
<1>3. todo \in Seq(Call) /\ todo # <<>>
  BY ToDoHead DEF ToDoOK
<1>4. p \in AllPlans \cup {NoPlan}
  BY DEF Plans
<1>5. /\ x \in Chain /\ x.op = op /\ x.planId = p /\ x.todo = todo /\ x.snap = Unasked
      /\ x.alone = (Busy = {})
  BY <1>2, <1>3, <1>4 DEF newChain, Chain
<1>6. /\ chain'[c] = x
      /\ \A d \in Chains \ {c} : chain'[d] = IF d \in Busy THEN [chain[d] EXCEPT !.alone = FALSE]
                                             ELSE chain[d]
      /\ DOMAIN chain' = Chains
  BY <1>1, <1>2 DEF Disturbed
<1>7. \A d \in Busy : /\ d \in Chains \ {c}
                      /\ chain'[d] \in Chain
                      /\ chain'[d].op = chain[d].op /\ chain'[d].planId = chain[d].planId
                      /\ chain'[d].todo = chain[d].todo /\ chain'[d].snap = chain[d].snap
                      /\ chain'[d].alone = FALSE
  <2> TAKE d \in Busy
  <2>1. d \in Chains \ {c} /\ chain'[d] = [chain[d] EXCEPT !.alone = FALSE]
    BY <1>1, <1>6 DEF Busy
  <2>2. chain[d] \in Chain
    BY BusyChain
  <2> QED
    BY <2>1, <2>2 DEF Chain
<1>8. Busy' = Busy \cup {c}
  <2>1. c \in Busy'
    BY <1>3, <1>5, <1>6 DEF Busy
  <2>2. \A d \in Chains \ {c} : d \in Busy' <=> d \in Busy
    <3> TAKE d \in Chains \ {c}
    <3>1. CASE d \in Busy
      BY <1>7, <3>1 DEF Busy
    <3>2. CASE d \notin Busy
      BY <1>6, <3>2 DEF Busy
    <3> QED
      BY <3>1, <3>2
  <2> QED
    BY <2>1, <2>2 DEF Busy
<1>9. Plans' = Plans
  BY DEF Plans
<1>10. ToDoOK(op, todo)'
  BY <1>9, ToDoGrows
<1>11. ChainOK(x)'
  BY <1>5, <1>9, <1>10 DEF ChainOK
<1>12. \A d \in Busy : ChainOK(chain[d])'
  <2> TAKE d \in Busy
  <2>1. PICK ch : ch = chain[d]
    OBVIOUS
  <2>2. ChainOK(ch)'
    BY <1>9, <2>1, BusyChain, ChainGrows
  <2>3. PICK new : new = chain'[d]
    OBVIOUS
  <2>4. /\ new \in Chain /\ new.op = ch.op /\ new.planId = ch.planId
        /\ new.todo = ch.todo /\ new.snap = ch.snap
    BY <1>7, <2>1, <2>3
  <2>5. ChainOK(new)'
    BY <2>2, <2>4 DEF ChainOK
  <2> QED
    BY <2>3, <2>5 DEF ChainOK
<1>13. \A d \in Busy' : ChainOK(chain[d])'
  BY <1>6, <1>8, <1>11, <1>12 DEF ChainOK
<1>14. chain' \in [Chains -> Chain \cup {Idle}]
  <2>1. \A d \in Chains : chain'[d] \in Chain \cup {Idle}
    <3> TAKE d \in Chains
    <3>1. CASE d = c
      BY <1>5, <1>6, <3>1
    <3>2. CASE d \in Busy
      BY <1>7, <3>2
    <3>3. CASE d # c /\ d \notin Busy
      BY <1>6, <3>3 DEF ChainsOK
    <3> QED
      BY <3>1, <3>2, <3>3
  <2>2. chain' = [d \in Chains |-> chain'[d]]
    BY <1>1 DEF Disturbed
  <2> QED
    BY <2>1, <2>2
<1>15. AloneOK'
  <2> SUFFICES ASSUME NEW d \in Busy', chain'[d].alone
               PROVE  Busy' = {d} /\ chain'[d].snap = Unasked
    BY DEF AloneOK
  <2>1. d = c
    BY <1>7, <1>8
  <2> QED
    BY <1>5, <1>6, <1>8, <2>1
<1> QED
  BY <1>1, <1>5, <1>6, <1>7, <1>8, <1>9, <1>13, <1>14, <1>15 DEF ChainsOK

LEMMA BeginShown ==
    ASSUME PlanInv, NEW c, c \notin Busy, Busy' = Busy \cup {c},
           \A d \in Busy : /\ chain'[d].op = chain[d].op /\ chain'[d].planId = chain[d].planId
                           /\ chain'[d].todo = chain[d].todo,
           UNCHANGED <<stored, calm>>,
           chain'[c].op = "background" => Last(chain'[c].todo).channel = "get",
           \/ Head(chain'[c].todo).channel = "get"
           \/ /\ chain'[c].planId = selectedPlanId /\ Head(chain'[c].todo).channel # "remove"
              /\ UNCHANGED <<selectedPlanId, plan>>
           \/ /\ chain'[c].planId = selectedPlanId /\ selectedPlanId # NoPlan
              /\ Head(chain'[c].todo).channel = "remove"
              /\ UNCHANGED selectedPlanId
              /\ plan' = Without(plan, Head(chain'[c].todo).arg)
    PROVE  PlanShownOK'
<1>1. \A d \in Busy : Rereads(chain[d]) => d \in Busy' /\ Rereads(chain'[d])
  BY DEF Rereads
<1> SUFFICES ASSUME calm'.plan, ~Rereads(chain'[c]), PlanAhead
             PROVE  PlanAhead'
  BY <1>1 DEF PlanShownOK, PlanInv, Rereads
<1>2. /\ Head(chain'[c].todo).channel # "get" /\ chain'[c].planId = selectedPlanId
      /\ selectedPlanId' = selectedPlanId
  BY DEF Rereads
<1>3. CASE selectedPlanId = NoPlan
  BY <1>2, <1>3 DEF PlanAhead
<1>4. CASE selectedPlanId # NoPlan
  <2>1. PICK p : p = selectedPlanId
    OBVIOUS
  <2>2. PICK s : s = stored[p]
    OBVIOUS
  <2>3. /\ \A d \in Busy : chain[d].planId = p
        /\ plan = Without(s, Gone)
    BY <1>4, <2>1, <2>2 DEF PlanAhead
  <2>4. \A d \in Busy' : chain'[d].planId = p
    BY <1>2, <2>1, <2>3
  <2>5. PlanOrNone(s)
    BY <1>4, <2>1, <2>2 DEF PlanInv, PlanDataOK, Plans
  <2>6. CASE Head(chain'[c].todo).channel # "remove"
    <3>1. Removing' = Removing
      BY <2>6 DEF Removing
    <3>2. \A d \in Removing : chain'[d].todo = chain[d].todo
      BY DEF Removing
    <3>3. Gone' = Gone
      BY <3>1, <3>2 DEF Gone
    <3>4. plan' = plan
      BY <1>2, <2>6
    <3> QED
      BY <1>2, <1>4, <2>1, <2>2, <2>3, <2>4, <3>3, <3>4 DEF PlanAhead, Without
  <2>7. CASE Head(chain'[c].todo).channel = "remove"
    <3>1. Removing' = Removing \cup {c} /\ c \notin Removing
      BY <2>7 DEF Removing
    <3>2. \A d \in Removing : chain'[d].todo = chain[d].todo
      BY DEF Removing
    <3>3. PICK arg : arg = Head(chain'[c].todo).arg
      OBVIOUS
    <3>4. Gone' = Gone \cup arg
      BY <3>1, <3>2, <3>3 DEF Gone
    <3>5. plan' = Without(plan, arg)
      BY <1>2, <2>7, <3>3
    <3>6. PICK gone : gone = Gone
      OBVIOUS
    <3>7. plan' = Without(s, gone \cup arg)
      BY <2>3, <2>5, <3>5, <3>6, WithoutTwice
    <3> QED
      BY <1>2, <1>4, <2>1, <2>2, <2>4, <3>4, <3>6, <3>7 DEF PlanAhead, Without
  <2> QED
    BY <2>6, <2>7
<1> QED
  BY <1>3, <1>4

LEMMA BeginList ==
    ASSUME PlanInv, Busy \subseteq Busy', \A d \in Busy : chain'[d].todo = chain[d].todo,
           UNCHANGED <<stored, deleted, planList, calm>>
    PROVE  ListShownOK'
BY DEF PlanInv, ListShownOK, PlansListed

LEMMA BeginData ==
    ASSUME PlanDataOK, PlanOrNone(plan'), selectedPlanId' \in Plans \cup {NoPlan},
           selectedItemIds' \subseteq Nat, UNCHANGED <<stored, deleted, nextPlan, nextItem, planList, calm>>
    PROVE  PlanDataOK'
BY DEF PlanDataOK, PlanOrNone, Plans, PlansListed

LEMMA BeginKept ==
    ASSUME PlanInv, NEW p, NEW c \in Chains, NEW op, NEW todo, BeginFor(p, c, op, todo),
           ToDoOK(op, todo), op \in Operations, p \in Plans \cup {NoPlan},
           p = NoPlan => op = "create",
           op = "background" => Last(todo).channel = "get",
           PlanOrNone(plan'), selectedPlanId' \in Plans \cup {NoPlan}, selectedItemIds' \subseteq Nat,
           \/ Head(todo).channel = "get"
           \/ /\ p = selectedPlanId /\ Head(todo).channel # "remove"
              /\ UNCHANGED <<selectedPlanId, plan>>
           \/ /\ p = selectedPlanId /\ selectedPlanId # NoPlan
              /\ Head(todo).channel = "remove"
              /\ UNCHANGED selectedPlanId
              /\ plan' = Without(plan, Head(todo).arg)
    PROVE  PlanInv'
<1>1. UNCHANGED <<stored, deleted, nextPlan, nextItem, planList, calm>>
  BY DEF BeginFor
<1>2. /\ ChainsOK' /\ AloneOK'
      /\ c \notin Busy /\ Busy' = Busy \cup {c}
      /\ chain'[c].op = op /\ chain'[c].planId = p /\ chain'[c].todo = todo
      /\ \A d \in Busy : /\ chain'[d].op = chain[d].op /\ chain'[d].planId = chain[d].planId
                         /\ chain'[d].todo = chain[d].todo
  <2>1. ChainsOK /\ UNCHANGED nextPlan
    BY <1>1 DEF PlanInv
  <2> QED
    BY <2>1, BeginChains
<1>3. PlanDataOK'
  BY <1>1, BeginData DEF PlanInv
<1>4. PlanShownOK'
  BY <1>1, <1>2, BeginShown
<1>5. ListShownOK'
  BY <1>1, <1>2, BeginList
<1> QED
  BY <1>2, <1>3, <1>4, <1>5 DEF PlanInv

-----------------------------------------------------------------------------
LEMMA ItemIds ==
    ASSUME NEW p, p \in PlanRecord, IsFiniteSet(p.items)
    PROVE  ids(p) \subseteq Nat /\ IsFiniteSet(ids(p))
<1>1. p.items \subseteq [id : Nat, v : Value]
  BY PlanFields
<1>2. ids(p) \subseteq Nat
  BY <1>1 DEF ids
<1>3. PICK f : f = [it \in p.items |-> it.id]
  OBVIOUS
<1>4. \A y : y \in ids(p) <=> \E it \in p.items : y = f[it]
  BY <1>3 DEF ids
<1>5. IsFiniteSet(ids(p))
  BY <1>4, FiniteImage
<1> QED
  BY <1>2, <1>5

LEMMA AddKept ==
    ASSUME PlanInv, NEW c \in Chains, NEW v \in Value, selectedPlanId # NoPlan,
           Begin(c, "add", <<call("add", <<v>>), get>>), Quietly
    PROVE  PlanInv'
<1>1. PICK a : a = call("add", <<v>>) /\ <<v>> \in Seq(Value)
  OBVIOUS
<1>2. a \in Call /\ CallOK(a) /\ a.channel = "add" /\ get \in Call /\ CallOK(get) /\ get.channel = "get"
  BY <1>1, Calls
<1>3. PICK todo : todo = <<a, get>>
  OBVIOUS
<1>4. ToDoOK("add", todo) /\ Head(todo) = a
  BY <1>2, <1>3, TwoCalls DEF Channels
<1>5. BeginFor(selectedPlanId, c, "add", todo)
  BY <1>1, <1>3 DEF Begin
<1>6. /\ UNCHANGED <<selectedPlanId, plan, selectedItemIds>>
      /\ PlanOrNone(plan') /\ selectedPlanId' \in Plans \cup {NoPlan} /\ selectedItemIds' \subseteq Nat
      /\ selectedPlanId \in Plans \cup {NoPlan}
  BY DEF Quietly, PlanInv, PlanDataOK
<1> QED
  BY <1>2, <1>4, <1>5, <1>6, BeginKept DEF Operations

\* The operations that neither select nor show anything before their answers.
LEMMA QuietKept ==
    ASSUME PlanInv, NEW c \in Chains, NEW op \in Operations, NEW todo,
           BeginFor(selectedPlanId, c, op, todo), ToDoOK(op, todo), Quietly,
           selectedPlanId = NoPlan => op = "create",
           op = "background" => Last(todo).channel = "get",
           Head(todo).channel # "remove"
    PROVE  PlanInv'
<1>1. /\ UNCHANGED <<selectedPlanId, plan, selectedItemIds>>
      /\ PlanOrNone(plan') /\ selectedPlanId' \in Plans \cup {NoPlan} /\ selectedItemIds' \subseteq Nat
      /\ selectedPlanId \in Plans \cup {NoPlan}
  BY DEF Quietly, PlanInv, PlanDataOK
<1> QED
  BY <1>1, BeginKept

LEMMA AddsKept ==
    ASSUME PlanInv, NEW c \in Chains, NEW v \in Values, NEW w \in Values,
           \/ addItem(c, v) \/ handleAddAll(c, v, w) \/ handleApply(c, v, w)
           \/ handleImport(c, v, w)
    PROVE  PlanInv'
<1>1. v \in Value /\ w \in Value /\ <<v>> \in Seq(Value) /\ <<w>> \in Seq(Value) /\ <<v, w>> \in Seq(Value)
  BY DEF Value
<1>2. CASE addItem(c, v)
  BY <1>1, <1>2, AddKept DEF addItem
<1>4. PICK a, b : a = call("add", <<v>>) /\ b = call("add", <<w>>)
  OBVIOUS
<1>5. /\ a \in Call /\ CallOK(a) /\ a.channel = "add"
      /\ b \in Call /\ CallOK(b) /\ b.channel = "add"
  BY <1>1, <1>4, Calls
<1>6. CASE handleAddAll(c, v, w)
  <2>1. PICK todo : todo = <<a, get, b, get>>
    OBVIOUS
  <2>2. ToDoOK("add", todo) /\ Head(todo) = a
    BY <1>1, <1>5, <2>1, MoreCalls
  <2>3. BeginFor(selectedPlanId, c, "add", todo) /\ Quietly /\ selectedPlanId # NoPlan
    BY <1>4, <1>6, <2>1 DEF handleAddAll, Begin
  <2> QED
    BY <1>5, <2>2, <2>3, QuietKept DEF Operations
<1>7. CASE handleApply(c, v, w)
  <2>1. PICK todo : todo = <<a, b, get>>
    OBVIOUS
  <2>2. ToDoOK("template", todo) /\ Head(todo) = a
    BY <1>1, <1>5, <2>1, MoreCalls
  <2>3. BeginFor(selectedPlanId, c, "template", todo) /\ Quietly /\ selectedPlanId # NoPlan
    BY <1>4, <1>7, <2>1 DEF handleApply, Begin
  <2> QED
    BY <1>5, <2>2, <2>3, QuietKept DEF Operations
<1>8. CASE handleImport(c, v, w)
  <2>1. PICK both : both = call("add", <<v, w>>)
    OBVIOUS
  <2>2. both \in Call /\ CallOK(both) /\ both.channel = "add"
    BY <1>1, <2>1, Calls
  <2>3. PICK todo : todo = <<both>>
    OBVIOUS
  <2>4. ToDoOK("import", todo) /\ Head(todo) = both
    BY <2>2, <2>3, OneCall DEF Channels
  <2>5. BeginFor(selectedPlanId, c, "import", todo) /\ Quietly /\ selectedPlanId # NoPlan
    BY <1>8, <2>1, <2>3 DEF handleImport, Begin
  <2> QED
    BY <2>2, <2>4, <2>5, QuietKept DEF Operations
<1> QED
  BY <1>2, <1>6, <1>7, <1>8

LEMMA UpdatesKept ==
    ASSUME PlanInv, NEW c \in Chains, NEW id \in Nat, NEW v \in Values, NEW w \in Values,
           updateItem(c, id, v) \/ handleSave(c, id, v, w)
    PROVE  PlanInv'
<1>1. v \in Value /\ w \in Value
  BY DEF Value
<1>2. CardsShown /\ selectedPlanId # NoPlan /\ id \in ids(plan) /\ Quietly
  BY DEF updateItem, handleSave
<1>3. plan \in PlanRecord /\ IsFiniteSet(plan.items)
  BY <1>2 DEF CardsShown, PlanInv, PlanDataOK, PlanOrNone
<1>4. PICK a : a = call("update", [ids |-> {id}, v |-> v])
  OBVIOUS
<1>5. [ids |-> {id}, v |-> v] \in [ids : SUBSET Nat, v : Value]
  BY <1>1
<1>6. a \in Call /\ CallOK(a) /\ a.channel = "update" /\ get \in Call /\ CallOK(get) /\ get.channel = "get"
  BY <1>4, <1>5, Calls
<1>7. CASE updateItem(c, id, v)
  <2>1. PICK todo : todo = <<a, get>>
    OBVIOUS
  <2>2. ToDoOK("update", todo) /\ Head(todo) = a
    BY <1>6, <2>1, TwoCalls DEF Channels
  <2>3. BeginFor(selectedPlanId, c, "update", todo)
    BY <1>4, <1>7, <2>1 DEF updateItem, Begin
  <2> QED
    BY <1>2, <1>6, <2>2, <2>3, QuietKept DEF Operations
<1>8. CASE handleSave(c, id, v, w)
  <2>1. PICK S : S = {call("update", [ids |-> {i}, v |-> w]) : i \in ids(plan)}
    OBVIOUS
  <2>2. ids(plan) \subseteq Nat /\ IsFiniteSet(ids(plan))
    BY <1>3, ItemIds
  <2>3. \A i \in ids(plan) : [ids |-> {i}, v |-> w] \in [ids : SUBSET Nat, v : Value]
    BY <1>1, <2>2
  <2>4. \A u \in S : u \in Call /\ CallOK(u) /\ u.channel = "update"
    <3> TAKE u \in S
    <3>1. PICK i \in ids(plan) : u = call("update", [ids |-> {i}, v |-> w])
      BY <2>1
    <3>2. PICK arg : arg = [ids |-> {i}, v |-> w]
      OBVIOUS
    <3>3. arg \in [ids : SUBSET Nat, v : Value]
      BY <2>3, <3>2
    <3> QED
      BY <3>1, <3>2, <3>3, Calls
  <2>5. IsFiniteSet(S)
    <3>1. PICK f : f = [i \in ids(plan) |-> call("update", [ids |-> {i}, v |-> w])]
      OBVIOUS
    <3>2. \A y : y \in S <=> \E i \in ids(plan) : y = f[i]
      BY <2>1, <3>1
    <3> QED
      BY <2>2, <3>2, FiniteImage
  <2>6. PICK us : us = SetToSeq(S)
    OBVIOUS
  <2>7. us \in Seq(S)
    BY <2>5, <2>6, SequenceOfSet
  <2>8. us \in Seq(Call) /\ \A i \in 1..Len(us) : CallOK(us[i]) /\ us[i].channel = "update"
    BY <2>4, <2>7
  <2>9. PICK todo : todo = <<a, get>> \o us \o <<get>>
    OBVIOUS
  <2>10. ToDoOK("background", todo) /\ Head(todo) = a /\ Last(todo).channel = "get"
    BY <1>6, <2>8, <2>9, BackgroundCalls
  <2>11. BeginFor(selectedPlanId, c, "background", todo)
    BY <1>4, <1>8, <2>1, <2>6, <2>9 DEF handleSave, Begin
  <2> QED
    BY <1>2, <1>6, <2>10, <2>11, QuietKept DEF Operations
<1> QED
  BY <1>7, <1>8

\* The plan loses the items before the main process removes them.
LEMMA RemovesKept ==
    ASSUME PlanInv, NEW c \in Chains, NEW gone, gone \subseteq Nat, selectedPlanId # NoPlan,
           Begin(c, "remove", <<call("remove", gone)>>), plan' = Without(plan, gone),
           UNCHANGED selectedPlanId, selectedItemIds' \subseteq Nat
    PROVE  PlanInv'
<1>1. PICK a : a = call("remove", gone)
  OBVIOUS
<1>2. a \in Call /\ CallOK(a) /\ a.channel = "remove"
  BY <1>1, Calls
<1>3. a.arg = gone
  BY <1>1 DEF call
<1>4. PICK todo : todo = <<a>>
  OBVIOUS
<1>5. ToDoOK("remove", todo) /\ Head(todo) = a
  BY <1>2, <1>4, OneCall DEF Channels
<1>6. BeginFor(selectedPlanId, c, "remove", todo)
  BY <1>1, <1>4 DEF Begin
<1>7. /\ PlanOrNone(plan)
      /\ selectedPlanId' \in Plans \cup {NoPlan}
      /\ selectedPlanId \in Plans \cup {NoPlan}
  BY DEF PlanInv, PlanDataOK
<1>8. PlanOrNone(plan')
  BY <1>7, WithoutTyped
<1> QED
  BY <1>2, <1>3, <1>5, <1>6, <1>7, <1>8, BeginKept DEF Operations

LEMMA PlanEditsKept ==
    ASSUME PlanInv, NEW c \in Chains, NEW v \in Value,
           \/ commitTitle(c, v) \/ handleSavePlanBg(c, v)
           \/ handleCreate(c) \/ handleDuplicate(c) \/ handleDelete(c)
    PROVE  PlanInv'
<1>2. /\ get \in Call /\ CallOK(get) /\ get.channel = "get"
      /\ list \in Call /\ CallOK(list) /\ list.channel = "list"
  BY Calls
<1>3. CASE commitTitle(c, v)
  <2>1. PICK a : a = call("rename", v)
    OBVIOUS
  <2>2. a \in Call /\ CallOK(a) /\ a.channel = "rename"
    BY <2>1, Calls
  <2>3. PICK todo : todo = <<a, list>>
    OBVIOUS
  <2>4. ToDoOK("rename", todo) /\ Head(todo) = a
    BY <1>2, <2>2, <2>3, TwoCalls DEF Channels
  <2>5. BeginFor(selectedPlanId, c, "rename", todo) /\ Quietly /\ selectedPlanId # NoPlan
    BY <1>3, <2>1, <2>3 DEF commitTitle, Begin
  <2> QED
    BY <2>2, <2>4, <2>5, QuietKept DEF Operations
<1>4. CASE handleSavePlanBg(c, v)
  <2>1. PICK a : a = call("background", v)
    OBVIOUS
  <2>2. a \in Call /\ CallOK(a) /\ a.channel = "background"
    BY <2>1, Calls
  <2>3. PICK todo : todo = <<a, get>>
    OBVIOUS
  <2>4. ToDoOK("planBackground", todo) /\ Head(todo) = a
    BY <1>2, <2>2, <2>3, TwoCalls DEF Channels
  <2>5. BeginFor(selectedPlanId, c, "planBackground", todo) /\ Quietly /\ selectedPlanId # NoPlan
    BY <1>4, <2>1, <2>3 DEF handleSavePlanBg, Begin
  <2> QED
    BY <2>2, <2>4, <2>5, QuietKept DEF Operations
<1>5. CASE handleCreate(c) \/ handleDuplicate(c)
  <2>1. PICK a : a = call("create", 0)
    OBVIOUS
  <2>2. a \in Call /\ CallOK(a) /\ a.channel = "create"
    BY <2>1, Calls
  <2>3. PICK todo : todo = <<a, list>>
    OBVIOUS
  <2>4. /\ ToDoOK("create", todo) /\ Head(todo) = a
        /\ ToDoOK("duplicate", todo)
    BY <1>2, <2>2, <2>3, TwoCalls DEF Channels
  <2>5. Quietly
    BY <1>5 DEF handleCreate, handleDuplicate
  <2>6. \/ BeginFor(selectedPlanId, c, "create", todo)
        \/ BeginFor(selectedPlanId, c, "duplicate", todo) /\ selectedPlanId # NoPlan
    BY <1>5, <2>1, <2>3 DEF handleCreate, handleDuplicate, Begin
  <2> QED
    BY <2>2, <2>4, <2>5, <2>6, QuietKept DEF Operations
<1>6. CASE handleDelete(c)
  <2>1. PICK a : a = call("delete", 0)
    OBVIOUS
  <2>2. a \in Call /\ CallOK(a) /\ a.channel = "delete"
    BY <2>1, Calls
  <2>3. PICK todo : todo = <<a, list>>
    OBVIOUS
  <2>4. ToDoOK("delete", todo) /\ Head(todo) = a
    BY <1>2, <2>2, <2>3, TwoCalls DEF Channels
  <2>5. BeginFor(selectedPlanId, c, "delete", todo) /\ Quietly /\ selectedPlanId # NoPlan
    BY <1>6, <2>1, <2>3 DEF handleDelete, Begin
  <2> QED
    BY <2>2, <2>4, <2>5, QuietKept DEF Operations
<1> QED
  BY <1>3, <1>4, <1>5, <1>6

LEMMA SelectKept ==
    ASSUME PlanInv, NEW c \in Chains, NEW p \in AllPlans, selectPlan(c, p)
    PROVE  PlanInv'
<1>1. get \in Call /\ CallOK(get) /\ get.channel = "get"
  BY Calls
<1>2. PICK todo : todo = <<get>>
  OBVIOUS
<1>3. ToDoOK("select", todo) /\ Head(todo) = get
  BY <1>1, <1>2, OneCall DEF Channels
<1>4. /\ BeginFor(p, c, "select", todo) /\ p \in planList
      /\ selectedPlanId' = p /\ UNCHANGED <<plan, selectedItemIds>>
  BY <1>2 DEF selectPlan
<1>5. p \in Plans /\ p # NoPlan /\ PlanOrNone(plan') /\ selectedItemIds' \subseteq Nat
  BY <1>4, PlanAssumption DEF PlanInv, PlanDataOK
<1> QED
  BY <1>1, <1>3, <1>4, <1>5, BeginKept DEF Operations

LEMMA UserKept == ASSUME PlanInv, UserStep PROVE PlanInv'
<1>1. ASSUME NEW id \in 1..(nextItem - 1), toggleItemSelection(id) PROVE PlanInv'
  <2>1. id \in Nat /\ selectedItemIds' = selectedItemIds \cup {id}
    BY <1>1 DEF toggleItemSelection, PlanInv, PlanDataOK
  <2>2. PlanDataOK'
    BY <1>1, <2>1 DEF PlanInv, PlanDataOK, toggleItemSelection, PlanOrNone, Plans, PlansListed
  <2>3. UNCHANGED <<stored, deleted, nextPlan, planList, selectedPlanId, plan, chain, calm>>
    BY <1>1 DEF toggleItemSelection
  <2>4. ChainsOK'
    BY <2>3 DEF PlanInv, ChainsOK, ChainOK, ToDoOK, CallOK, Plans, Busy, PlanOrNone
  <2>5. AloneOK'
    BY <2>3 DEF PlanInv, AloneOK, Busy, Store, PlansListed
  <2>6. PlanShownOK' /\ ListShownOK'
    BY <2>3 DEF PlanInv, PlanShownOK, ListShownOK, Busy, Rereads, PlanAhead, Gone, Removing, Without,
                PlansListed
  <2> QED
    BY <2>2, <2>4, <2>5, <2>6 DEF PlanInv
<1>2. ASSUME NEW c \in Chains, NEW id \in 1..(nextItem - 1), removeItem(c, id) PROVE PlanInv'
  <2>1. {id} \subseteq Nat
    BY <1>2 DEF PlanInv, PlanDataOK
  <2>2. selectedItemIds' \subseteq Nat
    BY <1>2 DEF PlanInv, PlanDataOK, removeItem
  <2> QED
    BY <1>2, <2>1, <2>2, RemovesKept DEF removeItem
<1>3. ASSUME NEW c \in Chains, handleBatchDelete(c) PROVE PlanInv'
  <2>1. selectedItemIds \subseteq Nat /\ selectedItemIds' \subseteq Nat
    BY <1>3 DEF PlanInv, PlanDataOK, handleBatchDelete
  <2>2. PICK gone : gone = selectedItemIds
    OBVIOUS
  <2> QED
    BY <1>3, <2>1, <2>2, RemovesKept DEF handleBatchDelete
<1>4. ASSUME NEW c \in Chains, NEW id \in 1..(nextItem - 1), NEW v \in Values,
             updateItem(c, id, v) \/ handleSave(c, id, v, v)
      PROVE  PlanInv'
  <2>1. id \in Nat
    BY <1>4 DEF PlanInv, PlanDataOK
  <2> QED
    BY <1>4, <2>1, UpdatesKept
<1>5. ASSUME NEW c \in Chains, duplicateItem(c) PROVE PlanInv'
  <2>1. PICK it \in plan.items : Begin(c, "add", <<call("add", <<it.v>>), get>>)
    BY <1>5 DEF duplicateItem
  <2>2. plan \in PlanRecord
    BY <1>5 DEF duplicateItem, CardsShown, PlanInv, PlanDataOK, PlanOrNone
  <2>3. it.v \in Value
    BY <2>2, PlanFields
  <2> QED
    BY <1>5, <2>1, <2>3, AddKept DEF duplicateItem
<1>6. 0 \in Value /\ Values \subseteq Value
  BY DEF Value
<1>7. ASSUME NEW c \in Chains, NEW v \in Values, addItem(c, v) \/ commitTitle(c, v) \/ handleSavePlanBg(c, v)
      PROVE  PlanInv'
  BY <1>6, <1>7, AddsKept, PlanEditsKept
<1>8. ASSUME NEW c \in Chains, handleCreate(c) \/ handleDuplicate(c) \/ handleDelete(c)
      PROVE  PlanInv'
  BY <1>6, <1>8, PlanEditsKept
<1>9. ASSUME NEW c \in Chains, NEW v \in Values, NEW w \in Values,
             handleAddAll(c, v, w) \/ handleApply(c, v, w) \/ handleImport(c, v, w)
      PROVE  PlanInv'
  BY <1>9, AddsKept
<1>10. ASSUME NEW c \in Chains, NEW p \in AllPlans, selectPlan(c, p) PROVE PlanInv'
  BY <1>10, SelectKept
<1> QED
  BY <1>1, <1>2, <1>3, <1>4, <1>5, <1>7, <1>8, <1>9, <1>10 DEF UserStep

-----------------------------------------------------------------------------
LEMMA CreateData ==
    ASSUME PlanDataOK, ChainsOK, NEW c \in Busy, serveCreate(c)
    PROVE  /\ PlanDataOK'
           /\ Plans' = Plans \cup {nextPlan} /\ nextPlan \notin Plans
           /\ \A p \in AllPlans \ {nextPlan} : stored'[p] = stored[p]
<1>1. PICK n : n = nextPlan
  OBVIOUS
<1>2. PICK source : source = IF chain[c].op = "duplicate" THEN stored[chain[c].planId] ELSE NoPlan
  OBVIOUS
<1>3. PICK items : items = IF source = NoPlan THEN {} ELSE copied(source)
  OBVIOUS
<1>4. /\ n \in AllPlans /\ nextPlan' = n + 1
      /\ stored' = [stored EXCEPT ![n] = newPlan(n, items)]
      /\ nextItem' = nextItem + Cardinality(items)
      /\ UNCHANGED <<planList, selectedPlanId, plan, selectedItemIds, calm>>
  BY <1>1, <1>2, <1>3 DEF serveCreate
<1>5. PlanOrNone(source)
  <2>1. CASE chain[c].op = "duplicate"
    BY <1>2, <2>1, PlanOfChain
  <2>2. CASE chain[c].op # "duplicate"
    BY <1>2, <2>2 DEF PlanOrNone
  <2> QED
    BY <2>1, <2>2
<1>6. items \in SUBSET [id : Nat, v : Value] /\ IsFiniteSet(items)
  <2>1. CASE source = NoPlan
    BY <1>3, <2>1, FS_EmptySet
  <2>2. CASE source # NoPlan
    <3>1. source \in PlanRecord /\ IsFiniteSet(source.items) /\ nextItem \in Nat
      BY <1>5, <2>2 DEF PlanOrNone, PlanDataOK
    <3> QED
      BY <1>3, <2>2, <3>1, CopyTyped
  <2> QED
    BY <2>1, <2>2
<1>7. PICK new : new = newPlan(n, items)
  OBVIOUS
<1>8. new \in PlanRecord /\ PlanOrNone(new) /\ new # NoPlan
  BY <1>4, <1>6, <1>7, NewPlanTyped
<1>9. stored \in [AllPlans -> PlanRecord \cup {NoPlan}] /\ \A p \in AllPlans : PlanOrNone(stored[p])
  BY DEF PlanDataOK
<1>10. /\ stored' \in [AllPlans -> PlanRecord \cup {NoPlan}]
       /\ stored'[n] = new /\ \A p \in AllPlans \ {n} : stored'[p] = stored[p]
  BY <1>4, <1>7, <1>8, <1>9
<1>11. \A p \in AllPlans : PlanOrNone(stored[p])'
  BY <1>8, <1>9, <1>10 DEF PlanOrNone
<1>12. Plans' = Plans \cup {n} /\ n \notin Plans /\ n \in Nat
  <2>1. n \in Nat /\ AllPlans \subseteq Nat
    BY <1>4, PlanAssumption
  <2>2. \A p \in Nat : (p < n + 1 <=> p < n \/ p = n) /\ ~(n < n)
    BY <2>1
  <2>3. Plans = {p \in AllPlans : p < n} /\ Plans' = {p \in AllPlans : p < n + 1}
    BY <1>1, <1>4 DEF Plans
  <2> QED
    BY <1>4, <2>1, <2>2, <2>3
<1>13. PlansListed' \subseteq PlansListed \cup {n}
  BY <1>10 DEF PlansListed, serveCreate
<1>14. nextItem' \in Nat /\ nextPlan' \in Nat
  BY <1>4, <1>6, <1>12, FS_CardinalityType DEF PlanDataOK
<1>15. PlanOrNone(plan)'
  BY <1>4 DEF PlanDataOK, PlanOrNone
<1> QED
  BY <1>1, <1>4, <1>10, <1>11, <1>12, <1>13, <1>14, <1>15 DEF PlanDataOK

LEMMA CreateKept ==
    ASSUME PlanInv, NEW c \in Busy, serveCreate(c)
    PROVE  PlanInv'
<1>1. /\ PlanDataOK /\ ChainsOK /\ AloneOK /\ PlanShownOK /\ ListShownOK
  BY DEF PlanInv
<1>2. /\ PlanDataOK' /\ Plans' = Plans \cup {nextPlan} /\ nextPlan \notin Plans
      /\ \A p \in AllPlans \ {nextPlan} : stored'[p] = stored[p]
  BY <1>1, CreateData
<1>3. PICK a : a = call("list", nextPlan)
  OBVIOUS
<1>4. PICK rest : rest = <<a>>
  OBVIOUS
<1>5. PICK op : op = chain[c].op
  OBVIOUS
<1>6. /\ Head(chain[c].todo).channel = "create" /\ GoOn(c, rest)
      /\ UNCHANGED <<selectedPlanId, plan, calm>> /\ nextPlan \in AllPlans
  BY <1>3, <1>4 DEF serveCreate
<1>7. op \in {"create", "duplicate"}
  BY <1>1, <1>5, <1>6, BusyChain, OpsOfChannels
<1>8. a \in Call /\ a.channel = "list" /\ a.arg \in Plans'
  <2>1. nextPlan \in Args /\ nextPlan \in Plans'
    BY <1>2, <1>6, PlanAssumption DEF Args
  <2>2. "list" \in CallNames
    BY DEF CallNames
  <2> QED
    BY <1>3, <2>1, <2>2 DEF call, Call
<1>9. CallOK(a)'
  BY <1>8 DEF CallOK
<1>10. rest \in Seq(Call) /\ Len(rest) = 1 /\ rest[1] = a /\ Head(rest) = a /\ rest # <<>>
  BY <1>4, <1>8
<1>11. ToDoOK(op, rest)'
  <2>1. \A i \in 1..Len(rest) : i = 1
    BY <1>10
  <2>2. "list" \in Channels(op)
    BY <1>7 DEF Channels
  <2> QED
    BY <1>7, <1>8, <1>9, <1>10, <2>1, <2>2 DEF ToDoOK
<1>12. PICK x : /\ Takes(c, x) /\ ChainsOK' /\ AloneOK' /\ x.todo = rest
                /\ x.op = op /\ x.planId = chain[c].planId
  <2>1. Plans \subseteq Plans'
    BY <1>2
  <2> QED
    BY <1>1, <1>5, <1>6, <1>10, <1>11, <2>1, GoesOn
<1>13. ~Rereads(chain[c])
  BY <1>5, <1>6, <1>7 DEF Rereads
<1>14. PlanAhead => PlanAhead'
  <2>1. selectedPlanId # NoPlan => stored'[selectedPlanId] = stored[selectedPlanId]
    BY <1>1, <1>2 DEF PlanDataOK, Plans
  <2>2. c \notin Removing
    BY <1>6 DEF Removing
  <2>3. Head(x.todo).channel # "remove"
    BY <1>8, <1>10, <1>12
  <2> QED
    BY <1>1, <1>6, <1>12, <2>1, <2>2, <2>3, AheadByOne
<1>15. PlanShownOK'
  BY <1>1, <1>6, <1>7, <1>12, <1>13, <1>14, ShownByOne
<1>16. ListShownOK'
  BY <1>1, <1>6, <1>8, <1>10, <1>12, ListByOne
<1> QED
  BY <1>2, <1>12, <1>15, <1>16 DEF PlanInv

\* What is left of an operation when one of its calls is rejected.
LEMMA Rejected ==
    ASSUME NEW ch, ToDoOK(ch.op, ch.todo), ch.op \in Operations,
           Head(ch.todo).channel \notin {"get", "list"},
           NEW rest, rest = AfterRejection(ch)
    PROVE  /\ rest = <<>> \/ ToDoOK(ch.op, rest)
           /\ rest # <<>> => Head(rest).channel # "list" /\ ch.op \in {"remove", "add", "background"}
           /\ rest # <<>> => Head(rest).channel # "remove"
           /\ ch.op = "remove" => rest # <<>> /\ Head(rest).channel = "get"
<1>1. PICK todo : todo = ch.todo
  OBVIOUS
<1>2. PICK op : op = ch.op
  OBVIOUS
<1>3. /\ todo \in Seq(Call) /\ Len(todo) \in Nat /\ Len(todo) > 0 /\ ToDoOK(op, todo)
      /\ Head(todo) = todo[1] /\ todo[1].channel \in Channels(op)
  BY <1>1, <1>2, ToDoHead DEF ToDoOK
<1>4. \A s : ToDoOK(op, s) /\ op \in {"add", "background"}
             => s # <<>> /\ Head(s).channel \in {"add", "update", "get"}
  <2> TAKE s
  <2> HAVE ToDoOK(op, s) /\ op \in {"add", "background"}
  <2>1. s # <<>> /\ Head(s).channel \in Channels(op)
    BY ToDoHead
  <2> QED
    BY <2>1 DEF Channels
<1>5. CASE op = "remove"
  <2>1. rest = <<get>>
    BY <1>2, <1>5 DEF AfterRejection
  <2>2. get \in Call /\ CallOK(get) /\ get.channel = "get"
    BY Calls
  <2>3. ToDoOK(op, rest) /\ Head(rest) = get
    BY <1>5, <2>1, <2>2, OneCall DEF Channels
  <2>4. rest # <<>>
    BY <2>1
  <2> QED
    BY <1>2, <1>5, <2>2, <2>3, <2>4
<1>6. CASE op \in {"add", "background"} /\ Len(todo) > 2 /\ todo[2] = get
  <2>1. rest = Tail(Tail(todo))
    BY <1>1, <1>2, <1>6 DEF AfterRejection
  <2>2. ToDoOK(op, Tail(todo)) /\ Len(Tail(todo)) = Len(todo) - 1
    BY <1>3, <1>6, ToDoRest
  <2>3. Len(Tail(todo)) > 1
    BY <1>3, <1>6, <2>2
  <2>4. ToDoOK(op, rest)
    BY <2>1, <2>2, <2>3, ToDoRest
  <2> QED
    BY <1>2, <1>4, <1>6, <2>4
<1>7. CASE op = "background" /\ ~(Len(todo) > 2 /\ todo[2] = get)
  <2>1. rest = IF Last(todo) = get THEN Front(Tail(todo)) ELSE Tail(todo)
    BY <1>1, <1>2, <1>7 DEF AfterRejection
  <2>2. CASE Len(todo) = 1
    <3>1. Last(todo) # get
      BY <1>1, <1>3, <2>2, Calls DEF Last
    <3>2. rest = <<>>
      BY <1>3, <2>1, <2>2, <3>1
    <3> QED
      BY <1>2, <1>7, <3>2
  <2>3. CASE Len(todo) > 1 /\ Last(todo) # get
    <3>1. ToDoOK(op, rest)
      BY <1>3, <2>1, <2>3, ToDoRest
    <3> QED
      BY <1>2, <1>4, <1>7, <3>1
  <2>4. CASE Len(todo) > 1 /\ Last(todo) = get
    <3>1. Head(todo).channel # "get" /\ rest = Front(Tail(todo))
      BY <1>1, <2>1, <2>4
    <3>2. Len(todo) > 2 => todo[2].channel # "get"
      <4>1. Len(todo) > 2 => 2 \in 1..Len(todo)
        BY <1>3
      <4>2. Len(todo) > 2 => todo[2] \in Call /\ CallOK(todo[2])
        BY <1>3, <4>1 DEF ToDoOK
      <4>3. \A t \in Call : CallOK(t) /\ t.channel = "get" => t = get
        BY DEF CallOK, Call, get, call
      <4> QED
        BY <1>7, <4>2, <4>3
    <3>3. rest = <<>> \/ ToDoOK(op, rest)
      BY <1>3, <1>7, <2>4, <3>1, <3>2, ToDoFront
    <3> QED
      BY <1>2, <1>4, <1>7, <3>3
  <2>5. Len(todo) = 1 \/ Len(todo) > 1
    BY <1>3, OneOrMore
  <2> QED
    BY <2>2, <2>3, <2>4, <2>5
<1>8. CASE op # "remove" /\ op # "background" /\ ~(op = "add" /\ Len(todo) > 2 /\ todo[2] = get)
  <2>1. rest = <<>>
    BY <1>1, <1>2, <1>8 DEF AfterRejection
  <2> QED
    BY <1>2, <1>8, <2>1
<1> QED
  BY <1>5, <1>6, <1>7, <1>8

LEMMA RejectKept ==
    ASSUME PlanInv, NEW c \in Busy, rejectEdit(c)
    PROVE  PlanInv'
<1>1. /\ PlanDataOK /\ ChainsOK /\ AloneOK /\ PlanShownOK /\ ListShownOK
  BY DEF PlanInv
<1>2. PICK ch : ch = chain[c]
  OBVIOUS
<1>3. PICK rest : rest = AfterRejection(ch)
  OBVIOUS
<1>4. /\ Head(ch.todo).channel \notin {"get", "list"} /\ GoOn(c, rest)
      /\ calm' = [calm EXCEPT !.plan = @ /\ ch.op \notin {"template", "background"}]
      /\ UNCHANGED <<stored, deleted, nextPlan, nextItem, planList, selectedPlanId, plan, selectedItemIds>>
  BY <1>2, <1>3 DEF rejectEdit
<1>5. /\ ToDoOK(ch.op, ch.todo) /\ ch.op \in Operations
      /\ Head(ch.todo).channel \in Channels(ch.op)
  BY <1>1, <1>2, BusyChain
<1>6. /\ rest = <<>> \/ ToDoOK(ch.op, rest)
      /\ rest # <<>> => Head(rest).channel # "list" /\ ch.op \in {"remove", "add", "background"}
      /\ rest # <<>> => Head(rest).channel # "remove"
      /\ ch.op = "remove" => rest # <<>> /\ Head(rest).channel = "get"
  BY <1>3, <1>4, <1>5, Rejected
<1>7. Plans' = Plans /\ PlansListed' = PlansListed
  BY <1>4 DEF Plans, PlansListed
<1>8. rest = <<>> \/ ToDoOK(ch.op, rest)'
  <2>1. Plans \subseteq Plans'
    BY <1>7
  <2> QED
    BY <1>6, <2>1, ToDoGrows
<1>9. PICK x : /\ Takes(c, x) /\ ChainsOK' /\ AloneOK' /\ x.todo = rest
               /\ rest # <<>> => x.op = ch.op /\ x.planId = ch.planId
  BY <1>1, <1>2, <1>4, <1>7, <1>8, GoesOn
<1>10. /\ calm'.plan => calm.plan /\ ch.op \notin {"template", "background"}
       /\ calm'.list = calm.list /\ calm' \in [plan : BOOLEAN, list : BOOLEAN]
  BY <1>1, <1>4 DEF PlanDataOK
<1>11. PlanDataOK'
  BY <1>1, <1>4, <1>7, <1>10 DEF PlanDataOK, PlanOrNone
<1>12. PlanShownOK'
  <2>1. CASE ch.op = "remove"
    <3>1. rest # <<>> /\ Rereads(x) /\ x.op = "remove"
      BY <1>6, <1>9, <2>1 DEF Rereads
    <3> QED
      BY <1>1, <1>9, <1>10, <3>1, ShownByOne
  <2>2. CASE ch.op # "remove"
    <3>1. c \notin Removing
      BY <1>2, <1>5, <2>2, OpsOfChannels DEF Removing
    <3>2. PlanAhead => PlanAhead'
      BY <1>1, <1>2, <1>4, <1>6, <1>9, <3>1, AheadByOne
    <3>3. calm'.plan => ~Rereads(chain[c])
      BY <1>2, <1>4, <1>10 DEF Rereads
    <3>4. x.todo # <<>> => ~(calm'.plan /\ x.op = "background")
      BY <1>9, <1>10
    <3> QED
      BY <1>1, <1>9, <1>10, <3>2, <3>3, <3>4, ShownByOne
  <2> QED
    BY <2>1, <2>2
<1>13. ListShownOK'
  BY <1>1, <1>2, <1>4, <1>7, <1>9, <1>10, ListByOne
<1> QED
  BY <1>9, <1>11, <1>12, <1>13 DEF PlanInv

LEMMA ServeKept ==
    ASSUME PlanInv, NEW c \in Busy, serveRead(c)
    PROVE  PlanInv'
<1>1. /\ PlanDataOK /\ ChainsOK /\ AloneOK /\ PlanShownOK /\ ListShownOK
  BY DEF PlanInv
<1>2. PICK ch : ch = chain[c]
  OBVIOUS
<1>3. /\ Head(ch.todo).channel \in {"get", "list"} /\ ch.snap = Unasked
      /\ UNCHANGED <<stored, deleted, nextPlan, nextItem, planList, selectedPlanId, plan, selectedItemIds, calm>>
  BY <1>2 DEF serveRead
<1>4. /\ c \in Chains /\ ch \in Chain /\ ChainOK(ch) /\ ch.todo # <<>>
      /\ Head(ch.todo).channel \in Channels(ch.op) /\ ch.op \in Operations
      /\ (Head(ch.todo) = get <=> Head(ch.todo).channel = "get")
  BY <1>1, <1>2, BusyChain
<1>5. PICK read : read = IF Head(ch.todo) = get THEN stored[ch.planId]
                         ELSE PlansListed
  OBVIOUS
<1>6. PICK x : x = [ch EXCEPT !.snap = read]
  OBVIOUS
<1>7. chain' = [chain EXCEPT ![c] = x]
  BY <1>1, <1>2, <1>5, <1>6 DEF serveRead, ChainsOK
<1>8. Head(ch.todo).channel = "get" =>
        /\ ch.planId \in Plans /\ ch.planId # NoPlan
        /\ read = stored[ch.planId] /\ PlanOrNone(read)
  BY <1>1, <1>2, <1>4, <1>5, PlanOfChain, OpsOfChannels
<1>9. Head(ch.todo).channel = "list" => read = PlansListed /\ read \subseteq Plans
  BY <1>1, <1>4, <1>5 DEF PlanDataOK
<1>10. read \in PlanRecord \cup {NoPlan, Unasked} \cup (SUBSET AllPlans)
  <2>1. CASE Head(ch.todo).channel = "get"
    BY <1>8, <2>1 DEF PlanOrNone
  <2>2. CASE Head(ch.todo).channel = "list"
    <3>1. read \subseteq AllPlans
      BY <1>9, <2>2 DEF PlansListed
    <3> QED
      BY <3>1
  <2> QED
    BY <1>3, <2>1, <2>2
<1>11. /\ x \in Chain /\ x.op = ch.op /\ x.planId = ch.planId /\ x.todo = ch.todo /\ x.snap = read
       /\ x.alone = ch.alone
  BY <1>4, <1>6, <1>10 DEF Chain
<1>12. Plans' = Plans /\ PlansListed' = PlansListed
  BY <1>3 DEF Plans, PlansListed
<1>13. ToDoOK(ch.op, ch.todo)'
  <2>1. ToDoOK(ch.op, ch.todo)
    BY <1>4 DEF ChainOK
  <2> QED
    BY <1>12, <2>1, ToDoGrows
<1>14. ChainOK(x)'
  BY <1>4, <1>8, <1>9, <1>11, <1>12, <1>13 DEF ChainOK, PlanOrNone
<1>15. Takes(c, x)
  BY <1>1, <1>4, <1>7, OneChanges
<1>16. ChainsOK'
  <2>1. Plans \subseteq Plans'
    BY <1>12
  <2> QED
    BY <1>1, <1>4, <1>7, <1>14, <2>1, ChainsKept
<1>17. AloneOK'
  <2>1. x.alone => Busy = {c}
    BY <1>1, <1>2, <1>11 DEF AloneOK
  <2>2. Head(x.todo).channel = "get" => x.snap = Store(x.planId)'
    BY <1>3, <1>8, <1>11 DEF Store
  <2>3. Head(x.todo).channel = "list" => x.snap = PlansListed'
    BY <1>9, <1>11, <1>12
  <2> QED
    BY <1>1, <1>15, <2>1, <2>2, <2>3, AloneKept
<1>18. Rereads(x) <=> Rereads(chain[c])
  BY <1>2, <1>11 DEF Rereads
<1>19. PlanShownOK'
  <2>1. PlanAhead => PlanAhead'
    <3>1. c \notin Removing /\ Head(x.todo).channel # "remove"
      BY <1>2, <1>3, <1>11 DEF Removing
    <3> QED
      BY <1>1, <1>2, <1>3, <1>11, <1>15, <3>1, AheadByOne
  <2>2. calm.plan /\ x.op = "background" => Last(x.todo).channel = "get"
    BY <1>1, <1>2, <1>11 DEF PlanShownOK
  <2>3. x.todo # <<>>
    BY <1>4, <1>11
  <2> QED
    BY <1>1, <1>3, <1>15, <1>18, <2>1, <2>2, <2>3, ShownByOne
<1>20. ListShownOK'
  <2>1. x.todo # <<>> /\ Head(x.todo) = Head(chain[c].todo)
    BY <1>2, <1>4, <1>11
  <2> QED
    BY <1>1, <1>3, <1>12, <1>15, <2>1, ListByOne
<1>21. PlanDataOK'
  BY <1>1, <1>3, <1>12 DEF PlanDataOK, PlanOrNone
<1> QED
  BY <1>16, <1>17, <1>19, <1>20, <1>21 DEF PlanInv

\* An operation whose read was answered, at its next call.
LEMMA NextCall ==
    ASSUME PlanInv, NEW c \in Busy, UNCHANGED <<stored, deleted, nextPlan>>,
           NEW x, \/ x = Idle
                  \/ /\ Len(chain[c].todo) > 1
                     /\ x = [chain[c] EXCEPT !.todo = Tail(chain[c].todo), !.snap = Unasked],
           chain' = [chain EXCEPT ![c] = x]
    PROVE  /\ Takes(c, x) /\ ChainsOK' /\ AloneOK'
           /\ x.todo # <<>> => /\ x.op = chain[c].op /\ x.planId = chain[c].planId
                               /\ Len(chain[c].todo) > 1 /\ x.todo = Tail(chain[c].todo)
                               /\ ToDoOK(x.op, x.todo)
<1>1. /\ PlanDataOK /\ ChainsOK /\ AloneOK
  BY DEF PlanInv
<1>2. PICK ch : ch = chain[c]
  OBVIOUS
<1>3. /\ c \in Chains /\ ch \in Chain /\ ChainOK(ch) /\ ToDoOK(ch.op, ch.todo)
      /\ ch.todo \in Seq(Call)
  BY <1>1, <1>2, BusyChain
<1>4. Takes(c, x)
  BY <1>1, <1>3, OneChanges
<1>5. Plans' = Plans /\ PlansListed' = PlansListed
  BY DEF Plans, PlansListed
<1>6. CASE x = Idle
  <2>1. x.todo = <<>>
    BY <1>6 DEF Idle
  <2>2. ChainsOK'
    BY <1>1, <1>3, <1>5, <1>6, ChainsKept
  <2>3. AloneOK'
    BY <1>1, <1>4, <2>1, AloneKept
  <2> QED
    BY <1>4, <2>1, <2>2, <2>3
<1>7. CASE x # Idle
  <2>1. PICK rest : rest = Tail(ch.todo)
    OBVIOUS
  <2>2. Len(ch.todo) > 1 /\ x = [ch EXCEPT !.todo = rest, !.snap = Unasked]
    BY <1>2, <1>7, <2>1
  <2>3. ToDoOK(ch.op, rest) /\ rest \in Seq(Call)
    <3>1. ToDoOK(ch.op, rest)
      BY <1>3, <2>1, <2>2, ToDoRest
    <3> QED
      BY <3>1 DEF ToDoOK
  <2>4. /\ x \in Chain /\ x.op = ch.op /\ x.planId = ch.planId /\ x.todo = rest
        /\ x.snap = Unasked /\ x.alone = ch.alone
    BY <1>3, <2>2, <2>3 DEF Chain
  <2>5. ToDoOK(ch.op, rest)'
    BY <1>5, <2>3, ToDoGrows
  <2>6. ChainOK(x)'
    BY <1>3, <1>5, <2>4, <2>5 DEF ChainOK
  <2>7. ChainsOK'
    BY <1>1, <1>3, <1>5, <2>6, ChainsKept
  <2>8. AloneOK'
    <3>1. x.alone => Busy = {c}
      BY <1>1, <1>2, <2>4 DEF AloneOK
    <3> QED
      BY <1>1, <1>4, <2>4, <3>1, AloneKept
  <2> QED
    BY <1>2, <1>4, <2>1, <2>2, <2>3, <2>4, <2>7, <2>8
<1> QED
  BY <1>6, <1>7

LEMMA WithoutNothing == ASSUME NEW p, PlanOrNone(p) PROVE Without(p, {}) = p
<1>1. CASE p = NoPlan
  BY <1>1 DEF Without
<1>2. CASE p # NoPlan
  <2>1. p \in PlanRecord
    BY <1>2 DEF PlanOrNone
  <2>2. {it \in p.items : it.id \notin {}} = p.items
    OBVIOUS
  <2>3. [p EXCEPT !.items = p.items] = p
    BY <2>1 DEF PlanRecord
  <2> QED
    BY <1>2, <2>2, <2>3 DEF Without
<1> QED
  BY <1>1, <1>2

LEMMA RefreshKept ==
    ASSUME PlanInv, NEW c \in Busy, refreshPlan(c)
    PROVE  PlanInv'
<1>1. /\ PlanDataOK /\ ChainsOK /\ AloneOK /\ PlanShownOK /\ ListShownOK
  BY DEF PlanInv
<1>2. PICK ch : ch = chain[c]
  OBVIOUS
<1>3. PICK alone \in BOOLEAN : alone = (ch.alone /\ ch.planId = selectedPlanId)
  OBVIOUS
<1>4. /\ Head(ch.todo) = get /\ ch.snap # Unasked /\ plan' = ch.snap
      /\ calm' = [calm EXCEPT !.plan = alone]
      /\ UNCHANGED <<stored, deleted, nextPlan, nextItem, planList, selectedPlanId, selectedItemIds>>
  BY <1>2, <1>3 DEF refreshPlan
<1>5. /\ c \in Chains /\ ch \in Chain /\ ChainOK(ch) /\ ToDoOK(ch.op, ch.todo)
      /\ Len(ch.todo) \in Nat /\ Len(ch.todo) > 0 /\ ch.op \in Operations
      /\ ch.todo \in Seq(Call) /\ Head(ch.todo) = ch.todo[1]
      /\ Head(ch.todo).channel = "get" /\ Head(ch.todo).channel \in Channels(ch.op)
  BY <1>1, <1>2, <1>4, BusyChain
<1>6. PICK x : x = IF Len(ch.todo) = 1 THEN Idle
                   ELSE [ch EXCEPT !.todo = Tail(ch.todo), !.snap = Unasked]
  OBVIOUS
<1>7. chain' = [chain EXCEPT ![c] = x]
  <2>1. chain' = [chain EXCEPT ![c] = IF Len(chain[c].todo) = 1 THEN Idle
                                      ELSE [chain[c] EXCEPT !.todo = Tail(chain[c].todo), !.snap = Unasked]]
    BY DEF refreshPlan
  <2> QED
    BY <1>2, <1>6, <2>1
<1>8. /\ Takes(c, x) /\ ChainsOK' /\ AloneOK'
      /\ x.todo # <<>> => /\ x.op = ch.op /\ x.planId = ch.planId
                          /\ Len(ch.todo) > 1 /\ x.todo = Tail(ch.todo)
                          /\ ToDoOK(x.op, x.todo)
  <2>1. \/ x = Idle
        \/ Len(ch.todo) > 1 /\ x = [ch EXCEPT !.todo = Tail(ch.todo), !.snap = Unasked]
    BY <1>5, <1>6, OneOrMore
  <2> QED
    BY <1>2, <1>4, <1>7, <2>1, NextCall
<1>9. /\ calm'.plan = alone /\ calm'.list = calm.list /\ calm' \in [plan : BOOLEAN, list : BOOLEAN]
  BY <1>1, <1>3, <1>4 DEF PlanDataOK
<1>10. PlanOrNone(plan')
  BY <1>4, <1>5 DEF ChainOK
<1>11. Plans' = Plans /\ PlansListed' = PlansListed
  BY <1>4 DEF Plans, PlansListed
<1>12. PlanDataOK'
  BY <1>1, <1>4, <1>9, <1>10, <1>11 DEF PlanDataOK, PlanOrNone
<1>13. PlanShownOK'
  <2> SUFFICES ASSUME alone
               PROVE  /\ PlanAhead'
                      /\ \A d \in Busy' : chain'[d].op = "background"
                                           => Last(chain'[d].todo).channel = "get"
    BY <1>9 DEF PlanShownOK
  <2>1. Busy = {c} /\ ch.planId = selectedPlanId /\ ch.snap = Store(selectedPlanId)
    BY <1>1, <1>2, <1>3, <1>4, <1>5 DEF AloneOK
  <2>2. selectedPlanId # NoPlan /\ selectedPlanId \in AllPlans
    BY <1>1, <1>2, <1>5, <2>1, PlanOfChain, OpsOfChannels
  <2>3. plan' = stored'[selectedPlanId] /\ PlanOrNone(stored[selectedPlanId])
    BY <1>1, <1>4, <2>1, <2>2 DEF Store, PlanDataOK
  <2>4. \A d \in Busy' : d = c /\ x.todo # <<>> /\ chain'[d] = x
    BY <1>8, <2>1 DEF Takes, Busy
  <2>5. x.todo # <<>> => Head(x.todo).channel # "remove"
    <3> SUFFICES ASSUME x.todo # <<>> PROVE Head(x.todo).channel # "remove"
      OBVIOUS
    <3>1. ch.op # "remove"
      BY <1>5, <1>8 DEF ToDoOK
    <3>2. Head(x.todo).channel \in Channels(ch.op)
      BY <1>8, ToDoHead
    <3> QED
      BY <1>5, <3>1, <3>2, OpsOfChannels
  <2>6. Removing' = {}
    BY <2>4, <2>5 DEF Removing
  <2>7. Gone' = {}
    BY <2>6 DEF Gone
  <2>8. plan' = Without(stored'[selectedPlanId], Gone')
    BY <1>4, <2>3, <2>7, WithoutNothing
  <2>9. \A d \in Busy' : chain'[d].planId = selectedPlanId
    BY <1>8, <2>1, <2>4
  <2>10. PlanAhead'
    BY <1>4, <2>2, <2>8, <2>9 DEF PlanAhead, Without
  <2>11. x.todo # <<>> /\ x.op = "background" => Last(x.todo).channel = "get"
    <3> SUFFICES ASSUME x.todo # <<>>, x.op = "background" PROVE Last(x.todo).channel = "get"
      OBVIOUS
    <3>1. ch.op = "background" /\ Last(x.todo) = Last(ch.todo)
      BY <1>5, <1>8, ToDoRest
    <3>2. 1 \in 1..Len(ch.todo)
      BY <1>5
    <3>3. Last(ch.todo).channel = "get"
      BY <1>5, <3>1, <3>2 DEF ToDoOK
    <3> QED
      BY <3>1, <3>3
  <2> QED
    BY <2>4, <2>10, <2>11
<1>14. ListShownOK'
  BY <1>1, <1>2, <1>4, <1>5, <1>8, <1>9, <1>11, ListByOne
<1> QED
  BY <1>8, <1>12, <1>13, <1>14 DEF PlanInv

LEMMA RefreshFailsKept ==
    ASSUME PlanInv, NEW c \in Busy, refreshFails(c)
    PROVE  PlanInv'
<1>1. /\ PlanDataOK /\ ChainsOK /\ AloneOK /\ PlanShownOK /\ ListShownOK
  BY DEF PlanInv
<1>2. PICK ch : ch = chain[c]
  OBVIOUS
<1>3. /\ Head(ch.todo) = get /\ calm' = [calm EXCEPT !.plan = FALSE]
      /\ UNCHANGED <<stored, deleted, nextPlan, nextItem, planList, selectedPlanId, plan, selectedItemIds>>
  BY <1>2 DEF refreshFails
<1>4. PICK x : x = IF Len(ch.todo) > 1 /\ ch.op \in {"add", "background"}
                   THEN [ch EXCEPT !.todo = Tail(ch.todo), !.snap = Unasked] ELSE Idle
  OBVIOUS
<1>5. chain' = [chain EXCEPT ![c] = x]
  <2>1. chain' = [chain EXCEPT ![c] =
                    IF Len(chain[c].todo) > 1 /\ chain[c].op \in {"add", "background"}
                    THEN [chain[c] EXCEPT !.todo = Tail(chain[c].todo), !.snap = Unasked] ELSE Idle]
    BY DEF refreshFails
  <2> QED
    BY <1>2, <1>4, <2>1
<1>6. Takes(c, x) /\ ChainsOK' /\ AloneOK'
  BY <1>2, <1>3, <1>4, <1>5, NextCall
<1>7. ~calm'.plan /\ calm'.list = calm.list /\ calm' \in [plan : BOOLEAN, list : BOOLEAN]
  BY <1>1, <1>3 DEF PlanDataOK
<1>8. Plans' = Plans /\ PlansListed' = PlansListed
  BY <1>3 DEF Plans, PlansListed
<1>9. PlanDataOK'
  BY <1>1, <1>3, <1>7, <1>8 DEF PlanDataOK, PlanOrNone
<1>10. PlanShownOK'
  BY <1>7 DEF PlanShownOK
<1>11. ListShownOK'
  <2>1. Head(chain[c].todo).channel # "list"
    BY <1>2, <1>3, Calls
  <2> QED
    BY <1>1, <1>3, <1>6, <1>7, <1>8, <2>1, ListByOne
<1> QED
  BY <1>6, <1>9, <1>10, <1>11 DEF PlanInv

LEMMA ListKept ==
    ASSUME PlanInv, NEW c \in Busy, refreshList(c)
    PROVE  PlanInv'
<1>1. /\ PlanDataOK /\ ChainsOK /\ AloneOK /\ PlanShownOK /\ ListShownOK
  BY DEF PlanInv
<1>2. PICK ch : ch = chain[c]
  OBVIOUS
<1>3. PICK p : p = selectedPlanId'
  OBVIOUS
<1>4. /\ Head(ch.todo).channel = "list" /\ ch.snap # Unasked /\ planList' = ch.snap
      /\ p \in IF Head(ch.todo).arg # 0 THEN {Head(ch.todo).arg}
               ELSE IF ch.planId = NoPlan /\ ch.snap # {} THEN ch.snap ELSE {selectedPlanId}
      /\ calm' = [calm EXCEPT !.list = ch.alone]
      /\ UNCHANGED <<stored, deleted, nextPlan, nextItem, plan, selectedItemIds>>
  BY <1>2, <1>3 DEF refreshList
<1>5. /\ c \in Chains /\ ch \in Chain /\ ChainOK(ch) /\ ch.op \in Operations /\ ch.alone \in BOOLEAN
      /\ CallOK(Head(ch.todo)) /\ Head(ch.todo).channel \in Channels(ch.op)
  BY <1>1, <1>2, BusyChain
<1>6. PICK alone \in BOOLEAN : alone = (Busy = {c})
  OBVIOUS
<1>7. PICK x : x = IF p = selectedPlanId THEN Idle
                   ELSE [ch EXCEPT !.op = "select", !.planId = p, !.todo = <<get>>,
                                   !.snap = Unasked, !.alone = alone]
  OBVIOUS
<1>8. chain' = [chain EXCEPT ![c] = x]
  BY <1>1, <1>2, <1>3, <1>6, <1>7 DEF refreshList, ChainsOK
<1>9. Takes(c, x)
  BY <1>1, <1>5, <1>8, OneChanges
<1>10. Plans' = Plans /\ PlansListed' = PlansListed
  BY <1>4 DEF Plans, PlansListed
<1>11. ch.snap \subseteq Plans
  BY <1>4, <1>5 DEF ChainOK
<1>12. p = selectedPlanId \/ p \in Plans
  BY <1>4, <1>5, <1>11 DEF CallOK
<1>13. /\ calm'.plan = calm.plan /\ calm'.list = ch.alone /\ calm' \in [plan : BOOLEAN, list : BOOLEAN]
  BY <1>1, <1>4, <1>5 DEF PlanDataOK
<1>14. PlanDataOK'
  <2>1. selectedPlanId' \in Plans \cup {NoPlan}
    BY <1>1, <1>3, <1>12 DEF PlanDataOK
  <2> QED
    BY <1>1, <1>4, <1>10, <1>11, <1>13, <2>1 DEF PlanDataOK, PlanOrNone
<1>15. ListShownOK'
  <2> SUFFICES ASSUME ch.alone PROVE planList' = PlansListed'
    BY <1>13 DEF ListShownOK
  <2>1. ch.snap = PlansListed
    BY <1>1, <1>2, <1>4 DEF AloneOK
  <2> QED
    BY <1>4, <1>10, <2>1
<1>16. CASE p = selectedPlanId
  <2>1. x = Idle /\ x.todo = <<>>
    BY <1>7, <1>16 DEF Idle
  <2>2. ChainsOK' /\ AloneOK'
    BY <1>2, <1>4, <1>8, <2>1, NextCall
  <2>3. ~Rereads(chain[c]) /\ c \notin Removing
    BY <1>2, <1>4, <1>5, OpsOfChannels DEF Rereads, Removing
  <2>4. PlanAhead => PlanAhead'
    BY <1>1, <1>3, <1>4, <1>9, <1>16, <2>1, <2>3, AheadByOne
  <2>5. PlanShownOK'
    BY <1>1, <1>9, <1>13, <2>1, <2>3, <2>4, ShownByOne
  <2> QED
    BY <1>14, <1>15, <2>2, <2>5 DEF PlanInv
<1>17. CASE p # selectedPlanId
  <2>1. get \in Call /\ CallOK(get) /\ get.channel = "get"
    BY Calls
  <2>2. PICK todo : todo = <<get>>
    OBVIOUS
  <2>3. ToDoOK("select", todo) /\ Head(todo) = get
    BY <2>1, <2>2, OneCall DEF Channels
  <2>4. todo \in Seq(Call) /\ todo # <<>>
    BY <2>3, ToDoHead DEF ToDoOK
  <2>5. p \in Plans /\ p \in AllPlans /\ p # NoPlan
    BY <1>12, <1>17, PlanAssumption DEF Plans
  <2>6. /\ x \in Chain /\ x.op = "select" /\ x.planId = p /\ x.todo = todo
        /\ x.snap = Unasked /\ x.alone = alone
    <3>1. x = [ch EXCEPT !.op = "select", !.planId = p, !.todo = todo, !.snap = Unasked,
                         !.alone = alone]
      BY <1>7, <1>17, <2>2
    <3>2. "select" \in Operations
      BY DEF Operations
    <3> QED
      BY <1>5, <2>4, <2>5, <3>1, <3>2 DEF Chain
  <2>7. ToDoOK("select", todo)'
    BY <1>10, <2>3, ToDoGrows
  <2>8. ChainOK(x)'
    BY <1>10, <2>5, <2>6, <2>7 DEF ChainOK
  <2>9. ChainsOK'
    <3>1. Plans \subseteq Plans'
      BY <1>10
    <3> QED
      BY <1>1, <1>5, <1>8, <2>8, <3>1, ChainsKept
  <2>10. AloneOK'
    BY <1>1, <1>6, <1>9, <2>6, AloneKept
  <2>11. Rereads(x) /\ x.todo # <<>> /\ x.op # "background"
    BY <2>1, <2>3, <2>4, <2>6 DEF Rereads
  <2>12. PlanShownOK'
    BY <1>1, <1>9, <1>13, <2>11, ShownByOne
  <2> QED
    BY <1>14, <1>15, <2>9, <2>10, <2>12 DEF PlanInv
<1> QED
  BY <1>16, <1>17

LEMMA ListFailsKept ==
    ASSUME PlanInv, NEW c \in Busy, listFails(c)
    PROVE  PlanInv'
<1>1. /\ PlanDataOK /\ ChainsOK /\ AloneOK /\ PlanShownOK /\ ListShownOK
  BY DEF PlanInv
<1>2. PICK x : x = Idle
  OBVIOUS
<1>3. /\ Head(chain[c].todo).channel = "list" /\ calm' = [calm EXCEPT !.list = FALSE]
      /\ chain' = [chain EXCEPT ![c] = x]
      /\ UNCHANGED <<stored, deleted, nextPlan, nextItem, planList, selectedPlanId, plan, selectedItemIds>>
  BY <1>2 DEF listFails
<1>4. Takes(c, x) /\ ChainsOK' /\ AloneOK'
  BY <1>2, <1>3, NextCall
<1>5. ~calm'.list /\ calm'.plan = calm.plan /\ calm' \in [plan : BOOLEAN, list : BOOLEAN]
  BY <1>1, <1>3 DEF PlanDataOK
<1>6. Plans' = Plans /\ PlansListed' = PlansListed
  BY <1>3 DEF Plans, PlansListed
<1>7. PlanDataOK'
  BY <1>1, <1>3, <1>5, <1>6 DEF PlanDataOK, PlanOrNone
<1>8. x.todo = <<>>
  BY <1>2 DEF Idle
<1>9. ~Rereads(chain[c]) /\ c \notin Removing
  BY <1>1, <1>3, BusyChain, OpsOfChannels DEF Rereads, Removing
<1>10. PlanAhead => PlanAhead'
  BY <1>1, <1>3, <1>4, <1>8, <1>9, AheadByOne
<1>11. PlanShownOK'
  BY <1>1, <1>4, <1>5, <1>8, <1>9, <1>10, ShownByOne
<1>12. ListShownOK'
  BY <1>5 DEF ListShownOK
<1> QED
  BY <1>4, <1>7, <1>11, <1>12 DEF PlanInv

LEMMA PlanInitially == PlanInit => PlanInv
<1> SUFFICES ASSUME PlanInit PROVE PlanInv
  OBVIOUS
<1>1. 1 \in AllPlans /\ 2 \in AllPlans /\ 1 \in Chains
  BY PlanAssumption
<1>2. PICK first, second : first = newPlan(1, {item(1, 0), item(2, 0)}) /\ second = newPlan(2, {item(3, 0)})
  OBVIOUS
<1>3. /\ {item(1, 0), item(2, 0)} \in SUBSET [id : Nat, v : Value] /\ IsFiniteSet({item(1, 0), item(2, 0)})
      /\ {item(3, 0)} \in SUBSET [id : Nat, v : Value] /\ IsFiniteSet({item(3, 0)})
  <2>1. item(1, 0) \in [id : Nat, v : Value] /\ item(2, 0) \in [id : Nat, v : Value]
        /\ item(3, 0) \in [id : Nat, v : Value]
    BY DEF item, Value
  <2>2. IsFiniteSet({item(3, 0)}) /\ IsFiniteSet({item(1, 0)})
    BY FS_Singleton
  <2>3. IsFiniteSet({item(1, 0)} \cup {item(2, 0)})
    BY <2>2, FS_AddElement
  <2>4. {item(1, 0)} \cup {item(2, 0)} = {item(1, 0), item(2, 0)}
    OBVIOUS
  <2> QED
    BY <2>1, <2>2, <2>3, <2>4
<1>4. /\ first \in PlanRecord /\ PlanOrNone(first) /\ first # NoPlan
      /\ second \in PlanRecord /\ PlanOrNone(second) /\ second # NoPlan
  BY <1>1, <1>2, <1>3, NewPlanTyped
<1>5. stored = [p \in AllPlans |-> IF p = 1 THEN first ELSE IF p = 2 THEN second ELSE NoPlan]
  BY <1>2 DEF PlanInit
<1>6. nextPlan = 3 /\ Plans = {p \in AllPlans : p < 3}
  BY DEF PlanInit, Plans
<1>7. PlansListed = {1, 2} /\ PlansListed \subseteq Plans
  <2>1. PlansListed = {1, 2}
    BY <1>1, <1>4, <1>5 DEF PlansListed, PlanInit
  <2> QED
    BY <1>1, <1>6, <2>1
<1>8. PlanDataOK
  <2>1. stored \in [AllPlans -> PlanRecord \cup {NoPlan}]
    BY <1>4, <1>5
  <2>2. \A p \in AllPlans : PlanOrNone(stored[p])
    BY <1>4, <1>5 DEF PlanOrNone
  <2>3. PlanOrNone(plan) /\ nextPlan \in Nat /\ nextItem \in Nat /\ planList = {}
    BY DEF PlanInit, PlanOrNone
  <2>4. selectedPlanId = NoPlan /\ selectedItemIds = {} /\ calm \in [plan : BOOLEAN, list : BOOLEAN]
    BY DEF PlanInit
  <2> QED
    BY <1>7, <2>1, <2>2, <2>3, <2>4 DEF PlanDataOK
<1>9. PICK todo : todo = <<list>>
  OBVIOUS
<1>10. list \in Call /\ CallOK(list) /\ list.channel = "list"
  BY Calls
<1>11. ToDoOK("mount", todo) /\ Head(todo) = list
  BY <1>9, <1>10, OneCall DEF Channels
<1>12. todo \in Seq(Call) /\ todo # <<>>
  BY <1>11, ToDoHead DEF ToDoOK
<1>13. PICK ch : ch = [op |-> "mount", planId |-> NoPlan, todo |-> todo, snap |-> Unasked, alone |-> TRUE]
  OBVIOUS
<1>14. /\ ch \in Chain /\ ch.op = "mount" /\ ch.planId = NoPlan /\ ch.todo = todo
       /\ ch.snap = Unasked
  BY <1>12, <1>13 DEF Chain, Operations
<1>15. chain = [c \in Chains |-> IF c = 1 THEN ch ELSE Idle]
  BY <1>9, <1>13 DEF PlanInit
<1>16. Busy = {1} /\ chain[1] = ch
  BY <1>1, <1>12, <1>14, <1>15 DEF Busy, Idle
<1>17. ChainsOK
  <2>1. ChainOK(ch)
    BY <1>11, <1>14 DEF ChainOK
  <2>2. chain \in [Chains -> Chain \cup {Idle}]
    BY <1>14, <1>15
  <2> QED
    BY <1>16, <2>1, <2>2 DEF ChainsOK
<1>18. AloneOK
  BY <1>14, <1>16 DEF AloneOK
<1>19. PlanShownOK
  <2>1. PlanAhead
    BY DEF PlanAhead, PlanInit
  <2> QED
    BY <1>14, <1>16, <2>1 DEF PlanShownOK
<1>20. ListShownOK
  BY <1>10, <1>11, <1>14, <1>16 DEF ListShownOK
<1> QED
  BY <1>8, <1>17, <1>18, <1>19, <1>20 DEF PlanInv

LEMMA PlanUnchanged == ASSUME PlanInv, UNCHANGED planVars PROVE PlanInv'
<1>1. UNCHANGED <<stored, deleted, nextPlan, nextItem, planList, selectedPlanId, plan, selectedItemIds, chain, calm>>
  BY DEF planVars
<1>2. PlanDataOK'
  BY <1>1 DEF PlanInv, PlanDataOK, PlanOrNone, Plans, PlansListed
<1>3. ChainsOK'
  BY <1>1 DEF PlanInv, ChainsOK, ChainOK, ToDoOK, CallOK, Plans, Busy, PlanOrNone
<1>4. AloneOK'
  BY <1>1 DEF PlanInv, AloneOK, Busy, Store, PlansListed
<1>5. PlanShownOK' /\ ListShownOK'
  BY <1>1 DEF PlanInv, PlanShownOK, ListShownOK, Busy, Rereads, PlanAhead, Gone, Removing, Without, PlansListed
<1> QED
  BY <1>2, <1>3, <1>4, <1>5 DEF PlanInv

LEMMA PlanInductive == PlanInv /\ [Work]_workVars => PlanInv'
<1> SUFFICES ASSUME PlanInv, [Work]_workVars PROVE PlanInv'
  OBVIOUS
<1>1. ASSUME NEW c \in Chains, Service(c) PROVE PlanInv'
  <2>1. c \in Busy
    BY <1>1 DEF Service, serveEdit, serveCreate, rejectEdit, serveRead, refreshPlan, refreshFails,
                refreshList, listFails
  <2> QED
    BY <1>1, <2>1, EditKept, CreateKept, RejectKept, ServeKept, RefreshKept, RefreshFailsKept, ListKept,
       ListFailsKept DEF Service
<1>2. CASE PlanStep
  BY <1>1, <1>2, UserKept DEF PlanStep
<1>3. CASE UNCHANGED planVars
  BY <1>3, PlanUnchanged
<1> QED
  BY <1>2, <1>3 DEF Work, workVars

\* Nothing is under way: nothing is being removed and no read is to come.
LEMMA PlanImplies == PlanInv => ShownIsStored
<1> SUFFICES ASSUME PlanInv, Busy = {} PROVE ShownIsStored
  BY DEF ShownIsStored
<1>1. Gone = {}
  BY DEF Gone, Removing
<1>2. calm.plan => PlanAhead
  BY DEF PlanInv, PlanShownOK
<1>3. selectedPlanId # NoPlan => PlanOrNone(stored[selectedPlanId])
  BY DEF PlanInv, PlanDataOK, Plans
<1>4. calm.plan => plan = IF selectedPlanId = NoPlan THEN NoPlan ELSE stored[selectedPlanId]
  BY <1>1, <1>2, <1>3, WithoutNothing DEF PlanAhead
<1>5. calm.list => planList = PlansListed
  BY DEF PlanInv, ListShownOK
<1> QED
  BY <1>4, <1>5 DEF ShownIsStored

\* While nothing is under way the plan shown is the one of the database and the
\* list has its plans, however many operations overlapped before, however many
\* calls were rejected (PlanContext.tsx: the optimistic changes, their rollback
\* and the reads after the others).
THEOREM StoredTheorem == WorkSpec => []ShownIsStored
<1>1. Start => PlanInv
  BY PlanInitially DEF Start
<1> QED
  BY <1>1, PlanImplies, PlanInductive, PTL DEF WorkSpec
=============================================================================
