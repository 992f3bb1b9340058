------------------------------ MODULE SongText ------------------------------
(***************************************************************************)
(* Songs as text documents: the desktop's import of Word and ODT files     *)
(* (main/ipc/songs-import.ts), its Word export (main/ipc/songs-export.ts)  *)
(* and the import of the web application (web lib/songParser.ts).          *)
(*                                                                         *)
(* A document is a sequence of lines.  A line is blank, a lyric line, a    *)
(* section heading ("Refrain 2 : words") or a metadata line ("Auteur :     *)
(* words"); "LYRICS" are the labels "Lyrics :" and "Texte :" and "PAROLES" *)
(* any line that begins with paroles, with a colon or without.  The words  *)
(* of a line are one value, the layout inside a block (blank lines,        *)
(* spaces) is left out, and a title such as "Couplet 2" is the pair of its *)
(* type and its number, 0 for none.  "ARTIST" stands for the album too.    *)
(***************************************************************************)
EXTENDS SequencesExt

CONSTANTS
    Words,           \* what a lyric line may say
    Canon(_),        \* canonicalLabel: without accents, case and punctuation
    Years,           \* the words that are a year
    Lines,           \* the lines a document is made of
    MaxLines,        \* bound on the lines of a document
    MaxTextLines     \* ... and of one that has lyric lines only

VARIABLE doc         \* the document

textLine(w) == [kind |-> "text", tag |-> "", n |-> 0, words |-> w]

metaLine(f, w) == [kind |-> "meta", tag |-> f, n |-> 0, words |-> w]

blankLine == [kind |-> "blank", tag |-> "", n |-> 0, words |-> ""]

NonBlank(lines) == SelectSeq(lines, LAMBDA l : l.kind # "blank")

-----------------------------------------------------------------------------
(* Lyrics with headings *)

Block(type, n, content) == [type |-> type, n |-> n, content |-> content]

\* flushCurrent
Flushed(st) ==
    IF st.cur = <<>> THEN st
    ELSE [st EXCEPT !.blocks = Append(@, Block(st.type, st.n, st.cur)), !.cur = <<>>]

\* The type of a section, from the keyword of its heading.
TypeOf(keyword) ==
    CASE keyword \in {"REFRAIN", "CHORUS"} -> "CHORUS"
      [] keyword \in {"PONT", "BRIDGE"} -> "BRIDGE"
      [] OTHER -> "VERSE"

\* A verse that has no number gets the one after the last verse.
parseSectionHeading(l, verse) ==
    [type |-> TypeOf(l.tag), n |-> IF TypeOf(l.tag) = "VERSE" /\ l.n = 0 THEN verse + 1 ELSE l.n]

\* What follows the heading on its line belongs to the block.
Inline(l) == IF l.words = "" THEN <<>> ELSE <<textLine(l.words)>>

HeadingStep(st, l) ==
    CASE l.kind = "blank" -> st
      [] l.kind = "head" ->
            LET h == parseSectionHeading(l, st.verse)
            IN  [Flushed(st) EXCEPT
                    !.heads = @ + 1, !.type = h.type, !.n = h.n, !.titled = TRUE,
                    !.verse = IF h.type = "VERSE" /\ h.n > @ THEN h.n ELSE @,
                    !.cur = Inline(l)]
      [] st.titled -> [st EXCEPT !.cur = Append(@, l)]
      [] OTHER -> [st EXCEPT !.cur = <<l>>, !.titled = TRUE, !.type = "VERSE",
                             !.verse = @ + 1, !.n = st.verse + 1]

\* The blocks, or none when the lyrics have no heading.
parseLyricsByHeadings(lines) ==
    LET start == [heads |-> 0, verse |-> 0, type |-> "VERSE", n |-> 0, titled |-> FALSE,
                  cur |-> <<>>, blocks |-> <<>>]
        st == Flushed(FoldLeft(HeadingStep, start, lines))
    IN  IF st.heads = 0 THEN <<>> ELSE st.blocks

-----------------------------------------------------------------------------
(* Lyrics in paragraphs *)

ParagraphStep(ps, l) ==
    IF l.kind = "blank" THEN Append(ps, <<>>)
    ELSE Append(Front(ps), Append(Last(ps), l))

splitBlocks(lines) ==
    SelectSeq(FoldLeft(ParagraphStep, << <<>> >>, lines), LAMBDA p : p # <<>>)

parseParagraphToBlock(p, idx) ==
    IF p[1].kind = "head"
    THEN LET h == parseSectionHeading(p[1], idx - 1)
         IN  Block(h.type, h.n, Inline(p[1]) \o Tail(p))
    ELSE Block("VERSE", idx, p)

ParagraphBlocks(ps) ==
    LET all == [i \in DOMAIN ps |-> parseParagraphToBlock(ps[i], i)]
        full == SelectSeq(all, LAMBDA b : b.content # <<>>)
    IN  IF full # <<>> THEN full ELSE all

-----------------------------------------------------------------------------
(* Lyrics with a part that comes back *)

CanonLine(l) == [l EXCEPT !.words = Canon(@)]

SameChunk(ls, i, j, len) ==
    \A k \in 0..(len - 1) : CanonLine(ls[i + k]) = CanonLine(ls[j + k])

Places_Overlapping(ls, i, len) ==
    SelectSeq([j \in 1..(Len(ls) - len + 1) |-> j], LAMBDA j : SameChunk(ls, i, j, len))

\* The places of the chunk that starts at i, without overlaps, from the first.
Places(ls, i, len) ==
    FoldLeft(LAMBDA found, j :
                IF SameChunk(ls, i, j, len) /\ (found = <<>> \/ j >= Last(found) + len)
                THEN Append(found, j) ELSE found,
             <<>>, [j \in 1..(Len(ls) - len + 1) |-> j])

Least(a, b) == IF a < b THEN a ELSE b

Repeats(ls) ==
    {c \in UNION {{[len |-> n, places |-> Places(ls, i, n)] : i \in 1..(Len(ls) - n + 1)} :
                  n \in 2..Least(8, Len(ls) \div 2)} :
        /\ Len(c.places) >= 2
        /\ c.len >= 4 \/ 100 * Len(c.places) * c.len >= 18 * Len(ls)}

Covered(c) == Len(c.places) * c.len

\* The chunk that covers most lines; then the longest, then the first.
findBestRepeatingChunk(repeats) ==
    CHOOSE c \in repeats : \A d \in repeats :
        \/ Covered(c) > Covered(d)
        \/ Covered(c) = Covered(d) /\ c.len > d.len
        \/ Covered(c) = Covered(d) /\ c.len = d.len /\ c.places[1] <= d.places[1]

VerseFlushed(st) ==
    IF st.cur = <<>> THEN st
    ELSE [st EXCEPT !.verse = @ + 1, !.cur = <<>>,
                    !.blocks = Append(@, Block("VERSE", st.verse + 1, st.cur))]

\* Each place becomes a chorus with the words of the first one.
RepeatBlocks(ls, c) ==
    LET places == ToSet(c.places)
        Step(st, i) ==
            IF i \in places
            THEN [VerseFlushed(st) EXCEPT
                    !.chorus = @ + 1,
                    !.blocks = Append(@, Block("CHORUS", IF st.chorus = 0 THEN 0 ELSE st.chorus + 1,
                                               SubSeq(ls, c.places[1], c.places[1] + c.len - 1)))]
            ELSE IF \E p \in places : p < i /\ i < p + c.len THEN st
            ELSE [st EXCEPT !.cur = Append(@, ls[i])]
        start == [verse |-> 0, chorus |-> 0, cur |-> <<>>, blocks |-> <<>>]
    IN  VerseFlushed(FoldLeft(Step, start, [i \in DOMAIN ls |-> i])).blocks

parseLyricsByRepeatingChunk(ls) ==
    LET repeats == IF Len(ls) < 6 THEN {} ELSE Repeats(ls)
        blocks == RepeatBlocks(ls, findBestRepeatingChunk(repeats))
    IN  IF repeats = {} \/ Len(blocks) <= 1 THEN <<>> ELSE blocks

-----------------------------------------------------------------------------
(* The desktop's import *)

parseLyricsToBlocks(lines) ==
    LET said == NonBlank(lines)
        byHead == parseLyricsByHeadings(lines)
        ps == splitBlocks(lines)
        byRepeat == parseLyricsByRepeatingChunk(said)
    IN  IF said = <<>> THEN <<Block("VERSE", 1, <<>>)>>
        ELSE IF byHead # <<>> THEN byHead
        ELSE IF Len(ps) > 1 THEN ParagraphBlocks(ps)
        ELSE IF byRepeat # <<>> THEN byRepeat
        ELSE <<Block("VERSE", 1, said)>>

\* The line where the lyrics start: the first one that is neither blank nor a field.
LyricsAt(d) ==
    SelectInSeq(d, LAMBDA l : \/ l.kind \in {"text", "head"}
                              \/ l.kind = "meta" /\ l.tag \in {"LYRICS", "PAROLES"})

\* Of the words that the label of the lyrics has on its line, "Texte : words" keeps
\* them, while a line that begins with paroles is taken for a mere label.
AfterLabel(l) == IF l.tag = "PAROLES" THEN <<>> ELSE Inline(l)

LyricsOf(d) ==
    LET i == LyricsAt(d)
    IN  IF i = 0 THEN <<>>
        ELSE IF d[i].kind # "meta" THEN SubSeq(d, i, Len(d))
        ELSE AfterLabel(d[i]) \o SubSeq(d, i + 1, Len(d))

\* The first value that the head of the document gives to a field.
FieldOf(d, f) ==
    LET head == IF LyricsAt(d) = 0 THEN d ELSE SubSeq(d, 1, LyricsAt(d) - 1)
        given == SelectSeq(head, LAMBDA l : l.kind = "meta" /\ l.tag = f /\ l.words # "")
    IN  IF given = <<>> THEN "" ELSE given[1].words

\* A year that is no year is dropped; the words around a year are left out of the model.
normalizeYear(w) == IF w \in Years THEN w ELSE ""

\* Without a title the name of the file is taken.
parseSongText(d, filename) ==
    [title |-> IF FieldOf(d, "TITLE") = "" THEN filename ELSE FieldOf(d, "TITLE"),
     artist |-> FieldOf(d, "ARTIST"),
     year |-> normalizeYear(FieldOf(d, "YEAR")),
     tags |-> FieldOf(d, "TAGS"),
     blocks |-> parseLyricsToBlocks(LyricsOf(d))]

-----------------------------------------------------------------------------
(* The desktop's export *)

\* mammoth puts an empty line after each paragraph of a Word file.
extractTextFromDoc(lines) ==
    FlattenSeq([i \in DOMAIN lines |-> <<lines[i], blankLine>>])

buildWordLyrics(song) ==
    FlattenSeq([i \in DOMAIN song.blocks |-> song.blocks[i].content])

\* A song without a year gets one that its tags hold.
YearOf(song) == IF song.year # "" THEN song.year ELSE normalizeYear(song.tags)

WordHead(song) ==
    <<metaLine("TITLE", song.title), metaLine("ARTIST", song.artist),
      metaLine("YEAR", YearOf(song))>>

buildSongWordDocument_NoLabel(song) == WordHead(song) \o buildWordLyrics(song)

\* The tags and the language are not written.
buildSongWordDocument(song) ==
    WordHead(song) \o <<blankLine, metaLine("PAROLES", "")>> \o buildWordLyrics(song)

-----------------------------------------------------------------------------
(* The web application's import *)

\* Only a keyword of its own list with nothing but a number after it.
detectBlockType(l) ==
    /\ l.kind = "head" /\ l.words = ""
    /\ l.tag \in {"VERSE", "COUPLET", "CHORUS", "REFRAIN", "BRIDGE", "INTRO", "OUTRO"}

\* flushBlock
webFlush(st) ==
    IF st.cur = <<>> THEN st
    ELSE [st EXCEPT !.cur = <<>>, !.blocks = Append(@, Block(st.type, st.n, st.cur))]

webStep(st, l) ==
    IF detectBlockType(l) THEN [webFlush(st) EXCEPT !.type = TypeOf(l.tag), !.n = l.n]
    ELSE [st EXCEPT !.cur = @ \o NonBlank(<<l>>)]

\* The title is the first line; the author is the next one if a blank line or
\* nothing follows it; a document without lyrics is refused.
webParseSongText(d) ==
    LET t == SelectInSeq(d, LAMBDA l : l.kind # "blank")
        hasArtist == /\ t # 0 /\ t + 1 <= Len(d)
                     /\ d[t + 1].kind # "blank" /\ ~detectBlockType(d[t + 1])
                     /\ t + 2 > Len(d) \/ d[t + 2].kind = "blank"
        rest == IF t = 0 THEN <<>> ELSE SubSeq(d, t + (IF hasArtist THEN 3 ELSE 1), Len(d))
        blocks == webFlush(FoldLeft(webStep,
                    [type |-> "VERSE", n |-> 0, cur |-> <<>>, blocks |-> <<>>], rest)).blocks
        all == IF blocks = <<>> /\ NonBlank(rest) # <<>>
               THEN <<Block("VERSE", 1, NonBlank(rest))>> ELSE blocks
    IN  [ok |-> t # 0 /\ all # <<>>, title |-> IF t = 0 THEN <<>> ELSE <<d[t]>>,
         artist |-> IF hasArtist THEN <<d[t + 1]>> ELSE <<>>, blocks |-> all]

-----------------------------------------------------------------------------
DocInit == doc = <<>>

\* A line is written at the end of the document.
writeLine ==
    \E l \in Lines :
        /\ \/ Len(doc) < MaxLines
           \/ Len(doc) < MaxTextLines /\ \A i \in DOMAIN doc : doc[i].kind = "text" /\ l.kind = "text"
        /\ doc' = Append(doc, l)

-----------------------------------------------------------------------------
(* Properties *)

ContentOf(blocks) == FlattenSeq([i \in DOMAIN blocks |-> blocks[i].content])

\* The words of lines but for keywords of headings, in their canonical form.
Lyrics(lines) ==
    LET said == SelectSeq(lines, LAMBDA l : l.kind \in {"text", "meta"} \/ l.words # "")
    IN  [i \in DOMAIN said |-> Canon(said[i].words)]

Imported(d) == parseSongText(d, "file")

\* A line that gives no lyrics: blank, a field, the bare label of the lyrics, or the
\* line with which they start when it begins with paroles, the words after which
\* the import drops.
NoLyrics(d, i) ==
    \/ d[i].kind = "blank"
    \/ /\ d[i].kind = "meta"
       /\ d[i].tag # "LYRICS" \/ d[i].words = ""

\* At most one line is the label of the lyrics.
Labels(d, k) == {i \in 1..k : d[i].kind = "meta" /\ d[i].tag \in {"LYRICS", "PAROLES"}}

\* Behind a head of lines that give no lyrics, whatever they hold, every line is in a
\* block with its words, but for the keyword of a heading, once and in its place:
\* whichever of its three ways parseLyricsToBlocks takes to cut the lyrics (at
\* headings, at blank lines, at a part that comes back), and also lines that look
\* like metadata.
LyricsKept ==
    \E k \in 0..Len(doc) :
        /\ \A i \in 1..k : NoLyrics(doc, i)
        /\ \A i \in Labels(doc, k) : i = k
        /\ Lyrics(ContentOf(Imported(doc).blocks)) = Lyrics(SubSeq(doc, k + 1, Len(doc)))

\* In a document that does not number its verses itself no two verses get the same
\* title, lyrics before the first heading and dropped empty sections included.
VerseTitlesDistinct ==
    (\A i \in DOMAIN doc : doc[i].n = 0) =>
        LET bs == Imported(doc).blocks
        IN  \A i, j \in DOMAIN bs : i # j /\ bs[i].type = "VERSE" /\ bs[j].type = "VERSE"
                                       => bs[i].n # bs[j].n

\* A song that is exported to Word and imported again has its title, its author and
\* its lyrics back, a lyric line that looks like a metadata line included, and its
\* year, or one from its tags if it has none (songs-export.ts 25-49); its tags are
\* lost, and its blocks may be other ones (each line comes back as a paragraph).
WordRoundTrip ==
    doc # <<>> =>
    LET song == Imported(doc)
        again == parseSongText(extractTextFromDoc(buildSongWordDocument(song)), "again")
    IN  /\ again.title = song.title /\ again.artist = song.artist
        /\ again.year = song.year \/ (song.year = "" /\ again.year = song.tags)
        /\ Lyrics(ContentOf(again.blocks)) = Lyrics(ContentOf(song.blocks))

\* The web parser puts each line in the title, the author, a heading or a block, in
\* the order of the document, and only refuses one with nothing after its author.
WebTextKept ==
    LET song == webParseSongText(doc)
        taken == song.title \o song.artist
        said == NonBlank(doc)
        rest == SubSeq(said, Len(taken) + 1, Len(said))
    IN  /\ taken = SubSeq(said, 1, Len(taken))
        /\ song.ok <=> rest # <<>>
        /\ Lyrics(ContentOf(song.blocks)) = Lyrics(rest)

\* Both parsers read a song whole (songs-import.ts 475-608, web songParser.ts
\* 47-103): no line of lyrics is lost, repeated or moved whatever mixture of
\* headings, metadata, blank lines and repetitions the document is, and automatic
\* numbers of verses do not collide.  The one line that the desktop loses is one
\* that begins with paroles where the lyrics start, with what follows on it
\* (songs-import.ts 545-548).
SongReadWhole == doc # <<>> => LyricsKept /\ VerseTitlesDistinct /\ WebTextKept
=============================================================================
