------------------------------ MODULE MCLibrary ------------------------------
(* The libraries for TLC. *)
EXTENDS Library

Same(w) == IF w = "A" THEN "a" ELSE w

heading(keyword, n, w) == [kind |-> "head", tag |-> keyword, n |-> n, words |-> w]

\* The kinds of lines, with and without words, and two spellings of the same words.
SomeLines ==
    {blankLine, textLine("a"), textLine("A"), textLine("b"),
     heading("COUPLET", 0, ""), heading("COUPLET", 2, ""), heading("REFRAIN", 0, "b"),
     metaLine("TITLE", "b"), metaLine("YEAR", "a"), metaLine("TAGS", "A"),
     metaLine("LYRICS", "b"), metaLine("PAROLES", ""), metaLine("PAROLES", "a")}

EditorBodies == {<<"x">>}

\* One and two blocks, numbered from 0.
ZeroBodies == {[n \in {0} |-> "v"], [n \in {0, 1} |-> IF n = 0 THEN "v" ELSE "w"]}

\* Two media files and a font with a bad header.
Pickable ==
    {[name |-> "m", data |-> 1, valid |-> TRUE], [name |-> "n", data |-> 2, valid |-> TRUE],
     [name |-> "n", data |-> 3, valid |-> FALSE]}
=============================================================================
