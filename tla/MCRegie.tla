------------------------------- MODULE MCRegie -------------------------------
EXTENDS Regie

CONSTANTS A, B

UIMirrorChoices == [k \in Screens |-> IF k = MainScreen THEN {} ELSE {FREE, MainScreen}]

\* A text and a media.
TwoItems == <<"i1", "m1">>

Song == <<"b1", "b2">>

\* The first chapter of book 1 is longer than that of book 2, but for one translation.
VersesOf ==
    [tr \in Translations |->
        [b \in Books, c \in Chapters |-> IF b = 1 /\ tr # "KJV" THEN 2 ELSE 1]]

\* A verse, a range that runs past the chapter, and a chapter that does not exist.
TypedReferences ==
    {[book |-> 1, chapter |-> 1, from |-> 1, to |-> 1], [book |-> 2, chapter |-> 1, from |-> 1, to |-> 3],
     [book |-> 1, chapter |-> 0, from |-> 1, to |-> 1]}
=============================================================================
