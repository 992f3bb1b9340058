-------------------------------- MODULE MCWeb --------------------------------
EXTENDS Web

\* A song that is there and one that is new.
TwoSongs ==
    <<[key |-> 1, rows |-> <<row(0, text("f", FALSE), Unsaved)>>],
      [key |-> 3, rows |-> <<row(0, text("f", FALSE), Unsaved), row(1, text("g", FALSE), Unsaved)>>]>>
=============================================================================
