\* Documents of up to four lines of any kind or seven lyric lines; four songs, a plan
\* date, three changes and an import, two copies at a time; two folders, two files, two
\* calls at a time and five in all.  Behaviours end at the bounds.
CONSTANTS
    Words = {"a", "A", "b"}
    Canon <- Same
    Years = {"A", "b"}
    Lines <- SomeLines
    MaxLines = 4
    MaxTextLines = 7
    SongIds = {1, 2, 3, 4}
    Titles = {"t"}
    Bodies <- EditorBodies
    WebBodies <- ZeroBodies
    Dates = {d1}
    Slots = {1, 2}
    MaxBlocks = 2
    MaxEdits = 3
    None = None
    Torn = Torn
    Roots = {r1, r2}
    FileNames = {"m", "n"}
    Sources <- Pickable
    Calls = {c1, c2}
    NoFile = NoFile
    MaxCalls = 5
SPECIFICATION Spec
INVARIANTS
    SongReadWhole
    WordRoundTrip
    CopiesSettle
PROPERTIES
    ReplaceSafe
    RenameKeepsFiles
    ListIsTrue
CHECK_DEADLOCK FALSE
