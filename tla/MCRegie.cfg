\* Two overlapping operations, three plans, two edits and a failure; two screens,
\* a regie and a projection window, two operations, a plan of two items and a song
\* of two blocks; three translations, two books, two requests and four acts in
\* the Bible panel; three songs, two reads, four moves and a failed call in the song
\* panel.  Behaviours end at the bounds.
CONSTANTS
    AllPlans = {1, 2, 3}
    Values = {1}
    NoPlan = NoPlan
    Unasked = Unasked
    Chains = {1, 2}
    MaxEdits = 2
    MaxFailures = 1
    A = A
    B = B
    Screens = {A, B}
    MainScreen = A
    FREE = FREE
    MirrorChoices <- UIMirrorChoices
    Texts = {"i1", "b1", "b2"}
    Medias = {"m1"}
    EMPTY = EMPTY
    Looks = {}
    DefaultLook = look0
    PlanIds = {p1}
    Null = Null
    Absent = Absent
    LivePatches = {}
    Displays = {}
    MaxCursor = 9
    NoJob = NoJob
    PlanItems <- TwoItems
    ThePlan = p1
    Blocks <- Song
    MaxPresses = 2
    Translations = {"FRLSG", "KJV", "LSG21"}
    OfflineTranslation = "FRLSG"
    Books = {1, 2}
    Chapters = {1}
    VerseCount <- VersesOf
    References <- TypedReferences
    Queries = {"q1", "q2"}
    Nothing = Nothing
    Requests = {1, 2}
    MaxActs = 4
    SongIds = {1, 2, 3}
    SearchWords = {"", "q"}
    Orders = {"title", "artist"}
    Reads = {1, 2}
    NoSong = NoSong
    NoRead = NoRead
    NotServed = NotServed
    MaxMoves = 4
    MaxBreaks = 1
SPECIFICATION WorkSpec
INVARIANTS
    ShownIsStored OperationShown CachesCurrent
    PassageShown SearchMatches SongsShown SongEdited
PROPERTIES SpinnerEnds
CHECK_DEADLOCK FALSE
