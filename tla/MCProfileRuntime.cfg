\* Two screens, two overlapping applications of up to two profiles.
CONSTANTS
    A = A
    B = B
    Screens = {A, B}
    MainScreen = A
    FREE = FREE
    MirrorChoices <- UIMirrorChoices
    Texts = {}
    Medias = {}
    EMPTY = EMPTY
    Looks = {look1}
    DefaultLook = look0
    PlanIds = {}
    Null = Null
    Absent = Absent
    LivePatches = {}
    Displays = {B}
    MaxCursor = 0
    Calls = {c1, c2}
    None = None
    MaxSaved = 2
SPECIFICATION LookSpec
INVARIANT ShownWhenSettled
SYMMETRY CallSymmetry
