\* Three screens, mirrors as the regie offers them, a window on a second
\* display that opens, loads and closes at any time.  One text and one media
\* show the same content; appearances vary in MCProfileRuntime.cfg.
CONSTANTS
    A = A
    B = B
    C = C
    Screens = {A, B, C}
    MainScreen = A
    FREE = FREE
    MirrorChoices <- UIMirrorChoices
    Texts = {c1}
    Medias = {c1}
    EMPTY = EMPTY
    Looks = {look0}
    DefaultLook = look0
    PlanIds = {}
    Null = Null
    Absent = Absent
    LivePatches <- UILivePatches
    Displays = {B}
    MaxCursor = 1
SPECIFICATION Spec
INVARIANTS
    TypeOK
    MirrorInSync
    BlackWhiteExclusive
    WindowShowsScreen
PROPERTIES
    LockedScreenFrozen
    LiveKeepsContent
