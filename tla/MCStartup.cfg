\* Three plan items in a file of any earlier version or no file, three stops or
\* failures; two servers on three ports of which another program holds one and one
\* remote control, or two handlers and two folders.
CONSTANTS
    Items = {1, 2, 3}
    Migrations <- shippedMigrations
    OldOrders <- AnyOrders
    MaxFaults = 3
    Servers = {s1, s2}
    Ports = {port1, port2, port3}
    BusyPorts = {port3}
    Clients = {r1}
    None = None
    Dirs = {d0, d1}
    LegacyDir = d0
    NoDir = NoDir
    Calls = {h1, h2}
SPECIFICATION UseSpec
INVARIANTS
    SchemaFollowsLog
    ServerUnderControl
    LibraryDirKept
PROPERTIES
    ItemsSurvive
    EventuallyReady
    StartAnswered
