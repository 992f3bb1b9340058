\* Two browsers on one visible and one deleted document, three keys, two
\* submissions and two edits of the forms; two administrators, three commands;
\* two tabs, four requests.  Behaviours end at the bounds.
CONSTANTS
    Browsers = {"c1", "c2"}
    DocIds = {1, 2, 3, 4}
    Keys = {1, 2, 3}
    Batch <- TwoSongs
    NoDoc = NoDoc
    NoForm = NoForm
    NoRequest = NoRequest
    NoResult = NoResult
    MaxSubmits = 2
    Accounts = {1, 2, 3, 4, 5}
    Managers = {"c1", "c2"}
    NewRoles = {"RESPONSABLE_CHANTRE", "CHANTRE"}
    Pseudos = {9}
    NoAccount = NoAccount
    NoSession = NoSession
    NoTable = NoTable
    NoCall = NoCall
    Nobody = Nobody
    MaxCommands = 3
    Tabs = {"t1", "t2"}
    Statuses = {"TO_LEARN", "MASTERED"}
    NoMark = NoMark
    MaxMarks = 4
SPECIFICATION WebSpec
INVARIANTS
    RowsOfOneSave DoneAsSaid
    AccountsGoverned TableTrue
    MarkShown
CHECK_DEADLOCK FALSE
