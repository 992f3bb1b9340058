\* Two overlapping handlers, failing writes and restarts.
CONSTANTS
    Calls = {c1, c2}
    Ids = {p1, p2, p3}
    None = None
    Torn = Torn
    Ops = {"create", "activate", "rename", "save", "delete", "sync", "other"}
    Faults = TRUE
SPECIFICATION Spec
INVARIANT ProfilesUsable
SYMMETRY StoreSymmetry
