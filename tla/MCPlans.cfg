\* Two calls in flight over two plans and three items.
CONSTANTS
    PlanIds = {p1, p2}
    ItemIds = {i1, i2, i3}
    Payloads = {v1}
    Handlers = {h1, h2}
    AskedDates = {1, 2}
    MaxTries = 2
    MaxImport = 2
    MayFail = TRUE
    None = None
SPECIFICATION Spec
INVARIANTS
    OrdersContiguous
    FirstFreeDate
PROPERTIES
    ImplementsPlanSeq
SYMMETRY IdSymmetry
