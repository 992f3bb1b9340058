\* One plan, one call: dragging an item to another place of the plan.
CONSTANTS
    PlanIds = {p1}
    ItemIds = {i1, i2}
    Payloads = {v1}
    Handlers = {h1}
    AskedDates = {1}
    MaxTries = 2
    MaxImport = 1
    MayFail = FALSE
    None = None
SPECIFICATION Spec
PROPERTIES
    ReorderTakesEffect
