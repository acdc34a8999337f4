SPECIFICATION Spec
CONSTANTS
    o1 = o1
    c1 = c1
    c2 = c2
    h1 = h1
    h2 = h2
    NoOrder = NoOrder
    Orders <- OneOrder
    Clients <- OneClient
    LastOrder <- OneLast
    Handlers = {h1, h2}
    Roles = {"ACCOUNTANT"}
    Kinds = {"update", "status"}
    Recorded = {"SENT_INVOICE", "PR2", "PAID"}
    MaxTasks = 3
    MaxInFlight = 3
    MaxFailures = 0
SYMMETRY HandlerSymmetry
PROPERTY ReopensOnlyUnrecorded
