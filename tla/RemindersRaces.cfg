SPECIFICATION Spec
CONSTANTS
    o1 = o1
    c1 = c1
    c2 = c2
    h1 = h1
    h2 = h2
    NoOrder = NoOrder
    Orders <- OneOrder
    Clients <- TwoClients
    LastOrder <- TwoLast
    Handlers = {h1, h2}
    Roles = {"ACCOUNTANT"}
    Kinds = {"update", "status"}
    Recorded = {"SENT_INVOICE", "PR2"}
    MaxTasks = 3
    MaxInFlight = 3
    MaxFailures = 0
SYMMETRY HandlerSymmetry
INVARIANTS
    TypeOK
    EarnedBeforeAdvance
    FollowUpsAreSpaced
PROPERTY UnpaidIsFinal
