SPECIFICATION FairSpec
CONSTANTS
    o1 = o1
    c1 = c1
    c2 = c2
    h1 = h1
    h2 = h2
    NoOrder = NoOrder
    Orders <- OneOrder
    Clients <- OneClient
    LastOrder <- OneLast
    Handlers = {h1}
    Roles = {"ACCOUNTANT"}
    Kinds = {"update", "status"}
    Recorded = {"SENT_INVOICE", "PAID"}
    MaxTasks = 5
    MaxInFlight = 2
    MaxFailures = 0
PROPERTIES
    CompletedRemindersMove
    QuietClientsAreFollowedUp
