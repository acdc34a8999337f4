SPECIFICATION Spec
CONSTANTS
    o1 = o1
    c1 = c1
    c2 = c2
    h1 = h1
    h2 = h2
    NoOrder = NoOrder
    Orders <- OneOrder
    Clients <- OneClient
    LastOrder <- OneLast
    Handlers = {h1}
    Roles = {"ACCOUNTANT"}
    Kinds = {"update", "status"}
    Recorded = {"NEW", "SENT_INVOICE", "PR1", "PR2", "PAID", "UNPAID"}
    MaxTasks = 2
    MaxInFlight = 1
    MaxFailures = 0
PROPERTY DueRemindersAreMoved
