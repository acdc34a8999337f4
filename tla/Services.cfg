SPECIFICATION ServicesSpec
CONSTANTS
    Users = {1, 2, 3}
    Emails = {"e1", "e2", "e3"}
    Jobs = {1, 2}
    FirstUsers <- FirstEmails
    FirstAliases <- FirstLists
    FirstSellers = {0, 1}
    AliasLists <- AskedLists
    MaxRequests = 3
    MaxTogether = 2
    Brands = {"b1", "b2", "b3"}
    BrandedOrders = {"o1", "o2"}
    MaxWrites = 3
    Staff = {"u1", "u2"}
    Customers = {"c1"}
    EmailOf <- PersonEmails
    AliasesOf <- FurtherEmails
    Mailable = {"u1"}
    Acts = {1, 2}
    MaxActs = 3
    MaxDraws = 5
    Talkers = {"t1", "t2"}
    Writers = {"t1"}
    Sockets = {"k1", "k2", "k3"}
    OwnerOf <- SocketOwners
    Authentic = {"k2", "k3"}
    MaxChats = 2
    MaxMessages = 1
    Cards = {1, 2, 3}
    Names = {"n1", "n2"}
    Columns = {1, 2}
    MaxFound = 2
    Hands = {1, 2}
    MaxOps = 3
    Today = 4
    ImportedDays = {1, 2, 4}
    Stars = {"good", "bad"}
    WrongDays = {2}
    Runners = {"r1", "r2"}
    MaxAsks = 1
    MaxFills = 2
    Clerks = {1, 2}
    MaxPictures = 4
    MaxErrands = 4
    Files <- SomeFiles
    AtFirst <- OldTables
    BatchSize = 1
    Importers = {1, 2}
    MaxImports = 2
CHECK_DEADLOCK FALSE
INVARIANTS
    TransferredSellersAreEmpty
    OnlyLateClientsAreStranded
    AliasesAreDistinct
    OrdersFollowTheirClient
    TheLastPasswordToldWorks
    OnlineMembersGetTheMessage
    CardsAreApart
    FilledDaysCopyTheNext
    PicturesAreThere
    ImportsAreWhole
