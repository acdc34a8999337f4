SPECIFICATION FairSpec
CONSTANTS
    c1 = c1
    k1 = k1
    k2 = k2
    o1 = o1
    o2 = o2
    t1 = t1
    r1 = r1
    r2 = r2
    Nobody = Nobody
    Clients = {c1}
    Tasks = {t1}
    OrderOf <- OneTaskOf
    Companies = {k1}
    Orders = {o1}
    ClientOf <- OnlyClientOf
    CompanyOf <- OnlyCompanyOf
    Requests = {r1, r2}
    Kinds = {"removeClient", "restoreClient", "removeCompany", "restoreCompany", "createOrder",
             "removeOrder", "restoreOrder", "restoreAll"}
    MaxFailures = 1
INVARIANT OrphansAreStrays
PROPERTY RemovalIsFollowed
