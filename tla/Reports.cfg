SPECIFICATION Spec
CONSTANTS
    o1 = o1
    o2 = o2
    v1 = v1
    v2 = v2
    v3 = v3
    b1 = b1
    b2 = b2
    s1 = s1
    s2 = s2
    c1 = c1
    c2 = c2
    Today = 2
    LastDays = 1
    NotGiven = NotGiven
    Orders = {o1, o2}
    Reviews = {v1, v2, v3}
    Brands = {b1, b2}
    Sellers = {s1, s2}
    OrderOf <- ReviewOrders
    OrderRow <- OrderTable
    Says <- OrderTexts
    Keywords = {"x", "y", "GELOSCHT"}
    Args <- Lines
    ReportArgs <- OrderQuestions
    Recordable = {"PAID"}
    Newest = 1
    Clients = {c1, c2}
    Vendors = {s1, s2}
    Labels = {b1, b2}
    ClientRow <- ClientTable
    ClientSays <- ClientTexts
    Words = {"x", "y"}
    ClientArgs <- Lines
    Surveys <- ClientQuestions
INVARIANTS
    RevenueIsOneFigure
    GraphsCoverTheReport
    SearchesNarrowTheList
    PaidOrdersWereSeen
    NobodyIsCountedTwice
    ClientSearchesNarrow
