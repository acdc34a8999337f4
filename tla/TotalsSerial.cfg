SPECIFICATION Spec
CONSTANTS
    v1 = v1
    v2 = v2
    v3 = v3
    r1 = r1
    r2 = r2
    Reviews = {v1, v2, v3}
    Costs = {0, 2, 3}
    Requests = {r1}
    Kinds = {"create", "addReview", "removeReview", "update", "remove", "restore", "invoice"}
    MaxInvoices = 1
    MaxFailures = 2
SYMMETRY ReviewSymmetry
INVARIANT TotalFitsTheReviews
PROPERTY InvoicesCoverTheTotal
