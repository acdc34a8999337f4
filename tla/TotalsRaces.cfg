SPECIFICATION Spec
CONSTANTS
    v1 = v1
    v2 = v2
    v3 = v3
    r1 = r1
    r2 = r2
    Reviews = {v1, v2}
    Costs = {2, 5}
    Requests = {r1, r2}
    Kinds = {"create", "addReview", "removeReview", "update", "remove", "restore", "invoice"}
    MaxInvoices = 1
    MaxFailures = 1
SYMMETRY RowSymmetry
INVARIANTS
    TypeOK
    NoPhantomCharge
