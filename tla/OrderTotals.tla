----------------------------- MODULE OrderTotals -----------------------------
(***************************************************************************)
(* What an order costs.  total_price is stored with the order and written  *)
(* by whoever changes its reviews or its unit cost: OrdersService.create   *)
(* and update, OrderReviewsService.create and remove.  Each counts the     *)
(* reviews first and writes the product later, and they do not count the   *)
(* same reviews: some count the deleted ones.  The invoice does not look   *)
(* at total_price and computes its own amount.                             *)
(*                                                                         *)
(* One order; orders share none of this.  Each step is one database call.  *)
(***************************************************************************)
EXTENDS Naturals, FiniteSets

CONSTANTS
    Reviews,      \* review rows the order may get
    Costs,        \* unit costs
    Requests,     \* slots for requests that may overlap
    Kinds,        \* the requests that are sent: subset of AllKinds
    MaxInvoices,  \* bound on the rows of Invoice
    MaxFailures   \* bound on failed calls and restarts

AllKinds == {"create", "addReview", "removeReview", "update", "remove", "restore", "invoice"}

ASSUME TotalsConstantsOK ==
    /\ IsFiniteSet(Reviews) /\ IsFiniteSet(Requests)
    /\ Costs \subseteq Nat
    /\ Kinds \subseteq AllKinds
    /\ MaxInvoices \in Nat /\ MaxFailures \in Nat

RowStates == {"none", "live", "deleted"}
InvoiceIds == 1 .. MaxInvoices
InvoiceRow == [quantity : Nat, rate : Costs \cup {0}, amount : Nat, numbered : BOOLEAN]
NoInvoice  == [quantity |-> 0, rate |-> 0, amount |-> 0, numbered |-> FALSE]

VARIABLES
    order,      \* RowStates
    review,     \* [Reviews -> RowStates]
    unit_cost,
    total_price,
    invoice,    \* [InvoiceIds -> InvoiceRow]
    issued,     \* invoices 1 .. issued exist
    request,    \* the request in each slot
    failures,
    charged,    \* history: the unit costs the order has had
    stale       \* history: a request that changes the total was cut off, or the order
                \* was restored, and no total has been written since

rows == <<order, review, unit_cost, total_price, invoice, issued>>
vars == <<rows, request, failures, charged, stale>>

\* the plain client sees every row, the soft-delete client the live ones
AllReviews  == {v \in Reviews : review[v] # "none"}
LiveReviews == {v \in Reviews : review[v] = "live"}

----------------------------------------------------------------------------
NoRequest == [kind |-> "none", pc |-> "idle", count |-> 0, cost |-> 0, id |-> 0]
Idle(r)   == request[r].pc = "idle"
Quiet     == \A r \in Requests : Idle(r)

Start(r, q) == Idle(r) /\ q.kind \in Kinds /\ request' = [request EXCEPT ![r] = q]
End(r)      == request' = [request EXCEPT ![r] = NoRequest]
Counted(r, n, cost, pc) ==
    request' = [request EXCEPT ![r] = [@ EXCEPT !.count = n, !.cost = cost, !.pc = pc]]

Init ==
    /\ order = "none"
    /\ review = [v \in Reviews |-> "none"]
    /\ unit_cost = 0 /\ total_price = 0
    /\ invoice = [i \in InvoiceIds |-> NoInvoice] /\ issued = 0
    /\ request = [r \in Requests |-> NoRequest]
    /\ failures = 0
    /\ charged = {} /\ stale = FALSE

----------------------------------------------------------------------------
(* The order. *)

\* POST /orders: the order and its reviews, then the total in a call of its own
CreateOrder(r, S, cost) ==
    /\ order = "none"
    /\ order' = "live"
    /\ review' = [v \in Reviews |-> IF v \in S THEN "live" ELSE review[v]]
    /\ unit_cost' = cost
    /\ charged' = charged \cup {cost}
    /\ Start(r, [kind |-> "create", pc |-> "total", count |-> Cardinality(S),
                 cost |-> cost, id |-> 0])
    /\ UNCHANGED <<total_price, invoice, issued, failures, stale>>

\* PATCH /orders/:id with a unit cost, for a deleted order too
UpdateOrder(r, cost) ==
    /\ order # "none"
    /\ Start(r, [kind |-> "update", pc |-> "recount", count |-> 0, cost |-> cost, id |-> 0])
    /\ UNCHANGED <<rows, failures, charged, stale>>

CountForUpdate(r) ==
    /\ request[r].pc = "recount"
    /\ Counted(r, Cardinality(AllReviews), request[r].cost, "price")
    /\ UNCHANGED <<rows, failures, charged, stale>>

TotalOnly(r) ==  \* a mutant: the total without the cost
    LET q == request[r] IN
    /\ q.pc = "price"
    /\ total_price' = q.count * q.cost
    /\ End(r)
    /\ UNCHANGED <<order, review, unit_cost, invoice, issued, failures, charged, stale>>
WritePrice(r) ==
    LET q == request[r] IN
    /\ q.pc = "price"
    /\ unit_cost' = q.cost
    /\ charged' = charged \cup {q.cost}
    /\ total_price' = q.count * q.cost
    /\ stale' = FALSE
    /\ End(r)
    /\ UNCHANGED <<order, review, invoice, issued, failures>>

\* DELETE /orders/:id: the reviews, the tasks (ClientCascade), the order
RemoveOrder(r) ==
    /\ order # "none"
    /\ review' = [v \in Reviews |-> IF review[v] = "live" THEN "deleted" ELSE review[v]]
    /\ Start(r, [kind |-> "remove", pc |-> "delete", count |-> 0, cost |-> 0, id |-> 0])
    /\ UNCHANGED <<order, unit_cost, total_price, invoice, issued, failures, charged, stale>>

DeleteOrder(r) ==
    /\ request[r].pc = "delete"
    /\ order' = "deleted"
    /\ End(r)
    /\ UNCHANGED <<review, unit_cost, total_price, invoice, issued, failures, charged, stale>>

\* PATCH /orders/restore/:id and restore:orders: every review comes back, also those
\* that were removed one by one, and the total stays
RestoreOrder ==
    /\ "restore" \in Kinds
    /\ order = "deleted"
    /\ order' = "live"
    /\ review' = [v \in Reviews |-> IF review[v] = "none" THEN "none" ELSE "live"]
    /\ stale' = TRUE
    /\ UNCHANGED <<unit_cost, total_price, invoice, issued, request, failures, charged>>

----------------------------------------------------------------------------
(* Single reviews. *)

AddReview(r, v) ==
    /\ order # "none" /\ review[v] = "none"
    /\ review' = [review EXCEPT ![v] = "live"]
    /\ Start(r, [kind |-> "addReview", pc |-> "countAll", count |-> 0, cost |-> 0, id |-> 0])
    /\ UNCHANGED <<order, unit_cost, total_price, invoice, issued, failures, charged, stale>>

RemoveReview(r, v) ==
    /\ review[v] # "none"
    /\ review' = [review EXCEPT ![v] = "deleted"]
    /\ Start(r, [kind |-> "removeReview", pc |-> "countLive", count |-> 0, cost |-> 0, id |-> 0])
    /\ UNCHANGED <<order, unit_cost, total_price, invoice, issued, failures, charged, stale>>

CountAll(r) ==
    /\ request[r].pc = "countAll"
    /\ Counted(r, Cardinality(AllReviews), unit_cost, "total")
    /\ UNCHANGED <<rows, failures, charged, stale>>

CountOneMore(r) ==  \* a mutant: counted before the review was removed
    /\ request[r].pc = "countLive"
    /\ Counted(r, Cardinality(AllReviews) + 1, unit_cost, "total")
    /\ UNCHANGED <<rows, failures, charged, stale>>
\* orderReviews[0].order: there must be a live review, and the order must be live; if
\* not, the call throws with the review gone and the total as it was
CountLive(r) ==
    /\ request[r].pc = "countLive"
    /\ IF LiveReviews # {} /\ order = "live"
       THEN Counted(r, Cardinality(LiveReviews), unit_cost, "total")
       ELSE End(r)
    /\ UNCHANGED <<rows, failures, charged, stale>>

Decrement(r) ==  \* a mutant: the price of one review is taken off
    LET q == request[r] IN
    /\ q.pc = "total"
    /\ total_price' = IF q.kind = "removeReview" THEN total_price - q.cost ELSE q.count * q.cost
    /\ End(r)
    /\ UNCHANGED <<order, review, unit_cost, invoice, issued, failures, charged, stale>>
WriteTotal(r) ==
    LET q == request[r] IN
    /\ q.pc = "total"
    /\ total_price' = q.count * q.cost
    /\ stale' = FALSE
    /\ End(r)
    /\ UNCHANGED <<order, review, unit_cost, invoice, issued, failures, charged>>

----------------------------------------------------------------------------
(* GET /orders/generate-pdf/:id issues an invoice. *)

Issuing == {r \in Requests : request[r].pc \in {"read", "issue"}}
GeneratePdf(r) ==
    /\ order = "live" /\ issued + Cardinality(Issuing) < MaxInvoices
    /\ Start(r, [kind |-> "invoice", pc |-> "read", count |-> 0, cost |-> 0, id |-> 0])
    /\ UNCHANGED <<rows, failures, charged, stale>>

ReadLive(r) ==  \* a mutant: the soft-delete client
    /\ request[r].pc = "read"
    /\ Counted(r, Cardinality(LiveReviews), unit_cost, "issue")
    /\ UNCHANGED <<rows, failures, charged, stale>>
ReadOrder(r) ==
    /\ request[r].pc = "read"
    /\ Counted(r, Cardinality(AllReviews), unit_cost, "issue")
    /\ UNCHANGED <<rows, failures, charged, stale>>

InsertInvoice(r) ==
    LET q == request[r] IN
    /\ q.pc = "issue"
    /\ issued' = issued + 1
    /\ invoice' = [invoice EXCEPT ![issued + 1] =
         [quantity |-> q.count, rate |-> q.cost, amount |-> q.count * q.cost, numbered |-> FALSE]]
    /\ request' = [request EXCEPT ![r] = [@ EXCEPT !.pc = "number", !.id = issued + 1]]
    /\ UNCHANGED <<order, review, unit_cost, total_price, failures, charged, stale>>

NumberInvoice(r) ==
    /\ request[r].pc = "number"
    /\ invoice' = [invoice EXCEPT ![request[r].id].numbered = TRUE]
    /\ End(r)
    /\ UNCHANGED <<order, review, unit_cost, total_price, issued, failures, charged, stale>>

----------------------------------------------------------------------------
(* A call rejects, or the process restarts; nothing is rolled back. *)

Totalling == {"create", "addReview", "removeReview", "update"}

FailRequest(r) ==
    /\ ~ Idle(r) /\ failures < MaxFailures /\ failures' = failures + 1
    /\ stale' = (stale \/ request[r].kind \in Totalling)
    /\ End(r)
    /\ UNCHANGED <<rows, charged>>

Restart ==
    /\ ~ Quiet /\ failures < MaxFailures /\ failures' = failures + 1
    /\ stale' = (stale \/ \E r \in Requests : request[r].kind \in Totalling)
    /\ request' = [r \in Requests |-> NoRequest]
    /\ UNCHANGED <<rows, charged>>

NewRequest(r) ==
    \/ \E S \in SUBSET Reviews, cost \in Costs : CreateOrder(r, S, cost)
    \/ \E cost \in Costs : UpdateOrder(r, cost)
    \/ \E v \in Reviews : AddReview(r, v) \/ RemoveReview(r, v)
    \/ RemoveOrder(r) \/ GeneratePdf(r)

Step(r) ==
    \/ CountForUpdate(r) \/ WritePrice(r) \/ DeleteOrder(r)
    \/ CountAll(r) \/ CountLive(r) \/ WriteTotal(r)
    \/ ReadOrder(r) \/ InsertInvoice(r) \/ NumberInvoice(r)

Next ==
    \/ \E r \in Requests : NewRequest(r) \/ Step(r) \/ FailRequest(r)
    \/ RestoreOrder
    \/ Restart

Spec == Init /\ [][Next]_vars

----------------------------------------------------------------------------
Pcs == {"idle", "total", "recount", "price", "delete", "countAll", "countLive",
        "read", "issue", "number"}
Request == [kind : AllKinds \cup {"none"}, pc : Pcs, count : Nat,
            cost : Costs \cup {0}, id : InvoiceIds \cup {0}]

TypeOK ==
    /\ order \in RowStates
    /\ review \in [Reviews -> RowStates]
    /\ unit_cost \in Costs \cup {0} /\ total_price \in Nat
    /\ invoice \in [InvoiceIds -> InvoiceRow] /\ issued \in 0 .. MaxInvoices
    /\ request \in [Requests -> Request]
    /\ failures \in 0 .. MaxFailures
    /\ charged \subseteq Costs /\ stale \in BOOLEAN

\* However requests overlap and fail, what is stored as the total, and what an invoice
\* asks for, is a number of reviews the order has had times one cost it has had: a
\* product of a count and a cost that were read together, never of more reviews.
Charge(n) == \E k \in 0 .. Cardinality(AllReviews), cost \in charged \cup {0} : n = k * cost
NoPhantomCharge ==
    /\ Charge(total_price)
    /\ \A i \in 1 .. issued : Charge(invoice[i].amount)

\* One request at a time: the total counts at least the live reviews and at most all of
\* them, at the cost of the order. The lower bound ends with a restoration, which brings
\* back reviews without their price, or a request that is cut off.
TotalFitsTheReviews ==
    Quiet /\ order # "none" =>
        \E k \in 0 .. Cardinality(AllReviews) :
            /\ total_price = k * unit_cost
            /\ ~ stale => k * unit_cost >= Cardinality(LiveReviews) * unit_cost

\* One request at a time: an invoice never asks for less than the order's total.
InvoicesCoverTheTotal ==
    [][issued' # issued => invoice'[issued'].amount >= total_price]_vars
=============================================================================
