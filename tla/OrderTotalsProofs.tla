-------------------------- MODULE OrderTotalsProofs --------------------------
(***************************************************************************)
(* Proofs about OrderTotals, for every finite set of reviews and request   *)
(* slots, all unit costs and every bound: the type invariant, and that no  *)
(* total and no invoice charges for reviews the order never had.           *)
(***************************************************************************)
EXTENDS OrderTotals, FiniteSetTheorems, TLAPS

(***************************************************************************)
(* A request that has counted holds at most the reviews there are by now,  *)
(* rows of reviews being never taken away, and a cost the order has had.   *)
(***************************************************************************)
Informed(q, n, costs) ==
    /\ q \in Request
    /\ q.pc \in {"total", "price", "issue"} => q.count <= n
    /\ q.pc \in {"total", "issue"} => q.cost \in costs \cup {0}
    /\ q.pc \in {"recount", "price"} => q.cost \in Costs
    /\ q.pc = "number" => q.id \in InvoiceIds

RequestsInformed ==
    \A r \in Requests : Informed(request[r], Cardinality(AllReviews), charged)

\* each request that is about to issue an invoice has a row left for it
RoomForInvoices == issued + Cardinality(Issuing) <= MaxInvoices

RowsOK ==
    /\ order \in RowStates
    /\ review \in [Reviews -> RowStates]
    /\ unit_cost \in charged \cup {0} /\ total_price \in Nat
    /\ invoice \in [InvoiceIds -> InvoiceRow] /\ issued \in 0 .. MaxInvoices
    /\ request = [r \in Requests |-> request[r]]
    /\ failures \in 0 .. MaxFailures
    /\ charged \subseteq Costs /\ stale \in BOOLEAN

TotalsInv == RowsOK /\ RequestsInformed /\ RoomForInvoices /\ NoPhantomCharge

LEMMA InvGivesTypeOK == TotalsInv => TypeOK
BY DEF TotalsInv, RowsOK, RequestsInformed, Informed, TypeOK

----------------------------------------------------------------------------
(* What counts and costs can do in a step: both sets only grow. *)

LEMMA Products == \A m \in Nat, n \in Nat : m * n \in Nat
OBVIOUS

LEMMA CostsAreNumbers == Costs \cup {0} \subseteq Nat
BY TotalsConstantsOK

LEMMA ReviewsFinite ==
    /\ IsFiniteSet(AllReviews) /\ Cardinality(AllReviews) \in Nat
    /\ IsFiniteSet(LiveReviews) /\ Cardinality(LiveReviews) \in Nat
    /\ Cardinality(LiveReviews) <= Cardinality(AllReviews)
<1>1. AllReviews \subseteq Reviews /\ LiveReviews \subseteq AllReviews
  BY DEF AllReviews, LiveReviews
<1> QED
  BY <1>1, TotalsConstantsOK, FS_Subset, FS_CardinalityType

LEMMA IssuingFinite == IsFiniteSet(Issuing) /\ Cardinality(Issuing) \in Nat
<1>1. Issuing \subseteq Requests
  BY DEF Issuing
<1> QED
  BY <1>1, TotalsConstantsOK, FS_Subset, FS_CardinalityType

LEMMA ReviewsGrow ==
    ASSUME RowsOK, [Next]_vars
    PROVE  AllReviews \subseteq AllReviews'
<1>1. CASE review' = review
  BY <1>1 DEF AllReviews
<1>2. ASSUME NEW r \in Requests, NewRequest(r) PROVE AllReviews \subseteq AllReviews'
  <2>1. ASSUME NEW S \in SUBSET Reviews, NEW cost \in Costs, CreateOrder(r, S, cost)
        PROVE  AllReviews \subseteq AllReviews'
    BY <2>1 DEF CreateOrder, AllReviews
  <2>2. ASSUME NEW v \in Reviews, AddReview(r, v) \/ RemoveReview(r, v)
        PROVE  AllReviews \subseteq AllReviews'
    BY <2>2 DEF AddReview, RemoveReview, AllReviews, RowsOK
  <2>3. ASSUME RemoveOrder(r) PROVE AllReviews \subseteq AllReviews'
    BY <2>3 DEF RemoveOrder, AllReviews
  <2> QED
    BY <1>1, <1>2, <2>1, <2>2, <2>3 DEF NewRequest, UpdateOrder, GeneratePdf, rows
<1>3. ASSUME NEW r \in Requests, Step(r) \/ FailRequest(r) PROVE AllReviews \subseteq AllReviews'
  BY <1>1, <1>3 DEF Step, FailRequest, CountForUpdate, WritePrice, DeleteOrder, CountAll, CountLive,
     WriteTotal, ReadOrder, InsertInvoice, NumberInvoice, rows
<1>4. CASE RestoreOrder
  BY <1>4 DEF RestoreOrder, AllReviews
<1>5. CASE Restart \/ UNCHANGED vars
  BY <1>1, <1>5 DEF Restart, vars, rows
<1> QED
  BY <1>2, <1>3, <1>4, <1>5 DEF Next

LEMMA CountGrows ==
    ASSUME RowsOK, [Next]_vars
    PROVE  /\ Cardinality(AllReviews) <= Cardinality(AllReviews')
           /\ IsFiniteSet(AllReviews') /\ Cardinality(AllReviews') \in Nat
<1>1. AllReviews' \subseteq Reviews
  BY DEF AllReviews
<1>2. IsFiniteSet(AllReviews') /\ Cardinality(AllReviews') \in Nat
  BY <1>1, TotalsConstantsOK, FS_Subset, FS_CardinalityType
<1> QED
  BY <1>2, ReviewsGrow, FS_Subset

LEMMA CostsGrow ==
    ASSUME [Next]_vars
    PROVE  charged \subseteq charged'
BY DEF Next, vars, rows, NewRequest, CreateOrder, UpdateOrder, AddReview, RemoveReview, RemoveOrder,
   GeneratePdf, Step, CountForUpdate, WritePrice, DeleteOrder, CountAll, CountLive, WriteTotal,
   ReadOrder, InsertInvoice, NumberInvoice, FailRequest, RestoreOrder, Restart

----------------------------------------------------------------------------
(* The requests. *)

LEMMA NoRequestInformed == \A n \in Nat : \A costs : Informed(NoRequest, n, costs)
BY DEF Informed, NoRequest, Request, Pcs

\* A count of the reviews there are, at the cost of the order.
LEMMA CountedInformed ==
    ASSUME NEW q \in Request, NEW n \in Nat, NEW count \in 0 .. n, NEW costs,
           NEW cost \in Costs \cup {0}, NEW pc \in {"total", "price", "issue"},
           pc # "price" => cost \in costs \cup {0}, pc = "price" => cost \in Costs
    PROVE  Informed([q EXCEPT !.count = count, !.cost = cost, !.pc = pc], n, costs)
<1> DEFINE d == [q EXCEPT !.count = count, !.cost = cost, !.pc = pc]
<1>0. count \in Nat /\ pc \in Pcs /\ cost \in Costs \cup {0}
  BY DEF Pcs
<1>1. d \in Request
  BY <1>0 DEF Request
<1>2. d.count = count /\ d.cost = cost /\ d.pc = pc
  BY DEF Request
<1> QED
  BY <1>1, <1>2 DEF Informed

LEMMA OthersInformed ==
    ASSUME RowsOK, RequestsInformed, [Next]_vars, NEW r \in Requests, NEW q,
           request' = [request EXCEPT ![r] = q],
           Informed(q, Cardinality(AllReviews'), charged')
    PROVE  RequestsInformed'
<1>1. \A p \in Requests : request'[p] = IF p = r THEN q ELSE request[p]
  BY DEF RowsOK
<1>2. \A p \in Requests : Informed(request[p], Cardinality(AllReviews'), charged')
  BY CountGrows, CostsGrow, ReviewsFinite DEF RequestsInformed, Informed, Request
<1>3. \A p \in Requests : Informed(request'[p], Cardinality(AllReviews'), charged')
  BY <1>1, <1>2
<1> QED
  BY <1>3 DEF RequestsInformed, Informed

LEMMA EndInformed ==
    ASSUME RowsOK, RequestsInformed, [Next]_vars, NEW r \in Requests, End(r)
    PROVE  RequestsInformed'
BY NoRequestInformed, OthersInformed, CountGrows DEF End

LEMMA CountInformed ==
    ASSUME RowsOK, RequestsInformed, [Next]_vars, NEW r \in Requests,
           NEW n \in 0 .. Cardinality(AllReviews), NEW cost \in Costs \cup {0},
           NEW pc \in {"total", "price", "issue"}, Counted(r, n, cost, pc),
           pc # "price" => cost \in charged \cup {0}, pc = "price" => cost \in Costs
    PROVE  RequestsInformed'
<1> DEFINE q == [request[r] EXCEPT !.count = n, !.cost = cost, !.pc = pc]
<1>1. request[r] \in Request
  BY DEF RequestsInformed, Informed
<1>2. n \in 0 .. Cardinality(AllReviews') /\ Cardinality(AllReviews') \in Nat
  BY CountGrows, ReviewsFinite
<1>3. pc # "price" => cost \in charged' \cup {0}
  BY CostsGrow
<1>4. Informed(q, Cardinality(AllReviews'), charged')
  BY <1>1, <1>2, <1>3, CountedInformed
<1>5. request' = [request EXCEPT ![r] = q]
  BY DEF Counted
<1> QED
  BY <1>4, <1>5, OthersInformed

LEMMA RequestsStep ==
    ASSUME RowsOK, RequestsInformed, RoomForInvoices, [Next]_vars
    PROVE  RequestsInformed'
<1>0. /\ Cardinality(AllReviews') \in Nat
      /\ Cardinality(AllReviews) \in 0 .. Cardinality(AllReviews)
      /\ Cardinality(LiveReviews) \in 0 .. Cardinality(AllReviews)
      /\ unit_cost \in Costs \cup {0} /\ unit_cost \in charged \cup {0}
  BY CountGrows, ReviewsFinite DEF RowsOK
<1>1. ASSUME NEW r \in Requests, NEW q \in Request, Start(r, q),
             q.pc \in {"countAll", "countLive", "delete", "read", "recount"},
             q.pc = "recount" => q.cost \in Costs
      PROVE  RequestsInformed'
  <2>1. Informed(q, Cardinality(AllReviews'), charged')
    BY <1>1 DEF Informed
  <2> QED
    BY <1>1, <2>1, OthersInformed DEF Start
<1>2. ASSUME NEW r \in Requests, NEW S \in SUBSET Reviews, NEW cost \in Costs,
             CreateOrder(r, S, cost)
      PROVE  RequestsInformed'
  <2> DEFINE q == [kind |-> "create", pc |-> "total", count |-> Cardinality(S),
                   cost |-> cost, id |-> 0]
  <2>1. S \subseteq AllReviews'
    BY <1>2 DEF CreateOrder, AllReviews
  <2>2. IsFiniteSet(AllReviews')
    BY CountGrows
  <2>3. Cardinality(S) \in Nat /\ Cardinality(S) <= Cardinality(AllReviews')
    BY <2>1, <2>2, FS_Subset, FS_CardinalityType
  <2>4. cost \in charged'
    BY <1>2 DEF CreateOrder
  <2>5. Informed(q, Cardinality(AllReviews'), charged')
    BY <2>3, <2>4 DEF Informed, Request, AllKinds, Pcs
  <2> QED
    BY <1>2, <2>5, OthersInformed DEF CreateOrder, Start
<1>3. ASSUME NEW r \in Requests, NewRequest(r) PROVE RequestsInformed'
  <2> USE DEF Request, AllKinds, Pcs
  <2>1. ASSUME NEW cost \in Costs, UpdateOrder(r, cost) PROVE RequestsInformed'
    BY <1>1, <2>1 DEF UpdateOrder
  <2>2. ASSUME NEW v \in Reviews, AddReview(r, v) \/ RemoveReview(r, v) PROVE RequestsInformed'
    BY <1>1, <2>2 DEF AddReview, RemoveReview
  <2>3. CASE RemoveOrder(r) \/ GeneratePdf(r)
    BY <1>1, <2>3 DEF RemoveOrder, GeneratePdf
  <2> QED
    BY <1>2, <1>3, <2>1, <2>2, <2>3 DEF NewRequest
<1>4. ASSUME NEW r \in Requests, Step(r) PROVE RequestsInformed'
  <2> DEFINE q == request[r]
  <2>0. q \in Request /\ Informed(q, Cardinality(AllReviews), charged)
    BY DEF RequestsInformed, Informed
  <2>1. CASE CountForUpdate(r)
    BY <1>0, <2>0, <2>1, CountInformed DEF CountForUpdate, Informed
  <2>2. CASE CountAll(r)
    BY <1>0, <2>2, CountInformed DEF CountAll
  <2>3. CASE CountLive(r)
    BY <1>0, <2>3, CountInformed, EndInformed DEF CountLive
  <2>4. CASE ReadOrder(r)
    BY <1>0, <2>4, CountInformed DEF ReadOrder
  <2>5. CASE InsertInvoice(r)
    <3> DEFINE n == [q EXCEPT !.pc = "number", !.id = issued + 1]
    <3>1. r \in Issuing
      BY <2>5 DEF InsertInvoice, Issuing
    <3>2. Cardinality(Issuing) # 0
      BY <3>1, IssuingFinite, FS_EmptySet
    <3>3. issued + 1 \in InvoiceIds
      BY <3>2, IssuingFinite, TotalsConstantsOK DEF RoomForInvoices, RowsOK, InvoiceIds
    <3>4. Informed(n, Cardinality(AllReviews'), charged')
      BY <2>0, <3>3 DEF Informed, Request, Pcs
    <3> QED
      BY <2>5, <3>4, OthersInformed DEF InsertInvoice
  <2>6. CASE WritePrice(r) \/ DeleteOrder(r) \/ WriteTotal(r) \/ NumberInvoice(r)
    BY <2>6, EndInformed DEF WritePrice, DeleteOrder, WriteTotal, NumberInvoice
  <2> QED
    BY <1>4, <2>1, <2>2, <2>3, <2>4, <2>5, <2>6 DEF Step
<1>5. ASSUME NEW r \in Requests, FailRequest(r) PROVE RequestsInformed'
  BY <1>5, EndInformed DEF FailRequest
<1>6. CASE Restart
  <2>1. \A p \in Requests : Informed(request'[p], Cardinality(AllReviews'), charged')
    BY <1>0, <1>6, NoRequestInformed DEF Restart
  <2> QED
    BY <2>1 DEF RequestsInformed, Informed
<1>7. CASE request' = request
  <2>1. \A p \in Requests : Informed(request'[p], Cardinality(AllReviews'), charged')
    BY <1>7, CountGrows, CostsGrow, ReviewsFinite DEF RequestsInformed, Informed, Request
  <2> QED
    BY <2>1 DEF RequestsInformed, Informed
<1> QED
  BY <1>3, <1>4, <1>5, <1>6, <1>7 DEF Next, RestoreOrder, vars

----------------------------------------------------------------------------
(* The rows. *)

LEMMA RowsStep ==
    ASSUME RowsOK, RequestsInformed, RoomForInvoices, [Next]_vars
    PROVE  RowsOK'
<1> USE TotalsConstantsOK DEF RowsOK, RowStates
<1>1. CASE UNCHANGED <<rows, request, failures, charged, stale>>
  BY <1>1 DEF rows
<1>2. ASSUME UNCHANGED <<rows, failures, charged, stale>>, request' = [r \in Requests |-> request'[r]]
      PROVE  RowsOK'
  BY <1>2 DEF rows
<1>3. ASSUME NEW r \in Requests, NewRequest(r) PROVE RowsOK'
  <2>1. ASSUME NEW S \in SUBSET Reviews, NEW cost \in Costs, CreateOrder(r, S, cost) PROVE RowsOK'
    BY <2>1 DEF CreateOrder, Start
  <2>2. ASSUME NEW v \in Reviews, AddReview(r, v) \/ RemoveReview(r, v) PROVE RowsOK'
    BY <2>2 DEF AddReview, RemoveReview, Start
  <2>3. CASE RemoveOrder(r)
    BY <2>3 DEF RemoveOrder, Start
  <2>4. ASSUME NEW cost \in Costs, UpdateOrder(r, cost) PROVE RowsOK'
    BY <1>2, <2>4 DEF UpdateOrder, Start
  <2>5. CASE GeneratePdf(r)
    BY <1>2, <2>5 DEF GeneratePdf, Start
  <2> QED
    BY <1>3, <2>1, <2>2, <2>3, <2>4, <2>5 DEF NewRequest
<1>4. ASSUME NEW r \in Requests, Step(r) PROVE RowsOK'
  <2> DEFINE q == request[r]
  <2>0. q \in Request /\ Informed(q, Cardinality(AllReviews), charged)
    BY DEF RequestsInformed, Informed
  <2>1. q.count \in Nat /\ q.cost \in Nat /\ q.count * q.cost \in Nat
    BY <2>0, Products, CostsAreNumbers DEF Request
  <2>2. CASE CountForUpdate(r) \/ CountAll(r) \/ CountLive(r) \/ ReadOrder(r)
    BY <1>2, <2>2 DEF CountForUpdate, CountAll, CountLive, ReadOrder, Counted, End
  <2>3. CASE WritePrice(r)
    BY <2>0, <2>1, <2>3 DEF WritePrice, End, Informed
  <2>4. CASE WriteTotal(r)
    BY <2>1, <2>4 DEF WriteTotal, End
  <2>5. CASE DeleteOrder(r)
    BY <2>5 DEF DeleteOrder, End
  <2>6. CASE InsertInvoice(r)
    <3>1. r \in Issuing
      BY <2>6 DEF InsertInvoice, Issuing
    <3>2. issued + 1 \in InvoiceIds
      BY <3>1, IssuingFinite, FS_EmptySet DEF RoomForInvoices, InvoiceIds
    <3>3. [quantity |-> q.count, rate |-> q.cost, amount |-> q.count * q.cost, numbered |-> FALSE]
             \in InvoiceRow
      BY <2>0, <2>1 DEF InvoiceRow, Request
    <3>4. invoice' \in [InvoiceIds -> InvoiceRow] /\ issued' \in 0 .. MaxInvoices
      BY <2>6, <3>2, <3>3 DEF InsertInvoice, InvoiceIds
    <3> QED
      BY <2>6, <3>4 DEF InsertInvoice
  <2>7. CASE NumberInvoice(r)
    <3>1. invoice' \in [InvoiceIds -> InvoiceRow]
      BY <2>0, <2>7 DEF NumberInvoice, InvoiceRow, Informed
    <3> QED
      BY <2>7, <3>1 DEF NumberInvoice, End
  <2> QED
    BY <1>4, <2>2, <2>3, <2>4, <2>5, <2>6, <2>7 DEF Step
<1>5. ASSUME NEW r \in Requests, FailRequest(r) PROVE RowsOK'
  BY <1>5 DEF FailRequest, End, rows
<1>6. CASE RestoreOrder
  BY <1>6 DEF RestoreOrder
<1>7. CASE Restart
  BY <1>7 DEF Restart, rows
<1> QED
  BY <1>1, <1>3, <1>4, <1>5, <1>6, <1>7 DEF Next, vars

LEMMA RoomStep ==
    ASSUME RowsOK, RequestsInformed, RoomForInvoices, [Next]_vars
    PROVE  RoomForInvoices'
<1>0. /\ IsFiniteSet(Issuing) /\ Cardinality(Issuing) \in Nat /\ issued \in Nat
      /\ MaxInvoices \in Nat
  BY IssuingFinite, TotalsConstantsOK DEF RowsOK
<1>1. ASSUME Issuing' \subseteq Issuing, issued' = issued PROVE RoomForInvoices'
  <2>1. Cardinality(Issuing') <= Cardinality(Issuing) /\ Cardinality(Issuing') \in Nat
    BY <1>0, <1>1, FS_Subset, FS_CardinalityType
  <2> QED
    BY <1>0, <1>1, <2>1 DEF RoomForInvoices
<1>2. ASSUME NEW r \in Requests, NEW q, request' = [request EXCEPT ![r] = q], issued' = issued,
             q.pc \notin {"read", "issue"} \/ r \in Issuing
      PROVE  RoomForInvoices'
  <2>1. Issuing' \subseteq Issuing
    BY <1>2 DEF Issuing, RowsOK
  <2> QED
    BY <1>1, <1>2, <2>1
<1>3. ASSUME NEW r \in Requests, GeneratePdf(r) PROVE RoomForInvoices'
  <2>1. Issuing' \subseteq Issuing \cup {r}
    BY <1>3 DEF Issuing, GeneratePdf, Start, RowsOK
  <2>2. /\ IsFiniteSet(Issuing \cup {r})
        /\ Cardinality(Issuing \cup {r}) =
             IF r \in Issuing THEN Cardinality(Issuing) ELSE Cardinality(Issuing) + 1
    BY <1>0, FS_AddElement, Zenon
  <2>3. Cardinality(Issuing') \in Nat /\ Cardinality(Issuing') <= Cardinality(Issuing \cup {r})
    BY <2>1, <2>2, FS_Subset, FS_CardinalityType
  <2>4. Cardinality(Issuing') <= Cardinality(Issuing) + 1
    BY <1>0, <2>2, <2>3
  <2>5. issued' = issued /\ issued + Cardinality(Issuing) < MaxInvoices
    BY <1>3 DEF GeneratePdf, rows
  <2> QED
    BY <1>0, <2>3, <2>4, <2>5 DEF RoomForInvoices
<1>4. ASSUME NEW r \in Requests, InsertInvoice(r) PROVE RoomForInvoices'
  <2>1. r \in Issuing /\ issued' = issued + 1
    BY <1>4 DEF InsertInvoice, Issuing
  <2>2. request[r] \in Request
    BY DEF RequestsInformed, Informed
  <2>3. Issuing' \subseteq Issuing \ {r}
    BY <1>4, <2>2 DEF Issuing, InsertInvoice, RowsOK, Request
  <2>4. IsFiniteSet(Issuing \ {r}) /\ Cardinality(Issuing \ {r}) = Cardinality(Issuing) - 1
    BY <1>0, <2>1, FS_RemoveElement
  <2>5. Cardinality(Issuing') \in Nat /\ Cardinality(Issuing') <= Cardinality(Issuing) - 1
    BY <2>3, <2>4, FS_Subset, FS_CardinalityType
  <2> QED
    BY <1>0, <2>1, <2>5 DEF RoomForInvoices
<1>5. ASSUME NEW r \in Requests, NewRequest(r) PROVE RoomForInvoices'
  BY <1>2, <1>3, <1>5 DEF NewRequest, CreateOrder, UpdateOrder, AddReview, RemoveReview, RemoveOrder,
     Start, rows
<1>6. ASSUME NEW r \in Requests, End(r), issued' = issued PROVE RoomForInvoices'
  BY <1>2, <1>6 DEF End, NoRequest
<1>7. ASSUME NEW r \in Requests, NEW n, NEW cost, NEW pc, Counted(r, n, cost, pc), issued' = issued,
             pc # "issue" \/ request[r].pc = "read", pc # "read"
      PROVE  RoomForInvoices'
  <2> DEFINE q == [request[r] EXCEPT !.count = n, !.cost = cost, !.pc = pc]
  <2>1. request[r] \in Request
    BY DEF RequestsInformed, Informed
  <2>2. q.pc = pc /\ (request[r].pc = "read" => r \in Issuing)
    BY <2>1 DEF Request, Issuing
  <2> QED
    BY <1>2, <1>7, <2>2 DEF Counted
<1>8. ASSUME NEW r \in Requests, Step(r) PROVE RoomForInvoices'
  <2>1. CASE CountForUpdate(r)
    BY <1>7, <2>1 DEF CountForUpdate, rows
  <2>2. CASE CountAll(r)
    BY <1>7, <2>2 DEF CountAll, rows
  <2>3. CASE CountLive(r)
    BY <1>6, <1>7, <2>3 DEF CountLive, rows
  <2>4. CASE ReadOrder(r)
    BY <1>7, <2>4 DEF ReadOrder, rows
  <2>5. CASE WritePrice(r) \/ DeleteOrder(r) \/ WriteTotal(r) \/ NumberInvoice(r)
    BY <1>6, <2>5 DEF WritePrice, DeleteOrder, WriteTotal, NumberInvoice
  <2> QED
    BY <1>4, <1>8, <2>1, <2>2, <2>3, <2>4, <2>5 DEF Step
<1>9. ASSUME NEW r \in Requests, FailRequest(r) PROVE RoomForInvoices'
  BY <1>6, <1>9 DEF FailRequest, rows
<1>10. CASE Restart
  BY <1>1, <1>10 DEF Restart, Issuing, NoRequest, rows
<1>11. CASE UNCHANGED <<request, issued>>
  BY <1>1, <1>11 DEF Issuing
<1> QED
  BY <1>5, <1>8, <1>9, <1>10, <1>11 DEF Next, RestoreOrder, vars, rows

----------------------------------------------------------------------------
(* What is charged. *)

\* Charge over explicit counts and costs, which a step can compare with the next.
Product(n, top, costs) == \E k \in 0 .. top, cost \in costs \cup {0} : n = k * cost

LEMMA ChargeIsProduct ==
    /\ NoPhantomCharge =
         /\ Product(total_price, Cardinality(AllReviews), charged)
         /\ \A i \in 1 .. issued : Product(invoice[i].amount, Cardinality(AllReviews), charged)
    /\ NoPhantomCharge' =
         /\ Product(total_price', Cardinality(AllReviews'), charged')
         /\ \A i \in 1 .. issued' :
              Product(invoice'[i].amount, Cardinality(AllReviews'), charged')
BY DEF NoPhantomCharge, Charge, Product

LEMMA ProductsLast ==
    ASSUME NEW m \in Nat, NEW n \in Nat, m <= n, NEW c, NEW d, c \subseteq d,
           NEW p, Product(p, m, c)
    PROVE  Product(p, n, d)
BY DEF Product

LEMMA ChargeStep ==
    ASSUME RowsOK, RequestsInformed, RoomForInvoices, [Next]_vars, NoPhantomCharge
    PROVE  NoPhantomCharge'
<1> DEFINE top == Cardinality(AllReviews)
           Good(n) == Product(n, Cardinality(AllReviews'), charged')
<1>0. /\ top \in Nat /\ Cardinality(AllReviews') \in Nat
      /\ top <= Cardinality(AllReviews') /\ charged \subseteq charged'
  BY CountGrows, CostsGrow, ReviewsFinite
<1>1. Good(total_price) /\ \A i \in 1 .. issued : Good(invoice[i].amount)
  <2>1. ASSUME NEW n, Product(n, top, charged) PROVE Good(n)
    BY <1>0, <2>1, ProductsLast
  <2> HIDE DEF Good, top
  <2>2. Product(total_price, top, charged)
        /\ \A i \in 1 .. issued : Product(invoice[i].amount, top, charged)
    BY ChargeIsProduct DEF top
  <2> QED
    BY <2>1, <2>2
<1>2. ASSUME Good(total_price'), \A i \in 1 .. issued' : Good(invoice'[i].amount)
      PROVE  NoPhantomCharge'
  BY <1>2, ChargeIsProduct
<1>3. ASSUME UNCHANGED <<total_price, invoice, issued>> PROVE NoPhantomCharge'
  BY <1>1, <1>2, <1>3
<1> HIDE DEF Good
<1>4. ASSUME NEW r \in Requests, Step(r) PROVE NoPhantomCharge'
  <2> DEFINE q == request[r]
  <2>0. Informed(q, top, charged) /\ q.count \in Nat
    BY DEF RequestsInformed, Informed, Request
  <2>1. ASSUME q.pc \in {"total", "price", "issue"}, q.cost \in charged' \cup {0}
        PROVE  Good(q.count * q.cost)
    <3>1. q.count \in 0 .. Cardinality(AllReviews')
      BY <1>0, <2>0, <2>1 DEF Informed
    <3> QED
      BY <2>1, <3>1 DEF Good, Product
  <2>2. CASE WritePrice(r)
    <3>1. q.cost \in charged' /\ q.pc = "price" /\ total_price' = q.count * q.cost
      BY <2>2 DEF WritePrice
    <3> QED
      BY <1>1, <1>2, <2>1, <2>2, <3>1 DEF WritePrice
  <2>3. CASE WriteTotal(r)
    <3>1. q.cost \in charged' \cup {0} /\ q.pc = "total" /\ total_price' = q.count * q.cost
      BY <1>0, <2>0, <2>3 DEF WriteTotal, Informed
    <3> QED
      BY <1>1, <1>2, <2>1, <2>3, <3>1 DEF WriteTotal
  <2>4. CASE InsertInvoice(r)
    <3>1. q.cost \in charged' \cup {0} /\ q.pc = "issue" /\ issued' = issued + 1
      BY <1>0, <2>0, <2>4 DEF InsertInvoice, Informed
    <3>2. issued' \in InvoiceIds /\ issued \in Nat
      <4>1. RowsOK'
        BY RowsStep
      <4> QED
        BY <3>1, <4>1 DEF RowsOK, InvoiceIds
    <3>3. ASSUME NEW i \in 1 .. issued' PROVE Good(invoice'[i].amount)
      <4>1. CASE i = issued'
        <5>1. invoice'[i].amount = q.count * q.cost
          BY <2>4, <3>1, <3>2, <4>1 DEF InsertInvoice, RowsOK
        <5> QED
          BY <2>1, <3>1, <5>1
      <4>2. CASE i # issued'
        <5>1. i \in 1 .. issued /\ invoice'[i] = invoice[i]
          BY <2>4, <3>1, <3>2, <4>2 DEF InsertInvoice, RowsOK, InvoiceIds
        <5> QED
          BY <1>1, <5>1
      <4> QED
        BY <4>1, <4>2
    <3> QED
      BY <1>1, <1>2, <2>4, <3>3 DEF InsertInvoice
  <2>5. CASE NumberInvoice(r)
    <3>1. \A i \in 1 .. issued : invoice'[i].amount = invoice[i].amount
      BY <2>5 DEF NumberInvoice, RowsOK, InvoiceIds, InvoiceRow
    <3> QED
      BY <1>1, <1>2, <2>5, <3>1 DEF NumberInvoice
  <2> QED
    BY <1>3, <1>4, <2>2, <2>3, <2>4, <2>5
       DEF Step, CountForUpdate, DeleteOrder, CountAll, CountLive, ReadOrder, rows
<1>5. ASSUME NEW r \in Requests, NewRequest(r) \/ FailRequest(r) PROVE NoPhantomCharge'
  BY <1>3, <1>5 DEF NewRequest, FailRequest, CreateOrder, UpdateOrder, AddReview, RemoveReview,
     RemoveOrder, GeneratePdf, rows
<1>6. CASE RestoreOrder \/ Restart \/ UNCHANGED vars
  BY <1>3, <1>6 DEF RestoreOrder, Restart, vars, rows
<1> QED
  BY <1>4, <1>5, <1>6 DEF Next

LEMMA TotalsInvInit == Init => TotalsInv
<1> SUFFICES ASSUME Init PROVE TotalsInv
  OBVIOUS
<1>1. Cardinality(AllReviews) \in Nat
  BY ReviewsFinite
<1>2. RowsOK
  <2>1. order \in RowStates /\ review \in [Reviews -> RowStates]
    BY DEF Init, RowStates
  <2>2. NoInvoice \in InvoiceRow
    BY DEF NoInvoice, InvoiceRow
  <2>3. invoice \in [InvoiceIds -> InvoiceRow]
    BY <2>2 DEF Init
  <2>4. issued \in 0 .. MaxInvoices /\ failures \in 0 .. MaxFailures
    BY TotalsConstantsOK DEF Init
  <2>5. request = [r \in Requests |-> request[r]]
    BY DEF Init
  <2>6. /\ unit_cost \in charged \cup {0} /\ total_price \in Nat
        /\ charged \subseteq Costs /\ stale \in BOOLEAN
    BY DEF Init
  <2> QED
    BY <2>1, <2>3, <2>4, <2>5, <2>6 DEF RowsOK
<1>3. RequestsInformed
  BY <1>1, NoRequestInformed DEF Init, RequestsInformed
<1>4. Issuing = {}
  BY DEF Init, Issuing, NoRequest
<1>5. RoomForInvoices
  BY <1>4, FS_EmptySet, TotalsConstantsOK DEF Init, RoomForInvoices
<1>6. NoPhantomCharge
  <2>1. 0 \in 0 .. Cardinality(AllReviews) /\ 0 = 0 * 0
    BY <1>1
  <2>2. total_price = 0 /\ 1 .. issued = {}
    BY DEF Init
  <2> QED
    BY <2>1, <2>2 DEF NoPhantomCharge, Charge
<1> QED
  BY <1>2, <1>3, <1>5, <1>6 DEF TotalsInv

LEMMA TotalsInvAlways == Spec => []TotalsInv
<1>1. TotalsInv /\ [Next]_vars => TotalsInv'
  BY RowsStep, RequestsStep, RoomStep, ChargeStep DEF TotalsInv
<1> QED
  BY <1>1, TotalsInvInit, PTL DEF Spec

\* The total and the invoices stay numbers, and no request counts beyond its table:
\* an invoice always finds a row, however many requests issue one.
THEOREM TotalTypesAreKept == Spec => []TypeOK
BY TotalsInvAlways, InvGivesTypeOK, PTL

\* However many requests change the reviews and the price of an order at once, and
\* whichever of them fail, neither its total nor an invoice charges for more reviews
\* than it has had or at a cost it has never had.
THEOREM NoReviewIsChargedTwice == Spec => []NoPhantomCharge
<1>1. TotalsInv => NoPhantomCharge
  BY DEF TotalsInv
<1> QED
  BY <1>1, TotalsInvAlways, PTL

----------------------------------------------------------------------------
(***************************************************************************)
(* One request at a time.  Only a restoration comes between its steps, and *)
(* that needs a deleted order: what the request counted is still so when   *)
(* it writes.                                                              *)
(***************************************************************************)
All  == Cardinality(AllReviews)
Live == Cardinality(LiveReviews)

NothingYet ==
    order = "none" => /\ AllReviews = {} /\ total_price = 0
                      /\ \A r \in Requests : request[r].pc = "idle"

\* what the request in slot r has counted, and what it is
StillSo(r) ==
    /\ request[r].pc \in {"total", "price"} =>
          request[r].count = All \/ (order = "live" /\ request[r].count = Live)
    /\ request[r].pc \in {"total", "issue"} => request[r].cost = unit_cost
    /\ request[r].pc = "issue" => request[r].count = All
    /\ request[r].kind \in {"create", "addReview"} => request[r].pc \in {"countAll", "total"}
    /\ request[r].pc = "idle" => request[r].kind = "none"

SomeCount == \E k \in 0 .. All : total_price = k * unit_cost

\* a request that adds reviews has not written their price yet
PricedReviews(r) ==
    ~ stale /\ request[r].kind \notin {"create", "addReview"} => total_price >= Live * unit_cost

SerialInv(r) == TotalsInv /\ NothingYet /\ StillSo(r) /\ SomeCount /\ PricedReviews(r)

LEMMA Monotone == \A m, n, c \in Nat : m <= n => m * c <= n * c
OBVIOUS

LEMMA SerialNumbers ==
    ASSUME TotalsInv
    PROVE  /\ All \in Nat /\ Live \in Nat /\ Live <= All /\ unit_cost \in Nat /\ total_price \in Nat
           /\ All * unit_cost \in Nat /\ Live * unit_cost \in Nat
           /\ \A r \in Requests : request[r] \in Request
<1>1. All \in Nat /\ Live \in Nat /\ Live <= All /\ unit_cost \in Nat /\ total_price \in Nat
  BY ReviewsFinite, CostsAreNumbers DEF TotalsInv, RowsOK, All, Live
<1> QED
  BY <1>1, Products DEF TotalsInv, RequestsInformed, Informed

\* the two halves of the property, apart
LEMMA SerialGivesFit ==
    ASSUME NEW r, Requests = {r}, SerialInv(r)
    PROVE  TotalFitsTheReviews
<1> SUFFICES ASSUME Quiet
             PROVE  \E k \in 0 .. Cardinality(AllReviews) :
                       /\ total_price = k * unit_cost
                       /\ ~ stale => k * unit_cost >= Cardinality(LiveReviews) * unit_cost
  BY DEF TotalFitsTheReviews
<1>1. request[r].kind = "none"
  BY DEF SerialInv, StillSo, Quiet, Idle
<1>2. PICK k \in 0 .. All : total_price = k * unit_cost
  BY DEF SerialInv, SomeCount
<1>3. ~ stale => k * unit_cost >= Live * unit_cost
  BY <1>1, <1>2 DEF SerialInv, PricedReviews
<1> QED
  BY <1>2, <1>3 DEF All, Live

LEMMA SerialInit == ASSUME NEW r, Requests = {r} PROVE Init => SerialInv(r)
<1> SUFFICES ASSUME Init PROVE SerialInv(r)
  OBVIOUS
<1>1. TotalsInv
  BY TotalsInvInit
<1>2. AllReviews = {} /\ LiveReviews = {}
  BY DEF Init, AllReviews, LiveReviews
<1>3. All = 0 /\ Live = 0
  BY <1>2, FS_EmptySet DEF All, Live
<1>4. total_price = 0 /\ unit_cost = 0 /\ request[r] = NoRequest
  BY DEF Init
<1> QED
  BY <1>1, <1>2, <1>3, <1>4 DEF SerialInv, NothingYet, StillSo, SomeCount, PricedReviews, NoRequest, Init

\* The rows before and after: nothing but a new review or an order created adds one,
\* and what is removed or comes back is among the rows there were.
LEMMA RowsBetween ==
    ASSUME NEW r, Requests = {r}, SerialInv(r), [Next]_vars
    PROVE  /\ TotalsInv'
           /\ All' \in Nat /\ Live' \in Nat /\ Live' <= All' /\ All <= All'
           /\ unit_cost' \in Nat /\ total_price' \in Nat
<1>1. TotalsInv'
  BY RowsStep, RequestsStep, RoomStep, ChargeStep DEF SerialInv, TotalsInv
<1>2. LiveReviews' \subseteq AllReviews'
  BY DEF LiveReviews, AllReviews
<1>3. All' \in Nat /\ Live' \in Nat /\ Live' <= All' /\ All <= All'
  BY <1>2, CountGrows, FS_Subset, FS_CardinalityType DEF SerialInv, TotalsInv, All, Live
<1>4. unit_cost' \in Nat /\ total_price' \in Nat
  BY <1>1, TotalsConstantsOK DEF TotalsInv, RowsOK
<1> QED
  BY <1>1, <1>3, <1>4

LEMMA SameRows ==
    ASSUME UNCHANGED review
    PROVE  All' = All /\ Live' = Live
BY DEF All, Live, AllReviews, LiveReviews

LEMMA RowsLeave ==
    ASSUME AllReviews' = AllReviews, LiveReviews' \subseteq LiveReviews
    PROVE  All' = All /\ Live' <= Live
BY ReviewsFinite, FS_Subset, FS_CardinalityType DEF All, Live

\* The total and its cost as they were, and a request that has counted nothing.
LEMMA TotalKept ==
    ASSUME NEW r, Requests = {r}, SerialInv(r), [Next]_vars,
           UNCHANGED <<unit_cost, total_price>>, order' # "none"
    PROVE  NothingYet' /\ SomeCount'
<1>1. \A k \in 0 .. All : k \in 0 .. All'
  BY RowsBetween, SerialNumbers DEF SerialInv
<1> QED
  BY <1>1 DEF SerialInv, SomeCount, NothingYet

\* The product of a count and the cost of the order covers the live reviews.
LEMMA ProductsCover ==
    ASSUME NEW n \in Nat, NEW all \in Nat, NEW live \in Nat, live <= all, NEW cost \in Nat,
           n = all \/ n = live
    PROVE  /\ \E k \in 0 .. all : n * cost = k * cost
           /\ n * cost >= live * cost
<1>1. n \in 0 .. all /\ live <= n
  OBVIOUS
<1> QED
  BY <1>1, Monotone

LEMMA SerialStep ==
    ASSUME NEW r, Requests = {r}, SerialInv(r), [Next]_vars
    PROVE  SerialInv(r)'
<1> DEFINE q == request[r]
<1> USE SerialNumbers, RowsBetween DEF SerialInv
<1>0. /\ q \in Request /\ r \in Requests
      /\ \A s \in Requests : s = r
      /\ TotalsInv /\ RowsOK /\ RequestsInformed /\ Informed(q, All, charged)
  BY DEF TotalsInv, RequestsInformed, All
<1>1. ASSUME UNCHANGED <<review, unit_cost, total_price>>,
             UNCHANGED order \/ (order # "none" /\ order' # "none"),
             NothingYet', StillSo(r)',
             stale' \/ (stale' = stale
                        /\ (request[r]'.kind \notin {"create", "addReview"}
                               => q.kind \notin {"create", "addReview"}))
      PROVE  SerialInv(r)'
  <2>1. All' = All /\ Live' = Live
    BY <1>1, SameRows
  <2>2. SomeCount'
    BY <1>1, <2>1 DEF SomeCount
  <2>3. PricedReviews(r)'
    BY <1>1, <2>1 DEF PricedReviews
  <2> QED
    BY <1>1, <2>2, <2>3
<1>2. ASSUME NEW p, request' = [request EXCEPT ![r] = p] PROVE request'[r] = p
  BY <1>0, <1>2 DEF RowsOK
<1>3. ASSUME End(r) PROVE request'[r] = NoRequest
  BY <1>2, <1>3 DEF End
<1>5. q.pc # "idle" => order # "none"
  BY <1>0 DEF NothingYet
<1>6. q.pc \notin {"countAll", "total"} => q.kind \notin {"create", "addReview"}
  BY DEF StillSo
<1>7. NewRequest(r) => SerialInv(r)'
  <2>1. ASSUME NEW S \in SUBSET Reviews, NEW cost \in Costs, CreateOrder(r, S, cost)
        PROVE  SerialInv(r)'
    <3>1. request'[r] = [kind |-> "create", pc |-> "total", count |-> Cardinality(S),
                         cost |-> cost, id |-> 0]
      BY <1>2, <2>1 DEF CreateOrder, Start
    <3>2. AllReviews = {} /\ total_price' = 0 /\ order' = "live" /\ unit_cost' = cost
      BY <2>1 DEF CreateOrder, NothingYet
    <3>3. AllReviews' = S
      BY <2>1, <3>2 DEF CreateOrder, AllReviews
    <3>4. SomeCount'
      BY <3>2 DEF SomeCount
    <3>5. NothingYet' /\ StillSo(r)' /\ PricedReviews(r)'
      BY <3>1, <3>2, <3>3 DEF NothingYet, StillSo, PricedReviews, All
    <3> QED
      BY <3>4, <3>5
  <2>2. ASSUME NEW p, Start(r, p), order # "none", order' = order,
               UNCHANGED <<unit_cost, total_price, stale>>,
               p.pc \in {"recount", "delete", "countAll", "countLive", "read"},
               p.kind \in {"create", "addReview"} => p.pc = "countAll",
               All' = All, Live' <= Live \/ p.kind \in {"create", "addReview"}
        PROVE  SerialInv(r)'
    <3>1. request'[r] = p /\ q.kind = "none"
      BY <1>2, <2>2 DEF Start, Idle, StillSo
    <3>2. NothingYet' /\ SomeCount'
      BY <2>2, TotalKept
    <3>3. StillSo(r)'
      BY <2>2, <3>1 DEF StillSo
    <3>4. ASSUME ~ stale', p.kind \notin {"create", "addReview"}
          PROVE  total_price' >= Live' * unit_cost'
      <4>1. total_price >= Live * unit_cost /\ Live' <= Live
        BY <2>2, <3>1, <3>4 DEF PricedReviews
      <4>2. Live' * unit_cost <= Live * unit_cost /\ Live' * unit_cost \in Nat
        BY <4>1, Monotone, Products
      <4> QED
        BY <2>2, <4>1, <4>2
    <3> QED
      BY <3>1, <3>2, <3>3, <3>4 DEF PricedReviews
  <2>3. ASSUME NEW cost \in Costs, UpdateOrder(r, cost) PROVE SerialInv(r)'
    BY <2>2, <2>3, SameRows DEF UpdateOrder, rows
  <2>4. CASE GeneratePdf(r)
    BY <2>2, <2>4, SameRows DEF GeneratePdf, rows
  <2>5. CASE RemoveOrder(r)
    <3>1. AllReviews' = AllReviews /\ LiveReviews' \subseteq LiveReviews
      BY <2>5 DEF RemoveOrder, AllReviews, LiveReviews
    <3> QED
      BY <2>2, <2>5, <3>1, RowsLeave DEF RemoveOrder
  <2>6. ASSUME NEW v \in Reviews, RemoveReview(r, v) PROVE SerialInv(r)'
    <3>1. AllReviews' = AllReviews /\ LiveReviews' \subseteq LiveReviews /\ v \in AllReviews
      BY <1>0, <2>6 DEF RemoveReview, AllReviews, LiveReviews, RowsOK
    <3>2. order # "none"
      BY <3>1 DEF NothingYet
    <3> QED
      BY <2>2, <2>6, <3>1, <3>2, RowsLeave DEF RemoveReview
  <2>7. ASSUME NEW v \in Reviews, AddReview(r, v) PROVE SerialInv(r)'
    <3>1. request'[r].kind = "addReview" /\ request'[r].pc = "countAll"
      BY <1>2, <2>7 DEF AddReview, Start
    <3>2. NothingYet' /\ SomeCount'
      BY <2>7, TotalKept DEF AddReview
    <3>3. StillSo(r)' /\ PricedReviews(r)'
      BY <3>1 DEF StillSo, PricedReviews
    <3> QED
      BY <3>2, <3>3
  <2> QED
    BY <2>1, <2>3, <2>4, <2>5, <2>6, <2>7 DEF NewRequest
<1>8. Step(r) => SerialInv(r)'
  <2>1. CASE CountForUpdate(r)
    <3>1. request'[r] = [q EXCEPT !.count = All, !.cost = q.cost, !.pc = "price"]
      BY <1>0, <1>2, <2>1 DEF CountForUpdate, All, Counted
    <3>2. All' = All /\ UNCHANGED <<rows, stale>> /\ q.pc = "recount"
      BY <2>1, SameRows DEF CountForUpdate, rows
    <3>3. StillSo(r)'
      BY <1>0, <1>6, <3>1, <3>2 DEF StillSo, Request
    <3>4. NothingYet'
      BY <1>5, <3>2 DEF NothingYet, rows
    <3> QED
      BY <1>0, <1>1, <1>6, <3>1, <3>2, <3>3, <3>4 DEF rows, Request
  <2>2. CASE CountAll(r)
    <3>1. request'[r] = [q EXCEPT !.count = All, !.cost = unit_cost, !.pc = "total"]
      BY <1>0, <1>2, <2>2 DEF CountAll, All, Counted
    <3>2. All' = All /\ UNCHANGED <<rows, stale>> /\ q.pc = "countAll"
      BY <2>2, SameRows DEF CountAll, rows
    <3>3. StillSo(r)'
      BY <1>0, <3>1, <3>2 DEF StillSo, Request, rows
    <3>4. NothingYet'
      BY <1>5, <3>2 DEF NothingYet, rows
    <3> QED
      BY <1>0, <1>1, <3>1, <3>2, <3>3, <3>4 DEF rows, Request
  <2>3. CASE CountLive(r)
    <3>2. All' = All /\ Live' = Live /\ UNCHANGED <<rows, stale>> /\ q.pc = "countLive"
      BY <2>3, SameRows DEF CountLive, rows
    <3>3. \/ request'[r] = [q EXCEPT !.count = Live, !.cost = unit_cost, !.pc = "total"] /\ order = "live"
          \/ request'[r] = NoRequest
      BY <1>0, <1>2, <1>3, <2>3 DEF CountLive, Live, Counted
    <3>4. StillSo(r)' /\ request'[r].kind \notin {"create", "addReview"}
      <4>1. CASE request'[r] = NoRequest
        BY <4>1 DEF StillSo, NoRequest
      <4>2. CASE request'[r] # NoRequest
        <5>1. request'[r].count = Live' /\ request'[r].cost = unit_cost' /\ order' = "live"
              /\ request'[r].pc = "total" /\ request'[r].kind = q.kind
          BY <1>0, <3>2, <3>3, <4>2 DEF Request, rows
        <5> QED
          BY <1>6, <3>2, <5>1 DEF StillSo
      <4> QED
        BY <4>1, <4>2
    <3>5. NothingYet'
      BY <1>5, <3>2 DEF NothingYet, rows
    <3> QED
      BY <1>1, <1>6, <3>2, <3>4, <3>5 DEF rows
  <2>4. CASE ReadOrder(r)
    <3>1. request'[r] = [q EXCEPT !.count = All, !.cost = unit_cost, !.pc = "issue"]
      BY <1>0, <1>2, <2>4 DEF ReadOrder, All, Counted
    <3>2. All' = All /\ UNCHANGED <<rows, stale>> /\ q.pc = "read"
      BY <2>4, SameRows DEF ReadOrder, rows
    <3>3. StillSo(r)'
      BY <1>0, <1>6, <3>1, <3>2 DEF StillSo, Request, rows
    <3>4. NothingYet'
      BY <1>5, <3>2 DEF NothingYet, rows
    <3> QED
      BY <1>0, <1>1, <1>6, <3>1, <3>2, <3>3, <3>4 DEF rows, Request
  <2>5. CASE WritePrice(r) \/ WriteTotal(r)
    <3>1. /\ UNCHANGED <<order, review>> /\ request'[r] = NoRequest
          /\ total_price' = q.count * unit_cost' /\ unit_cost' \in Nat
          /\ q.pc \in {"total", "price"}
      BY <1>3, <2>5 DEF WritePrice, WriteTotal, StillSo
    <3>2. All' = All /\ Live' = Live
      BY <3>1, SameRows
    <3>3. q.count \in Nat /\ (q.count = All \/ q.count = Live)
      BY <1>0, <3>1 DEF StillSo, Request
    <3>4. SomeCount' /\ total_price' >= Live' * unit_cost'
      BY <3>1, <3>2, <3>3, ProductsCover DEF SomeCount
    <3>5. NothingYet' /\ StillSo(r)' /\ PricedReviews(r)'
      BY <1>5, <3>1, <3>4 DEF NothingYet, StillSo, PricedReviews, NoRequest
    <3> QED
      BY <3>4, <3>5
  <2>6. CASE DeleteOrder(r)
    <3>1. request'[r] = NoRequest /\ order' = "deleted" /\ q.pc = "delete"
          /\ UNCHANGED <<review, unit_cost, total_price, stale>>
      BY <1>3, <2>6 DEF DeleteOrder
    <3>2. StillSo(r)' /\ NothingYet'
      BY <3>1 DEF StillSo, NothingYet, NoRequest
    <3> QED
      BY <1>1, <1>5, <1>6, <3>1, <3>2
  <2>7. CASE InsertInvoice(r)
    <3>1. request'[r] = [q EXCEPT !.pc = "number", !.id = issued + 1]
      BY <1>2, <2>7 DEF InsertInvoice
    <3>2. UNCHANGED <<order, review, unit_cost, total_price, stale>> /\ q.pc = "issue"
      BY <2>7 DEF InsertInvoice
    <3>3. StillSo(r)' /\ request'[r].kind = q.kind
      BY <1>0, <1>6, <3>1, <3>2 DEF StillSo, Request
    <3>4. NothingYet'
      BY <1>5, <3>2 DEF NothingYet
    <3> QED
      BY <1>1, <3>2, <3>3, <3>4
  <2>8. CASE NumberInvoice(r)
    <3>1. request'[r] = NoRequest /\ q.pc = "number"
          /\ UNCHANGED <<order, review, unit_cost, total_price, stale>>
      BY <1>3, <2>8 DEF NumberInvoice
    <3>2. StillSo(r)' /\ NothingYet'
      BY <1>5, <3>1 DEF StillSo, NothingYet, NoRequest
    <3> QED
      BY <1>1, <1>6, <3>1, <3>2
  <2> QED
    BY <2>1, <2>2, <2>3, <2>4, <2>5, <2>6, <2>7, <2>8 DEF Step
<1>9. ASSUME FailRequest(r) \/ Restart PROVE SerialInv(r)'
  <2>1. request'[r] = NoRequest /\ UNCHANGED rows
    BY <1>3, <1>9 DEF FailRequest, Restart
  <2>2. stale' \/ (stale' = stale /\ q.kind \notin {"create", "addReview"})
    <3>0. r \in Requests /\ (\A s \in Requests : s = r) /\ stale \in BOOLEAN
      BY <1>0 DEF RowsOK
    <3>1. CASE q.kind \in Totalling
      <4>1. \E s \in Requests : request[s].kind \in Totalling
        BY <3>0, <3>1
      <4> QED
        BY <1>9, <3>1, <4>1, Zenon DEF FailRequest, Restart
    <3>2. CASE q.kind \notin Totalling
      <4>1. ~ \E s \in Requests : request[s].kind \in Totalling
        BY <3>0, <3>2
      <4>2. stale' = stale
        BY <1>9, <3>0, <3>2, <4>1, Zenon DEF FailRequest, Restart
      <4> QED
        BY <3>2, <4>2 DEF Totalling
    <3> QED
      BY <3>1, <3>2
  <2>3. StillSo(r)'
    BY <2>1 DEF StillSo, NoRequest
  <2>4. AllReviews' = AllReviews
    BY <2>1 DEF rows, AllReviews
  <2>5. \A s \in Requests : request'[s].pc = "idle"
    BY <1>0, <2>1 DEF NoRequest
  <2>6. NothingYet'
    BY <2>1, <2>4, <2>5 DEF NothingYet, rows
  <2> QED
    BY <1>1, <2>1, <2>2, <2>3, <2>6 DEF rows
<1>10. ASSUME RestoreOrder PROVE SerialInv(r)'
  <2>1. AllReviews' = AllReviews
    BY <1>10 DEF RestoreOrder, AllReviews
  <2>2. All' = All
    BY <2>1 DEF All
  <2>3. order = "deleted" /\ order' = "live" /\ stale' = TRUE
        /\ UNCHANGED <<unit_cost, total_price, request>>
    BY <1>10 DEF RestoreOrder
  <2>4. StillSo(r)'
    BY <2>2, <2>3 DEF StillSo
  <2>5. NothingYet' /\ SomeCount'
    BY <2>3, TotalKept
  <2> QED
    BY <2>3, <2>4, <2>5 DEF PricedReviews
<1>11. ASSUME UNCHANGED vars PROVE SerialInv(r)'
  <2>1. NothingYet' /\ StillSo(r)'
    BY <1>11, SameRows DEF vars, rows, NothingYet, StillSo, AllReviews
  <2> QED
    BY <1>1, <1>11, <2>1 DEF vars, rows
<1> QED
  BY <1>0, <1>7, <1>8, <1>9, <1>10, <1>11 DEF Next

LEMMA SerialInvAlways == ASSUME NEW CONSTANT r, Requests = {r} PROVE Spec => []SerialInv(r)
<1>1. Init => SerialInv(r)
  BY SerialInit
<1>2. SerialInv(r) /\ [Next]_vars => SerialInv(r)'
  BY SerialStep
<1> QED
  BY <1>1, <1>2, PTL DEF Spec

\* One request at a time, an order that nobody is working on costs a whole number of its
\* reviews at its unit cost, and at least its live ones unless it came back or a request
\* was cut off: what each handler counted is still so when it writes the product.
THEOREM SerialTotalsFit ==
    ASSUME NEW CONSTANT r, Requests = {r}
    PROVE  Spec => []TotalFitsTheReviews
<1>1. SerialInv(r) => TotalFitsTheReviews
  BY SerialGivesFit
<1> QED
  BY <1>1, SerialInvAlways, PTL

\* One request at a time, an invoice never asks for less than the total of the order:
\* it is for every review, and the total is for some of them at the same cost.
THEOREM SerialInvoicesCover ==
    ASSUME NEW CONSTANT r, Requests = {r}
    PROVE  Spec => InvoicesCoverTheTotal
<1>1. ASSUME SerialInv(r), [Next]_vars, issued' # issued
      PROVE  invoice'[issued'].amount >= total_price
  <2> USE <1>1, SerialNumbers DEF SerialInv
  <2>1. InsertInvoice(r)
    BY DEF Next, vars, rows, NewRequest, CreateOrder, UpdateOrder, AddReview, RemoveReview,
       RemoveOrder, GeneratePdf, Step, CountForUpdate, WritePrice, DeleteOrder, CountAll, CountLive,
       WriteTotal, ReadOrder, NumberInvoice, FailRequest, RestoreOrder, Restart
  <2>2. issued' = issued + 1 /\ RowsOK'
    BY <2>1, RowsBetween DEF InsertInvoice, TotalsInv
  <2>3. issued' \in InvoiceIds
    BY <2>2 DEF RowsOK, InvoiceIds, TotalsInv
  <2>4. invoice'[issued'].amount = All * unit_cost
    BY <2>1, <2>2, <2>3 DEF InsertInvoice, StillSo, RowsOK, TotalsInv
  <2>5. PICK k \in 0 .. All : total_price = k * unit_cost
    BY DEF SomeCount
  <2>6. k * unit_cost <= All * unit_cost
    BY <2>5, Monotone
  <2> QED
    BY <2>4, <2>5, <2>6
<1>2. SerialInv(r) /\ [Next]_vars => [issued' # issued => invoice'[issued'].amount >= total_price]_vars
  BY <1>1
<1> QED
  BY <1>2, SerialInvAlways, PTL DEF Spec, InvoicesCoverTheTotal
=============================================================================
