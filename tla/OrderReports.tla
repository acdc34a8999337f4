---------------------------- MODULE OrderReports ----------------------------
(***************************************************************************)
(* What the lists, the dashboard and the reports say of the orders.  The    *)
(* queries are operators on the tables; a report that reads twice is two    *)
(* steps, between which users may write.                                    *)
(***************************************************************************)
EXTENDS ReportDates, FiniteSets

CONSTANTS Orders, Reviews, Brands, Sellers,
          OrderOf,        \* [Reviews -> Orders]
          OrderRow,       \* the columns of an order that never change here
          Says,           \* the keywords found in a column of text: Says[o][f]
          Keywords,
          Args,           \* what users ask the lists and the dashboard for
          ReportArgs,     \* what users ask the report for
          Recordable,     \* the payment statuses users record
          Newest          \* how many orders the dashboard shows, 5 in the code

VARIABLES order, review, report
orderReportVars == <<order, review, report>>

PaymentStatus == {"NEW", "SENT_INVOICE", "PR1", "PR2", "PAID", "UNPAID"}
ReviewStatus == {"NEU", "BEAUFTRAGT", "WEITERLEITUNG", "GESCHEITERT",
                 "WIDERSPRUCH", "GELOSCHT"}
OrderFilter == {"CLIENT", "ORDER_ID", "SELLER", "COMPANY", "PAYMENT_STATUS",
                "REVIEW_STATUS", "REVIEWER_NAME", "REMARKS", "none"}
SellerFilter == OrderFilter \ {"SELLER"}

Scopes == Sellers \cup {NotGiven}  \* only an administrator may leave the seller out
OrderColumns == [brand : Brands, seller : Sellers, clientSeller : Sellers, day : Days,
                 orderDate : Int, reviewDay : Int, cost : Int, total_price : Int]
Asking == {a \in [from : Days \cup {NotGiven}, to : Days \cup {NotGiven},
                  brand : Brands \cup {NotGiven}] : ~Rejected(a)}

ASSUME OrderReportsOK ==
    /\ IsFiniteSet(Orders) /\ IsFiniteSet(Reviews) /\ IsFiniteSet(Sellers)
    /\ NotGiven \notin Sellers
    /\ OrderOf \in [Reviews -> Orders]
    /\ OrderRow \in [Orders -> OrderColumns]
    /\ Recordable \subseteq PaymentStatus
    /\ Args \subseteq Asking
    /\ \A a \in ReportArgs :
          a.seller \in Scopes /\ [from |-> a.from, to |-> a.to, brand |-> a.brand] \in Asking

----------------------------------------------------------------------------
\* The tables

Rows == {o \in Orders : order[o].life # "none"}      \* the plain client
LiveRows == {o \in Orders : order[o].life = "live"}  \* the soft-delete client
DeletedRows == Rows \ LiveRows

ReviewsOf(o) == {v \in Reviews : OrderOf[v] = o /\ review[v].life # "none"}
LiveReviewsOf(o) == {v \in ReviewsOf(o) : review[v].life = "live"}

OfBrand(S, code) == {o \in S : code \in {NotGiven, OrderRow[o].brand}}
CreatedIn(S, range) == {o \in S : OrderRow[o].day \in range}
OfSeller(S, seller) == {o \in S : seller \in {NotGiven, OrderRow[o].seller}}
DaysOfOrders(S) == {OrderRow[o].day : o \in S}

CostOfReviews(R) == SumFunction([v \in R |-> OrderRow[OrderOf[v]].cost])
Gone(R) == {v \in R : review[v].status = "GELOSCHT"}

\* one counter for each day of the range; what falls outside is not counted
PerDay(S, dayOf, range) == [d \in range |-> Cardinality({x \in S : dayOf[x] = d})]
SumOfDays(counts) == SumFunction(counts)

OrderDay == [o \in Orders |-> OrderRow[o].day]
ReviewDay == [v \in Reviews |-> OrderRow[OrderOf[v]].reviewDay]

----------------------------------------------------------------------------
\* dashboard.service.ts: the plain client, so deleted rows count

DashboardOrders(a) == CreatedIn(OfBrand(Rows, a.brand), DashboardRange(a))
ReviewsOfAll(S) == UNION {ReviewsOf(o) : o \in S}

AdminGraph(a) ==
    LET all == ReviewsOfAll(DashboardOrders(a))
    IN  [receivedAmount |-> CostOfReviews(Gone(all)),
         unpaidAmount |-> CostOfReviews(all \ Gone(all)),
         paidReviews |-> PerDay(Gone(all), ReviewDay, DashboardRange(a)),
         unpaidReviews |-> PerDay(all \ Gone(all), ReviewDay, DashboardRange(a))]

\* a mutant: the revenue read with the soft-delete client
RevenueOfTheLive(a) ==
    SumFunction([o \in DashboardOrders(a) \cap LiveRows |->
                    OrderRow[o].cost * Cardinality(Gone(LiveReviewsOf(o)))])

Revenue(a) ==
    SumFunction([o \in DashboardOrders(a) |->
                    OrderRow[o].cost * Cardinality(Gone(ReviewsOf(o)))])

Commission(a, seller) ==
    LET all == ReviewsOfAll(OfSeller(DashboardOrders(a), seller))
    IN  [current |-> CostOfReviews(Gone(all)), unpaid |-> CostOfReviews(all \ Gone(all))]

OrderPercentage(a) ==
    LET S == DashboardOrders(a)
    IN  [st \in PaymentStatus \ {"UNPAID"} |->
            Cardinality({o \in S : order[o].status = st})]

\* the newest five, with what their reviews have earned
OrderInfo(a, seller) ==
    LET S == OfSeller(DashboardOrders(a), seller)
        newer(o) == {p \in S : OrderRow[p].day > OrderRow[o].day}
        shown == {o \in S : Cardinality(newer(o)) < Newest}
    IN  [o \in shown |-> CostOfReviews(Gone(ReviewsOf(o)))]

SellerGraph(a, seller) ==
    LET S == {o \in OfSeller(DashboardOrders(a), seller) : order[o].status = "NEW"}
    IN  PerDay(S, [o \in Orders |-> OrderRow[o].orderDate], DashboardRange(a))

----------------------------------------------------------------------------
\* order-reports.service.ts: the soft-delete client

ReportedIn(a, seller) ==
    CreatedIn(OfSeller(OfBrand(LiveRows, a.brand), seller),
              ReportRange(a, DaysOfOrders(LiveRows)))

\* a mutant: the payments also count the reviews that were removed
PaymentsOfAllReviews(S) ==
    [st \in PaymentStatus |->
        LET group == {o \in S : order[o].status = st}
        IN  [count |-> Cardinality(group),
             amount |-> SumFunction([o \in group |->
                            OrderRow[o].cost * Cardinality(Gone(ReviewsOf(o)))])]]

GraphOfPayments(S) ==
    [st \in PaymentStatus |->
        LET group == {o \in S : order[o].status = st}
        IN  [count |-> Cardinality(group),
             amount |-> SumFunction([o \in group |->
                            OrderRow[o].cost * Cardinality(Gone(LiveReviewsOf(o)))])]]

GraphOfReviews(S) ==
    [st \in ReviewStatus |->
        LET group == {v \in Reviews : /\ OrderOf[v] \in S
                                      /\ v \in LiveReviewsOf(OrderOf[v])
                                      /\ review[v].status = st}
        IN  [count |-> Cardinality(group), amount |-> CostOfReviews(group)]]

----------------------------------------------------------------------------
\* find-many-orders.helper.ts: GET /orders and its search

Listed(a, showDeleted) ==
    LET S == IF showDeleted THEN DeletedRows ELSE LiveRows
    IN  CreatedIn(OfBrand(S, a.brand), ListRange(a, DaysOfOrders(OfBrand(S, a.brand))))

Text(o, fields, kw) == \E f \in fields : kw \in Says[o][f]

\* some: over all reviews, deleted ones too, since the client is the plain one
HasReview(o, kw) == \E v \in ReviewsOf(o) : review[v].status = kw

Meets(o, filter, kw) ==
    CASE filter = "CLIENT" -> Text(o, {"clientName", "clientEmail"}, kw)
      [] filter = "ORDER_ID" -> Text(o, {"id"}, kw)
      [] filter = "SELLER" -> Text(o, {"sellerName", "sellerEmail", "seller_email"}, kw)
      [] filter = "COMPANY" -> Text(o, {"company"}, kw)
      [] filter = "PAYMENT_STATUS" -> order[o].status = kw
      [] filter = "REVIEW_STATUS" -> HasReview(o, kw)
      [] filter = "REVIEWER_NAME" -> ReviewsOf(o) # {} /\ Text(o, {"reviewer"}, kw)
      [] filter = "REMARKS" -> Text(o, {"remarks"}, kw)

\* without a filter: the client and its seller must both match
AllQuery(o, kw) ==
    \/ /\ Text(o, {"sellerName", "sellerEmail", "alternateEmail"}, kw)
       /\ Text(o, {"clientName", "clientEmail"}, kw)
    \/ Text(o, {"remarks", "company"}, kw)

SearchOrdersForSeller(o, kw) ==
    Text(o, {"clientName", "clientEmail", "remarks", "company", "seller_email"}, kw)

FindManyOrders(list, filter, kw) ==
    {o \in list :
        IF filter = "none" THEN AllQuery(o, kw) ELSE Meets(o, filter, kw)}

OfClientsSeller(S, seller) == {o \in S : OrderRow[o].clientSeller = seller}

\* a mutant: every filter replaces the condition on the client's seller
EveryFilterReplaces(list, filter, kw, seller) ==
    IF filter = "none" THEN {o \in OfClientsSeller(list, seller) : SearchOrdersForSeller(o, kw)}
    ELSE {o \in list : Meets(o, filter, kw)}

\* the filter CLIENT replaces the condition on the client's seller
FindManyOrdersForSeller(list, filter, kw, seller) ==
    LET own == OfClientsSeller(list, seller)
    IN  CASE filter = "CLIENT" -> {o \in list : Meets(o, filter, kw)}
          [] filter = "none" -> {o \in own : SearchOrdersForSeller(o, kw)}
          [] OTHER -> {o \in own : Meets(o, filter, kw)}

SumOfPrices(S) == SumFunction([o \in S |-> OrderRow[o].total_price])

\* order_revenue_summary, in tenths
Summary(S) ==
    [total |-> 10 * SumOfPrices(S),
     unpaid |-> 10 * SumOfPrices({o \in S : order[o].status = "UNPAID"}),
     paidCommission |-> 3 * SumOfPrices({o \in S : order[o].status = "PAID"}),
     currentCommission |-> 3 * SumOfPrices(S)]

----------------------------------------------------------------------------
\* What users write between two reads

Idle == [pc |-> "idle"]
Touch(o) == report' = IF report.pc = "idle" THEN report
                      ELSE [report EXCEPT !.touched = @ \cup {o}]

CreateOrder(o) ==
    /\ order[o].life = "none"
    /\ order' = [order EXCEPT ![o] = [life |-> "live", status |-> "NEW"]]
    /\ Touch(o)
    /\ UNCHANGED review

RecordPayment(o, st) ==
    /\ order[o].life = "live" /\ order[o].status # st
    /\ order' = [order EXCEPT ![o].status = st]
    /\ Touch(o)
    /\ UNCHANGED review

\* the reviews of an order are deleted and restored with it
SetLife(o, from, to) ==
    /\ order[o].life = from
    /\ order' = [order EXCEPT ![o].life = to]
    /\ review' = [v \in Reviews |->
                     IF v \in ReviewsOf(o) THEN [review[v] EXCEPT !.life = to] ELSE review[v]]
    /\ Touch(o)

RemoveOrder(o) == SetLife(o, "live", "deleted")
RestoreOrder(o) == SetLife(o, "deleted", "live")

WriteReview(v, row) ==
    /\ order[OrderOf[v]].life = "live"
    /\ review' = [review EXCEPT ![v] = row]
    /\ Touch(OrderOf[v])
    /\ UNCHANGED order

AddReview(v) == review[v].life = "none" /\ WriteReview(v, [life |-> "live", status |-> "NEU"])
FinishReview(v) == /\ review[v] = [life |-> "live", status |-> "NEU"]
                   /\ WriteReview(v, [life |-> "live", status |-> "GELOSCHT"])
RemoveReview(v) == review[v].life = "live" /\ WriteReview(v, [review[v] EXCEPT !.life = "deleted"])

----------------------------------------------------------------------------
\* orderReport: the range, the orders and the paid ones are three reads

SellerScope(a) == OfSeller(OfBrand(LiveRows, a.brand), a.seller)

BaseReport(a) ==
    /\ report.pc = "idle"
    /\ report' = [pc |-> "orders", args |-> a, touched |-> {},
                  range |-> ReportRange(a, DaysOfOrders(LiveRows))]
    /\ UNCHANGED <<order, review>>

FindOrders ==
    /\ report.pc = "orders"
    /\ report' = [pc |-> "paid", args |-> report.args, touched |-> {}, range |-> report.range,
                  found |-> CreatedIn(SellerScope(report.args), report.range)]
    /\ UNCHANGED <<order, review>>

\* a mutant: the paid orders are read without brand and seller
FindAllPaidOrders ==
    /\ report.pc = "paid"
    /\ LET paid == {o \in CreatedIn(LiveRows, report.range) : order[o].status = "PAID"}
       IN  report' = [pc |-> "done", range |-> report.range, touched |-> report.touched,
                      found |-> report.found, paid |-> paid,
                      orders |-> PerDay(report.found, OrderDay, report.range),
                      paidOrders |-> PerDay(paid, OrderDay, report.range)]
    /\ UNCHANGED <<order, review>>

FindPaidOrders ==
    /\ report.pc = "paid"
    /\ LET paid == {o \in CreatedIn(SellerScope(report.args), report.range) :
                        order[o].status = "PAID"}
       IN  report' = [pc |-> "done", range |-> report.range, touched |-> report.touched,
                      found |-> report.found, paid |-> paid,
                      orders |-> PerDay(report.found, OrderDay, report.range),
                      paidOrders |-> PerDay(paid, OrderDay, report.range)]
    /\ UNCHANGED <<order, review>>

Answer == report.pc = "done" /\ report' = Idle /\ UNCHANGED <<order, review>>

NoRow == [life |-> "none", status |-> "none"]

OrderTablesInit ==
    /\ order = [o \in Orders |-> NoRow]
    /\ review = [v \in Reviews |-> NoRow]

OrderReportsInit == OrderTablesInit /\ report = Idle

OrderReportsNext ==
    \/ \E o \in Orders : \/ CreateOrder(o) \/ RemoveOrder(o) \/ RestoreOrder(o)
                         \/ \E st \in Recordable : RecordPayment(o, st)
    \/ \E v \in Reviews : AddReview(v) \/ FinishReview(v) \/ RemoveReview(v)
    \/ \E a \in ReportArgs : BaseReport(a)
    \/ FindOrders \/ FindPaidOrders \/ Answer

OrderReportsSpec == OrderReportsInit /\ [][OrderReportsNext]_orderReportVars

----------------------------------------------------------------------------
\* Properties

\* Three services add up the same money in three ways: the revenue of the dashboard, the
\* received amount of its graph and the commissions of all sellers are one figure for every
\* range and brand; what a seller's newest orders have earned is what all have but the others;
\* and no graph shows a review or an order twice.
RevenueIsOneFigure ==
    report.pc = "idle" => \A a \in Args :
        LET graph == AdminGraph(a)
            of(s) == OfSeller(DashboardOrders(a), s)
        IN  /\ graph.receivedAmount = Revenue(a)
            /\ SumFunction([s \in Sellers |-> Commission(a, s).current]) = Revenue(a)
            /\ SumFunction([s \in Sellers |-> Commission(a, s).unpaid]) = graph.unpaidAmount
            /\ \A s \in Sellers :
                  LET shown == OrderInfo(a, s)
                      others == of(s) \ DOMAIN shown
                  IN  SumFunction(shown) + CostOfReviews(Gone(ReviewsOfAll(others)))
                        = Commission(a, s).current
            /\ SumOfDays(graph.paidReviews) <= Cardinality(Gone(Reviews))
            /\ SumFunction([s \in Sellers |-> SumOfDays(SellerGraph(a, s))])
                 <= OrderPercentage(a)["NEW"]

\* The two graphs of the report divide its orders and their reviews without rest, and the
\* amounts by payment status add up to the amount of the reviews that are GELOSCHT.
GraphsCoverTheReport ==
    report.pc = "idle" => \A a \in Args : \A s \in Scopes :
        LET S == ReportedIn(a, s)
            payments == GraphOfPayments(S)
            reviews == GraphOfReviews(S)
        IN  /\ SumFunction([st \in PaymentStatus |-> payments[st].count]) = Cardinality(S)
            /\ SumFunction([st \in ReviewStatus |-> reviews[st].count])
                  = Cardinality(UNION {LiveReviewsOf(o) : o \in S})
            /\ SumFunction([st \in PaymentStatus |-> payments[st].amount])
                  = reviews["GELOSCHT"].amount

SearchesIn(list, kw) ==
    LET found(f) == FindManyOrders(list, f, kw)
    IN  /\ \A f \in OrderFilter : found(f) \subseteq list
        /\ found("COMPANY") \cup found("REMARKS") \subseteq found("none")
        /\ \A s \in Sellers :
              LET own == OfClientsSeller(list, s)
                  mine(f) == FindManyOrdersForSeller(list, f, kw, s)
              IN  /\ \A f \in SellerFilter \ {"CLIENT"} : mine(f) \subseteq own
                  /\ own \cap UNION {mine(f) : f \in {"CLIENT", "COMPANY", "REMARKS"}}
                        \subseteq mine("none")

SummaryOf(list) ==
    LET with(st) == Summary(FindManyOrders(list, "PAYMENT_STATUS", st))
    IN  /\ Summary(list).unpaid = with("UNPAID").total
        /\ Summary(list).paidCommission = with("PAID").currentCommission

\* A search narrows the list it is made in: no filter and no keyword adds an order of another
\* brand, range or, but for the filter CLIENT, another seller's client; a search without a
\* filter finds what the searches by company and remarks (for a seller, by client too) find; and
\* the summary of a list has the figures of the searches by payment status in it.
SearchesNarrowTheList ==
    report.pc = "idle" => \A a \in Args : \A deleted \in BOOLEAN :
        /\ SummaryOf(Listed(a, deleted))
        /\ \A kw \in Keywords : SearchesIn(Listed(a, deleted), kw)

\* The orders and the paid ones of a report are read one after the other: an order that is
\* counted as paid but not as an order was written in between; and whatever happens, every
\* order that was read has a day to be counted on.
PaidOrdersWereSeen ==
    report.pc = "done" =>
        /\ report.paid \ report.found \subseteq report.touched
        /\ SumOfDays(report.orders) = Cardinality(report.found)
        /\ SumOfDays(report.paidOrders) = Cardinality(report.paid)
=============================================================================
