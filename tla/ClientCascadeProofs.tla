------------------------- MODULE ClientCascadeProofs -------------------------
(***************************************************************************)
(* Proofs about ClientCascade, for every set of clients, companies,        *)
(* orders, tasks and request slots and every bound on failures: the type   *)
(* invariant, that the handler of a removed client misses no order, and,   *)
(* of requests that come one at a time, that they finish what they began.  *)
(***************************************************************************)
EXTENDS ClientCascade, TLAPS

(***************************************************************************)
(* What a request in flight knows: the client it removes, and that it is   *)
(* done with every order unless its event handler is at work.              *)
(***************************************************************************)
Steady(q) ==
    /\ q.kind = "none" => q = NoRequest
    /\ q.kind \in {"removeClient", "restoreClient"} => q.of \in Clients
    /\ q.pc \in {"info", "client"} => q.kind = "removeClient"
    /\ q.pc = "info" => q.cascade = "done"
    /\ q.pc = "create" => q.of \in Orders
    /\ q.pc = "followUp" => q.of \in Tasks
    /\ q.cascade # "run" => \A o \in Orders : q.stage[o] = "done"
    /\ \A o \in Orders : q.found[o] \subseteq TasksOf(o)

RowsOK ==
    /\ client \in [Clients -> [row : BOOLEAN, info : BOOLEAN]]
    /\ company \in [Companies -> BOOLEAN]
    /\ order \in [Orders -> RowStates]
    /\ reviews \in [Orders -> BOOLEAN]
    /\ task \in [Tasks -> RowStates]
    /\ half \in [Tasks -> [Sides -> BOOLEAN]]

HistoryOK ==
    /\ failures \in 0 .. MaxFailures
    /\ strays \subseteq Orders
    /\ interrupted \subseteq Clients \cup Orders

RequestOK(q) == q \in Request /\ Steady(q)
RequestsOK == /\ request = [r \in Requests |-> request[r]]
              /\ \A r \in Requests : RequestOK(request[r])

CascadeInv == RowsOK /\ HistoryOK /\ RequestsOK

LEMMA InvGivesTypeOK == CascadeInv => TypeOK
BY DEF CascadeInv, RowsOK, HistoryOK, RequestsOK, RequestOK, Steady, TypeOK

----------------------------------------------------------------------------
(* The request records. *)

LEMMA NoRequestOK == RequestOK(NoRequest)
BY DEF RequestOK, Request, Steady, NoRequest, Stages

\* The requests that have not come to an order yet.
LEMMA NewRequestOK ==
    /\ \A c \in Clients :
         /\ RequestOK([On("removeClient") EXCEPT !.of = c, !.pc = "info"])
         /\ RequestOK([On("restoreClient") EXCEPT !.of = c, !.cascade = "list"])
    /\ \A k \in Companies :
         RequestOK([On("restoreCompany") EXCEPT !.of = k, !.cascade = "list"])
    /\ \A o \in Orders : RequestOK([On("createOrder") EXCEPT !.of = o, !.pc = "create"])
    /\ \A t \in Tasks : RequestOK([On("followUp") EXCEPT !.of = t, !.pc = "followUp"])
BY ZenonT(60) DEF RequestOK, Request, Steady, On, NoRequest, AllKinds, Removals, Restorations, Stages

\* A request that is given its orders.
LEMMA WorkingOK ==
    ASSUME NEW q, RequestOK(q), q.kind # "none", q.pc # "info", NEW S
    PROVE  RequestOK(Working(q, S))
<1> DEFINE stage == [o \in Orders |-> IF o \in S THEN FirstStage(q.kind) ELSE "done"]
           w == [q EXCEPT !.cascade = "run", !.stage = stage]
<1>1. Working(q, S) = w
  BY DEF Working
<1>2. FirstStage(q.kind) \in Stages
  BY DEF FirstStage, Stages
<1>3. stage \in [Orders -> Stages \cup {"done"}]
  BY <1>2
<1> HIDE DEF stage
<1>4. w \in Request
  BY <1>3 DEF RequestOK, Request
<1>5. Steady(w)
  BY <1>4 DEF RequestOK, Request, Steady
<1> QED
  BY <1>1, <1>4, <1>5 DEF RequestOK

\* A request on orders only has no client to remember.
LEMMA NewWorkOK ==
    ASSUME NEW kind \in {"removeOrder", "restoreOrder", "restoreAll"}, NEW S
    PROVE  RequestOK(Working(On(kind), S))
<1>1. On(kind) \in Request /\ On(kind).kind = kind /\ On(kind).pc = "done"
  BY DEF On, NoRequest, Request, AllKinds, Removals, Restorations, Stages
<1>2. Steady(On(kind))
  BY DEF On, NoRequest, Steady
<1> QED
  BY <1>1, <1>2, WorkingOK DEF RequestOK

\* The next stage of one order.
LEMMA StageOK ==
    ASSUME NEW q, RequestOK(q), NEW o \in Orders, q.stage[o] # "done",
           NEW stage \in Stages \cup {"done"}, NEW S \in SUBSET TasksOf(o)
    PROVE  /\ RequestOK([q EXCEPT !.stage[o] = stage])
           /\ RequestOK([q EXCEPT !.stage[o] = stage, !.found[o] = S])
<1> DEFINE s == [q EXCEPT !.stage[o] = stage]
           f == [q EXCEPT !.stage[o] = stage, !.found[o] = S]
<1>1. q.cascade = "run" /\ q.kind # "none" /\ S \subseteq Tasks
  BY DEF RequestOK, Steady, NoRequest, TasksOf
<1>2. s \in Request /\ f \in Request
  BY <1>1 DEF RequestOK, Request
<1>3. Steady(s) /\ Steady(f)
  BY <1>1, <1>2 DEF RequestOK, Request, Steady
<1> QED
  BY <1>2, <1>3 DEF RequestOK

\* Only one slot changes in a step.
LEMMA OneSlot ==
    ASSUME RequestsOK, NEW r \in Requests, NEW q, RequestOK(q),
           request' = [request EXCEPT ![r] = q]
    PROVE  RequestsOK'
<1>1. \A p \in Requests : request'[p] = IF p = r THEN q ELSE request[p]
  BY DEF RequestsOK
<1>2. \A p \in Requests : RequestOK(request'[p])
  BY <1>1 DEF RequestsOK
<1>3. request' = [p \in Requests |-> request'[p]]
  BY DEF RequestsOK
<1>4. RequestsOK' = ( /\ request' = [p \in Requests |-> request'[p]]
                      /\ \A p \in Requests : RequestOK(request'[p]) )
  BY DEF RequestsOK, RequestOK, Request, Steady, NoRequest, TasksOf
<1> QED
  BY <1>2, <1>3, <1>4

LEMMA StageToOK ==
    ASSUME RequestsOK, NEW r \in Requests, NEW o \in Orders, request[r].stage[o] # "done",
           NEW stage \in Stages \cup {"done"}, StageTo(r, o, stage)
    PROVE  RequestsOK'
<1> DEFINE q == [request[r] EXCEPT !.stage[o] = stage]
<1>1. RequestOK(q)
  BY StageOK DEF RequestsOK
<1>2. request' = [request EXCEPT ![r] = q]
  BY DEF StageTo, RequestsOK
<1> QED
  BY <1>1, <1>2, OneSlot

LEMMA FoundOK ==
    ASSUME RequestsOK, NEW r \in Requests, NEW o \in Orders, request[r].stage[o] # "done",
           NEW stage \in Stages \cup {"done"}, NEW S \in SUBSET TasksOf(o),
           request' = [request EXCEPT ![r].stage[o] = stage, ![r].found[o] = S]
    PROVE  RequestsOK'
<1> DEFINE q == [request[r] EXCEPT !.stage[o] = stage, !.found[o] = S]
<1>1. RequestOK(q)
  BY StageOK DEF RequestsOK
<1>2. request' = [request EXCEPT ![r] = q]
  BY DEF RequestsOK
<1> QED
  BY <1>1, <1>2, OneSlot

LEMMA BecomeOK ==
    ASSUME RequestsOK, NEW r \in Requests, NEW q, RequestOK(q), Become(r, q)
    PROVE  RequestsOK'
BY OneSlot, NoRequestOK DEF Become

----------------------------------------------------------------------------
(* The type invariant. *)

LEMMA CascadeInvInit == Init => CascadeInv
<1> SUFFICES ASSUME Init PROVE CascadeInv
  OBVIOUS
<1>1. RowsOK
  BY DEF Init, RowsOK, RowStates, Sides
<1>2. HistoryOK
  BY CascadeConstantsOK DEF Init, HistoryOK
<1>3. RequestsOK
  BY NoRequestOK DEF Init, RequestsOK
<1> QED
  BY <1>1, <1>2, <1>3 DEF CascadeInv

LEMMA NewRequestsStep ==
    ASSUME RequestsOK, NEW r \in Requests, NewRequest(r)
    PROVE  RequestsOK'
<1>1. ASSUME NEW q, RequestOK(q), Start(r, q) PROVE RequestsOK'
  BY <1>1, OneSlot DEF Start
<1>2. ASSUME NEW c \in Clients, RemoveClient(r, c) PROVE RequestsOK'
  BY <1>1, <1>2, NewRequestOK DEF RemoveClient
<1>3. ASSUME NEW c \in Clients, RestoreClient(r, c) PROVE RequestsOK'
  BY <1>1, <1>3, NewRequestOK DEF RestoreClient
<1>4. ASSUME NEW k \in Companies, RestoreCompany(r, k) PROVE RequestsOK'
  BY <1>1, <1>4, NewRequestOK DEF RestoreCompany
<1>5. ASSUME NEW o \in Orders, CreateOrder(r, o) PROVE RequestsOK'
  BY <1>1, <1>5, NewRequestOK DEF CreateOrder
<1>6. ASSUME NEW t \in Tasks, FollowUp(r, t) PROVE RequestsOK'
  BY <1>1, <1>6, NewRequestOK DEF FollowUp
<1>7. ASSUME NEW o \in Orders, RemoveOrder(r, o) \/ RestoreOrder(r, o) PROVE RequestsOK'
  BY <1>1, <1>7, NewWorkOK DEF RemoveOrder, RestoreOrder
<1>8. ASSUME RestoreAll(r) PROVE RequestsOK'
  BY <1>1, <1>8, NewWorkOK DEF RestoreAll
<1> QED
  BY <1>2, <1>3, <1>4, <1>5, <1>6, <1>7, <1>8 DEF NewRequest

LEMMA OrderStepRequests ==
    ASSUME RequestsOK, NEW r \in Requests, NEW o \in Orders, OrderStep(r, o)
    PROVE  RequestsOK'
<1> USE DEF At, Stages
<1>1. CASE DeleteReviews(r, o)
  BY <1>1, StageToOK DEF DeleteReviews
<1>2. CASE RestoreRow(r, o)
  BY <1>2, StageToOK DEF RestoreRow
<1>3. CASE FindTasks(r, o)
  <2> DEFINE S == {t \in TasksOf(o) : task[t] = IF Removing(r) THEN "live" ELSE "deleted"}
  <2>1. S \in SUBSET TasksOf(o)
    OBVIOUS
  <2> QED
    BY <1>3, <2>1, FoundOK DEF FindTasks, TasksAt
<1>4. ASSUME NEW side \in Sides, MarkHalves(r, o, side) PROVE RequestsOK'
  <2>1. NextStage(side) \in Stages /\ side # "done"
    BY DEF NextStage, Sides
  <2> QED
    BY <1>4, <2>1, StageToOK DEF MarkHalves
<1>5. CASE MarkTasks(r, o)
  <2>1. request' = [request EXCEPT ![r].stage[o] = IF Removing(r) THEN "order" ELSE "done",
                                   ![r].found[o] = {}]
    BY <1>5, ZenonT(60) DEF MarkTasks, RequestsOK, RequestOK, Request
  <2>2. (IF Removing(r) THEN "order" ELSE "done") \in Stages \cup {"done"} /\ {} \in SUBSET TasksOf(o)
    OBVIOUS
  <2>3. request[r].stage[o] # "done"
    BY <1>5 DEF MarkTasks
  <2> QED
    BY <2>1, <2>2, <2>3, FoundOK
<1>6. CASE DeleteOrder(r, o)
  BY <1>6, StageToOK DEF DeleteOrder
<1> QED
  BY <1>1, <1>2, <1>3, <1>4, <1>5, <1>6 DEF OrderStep

\* A request, or its event handler, that ends.
LEMMA EndsOK ==
    ASSUME NEW q, RequestOK(q), q.kind # "none"
    PROVE  /\ RequestOK([q EXCEPT !.pc = "done"])
           /\ (\A o \in Orders : q.stage[o] = "done") => RequestOK([q EXCEPT !.cascade = "done"])
<1>1. [q EXCEPT !.pc = "done"] \in Request /\ [q EXCEPT !.cascade = "done"] \in Request
  BY DEF RequestOK, Request
<1>2. Steady([q EXCEPT !.pc = "done"])
  BY DEF RequestOK, Request, Steady
<1>3. (\A o \in Orders : q.stage[o] = "done") => Steady([q EXCEPT !.cascade = "done"])
  BY DEF RequestOK, Request, Steady
<1> QED
  BY <1>1, <1>2, <1>3 DEF RequestOK

LEMMA StepRequests ==
    ASSUME RequestsOK, NEW r \in Requests, Step(r)
    PROVE  RequestsOK'
<1> DEFINE q == request[r]
<1>0. RequestOK(q) /\ (q.kind = "none" => q.pc = "done" /\ q.cascade = "done")
  BY DEF RequestsOK, RequestOK, Steady, NoRequest
<1>1. CASE DeleteInfo(r)
  <2> DEFINE n == [q EXCEPT !.pc = "client", !.cascade = "list"]
  <2>1. n \in Request /\ Steady(n)
    BY <1>0, <1>1 DEF DeleteInfo, RequestOK, Request, Steady
  <2>2. request' = [request EXCEPT ![r] = n]
    BY <1>1 DEF DeleteInfo, RequestsOK
  <2> QED
    BY <2>1, <2>2, OneSlot DEF RequestOK
<1>2. CASE DeleteClient(r) \/ InsertOrder(r) \/ CreateFollowUp(r)
  BY <1>0, <1>2, EndsOK, BecomeOK DEF DeleteClient, InsertOrder, CreateFollowUp
<1>3. CASE ListOrders(r)
  <2>1. q.pc # "info" /\ q.kind # "none"
    BY <1>0, <1>3 DEF ListOrders, RequestOK, Steady
  <2>2. RequestOK(Working(q, Listed(q)))
    BY <1>0, <2>1, WorkingOK
  <2> QED
    BY <1>3, <2>2, OneSlot DEF ListOrders
<1>4. CASE EndCascade(r)
  <2>1. RequestOK([q EXCEPT !.cascade = "done"])
    BY <1>0, <1>4, EndsOK DEF EndCascade
  <2> QED
    BY <1>4, <2>1, BecomeOK DEF EndCascade
<1>5. ASSUME NEW o \in Orders, OrderStep(r, o) PROVE RequestsOK'
  BY <1>5, OrderStepRequests
<1> QED
  BY <1>1, <1>2, <1>3, <1>4, <1>5 DEF Step

LEMMA FailRequests ==
    ASSUME RequestsOK, NEW r \in Requests, Fail(r)
    PROVE  RequestsOK'
<1> DEFINE q == request[r]
<1>0. RequestOK(q) /\ (q.kind = "none" => q.pc = "done" /\ q.cascade = "done")
  BY DEF RequestsOK, RequestOK, Steady, NoRequest
<1>1. CASE FailCall(r)
  BY <1>0, <1>1, EndsOK, BecomeOK DEF FailCall
<1>2. CASE FailListing(r)
  <2>1. RequestOK([q EXCEPT !.cascade = "done"])
    BY <1>0, <1>2, EndsOK DEF FailListing, RequestOK, Steady
  <2> QED
    BY <1>2, <2>1, BecomeOK DEF FailListing
<1>3. ASSUME NEW o \in Orders, FailOrder(r, o) PROVE RequestsOK'
  <2>1. request' = [request EXCEPT ![r].stage[o] = "done", ![r].found[o] = {}]
    BY <1>3 DEF FailOrder
  <2>2. request[r].stage[o] # "done" /\ {} \in SUBSET TasksOf(o)
    BY <1>3 DEF FailOrder
  <2> QED
    BY <2>1, <2>2, FoundOK
<1> QED
  BY <1>1, <1>2, <1>3 DEF Fail

LEMMA RequestsStep == RequestsOK /\ [Next]_vars => RequestsOK'
<1> SUFFICES ASSUME RequestsOK, [Next]_vars PROVE RequestsOK'
  OBVIOUS
<1>1. CASE request' = request
  BY <1>1 DEF RequestsOK, RequestOK, Request, Steady, NoRequest, TasksOf
<1>2. ASSUME NEW r \in Requests, NewRequest(r) \/ Step(r) \/ Fail(r) PROVE RequestsOK'
  BY <1>2, NewRequestsStep, StepRequests, FailRequests
<1>3. CASE Restart
  <2>1. request' = [r \in Requests |-> request'[r]] /\ \A r \in Requests : RequestOK(request'[r])
    BY <1>3, NoRequestOK DEF Restart
  <2>2. RequestsOK' = ( /\ request' = [p \in Requests |-> request'[p]]
                        /\ \A p \in Requests : RequestOK(request'[p]) )
    BY DEF RequestsOK, RequestOK, Request, Steady, NoRequest, TasksOf
  <2> QED
    BY <2>1, <2>2
<1>4. ASSUME NEW k \in Companies, RemoveCompany(k) PROVE RequestsOK'
  BY <1>1, <1>4 DEF RemoveCompany
<1>5. CASE UNCHANGED vars
  BY <1>1, <1>5 DEF vars
<1> QED
  BY <1>2, <1>3, <1>4, <1>5 DEF Next

LEMMA RowsStep == RowsOK /\ RequestsOK /\ [Next]_vars => RowsOK'
<1> SUFFICES ASSUME RowsOK, RequestsOK, [Next]_vars PROVE RowsOK'
  OBVIOUS
<1> USE CascadeConstantsOK DEF RowsOK, tables, RowStates
<1>1. CASE UNCHANGED tables
  BY <1>1
<1>2. ASSUME NEW r \in Requests, NewRequest(r) PROVE RowsOK'
  <2>1. ASSUME NEW c \in Clients, RestoreClient(r, c) PROVE RowsOK'
    BY <2>1 DEF RestoreClient
  <2>2. ASSUME NEW k \in Companies, RestoreCompany(r, k) PROVE RowsOK'
    BY <2>2 DEF RestoreCompany
  <2> QED
    BY <1>1, <1>2, <2>1, <2>2
       DEF NewRequest, RemoveClient, CreateOrder, RemoveOrder, RestoreOrder, RestoreAll, FollowUp
<1>3. ASSUME NEW r \in Requests, Step(r) PROVE RowsOK'
  <2>0. RequestOK(request[r])
    BY DEF RequestsOK
  <2>1. CASE DeleteInfo(r)
    BY <2>1 DEF DeleteInfo
  <2>2. CASE DeleteClient(r)
    BY <2>2 DEF DeleteClient
  <2>3. CASE InsertOrder(r)
    BY <2>3 DEF InsertOrder
  <2>4. CASE CreateFollowUp(r)
    BY <2>4 DEF CreateFollowUp
  <2>5. CASE ListOrders(r) \/ EndCascade(r)
    BY <1>1, <2>5 DEF ListOrders, EndCascade
  <2>6. ASSUME NEW o \in Orders, OrderStep(r, o) PROVE RowsOK'
    <3>1. CASE DeleteReviews(r, o)
      BY <3>1 DEF DeleteReviews
    <3>2. CASE RestoreRow(r, o)
      BY <3>2 DEF RestoreRow
    <3>3. CASE FindTasks(r, o)
      BY <1>1, <3>3 DEF FindTasks
    <3>4. ASSUME NEW side \in Sides, MarkHalves(r, o, side) PROVE RowsOK'
      <4>1. (~ Removing(r)) \in BOOLEAN
        OBVIOUS
      <4>2. half' \in [Tasks -> [Sides -> BOOLEAN]]
        BY <3>4, <4>1 DEF MarkHalves
      <4> QED
        BY <3>4, <4>2 DEF MarkHalves
    <3>5. CASE MarkTasks(r, o)
      BY <3>5 DEF MarkTasks
    <3>6. CASE DeleteOrder(r, o)
      BY <3>6 DEF DeleteOrder
    <3> QED
      BY <2>6, <3>1, <3>2, <3>3, <3>4, <3>5, <3>6 DEF OrderStep
  <2> QED
    BY <1>3, <2>1, <2>2, <2>3, <2>4, <2>5, <2>6 DEF Step
<1>4. ASSUME NEW r \in Requests, Fail(r) PROVE RowsOK'
  BY <1>1, <1>4 DEF Fail, FailCall, FailListing, FailOrder
<1>5. ASSUME NEW k \in Companies, RemoveCompany(k) PROVE RowsOK'
  BY <1>5 DEF RemoveCompany
<1>6. CASE Restart
  BY <1>1, <1>6 DEF Restart
<1>7. CASE UNCHANGED vars
  BY <1>1, <1>7 DEF vars
<1> QED
  BY <1>2, <1>3, <1>4, <1>5, <1>6, <1>7 DEF Next

LEMMA HistoryStep == HistoryOK /\ RequestsOK /\ [Next]_vars => HistoryOK'
<1> SUFFICES ASSUME HistoryOK, RequestsOK, [Next]_vars PROVE HistoryOK'
  OBVIOUS
<1> USE CascadeConstantsOK DEF HistoryOK, history
<1>1. CASE UNCHANGED history
  BY <1>1
<1>2. ASSUME NEW r \in Requests, NewRequest(r) PROVE HistoryOK'
  <2>1. ASSUME NEW c \in Clients, RestoreClient(r, c) PROVE HistoryOK'
    BY <2>1 DEF RestoreClient
  <2> QED
    BY <1>1, <1>2, <2>1 DEF NewRequest, RemoveClient, CreateOrder, RemoveOrder, RestoreOrder,
       RestoreAll, FollowUp, RestoreCompany
<1>3. ASSUME NEW r \in Requests, Step(r) PROVE HistoryOK'
  <2>1. CASE DeleteInfo(r)
    BY <2>1 DEF DeleteInfo
  <2>2. CASE DeleteClient(r)
    BY <2>2 DEF DeleteClient
  <2>3. CASE InsertOrder(r)
    <3>1. request[r].of \in Orders
      BY <2>3 DEF InsertOrder, RequestsOK, RequestOK, Steady
    <3> QED
      BY <2>3, <3>1 DEF InsertOrder, Revive
  <2>4. CASE ListOrders(r) \/ EndCascade(r) \/ CreateFollowUp(r)
    BY <1>1, <2>4 DEF ListOrders, EndCascade, CreateFollowUp
  <2>5. ASSUME NEW o \in Orders, OrderStep(r, o) PROVE HistoryOK'
    <3>1. CASE DeleteReviews(r, o) \/ FindTasks(r, o)
      BY <1>1, <3>1 DEF DeleteReviews, FindTasks
    <3>2. CASE RestoreRow(r, o)
      BY <3>2 DEF RestoreRow, Revive
    <3>3. ASSUME NEW side \in Sides, MarkHalves(r, o, side) PROVE HistoryOK'
      BY <1>1, <3>3 DEF MarkHalves
    <3>4. CASE MarkTasks(r, o)
      BY <3>4 DEF MarkTasks
    <3>5. CASE DeleteOrder(r, o)
      BY <3>5 DEF DeleteOrder
    <3> QED
      BY <2>5, <3>1, <3>2, <3>3, <3>4, <3>5 DEF OrderStep
  <2> QED
    BY <1>3, <2>1, <2>2, <2>3, <2>4, <2>5 DEF Step
<1>4. ASSUME CanFail PROVE failures' \in 0 .. MaxFailures
  BY <1>4 DEF CanFail
<1>5. ASSUME NEW q PROVE Unremoved(q) \subseteq Orders
  BY DEF Unremoved, OrdersOf
<1>6. ASSUME NEW r \in Requests, Fail(r) PROVE HistoryOK'
  <2>1. CASE FailCall(r)
    BY <1>4, <2>1 DEF FailCall
  <2>2. CASE FailListing(r)
    BY <1>4, <1>5, <2>2 DEF FailListing
  <2>3. ASSUME NEW o \in Orders, FailOrder(r, o) PROVE HistoryOK'
    BY <1>4, <2>3 DEF FailOrder
  <2> QED
    BY <1>6, <2>1, <2>2, <2>3 DEF Fail
<1>7. CASE Restart
  BY <1>4, <1>5, <1>7 DEF Restart
<1>8. ASSUME NEW k \in Companies, RemoveCompany(k) PROVE HistoryOK'
  BY <1>1, <1>8 DEF RemoveCompany
<1>9. CASE UNCHANGED vars
  BY <1>1, <1>9 DEF vars
<1> QED
  BY <1>2, <1>3, <1>6, <1>7, <1>8, <1>9 DEF Next

LEMMA CascadeInvStep == CascadeInv /\ [Next]_vars => CascadeInv'
BY RowsStep, HistoryStep, RequestsStep DEF CascadeInv

LEMMA CascadeInvAlways == Spec => []CascadeInv
BY CascadeInvInit, CascadeInvStep, PTL DEF Spec

\* Rows and requests keep their shape, and a request that works on an order of a
\* client, a company or its own finds no task of another order.
THEOREM CascadeTypesAreKept == Spec => []TypeOK
BY CascadeInvAlways, InvGivesTypeOK, PTL

----------------------------------------------------------------------------
(***************************************************************************)
(* No order is missed.  An order of a removed client leaves the reach of a *)
(* removal only when it is deleted, or as a stray: a step of one request   *)
(* keeps what the others will remove, and what the request itself will.    *)
(***************************************************************************)
Safe(o) == order[o] = "live" /\ ~ client[ClientOf[o]].info => o \in strays \/ UnderRemoval(o)
AllSafe == \A o \in Orders : Safe(o)

Keeps(r, o) == o \in Unremoved(request[r]) =>
                   o \in Unremoved(request'[r]) /\ request'[r].of = request[r].of

LEMMA KeepsRemoval ==
    ASSUME RequestsOK, NEW r \in Requests, NEW o \in Orders, UnderRemoval(o), Keeps(r, o),
           \A p \in Requests \ {r} : request'[p] = request[p]
    PROVE  UnderRemoval(o)'
<1>1. PICK p \in Requests : o \in Unremoved(request[p]) /\ request[p].of = ClientOf[o]
  BY DEF UnderRemoval
<1>2. o \in Unremoved(request'[p]) /\ request'[p].of = ClientOf[o]
  BY <1>1 DEF Keeps
<1>3. UnderRemoval(o)' = \E s \in Requests : /\ o \in Unremoved(request'[s])
                                             /\ request'[s].of = ClientOf[o]
  BY DEF UnderRemoval, Unremoved, OrdersOf
<1> QED
  BY <1>2, <1>3

\* A request that removes nothing, or is done with its orders, drops nothing.
LEMMA NothingUnremoved ==
    ASSUME NEW q, q.kind # "removeClient" \/ (q.cascade # "list" /\ \A o \in Orders : q.stage[o] = "done")
    PROVE  Unremoved(q) = {}
BY DEF Unremoved

\* A step that leaves the rows as they are, and that keeps what is to be removed.
LEMMA SafeByKeeping ==
    ASSUME RequestsOK, NEW r \in Requests, NEW o \in Orders, Safe(o), Keeps(r, o),
           \A p \in Requests \ {r} : request'[p] = request[p],
           order'[o] = "live" => order[o] = "live",
           client'[ClientOf[o]].info = client[ClientOf[o]].info,
           o \in strays => o \in strays'
    PROVE  Safe(o)'
BY KeepsRemoval DEF Safe

LEMMA NewRequestSafe ==
    ASSUME CascadeInv, AllSafe, NEW r \in Requests, NewRequest(r)
    PROVE  AllSafe'
<1>1. request[r] = NoRequest /\ \A p \in Requests \ {r} : request'[p] = request[p]
  BY DEF NewRequest, RemoveClient, RestoreClient, RestoreCompany, CreateOrder, RemoveOrder,
     RestoreOrder, RestoreAll, FollowUp, Start, Idle, CascadeInv, RequestsOK, RequestOK, Steady
<1>2. \A o \in Orders : Keeps(r, o)
  BY <1>1, NothingUnremoved DEF Keeps, NoRequest
<1>3. order' = order /\ strays' = strays
  BY DEF NewRequest, RemoveClient, RestoreClient, RestoreCompany, CreateOrder, RemoveOrder,
     RestoreOrder, RestoreAll, FollowUp, tables, history
<1>4. client' = client \/ \E c \in Clients :
         client' = [client EXCEPT ![c] = [row |-> TRUE, info |-> TRUE]]
  BY DEF NewRequest, RemoveClient, RestoreClient, RestoreCompany, CreateOrder, RemoveOrder,
     RestoreOrder, RestoreAll, FollowUp, tables
<1>5. ASSUME NEW o \in Orders PROVE Safe(o)'
  <2>1. ClientOf[o] \in Clients /\ Safe(o)
    BY CascadeConstantsOK DEF AllSafe
  <2>2. client'[ClientOf[o]].info \/ client'[ClientOf[o]] = client[ClientOf[o]]
    BY <1>4, <2>1 DEF CascadeInv, RowsOK
  <2>3. CASE client'[ClientOf[o]].info
    BY <2>3 DEF Safe
  <2>4. CASE client'[ClientOf[o]] = client[ClientOf[o]]
    BY <1>1, <1>2, <1>3, <2>1, <2>4, SafeByKeeping DEF CascadeInv
  <2> QED
    BY <2>2, <2>3, <2>4
<1> QED
  BY <1>5 DEF AllSafe

\* A request, or an event handler, that ends has no order left to remove.
LEMMA EndKeeps ==
    ASSUME RequestsOK, NEW r \in Requests, NEW o \in Orders,
           NEW q, Become(r, q), q.of = request[r].of,
           o \in Unremoved(request[r]) => o \in Unremoved(q) /\ q.cascade # "done"
    PROVE  Keeps(r, o) /\ \A p \in Requests \ {r} : request'[p] = request[p]
<1>1. request'[r] = (IF q.pc = "done" /\ q.cascade = "done" THEN NoRequest ELSE q)
  BY DEF Become, RequestsOK
<1>2. \A p \in Requests \ {r} : request'[p] = request[p]
  BY DEF Become, RequestsOK
<1> QED
  BY <1>1, <1>2 DEF Keeps

\* What a request has left to remove does not depend on its own pc.
LEMMA CallKeeps ==
    ASSUME RequestsOK, NEW r \in Requests, NEW o \in Orders,
           Become(r, [request[r] EXCEPT !.pc = "done"])
    PROVE  Keeps(r, o) /\ \A p \in Requests \ {r} : request'[p] = request[p]
<1> DEFINE q == [request[r] EXCEPT !.pc = "done"]
<1>1. request[r] \in Request /\ Steady(request[r])
  BY DEF RequestsOK, RequestOK
<1>2. /\ q.kind = request[r].kind /\ q.of = request[r].of
      /\ q.cascade = request[r].cascade /\ q.stage = request[r].stage
  BY <1>1 DEF Request
<1>3. o \in Unremoved(request[r]) => o \in Unremoved(q) /\ q.cascade # "done"
  BY <1>1, <1>2 DEF Unremoved, Steady
<1> QED
  BY <1>2, <1>3, EndKeeps

LEMMA ListingDoneKeeps ==
    ASSUME RequestsOK, NEW r \in Requests, NEW o \in Orders,
           Become(r, [request[r] EXCEPT !.cascade = "done"]), o \notin Unremoved(request[r])
    PROVE  Keeps(r, o) /\ \A p \in Requests \ {r} : request'[p] = request[p]
<1>1. request[r] \in Request
  BY DEF RequestsOK, RequestOK
<1>2. [request[r] EXCEPT !.cascade = "done"].of = request[r].of
  BY <1>1 DEF Request
<1> QED
  BY <1>2, EndKeeps

\* The next stage of one order touches no other order.
MovesOn(r, p, stage) ==
    /\ request'[r].kind = request[r].kind /\ request'[r].of = request[r].of
    /\ request'[r].cascade = request[r].cascade
    /\ request'[r].stage = [request[r].stage EXCEPT ![p] = stage]
    /\ \A s \in Requests \ {r} : request'[s] = request[s]

LEMMA StageMovesOn ==
    ASSUME RequestsOK, NEW r \in Requests, NEW p \in Orders, NEW stage, NEW S,
           \/ StageTo(r, p, stage)
           \/ request' = [request EXCEPT ![r].stage[p] = stage, ![r].found[p] = S]
    PROVE  MovesOn(r, p, stage)
<1>1. request[r] \in Request /\ request = [s \in Requests |-> request[s]]
  BY DEF RequestsOK, RequestOK
<1>2. CASE StageTo(r, p, stage)
  <2>1. request' = [request EXCEPT ![r] = [request[r] EXCEPT !.stage[p] = stage]]
    BY <1>2 DEF StageTo
  <2> QED
    BY <1>1, <2>1 DEF MovesOn, Request
<1>3. CASE request' = [request EXCEPT ![r].stage[p] = stage, ![r].found[p] = S]
  <2>1. request' = [request EXCEPT ![r] = [request[r] EXCEPT !.stage[p] = stage, !.found[p] = S]]
    BY <1>1, <1>3
  <2> QED
    BY <1>1, <2>1 DEF MovesOn, Request
<1> QED
  BY <1>2, <1>3

LEMMA StageKeeps ==
    ASSUME RequestsOK, NEW r \in Requests, NEW o \in Orders, NEW p \in Orders, NEW stage,
           request[r].stage[p] # "done", MovesOn(r, p, stage),
           o # p \/ stage # "done" \/ request[r].kind # "removeClient"
    PROVE  Keeps(r, o)
<1>1. request[r] \in Request /\ Steady(request[r])
  BY DEF RequestsOK, RequestOK
<1>2. request[r].cascade = "run"
  BY <1>1 DEF Steady, Request
<1>3. o \in Unremoved(request[r]) => o \in Unremoved(request'[r])
  BY <1>1, <1>2 DEF Unremoved, Request, MovesOn
<1> QED
  BY <1>3 DEF Keeps, MovesOn

LEMMA OrderStepSafe ==
    ASSUME CascadeInv, AllSafe, NEW r \in Requests, NEW p \in Orders, OrderStep(r, p)
    PROVE  AllSafe'
<1> SUFFICES ASSUME NEW o \in Orders PROVE Safe(o)'
  BY DEF AllSafe
<1>0. RequestsOK /\ Safe(o) /\ ClientOf[o] \in Clients
  BY CascadeConstantsOK DEF CascadeInv, AllSafe
<1>1. ASSUME NEW stage, MovesOn(r, p, stage), request[r].stage[p] # "done",
             o # p \/ stage # "done" \/ request[r].kind # "removeClient",
             order'[o] = "live" => order[o] = "live",
             client' = client, o \in strays => o \in strays'
      PROVE  Safe(o)'
  <2>1. Keeps(r, o)
    BY <1>0, <1>1, StageKeeps
  <2> QED
    BY <1>0, <1>1, <2>1, SafeByKeeping DEF MovesOn
<1>2. CASE DeleteReviews(r, p)
  <2>1. MovesOn(r, p, "find") /\ request[r].stage[p] # "done"
    BY <1>0, <1>2, StageMovesOn DEF DeleteReviews, At
  <2> QED
    BY <1>1, <1>2, <2>1 DEF DeleteReviews, history
<1>3. CASE RestoreRow(r, p)
  <2>1. /\ request[r].stage[p] # "done" /\ request[r].kind # "removeClient"
        /\ client' = client
    BY <1>3 DEF RestoreRow, At, Removing, Removals
  <2>2. CASE UNCHANGED <<order, strays>> /\ StageTo(r, p, "done")
    <3>1. MovesOn(r, p, "done")
      BY <1>0, <2>2, StageMovesOn
    <3> QED
      BY <1>1, <2>1, <2>2, <3>1
  <2>3. CASE order' = [order EXCEPT ![p] = "live"] /\ Revive(p) /\ StageTo(r, p, "find")
    <3>1. MovesOn(r, p, "find")
      BY <1>0, <2>3, StageMovesOn
    <3>2. CASE o = p
      BY <2>1, <2>3, <3>2 DEF Revive, Safe
    <3>3. CASE o # p
      <4>1. order'[o] = order[o] /\ (o \in strays => o \in strays')
        BY <2>3, <3>3 DEF CascadeInv, RowsOK, Revive
      <4> QED
        BY <1>1, <2>1, <3>1, <4>1
    <3> QED
      BY <3>2, <3>3
  <2> QED
    BY <1>3, <2>2, <2>3 DEF RestoreRow
<1>4. CASE FindTasks(r, p)
  <2>1. MovesOn(r, p, "taskAccountant") /\ request[r].stage[p] # "done"
    BY <1>0, <1>4, StageMovesOn DEF FindTasks, TasksAt, At
  <2> QED
    BY <1>1, <1>4, <2>1 DEF FindTasks, tables, history
<1>5. ASSUME NEW side \in Sides, MarkHalves(r, p, side) PROVE Safe(o)'
  <2>1. MovesOn(r, p, NextStage(side)) /\ request[r].stage[p] # "done" /\ NextStage(side) # "done"
    BY <1>0, <1>5, StageMovesOn DEF MarkHalves, At, Sides, NextStage
  <2> QED
    BY <1>1, <1>5, <2>1 DEF MarkHalves, history
<1>6. CASE MarkTasks(r, p)
  <2> DEFINE stage == IF Removing(r) THEN "order" ELSE "done"
  <2>1. request' = [request EXCEPT ![r].stage[p] = stage, ![r].found[p] = {}]
    BY <1>6, ZenonT(60) DEF MarkTasks, CascadeInv, RequestsOK, RequestOK, Request
  <2>2. stage # "done" \/ request[r].kind # "removeClient"
    BY DEF Removing, Removals
  <2>3. MovesOn(r, p, stage)
    BY <1>0, <2>1, StageMovesOn
  <2>4. request[r].stage[p] # "done"
    BY <1>6 DEF MarkTasks, At
  <2> QED
    BY <1>1, <1>6, <2>2, <2>3, <2>4 DEF MarkTasks
<1>7. CASE DeleteOrder(r, p)
  <2>1. MovesOn(r, p, "done") /\ request[r].stage[p] # "done"
    BY <1>0, <1>7, StageMovesOn DEF DeleteOrder, At
  <2>2. CASE o = p
    BY <1>7, <2>2 DEF DeleteOrder, Safe, CascadeInv, RowsOK
  <2>3. CASE o # p
    <3>1. order'[o] = order[o]
      BY <1>7, <2>3 DEF DeleteOrder, CascadeInv, RowsOK
    <3> QED
      BY <1>1, <1>7, <2>1, <2>3, <3>1 DEF DeleteOrder
  <2> QED
    BY <2>2, <2>3
<1> QED
  BY <1>2, <1>3, <1>4, <1>5, <1>6, <1>7 DEF OrderStep

LEMMA StepSafe ==
    ASSUME CascadeInv, AllSafe, NEW r \in Requests, Step(r)
    PROVE  AllSafe'
<1> SUFFICES ASSUME NEW o \in Orders PROVE Safe(o)'
  BY DEF AllSafe
<1> DEFINE q == request[r]
<1>0. /\ RequestsOK /\ Safe(o) /\ ClientOf[o] \in Clients
      /\ q \in Request /\ Steady(q)
  BY CascadeConstantsOK DEF CascadeInv, AllSafe, RequestsOK, RequestOK
<1>1. CASE DeleteInfo(r)
  <2>1. q.of \in Clients /\ q.kind = "removeClient" /\ Unremoved(q) = {}
    BY <1>0, <1>1, NothingUnremoved DEF DeleteInfo, Steady
  <2>2. /\ request'[r].kind = "removeClient" /\ request'[r].of = q.of
        /\ request'[r].cascade = "list"
        /\ \A p \in Requests \ {r} : request'[p] = request[p]
    BY <1>0, <1>1, <2>1 DEF DeleteInfo, RequestsOK, Request
  <2>3. CASE ClientOf[o] = q.of
    <3>1. o \in Unremoved(request'[r])
      BY <2>2, <2>3 DEF Unremoved, OrdersOf
    <3>2. UnderRemoval(o)'
      BY <2>2, <2>3, <3>1 DEF UnderRemoval, Unremoved, OrdersOf
    <3> QED
      BY <3>2 DEF Safe
  <2>4. CASE ClientOf[o] # q.of
    <3>1. client'[ClientOf[o]] = client[ClientOf[o]] /\ order' = order
          /\ (o \in strays => o \in strays')
      BY <1>0, <1>1, <2>1, <2>4 DEF DeleteInfo, CascadeInv, RowsOK, OrdersOf
    <3>2. Keeps(r, o)
      BY <2>1 DEF Keeps
    <3> QED
      BY <1>0, <2>2, <3>1, <3>2, SafeByKeeping
  <2> QED
    BY <2>3, <2>4
<1>2. CASE DeleteClient(r)
  <2>1. Keeps(r, o) /\ \A p \in Requests \ {r} : request'[p] = request[p]
    BY <1>0, <1>2, CallKeeps DEF DeleteClient
  <2>2. q.of \in Clients
    BY <1>0, <1>2 DEF DeleteClient, Steady
  <2>3. client'[ClientOf[o]].info = client[ClientOf[o]].info
    BY <1>0, <1>2, <2>2 DEF DeleteClient, CascadeInv, RowsOK
  <2> QED
    BY <1>0, <1>2, <2>1, <2>3, SafeByKeeping DEF DeleteClient
<1>3. CASE InsertOrder(r)
  <2>1. Keeps(r, o) /\ \A p \in Requests \ {r} : request'[p] = request[p]
    BY <1>0, <1>3, CallKeeps DEF InsertOrder
  <2>2. CASE o = q.of
    BY <1>3, <2>2 DEF InsertOrder, Revive, Safe
  <2>3. CASE o # q.of
    <3>1. order'[o] = order[o] /\ (o \in strays => o \in strays')
      BY <1>3, <2>3 DEF InsertOrder, Revive, CascadeInv, RowsOK
    <3> QED
      BY <1>0, <1>3, <2>1, <3>1, SafeByKeeping DEF InsertOrder
  <2> QED
    BY <2>2, <2>3
<1>4. CASE CreateFollowUp(r)
  <2>1. Keeps(r, o) /\ \A p \in Requests \ {r} : request'[p] = request[p]
    BY <1>0, <1>4, CallKeeps DEF CreateFollowUp
  <2> QED
    BY <1>0, <1>4, <2>1, SafeByKeeping DEF CreateFollowUp, history
<1>5. CASE ListOrders(r)
  <2>1. /\ request'[r] = Working(q, Listed(q))
        /\ \A p \in Requests \ {r} : request'[p] = request[p]
        /\ client' = client /\ order' = order /\ strays' = strays
    BY <1>5 DEF ListOrders, CascadeInv, RequestsOK, tables, history
  <2>2. /\ request'[r].kind = q.kind /\ request'[r].of = q.of /\ request'[r].cascade = "run"
        /\ request'[r].stage = [p \in Orders |-> IF p \in Listed(q) THEN FirstStage(q.kind) ELSE "done"]
    BY <1>0, <2>1 DEF Working, Request
  <2>3. CASE order[o] # "live"
    BY <2>1, <2>3 DEF Safe
  <2>4. CASE order[o] = "live"
    <3>1. o \in Unremoved(q) => o \in Unremoved(request'[r])
      BY <1>5, <2>2, <2>4, SMTT(30) DEF ListOrders, Unremoved, Listed, FirstStage, Removals, OrdersOf
    <3>2. Keeps(r, o)
      BY <2>2, <3>1 DEF Keeps
    <3> QED
      BY <1>0, <2>1, <3>2, SafeByKeeping
  <2> QED
    BY <2>3, <2>4
<1>6. CASE EndCascade(r)
  <2>1. o \notin Unremoved(q)
    BY <1>6 DEF EndCascade, Unremoved
  <2>2. Keeps(r, o) /\ \A p \in Requests \ {r} : request'[p] = request[p]
    BY <1>0, <1>6, <2>1, ListingDoneKeeps DEF EndCascade
  <2> QED
    BY <1>0, <1>6, <2>2, SafeByKeeping DEF EndCascade, tables, history
<1>7. ASSUME NEW p \in Orders, OrderStep(r, p) PROVE Safe(o)'
  BY <1>7, OrderStepSafe DEF AllSafe
<1> QED
  BY <1>1, <1>2, <1>3, <1>4, <1>5, <1>6, <1>7 DEF Step

LEMMA FailSafe ==
    ASSUME CascadeInv, AllSafe, NEW r \in Requests, Fail(r)
    PROVE  AllSafe'
<1> SUFFICES ASSUME NEW o \in Orders PROVE Safe(o)'
  BY DEF AllSafe
<1>0. RequestsOK /\ Safe(o) /\ client' = client /\ order' = order
  BY DEF CascadeInv, AllSafe, Fail, FailCall, FailListing, FailOrder, tables
<1>1. CASE FailCall(r)
  <2>1. Keeps(r, o) /\ \A p \in Requests \ {r} : request'[p] = request[p]
    BY <1>0, <1>1, CallKeeps DEF FailCall
  <2> QED
    BY <1>0, <1>1, <2>1, SafeByKeeping DEF FailCall
<1>2. CASE FailListing(r)
  <2>1. CASE o \in Unremoved(request[r])
    BY <1>2, <2>1 DEF FailListing, Safe
  <2>2. CASE o \notin Unremoved(request[r])
    <3>1. Keeps(r, o) /\ \A p \in Requests \ {r} : request'[p] = request[p]
      BY <1>0, <1>2, <2>2, ListingDoneKeeps DEF FailListing
    <3> QED
      BY <1>0, <1>2, <3>1, SafeByKeeping DEF FailListing
  <2> QED
    BY <2>1, <2>2
<1>3. ASSUME NEW p \in Orders, FailOrder(r, p) PROVE Safe(o)'
  <2>1. /\ request' = [request EXCEPT ![r].stage[p] = "done", ![r].found[p] = {}]
        /\ request[r].stage[p] # "done"
        /\ strays' = IF request[r].kind = "removeClient" THEN strays \cup {p} ELSE strays
    BY <1>3 DEF FailOrder
  <2>2. MovesOn(r, p, "done")
    BY <1>0, <2>1, StageMovesOn
  <2>3. CASE o = p /\ request[r].kind = "removeClient"
    BY <2>1, <2>3 DEF Safe
  <2>4. CASE o # p \/ request[r].kind # "removeClient"
    <3>1. Keeps(r, o)
      BY <1>0, <2>1, <2>2, <2>4, StageKeeps
    <3> QED
      BY <1>0, <2>1, <2>2, <3>1, SafeByKeeping DEF MovesOn
  <2> QED
    BY <2>3, <2>4
<1> QED
  BY <1>1, <1>2, <1>3 DEF Fail

LEMMA AllSafeStep == CascadeInv /\ AllSafe /\ [Next]_vars => AllSafe'
<1> SUFFICES ASSUME CascadeInv, AllSafe, [Next]_vars PROVE AllSafe'
  OBVIOUS
<1>1. ASSUME NEW r \in Requests, NewRequest(r) \/ Step(r) \/ Fail(r) PROVE AllSafe'
  BY <1>1, NewRequestSafe, StepSafe, FailSafe
<1>2. CASE Restart
  <2>1. ASSUME NEW o \in Orders PROVE Safe(o)'
    BY <1>2 DEF Restart, AllSafe, Safe, UnderRemoval, tables
  <2> QED
    BY <2>1 DEF AllSafe
<1>3. CASE UNCHANGED <<client, order, request, strays>>
  BY <1>3 DEF AllSafe, Safe, UnderRemoval, Unremoved, OrdersOf
<1>4. ASSUME NEW k \in Companies, RemoveCompany(k) PROVE AllSafe'
  BY <1>3, <1>4 DEF RemoveCompany, history
<1>5. CASE UNCHANGED vars
  BY <1>3, <1>5 DEF vars, tables, history
<1> QED
  BY <1>1, <1>2, <1>4, <1>5 DEF Next

\* However many requests, handlers and failures overlap, the handler of a removed
\* client misses no order that was live when the removal was recorded.
THEOREM NoOrderIsMissed == Spec => []OrphansAreStrays
<1>1. Init => AllSafe
  BY DEF Init, AllSafe, Safe
<1>2. AllSafe => OrphansAreStrays
  BY DEF AllSafe, Safe, OrphansAreStrays
<1> QED
  BY <1>1, <1>2, CascadeInvAlways, AllSafeStep, PTL DEF Spec

-----------------------------------------------------------------------------
(***************************************************************************)
(* When requests do not overlap: one slot, any set of clients, companies,  *)
(* orders and tasks, and any bound on failures.  The state of an order in  *)
(* the middle of its removal or restoration is told stage by stage; what   *)
(* is cut off is told by the set interrupted.                              *)
(***************************************************************************)

\* Clients and orders have rows, and ids, of their own.
Distinct == Clients \cap Orders = {}

St(r, o)    == request[r].stage[o]
Found(r, o) == request[r].found[o]

NoneLive(o) == \A t \in TasksOf(o) : task[t] # "live"
Fits(o) ==
    \A t \in TasksOf(o) : /\ order[o] = "live" => task[t] # "deleted"
                          /\ order[o] = "deleted" => task[t] # "live"
HalvesFit(o, side)  == \A t \in TasksOf(o) : half[t][side] = (task[t] = "live")
HalvesGone(o, side) == \A t \in TasksOf(o) : half[t][side] = FALSE

Rows(o) ==
    /\ order[o] = "none" => \A t \in TasksOf(o) : task[t] = "none"
    /\ order[o] = "deleted" => NoneLive(o)
    /\ \A t \in TasksOf(o) : task[t] = "none" => \A side \in Sides : half[t][side] = FALSE

\* What holds of an order at each stage, cut off or not.
AnyOrder(r, o) ==
    /\ Rows(o)
    /\ order[o] = "none" => St(r, o) = "done"
    /\ St(r, o) = "reviews" => Removing(r)
    /\ St(r, o) \in {"taskAccountant", "taskSeller", "tasks"} =>
         Found(r, o) = {t \in TasksOf(o) : task[t] = IF Removing(r) THEN "live" ELSE "deleted"}
    /\ Removing(r) /\ St(r, o) = "order" => NoneLive(o)
    /\ ~ Removing(r) /\ St(r, o) \notin {"order", "done"} =>
         /\ order[o] = "live" /\ reviews[o] /\ NoneLive(o)
         /\ St(r, o) \in {"taskSeller", "tasks"} =>
              \A t \in Found(r, o) : half[t]["taskAccountant"]
         /\ St(r, o) = "tasks" => \A t \in Found(r, o) : half[t]["taskSeller"]

\* What more holds of an order nothing of which was cut off.
Halfway(r, o) ==
    /\ reviews[o] = FALSE
    /\ St(r, o) # "order" => Fits(o)
    /\ IF St(r, o) \in {"find", "taskAccountant"}
       THEN HalvesFit(o, "taskAccountant") ELSE HalvesGone(o, "taskAccountant")
    /\ IF St(r, o) \in {"find", "taskAccountant", "taskSeller"}
       THEN HalvesFit(o, "taskSeller") ELSE HalvesGone(o, "taskSeller")
GoodOrder(r, o) ==
    IF Removing(r) /\ St(r, o) \notin {"reviews", "done"} THEN Halfway(r, o)
    ELSE St(r, o) \in {"reviews", "order", "done"} => Whole(o)

OrderInv(r, o) == AnyOrder(r, o) /\ (o \notin interrupted => GoodOrder(r, o))

ClientInv(r, c) ==
    \/ c \in interrupted
    \/ client[c].row = client[c].info
    \/ request[r].pc = "client" /\ request[r].of = c

\* What the request in flight has read is still so when it writes.
Knows(r) ==
    LET q == request[r] IN
    /\ q.cascade = "list" => q.kind \in {"removeClient", "restoreClient", "restoreCompany"}
    /\ q.pc = "client" => ~ client[q.of].info
    /\ q.pc = "create" =>
         q.cascade = "done" /\ q.kind = "createOrder" /\ order[q.of] = "none"
    /\ q.pc = "followUp" =>
         /\ q.cascade = "done" /\ q.kind = "followUp"
         /\ task[q.of] = "none" /\ order[OrderOf[q.of]] = "live"

\* The handler has every order of the client still before it that it must change.
Follows(r) ==
    LET q == request[r] IN
    q.cascade = "run" =>
      /\ q.kind = "removeClient" => \A o \in OrdersOf(q.of) :
           order[o] = "live" => q.stage[o] # "done" \/ o \in interrupted
      /\ q.kind = "restoreClient" => \A o \in OrdersOf(q.of) :
           order[o] = "deleted" =>
             q.stage[o] # "done" \/ o \in interrupted \/ ~ company[CompanyOf[o]]

SerialInv(r) ==
    /\ Knows(r) /\ Follows(r)
    /\ \A o \in Orders : OrderInv(r, o)
    /\ \A c \in Clients : ClientInv(r, c)

----------------------------------------------------------------------------
(* Orders a step does not touch. *)

RowsKept(o) ==
    /\ order'[o] = order[o] /\ reviews'[o] = reviews[o]
    /\ \A t \in TasksOf(o) : task'[t] = task[t] /\ half'[t] = half[t]

\* The rows are the same; the stage is the same, or the order is given up.
LEMMA Untouched ==
    ASSUME NEW r, NEW o, OrderInv(r, o), RowsKept(o),
           request'[r].stage[o] = request[r].stage[o],
           request[r].stage[o] = "done" \/
             (request'[r].found[o] = request[r].found[o] /\ request'[r].kind = request[r].kind),
           o \in interrupted => o \in interrupted'
    PROVE  OrderInv(r, o)'
<1>1. Rows(o)' /\ (Whole(o)' = Whole(o))
  BY DEF OrderInv, AnyOrder, Rows, NoneLive, RowsKept, Whole
<1>2. CASE request[r].stage[o] = "done"
  BY <1>1, <1>2 DEF OrderInv, AnyOrder, GoodOrder, St, RowsKept
<1>3. CASE request'[r].found[o] = request[r].found[o] /\ request'[r].kind = request[r].kind
  <2>1. /\ St(r, o)' = St(r, o) /\ Found(r, o)' = Found(r, o) /\ Removing(r)' = Removing(r)
    BY <1>3 DEF St, Found, Removing
  <2>2. /\ NoneLive(o)' = NoneLive(o) /\ Fits(o)' = Fits(o)
        /\ \A side : HalvesFit(o, side)' = HalvesFit(o, side)
        /\ \A side : HalvesGone(o, side)' = HalvesGone(o, side)
    BY DEF RowsKept, NoneLive, Fits, HalvesFit, HalvesGone
  <2>3. GoodOrder(r, o) => GoodOrder(r, o)'
    BY <1>1, <2>1, <2>2 DEF GoodOrder, Halfway, RowsKept
  <2>4. AnyOrder(r, o)'
    BY <1>1, <2>1, <2>2 DEF OrderInv, AnyOrder, RowsKept
  <2> QED
    BY <2>3, <2>4 DEF OrderInv
<1> QED
  BY <1>2, <1>3

LEMMA GivenUp ==
    ASSUME NEW r, NEW o, OrderInv(r, o), RowsKept(o), request'[r].stage[o] = "done",
           o \in interrupted'
    PROVE  OrderInv(r, o)'
BY DEF OrderInv, AnyOrder, Rows, NoneLive, RowsKept, St

\* A removal or restoration begins with an order that no request is at.
LEMMA Begins ==
    ASSUME NEW r, NEW o, OrderInv(r, o), RowsKept(o), order[o] # "none",
           request[r].stage[o] = "done",
           request'[r].stage[o] = FirstStage(request'[r].kind),
           o \in interrupted => o \in interrupted'
    PROVE  OrderInv(r, o)'
<1>1. Rows(o)' /\ (Whole(o)' = Whole(o))
  BY DEF OrderInv, AnyOrder, Rows, NoneLive, RowsKept, Whole
<1> QED
  BY <1>1 DEF OrderInv, AnyOrder, GoodOrder, St, RowsKept, Removing, FirstStage

\* The same for one step on order o: the other orders.
Onto(r, o, stage) ==
    /\ request'[r].stage = [request[r].stage EXCEPT ![o] = stage]
    /\ request'[r].kind = request[r].kind /\ request'[r].of = request[r].of
    /\ request'[r].pc = request[r].pc /\ request'[r].cascade = request[r].cascade
    /\ \A p \in Orders \ {o} : request'[r].found[p] = request[r].found[p]

LEMMA StageOnto ==
    ASSUME RequestsOK, NEW r \in Requests, NEW o \in Orders, NEW stage, StageTo(r, o, stage)
    PROVE  Onto(r, o, stage) /\ request'[r].found = request[r].found
<1>1. request[r] \in Request /\ request = [s \in Requests |-> request[s]]
  BY DEF RequestsOK, RequestOK
<1>2. request' = [request EXCEPT ![r] = [request[r] EXCEPT !.stage[o] = stage]]
  BY DEF StageTo
<1> QED
  BY <1>1, <1>2 DEF Onto, Request

LEMMA FoundOnto ==
    ASSUME RequestsOK, NEW r \in Requests, NEW o \in Orders, NEW stage \in Stages \cup {"done"},
           NEW S \in SUBSET TasksOf(o),
           request' = [request EXCEPT ![r].stage[o] = stage, ![r].found[o] = S]
    PROVE  Onto(r, o, stage) /\ request'[r].found[o] = S
<1>1. request[r] \in Request /\ request = [s \in Requests |-> request[s]]
  BY DEF RequestsOK, RequestOK
<1>2. request' = [request EXCEPT ![r] = [request[r] EXCEPT !.stage[o] = stage, !.found[o] = S]]
  BY <1>1
<1>3. request'[r] = [request[r] EXCEPT !.stage[o] = stage, !.found[o] = S]
  BY <1>1, <1>2
<1>4. request[r].found \in [Orders -> SUBSET Tasks] /\ request[r].stage \in [Orders -> Stages \cup {"done"}]
  BY <1>1 DEF Request
<1>5. /\ request'[r].found = [request[r].found EXCEPT ![o] = S]
      /\ request'[r].stage = [request[r].stage EXCEPT ![o] = stage]
  BY <1>1, <1>3 DEF Request
<1>6. /\ request'[r].kind = request[r].kind /\ request'[r].of = request[r].of
      /\ request'[r].pc = request[r].pc /\ request'[r].cascade = request[r].cascade
  BY <1>1, <1>3 DEF Request
<1>7. request'[r].found[o] = S /\ \A p \in Orders \ {o} : request'[r].found[p] = request[r].found[p]
  BY <1>4, <1>5, ZenonT(60)
<1> QED
  BY <1>5, <1>6, <1>7 DEF Onto

LEMMA OthersUntouched ==
    ASSUME NEW r \in Requests, NEW o \in Orders, NEW stage, Onto(r, o, stage),
           request[r] \in Request, NEW p \in Orders \ {o}, OrderInv(r, p), RowsKept(p),
           p \in interrupted => p \in interrupted'
    PROVE  OrderInv(r, p)'
BY Untouched DEF Onto, Request

----------------------------------------------------------------------------
(* The steps on an order. *)

LEMMA FindsTheTasks ==
    ASSUME CascadeInv, NEW r \in Requests, NEW o \in Orders, OrderInv(r, o), FindTasks(r, o)
    PROVE  OrderInv(r, o)' /\ Onto(r, o, "taskAccountant")
<1> DEFINE S == {t \in TasksOf(o) : task[t] = IF Removing(r) THEN "live" ELSE "deleted"}
<1>1. Onto(r, o, "taskAccountant") /\ request'[r].found[o] = S
  <2>1. request' = [request EXCEPT ![r].stage[o] = "taskAccountant", ![r].found[o] = S]
    BY DEF FindTasks, TasksAt
  <2>2. S \in SUBSET TasksOf(o) /\ "taskAccountant" \in Stages \cup {"done"}
    BY DEF Stages
  <2> HIDE DEF S
  <2> QED
    BY <2>1, <2>2, FoundOnto, ZenonT(60) DEF CascadeInv
<1>2. /\ St(r, o) = "find" /\ St(r, o)' = "taskAccountant" /\ Removing(r)' = Removing(r)
      /\ Found(r, o)' = S
  BY <1>1 DEF FindTasks, At, St, Found, Removing, Onto, CascadeInv, RequestsOK, RequestOK, Request
<1>3. UNCHANGED <<order, reviews, task, half, interrupted>>
  BY DEF FindTasks, tables, history
<1>4. AnyOrder(r, o)'
  BY <1>2, <1>3 DEF OrderInv, AnyOrder, Rows, NoneLive
<1>5. GoodOrder(r, o) => GoodOrder(r, o)'
  BY <1>2, <1>3 DEF GoodOrder, Halfway, Fits, HalvesFit, HalvesGone
<1> QED
  BY <1>1, <1>3, <1>4, <1>5 DEF OrderInv

LEMMA DeletesTheReviews ==
    ASSUME CascadeInv, NEW r \in Requests, NEW o \in Orders, OrderInv(r, o), DeleteReviews(r, o)
    PROVE  OrderInv(r, o)' /\ Onto(r, o, "find")
<1>1. Onto(r, o, "find")
  BY StageOnto DEF DeleteReviews, CascadeInv
<1>2. /\ St(r, o) = "reviews" /\ St(r, o)' = "find" /\ Removing(r)' = Removing(r) /\ Removing(r)
  BY <1>1 DEF DeleteReviews, At, St, Removing, Onto, CascadeInv, RequestsOK, RequestOK, Request,
     OrderInv, AnyOrder
<1>3. UNCHANGED <<order, task, half, interrupted>> /\ reviews'[o] = FALSE
  BY DEF DeleteReviews, history, CascadeInv, RowsOK
<1>4. AnyOrder(r, o)'
  BY <1>2, <1>3 DEF OrderInv, AnyOrder, Rows, NoneLive
<1>5. Whole(o) => Halfway(r, o)'
  BY <1>2, <1>3 DEF Whole, Halfway, Fits, HalvesFit, Sides
<1> QED
  BY <1>1, <1>2, <1>3, <1>4, <1>5 DEF OrderInv, GoodOrder

LEMMA RestoresTheRow ==
    ASSUME CascadeInv, NEW r \in Requests, NEW o \in Orders, OrderInv(r, o), RestoreRow(r, o)
    PROVE  OrderInv(r, o)' /\ (Onto(r, o, "find") \/ Onto(r, o, "done"))
<1>0. /\ St(r, o) = "order" /\ ~ Removing(r) /\ interrupted' = interrupted
      /\ UNCHANGED <<task, half>> /\ request[r] \in Request
  BY DEF RestoreRow, At, St, CascadeInv, RequestsOK, RequestOK
<1>1. CASE /\ order[o] = "deleted" /\ order' = [order EXCEPT ![o] = "live"]
           /\ reviews' = [reviews EXCEPT ![o] = TRUE] /\ StageTo(r, o, "find")
  <2>1. Onto(r, o, "find")
    BY <1>1, StageOnto DEF CascadeInv
  <2>2. St(r, o)' = "find" /\ ~ Removing(r)'
    BY <1>0, <2>1 DEF St, Removing, Onto, Request
  <2>3. order'[o] = "live" /\ reviews'[o] = TRUE
    BY <1>1 DEF CascadeInv, RowsOK
  <2>4. AnyOrder(r, o)'
    BY <1>0, <1>1, <2>2, <2>3 DEF OrderInv, AnyOrder, Rows, NoneLive
  <2> QED
    BY <2>1, <2>2, <2>4 DEF OrderInv, GoodOrder
<1>2. CASE StageTo(r, o, "done") /\ UNCHANGED <<order, reviews>>
  <2>1. Onto(r, o, "done")
    BY <1>2, StageOnto DEF CascadeInv
  <2>2. St(r, o)' = "done"
    BY <1>0, <2>1 DEF St, Onto, Request
  <2>3. Rows(o)' /\ Whole(o)' = Whole(o)
    BY <1>0, <1>2 DEF OrderInv, AnyOrder, Rows, NoneLive, Whole
  <2>4. AnyOrder(r, o)'
    BY <2>2, <2>3 DEF AnyOrder
  <2> QED
    BY <1>0, <2>1, <2>2, <2>3, <2>4 DEF OrderInv, GoodOrder
<1> QED
  BY <1>1, <1>2 DEF RestoreRow

LEMMA MarksTheHalves ==
    ASSUME CascadeInv, NEW r \in Requests, NEW o \in Orders, OrderInv(r, o),
           NEW side \in Sides, MarkHalves(r, o, side)
    PROVE  OrderInv(r, o)' /\ Onto(r, o, NextStage(side))
<1>1. /\ Onto(r, o, NextStage(side)) /\ request'[r].found = request[r].found
      /\ request[r] \in Request
  BY StageOnto DEF MarkHalves, CascadeInv, RequestsOK, RequestOK
<1>2. /\ St(r, o) = side /\ St(r, o)' = NextStage(side) /\ Removing(r)' = Removing(r)
      /\ Found(r, o)' = Found(r, o)
      /\ Found(r, o) = {t \in TasksOf(o) : task[t] = IF Removing(r) THEN "live" ELSE "deleted"}
  BY <1>1 DEF MarkHalves, At, St, Found, Removing, Onto, Request, OrderInv, AnyOrder, Sides
<1>3. UNCHANGED <<order, reviews, task, interrupted>>
  BY DEF MarkHalves, history
<1>4. \A t \in TasksOf(o), s \in Sides :
         half'[t][s] = IF t \in Found(r, o) /\ s = side THEN ~ Removing(r) ELSE half[t][s]
  BY DEF MarkHalves, Found, TasksOf, CascadeInv, RowsOK
<1>5. Rows(o)'
  BY <1>2, <1>3, <1>4 DEF OrderInv, AnyOrder, Rows, NoneLive
<1>6. CASE side = "taskAccountant"
  <2>1. AnyOrder(r, o)'
    BY <1>2, <1>3, <1>4, <1>5, <1>6 DEF OrderInv, AnyOrder, NoneLive, NextStage, Sides
  <2>2. GoodOrder(r, o) => GoodOrder(r, o)'
    BY <1>2, <1>3, <1>4, <1>6, ZenonT(60) DEF GoodOrder, Halfway, Fits, HalvesFit, HalvesGone, NextStage, Sides
  <2> QED
    BY <1>1, <1>3, <2>1, <2>2 DEF OrderInv
<1>7. CASE side = "taskSeller"
  <2>1. AnyOrder(r, o)'
    BY <1>2, <1>3, <1>4, <1>5, <1>7 DEF OrderInv, AnyOrder, NoneLive, NextStage, Sides
  <2>2. CASE Removing(r)
    <3>0. GoodOrder(r, o) =>
            /\ HalvesGone(o, "taskAccountant") /\ HalvesFit(o, "taskSeller")
            /\ reviews[o] = FALSE /\ Fits(o)
      BY <1>2, <1>7, <2>2 DEF GoodOrder, Halfway
    <3>1. GoodOrder(r, o) => HalvesGone(o, "taskAccountant")' /\ reviews'[o] = FALSE /\ Fits(o)'
      BY <1>3, <1>4, <1>7, <3>0 DEF Fits, HalvesGone, Sides
    <3>2. GoodOrder(r, o) => HalvesGone(o, "taskSeller")'
      BY <1>2, <1>4, <1>7, <2>2, <3>0 DEF HalvesFit, HalvesGone, Sides
    <3>3. GoodOrder(r, o) => GoodOrder(r, o)'
      BY <1>2, <1>3, <1>7, <2>2, <3>1, <3>2 DEF GoodOrder, Halfway, NextStage
    <3> QED
      BY <1>1, <1>3, <2>1, <3>3 DEF OrderInv
  <2>3. CASE ~ Removing(r)
    BY <1>1, <1>2, <1>7, <2>1, <2>3 DEF OrderInv, GoodOrder, NextStage
  <2> QED
    BY <2>2, <2>3
<1> QED
  BY <1>6, <1>7 DEF Sides

LEMMA MarksTheTasks ==
    ASSUME CascadeInv, NEW r \in Requests, NEW o \in Orders, OrderInv(r, o), MarkTasks(r, o)
    PROVE  /\ OrderInv(r, o)'
           /\ Onto(r, o, IF Removing(r) THEN "order" ELSE "done")
           /\ ~ Removing(r) => order'[o] = "live"
<1> DEFINE stage == IF Removing(r) THEN "order" ELSE "done"
<1>0. request[r] \in Request
  BY DEF CascadeInv, RequestsOK, RequestOK
<1>1. Onto(r, o, stage)
  <2>1. request' = [request EXCEPT ![r].stage[o] = stage, ![r].found[o] = {}]
    BY <1>0 DEF MarkTasks, CascadeInv, RequestsOK, Request
  <2>2. stage \in Stages \cup {"done"} /\ {} \in SUBSET TasksOf(o)
    BY DEF Stages
  <2> QED
    BY <2>1, <2>2, FoundOnto DEF CascadeInv
<1>2. /\ St(r, o) = "tasks" /\ St(r, o)' = stage /\ Removing(r)' = Removing(r)
      /\ Found(r, o) = {t \in TasksOf(o) : task[t] = IF Removing(r) THEN "live" ELSE "deleted"}
      /\ UNCHANGED <<order, reviews, half>>
  BY <1>0, <1>1 DEF MarkTasks, At, St, Found, Removing, Onto, Request, OrderInv, AnyOrder
<1>3. \A t \in TasksOf(o) : task'[t] =
         IF t \in Found(r, o) THEN IF Removing(r) THEN "deleted" ELSE "live" ELSE task[t]
  BY DEF MarkTasks, Found, TasksOf
<1>4. \A t \in TasksOf(o) : task[t] \in {"none", "live", "deleted"}
  BY DEF CascadeInv, RowsOK, RowStates, TasksOf
<1>5. CASE Removing(r)
  <2>1. NoneLive(o)' /\ Rows(o)'
    BY <1>2, <1>3, <1>4, <1>5 DEF OrderInv, AnyOrder, Rows, NoneLive
  <2>2. AnyOrder(r, o)'
    BY <1>2, <1>5, <2>1 DEF OrderInv, AnyOrder
  <2>3. GoodOrder(r, o) => GoodOrder(r, o)'
    BY <1>2, <1>5 DEF GoodOrder, Halfway, HalvesGone
  <2>4. interrupted' = interrupted
    BY <1>5 DEF MarkTasks
  <2> QED
    BY <1>1, <1>5, <2>2, <2>3, <2>4 DEF OrderInv
<1>6. CASE ~ Removing(r)
  <2>1. order[o] = "live" /\ reviews[o] /\ NoneLive(o) /\ Rows(o)
        /\ \A t \in Found(r, o), side \in Sides : half[t][side]
    BY <1>2, <1>6 DEF OrderInv, AnyOrder, Sides
  <2>2. \A t \in TasksOf(o), side \in Sides : half[t][side] \in BOOLEAN
    BY DEF CascadeInv, RowsOK, TasksOf
  <2>3. reviews[o] = TRUE
    BY <2>1 DEF CascadeInv, RowsOK
  <2>4. \A t \in TasksOf(o) : task'[t] \in {"none", "live"} /\
          \A side \in Sides : half'[t][side] = (task'[t] = "live")
    BY <1>2, <1>3, <1>4, <1>6, <2>1, <2>2 DEF Rows, NoneLive
  <2>5. Whole(o)' /\ Rows(o)'
    BY <1>2, <2>1, <2>3, <2>4 DEF Whole, Rows, NoneLive
  <2> QED
    BY <1>1, <1>2, <1>6, <2>1, <2>5 DEF OrderInv, AnyOrder, GoodOrder
<1> QED
  BY <1>5, <1>6

LEMMA DeletesTheOrder ==
    ASSUME CascadeInv, NEW r \in Requests, NEW o \in Orders, OrderInv(r, o), DeleteOrder(r, o)
    PROVE  OrderInv(r, o)' /\ Onto(r, o, "done") /\ order'[o] = "deleted"
<1>1. Onto(r, o, "done")
  BY StageOnto DEF DeleteOrder, CascadeInv
<1>2. /\ St(r, o) = "order" /\ St(r, o)' = "done" /\ Removing(r)
      /\ UNCHANGED <<reviews, task, half, interrupted>> /\ order'[o] = "deleted"
  BY <1>1 DEF DeleteOrder, At, St, Onto, Request, CascadeInv, RowsOK, RequestsOK, RequestOK
<1>3. NoneLive(o) /\ Rows(o)'
  BY <1>2 DEF OrderInv, AnyOrder, Rows, NoneLive
<1>4. GoodOrder(r, o) => Whole(o)'
  BY <1>2, <1>3 DEF GoodOrder, Halfway, HalvesGone, Whole, NoneLive, Sides
<1> QED
  BY <1>1, <1>2, <1>3, <1>4 DEF OrderInv, AnyOrder, GoodOrder

----------------------------------------------------------------------------
(* Every step keeps what is known of the orders. *)

\* A request is forgotten, or goes on, with the orders where they are.
LEMMA BecomeStays ==
    ASSUME RequestsOK, NEW r \in Requests, NEW o \in Orders,
           Become(r, [request[r] EXCEPT !.pc = "done"])
    PROVE  /\ request'[r].stage[o] = request[r].stage[o]
           /\ \/ request[r].stage[o] = "done"
              \/ request'[r].found[o] = request[r].found[o] /\ request'[r].kind = request[r].kind
<1> DEFINE q == [request[r] EXCEPT !.pc = "done"]
<1>1. request[r] \in Request /\ Steady(request[r]) /\ request = [s \in Requests |-> request[s]]
  BY DEF RequestsOK, RequestOK
<1>2. /\ q.stage = request[r].stage /\ q.found = request[r].found
      /\ q.kind = request[r].kind /\ q.cascade = request[r].cascade
  BY <1>1 DEF Request
<1> HIDE DEF q
<1>3. request'[r] = IF q.pc = "done" /\ q.cascade = "done" THEN NoRequest ELSE q
  BY <1>1 DEF Become, q
<1>4. CASE request'[r] = q
  BY <1>2, <1>4
<1>5. CASE request'[r] = NoRequest /\ request[r].cascade = "done"
  <2>1. request[r].stage[o] = "done"
    BY <1>1, <1>5 DEF Steady
  <2> QED
    BY <1>5, <2>1 DEF NoRequest
<1> QED
  BY <1>2, <1>3, <1>4, <1>5

LEMMA HandlerEnds ==
    ASSUME RequestsOK, NEW r \in Requests, NEW o \in Orders, request[r].stage[o] = "done",
           Become(r, [request[r] EXCEPT !.cascade = "done"])
    PROVE  request'[r].stage[o] = "done"
<1>1. request[r] \in Request /\ request = [s \in Requests |-> request[s]]
  BY DEF RequestsOK, RequestOK
<1> DEFINE q == [request[r] EXCEPT !.cascade = "done"]
<1>2. q.stage = request[r].stage
  BY <1>1 DEF Request
<1> HIDE DEF q
<1>3. request'[r] = q \/ request'[r] = NoRequest
  BY <1>1 DEF Become, q
<1> QED
  BY <1>2, <1>3 DEF NoRequest

\* The orders a request is given.
LEMMA WorkingOnto ==
    ASSUME NEW q \in Request, NEW S \in SUBSET Orders, NEW o \in Orders
    PROVE  /\ Working(q, S).kind = q.kind /\ Working(q, S).of = q.of
           /\ Working(q, S).pc = q.pc /\ Working(q, S).cascade = "run"
           /\ Working(q, S).stage[o] = IF o \in S THEN FirstStage(q.kind) ELSE "done"
<1> DEFINE stage == [x \in Orders |-> IF x \in S THEN FirstStage(q.kind) ELSE "done"]
<1>1. Working(q, S) = [q EXCEPT !.cascade = "run", !.stage = stage]
  BY DEF Working
<1>2. stage[o] = IF o \in S THEN FirstStage(q.kind) ELSE "done"
  OBVIOUS
<1> HIDE DEF stage
<1> QED
  BY <1>1, <1>2 DEF Request

LEMMA Starts ==
    ASSUME NEW r, NEW o, OrderInv(r, o), RowsKept(o), request[r].stage[o] = "done",
           \/ request'[r].stage[o] = "done"
           \/ order[o] # "none" /\ request'[r].stage[o] = FirstStage(request'[r].kind),
           o \in interrupted => o \in interrupted'
    PROVE  OrderInv(r, o)'
BY Untouched, Begins

LEMMA NewRequestOrders ==
    ASSUME Distinct, CascadeInv, NEW r \in Requests, NewRequest(r), NEW o \in Orders, OrderInv(r, o)
    PROVE  OrderInv(r, o)'
<1>1. request[r] = NoRequest /\ RequestsOK
  BY DEF NewRequest, RemoveClient, RestoreClient, RestoreCompany, CreateOrder, RemoveOrder,
     RestoreOrder, RestoreAll, FollowUp, Start, Idle, CascadeInv, RequestsOK, RequestOK, Steady
<1>2. RowsKept(o)
  BY DEF NewRequest, RemoveClient, RestoreClient, RestoreCompany, CreateOrder, RemoveOrder,
     RestoreOrder, RestoreAll, FollowUp, tables, RowsKept
<1>3. o \in interrupted => o \in interrupted'
  <2>1. ASSUME NEW c \in Clients, RestoreClient(r, c) PROVE o \in interrupted => o \in interrupted'
    BY <2>1 DEF RestoreClient, Distinct
  <2> QED
    BY <2>1 DEF NewRequest, RemoveClient, RestoreCompany, CreateOrder, RemoveOrder, RestoreOrder,
       RestoreAll, FollowUp, history
<1>4. request[r].stage[o] = "done"
  BY <1>1 DEF NoRequest
<1>5. CASE request'[r].stage[o] = "done"
  BY <1>2, <1>3, <1>4, <1>5, Starts
<1>6. ASSUME NEW kind \in {"removeOrder", "restoreOrder", "restoreAll"}, NEW S \in SUBSET Orders,
             request' = [request EXCEPT ![r] = Working(On(kind), S)],
             o \in S => order[o] # "none"
      PROVE  OrderInv(r, o)'
  <2>1. On(kind) \in Request /\ On(kind).kind = kind
    BY DEF On, NoRequest, Request, AllKinds, Removals, Restorations, Stages
  <2>2. /\ request'[r].kind = kind
        /\ request'[r].stage[o] = IF o \in S THEN FirstStage(kind) ELSE "done"
    BY <1>1, <1>6, <2>1, WorkingOnto DEF RequestsOK
  <2> QED
    BY <1>2, <1>3, <1>4, <1>6, <2>2, Starts
<1>7. ASSUME NEW p \in Orders, RemoveOrder(r, p) \/ RestoreOrder(r, p) PROVE OrderInv(r, o)'
  <2>1. {p} \in SUBSET Orders /\ order[p] # "none"
    BY <1>7 DEF RemoveOrder, RestoreOrder
  <2>2. \/ request' = [request EXCEPT ![r] = Working(On("removeOrder"), {p})]
        \/ request' = [request EXCEPT ![r] = Working(On("restoreOrder"), {p})]
    BY <1>7 DEF RemoveOrder, RestoreOrder, Start
  <2> QED
    BY <1>6, <2>1, <2>2
<1>8. CASE RestoreAll(r)
  <2>1. request' = [request EXCEPT ![r] = Working(On("restoreAll"), Deleted)]
    BY <1>8 DEF RestoreAll, Start
  <2>2. (o \in Deleted => order[o] # "none") /\ Deleted \in SUBSET Orders
    BY DEF Deleted
  <2> QED
    BY <1>6, <2>1, <2>2
<1>9. CASE \/ \E c \in Clients : RemoveClient(r, c) \/ RestoreClient(r, c)
           \/ \E k \in Companies : RestoreCompany(r, k)
           \/ \E p \in Orders : CreateOrder(r, p)
           \/ \E t \in Tasks : FollowUp(r, t)
  <2> DEFINE Fresh(q) == request' = [request EXCEPT ![r] = q] /\ q.stage[o] = "done"
  <2>1. /\ \A c \in Clients :
             /\ RemoveClient(r, c) => Fresh([On("removeClient") EXCEPT !.of = c, !.pc = "info"])
             /\ RestoreClient(r, c) => Fresh([On("restoreClient") EXCEPT !.of = c, !.cascade = "list"])
        /\ \A k \in Companies :
             RestoreCompany(r, k) => Fresh([On("restoreCompany") EXCEPT !.of = k, !.cascade = "list"])
    BY DEF RemoveClient, RestoreClient, RestoreCompany, Start, On, NoRequest
  <2>2. /\ \A p \in Orders :
             CreateOrder(r, p) => Fresh([On("createOrder") EXCEPT !.of = p, !.pc = "create"])
        /\ \A t \in Tasks :
             FollowUp(r, t) => Fresh([On("followUp") EXCEPT !.of = t, !.pc = "followUp"])
    BY DEF CreateOrder, FollowUp, Start, On, NoRequest
  <2>3. ASSUME NEW q, Fresh(q) PROVE OrderInv(r, o)'
    BY <1>1, <1>5, <2>3 DEF RequestsOK
  <2> HIDE DEF Fresh
  <2> QED
    BY <1>9, <2>1, <2>2, <2>3
<1> QED
  BY <1>7, <1>8, <1>9 DEF NewRequest

LEMMA OrderStepOrders ==
    ASSUME CascadeInv, NEW r \in Requests, NEW p \in Orders, OrderStep(r, p),
           OrderInv(r, p), NEW o \in Orders, OrderInv(r, o)
    PROVE  OrderInv(r, o)'
<1>1. CASE o = p
  BY <1>1, FindsTheTasks, DeletesTheReviews, RestoresTheRow, MarksTheHalves, MarksTheTasks,
     DeletesTheOrder DEF OrderStep
<1>2. CASE o # p
  <2>1. PICK stage : Onto(r, p, stage)
    BY FindsTheTasks, DeletesTheReviews, RestoresTheRow, MarksTheHalves, MarksTheTasks,
       DeletesTheOrder DEF OrderStep
  <2>2. request[r] \in Request /\ request[r].found[p] \subseteq TasksOf(p)
    BY DEF CascadeInv, RequestsOK, RequestOK, Steady
  <2>3. \A t \in TasksOf(o) : t \in Tasks /\ t \notin request[r].found[p]
    BY <1>2, <2>2 DEF TasksOf
  <2>4. order'[o] = order[o] /\ reviews'[o] = reviews[o]
    BY <1>2 DEF OrderStep, FindTasks, DeleteReviews, RestoreRow, MarkHalves, MarkTasks, DeleteOrder,
       tables, CascadeInv, RowsOK
  <2>5. \A t \in TasksOf(o) : task'[t] = task[t] /\ half'[t] = half[t]
    BY <2>3 DEF OrderStep, FindTasks, DeleteReviews, RestoreRow, MarkHalves, MarkTasks, DeleteOrder, tables
  <2>6. o \in interrupted => o \in interrupted'
    BY <1>2 DEF OrderStep, FindTasks, DeleteReviews, RestoreRow, MarkHalves, MarkTasks, DeleteOrder,
       history
  <2> QED
    BY <1>2, <2>1, <2>2, <2>4, <2>5, <2>6, OthersUntouched DEF RowsKept
<1> QED
  BY <1>1, <1>2

LEMMA StepOrders ==
    ASSUME Distinct, CascadeInv, NEW r \in Requests, SerialInv(r), Step(r), NEW o \in Orders
    PROVE  OrderInv(r, o)'
<1> DEFINE q == request[r]
<1>0. /\ RequestsOK /\ OrderInv(r, o) /\ Knows(r) /\ q \in Request /\ Steady(q)
      /\ request = [s \in Requests |-> request[s]]
  BY DEF CascadeInv, RequestsOK, RequestOK, SerialInv
<1>1. CASE DeleteInfo(r)
  <2>1. request'[r].stage = q.stage /\ request'[r].found = q.found /\ request'[r].kind = q.kind
    BY <1>0, <1>1 DEF DeleteInfo, Request
  <2> QED
    BY <1>0, <1>1, <2>1, Untouched DEF DeleteInfo, RowsKept
<1>2. CASE DeleteClient(r)
  <2>1. q.of \in Clients
    BY <1>0, <1>2 DEF DeleteClient, Steady
  <2>2. o \in interrupted => o \in interrupted'
    BY <1>2, <2>1 DEF DeleteClient, Distinct
  <2>3. RowsKept(o)
    BY <1>2 DEF DeleteClient, RowsKept
  <2> QED
    BY <1>0, <1>2, <2>2, <2>3, BecomeStays, Untouched DEF DeleteClient
<1>3. CASE InsertOrder(r)
  <2>1. /\ q.cascade = "done" /\ order[q.of] = "none" /\ q.stage[o] = "done"
    BY <1>0, <1>3 DEF InsertOrder, Knows, Steady
  <2>2. request'[r].stage[o] = "done"
    BY <1>0, <1>3, <2>1, BecomeStays DEF InsertOrder
  <2>3. CASE o = q.of
    <3>1. /\ order'[o] = "live" /\ reviews'[o] = TRUE /\ UNCHANGED <<task, half>>
      BY <1>3, <2>3 DEF InsertOrder, CascadeInv, RowsOK
    <3>2. \A t \in TasksOf(o) : task[t] = "none" /\ \A side \in Sides : half[t][side] = FALSE
      BY <1>0, <2>1, <2>3 DEF OrderInv, AnyOrder, Rows
    <3>3. Rows(o)' /\ Whole(o)'
      BY <3>1, <3>2 DEF Rows, Whole
    <3> QED
      BY <2>2, <3>1, <3>3 DEF OrderInv, AnyOrder, GoodOrder, St
  <2>4. CASE o # q.of
    <3>1. RowsKept(o) /\ interrupted' = interrupted
      BY <1>3, <2>4 DEF InsertOrder, RowsKept, CascadeInv, RowsOK
    <3> QED
      BY <1>0, <2>1, <2>2, <3>1, Untouched
  <2> QED
    BY <2>3, <2>4
<1>4. CASE CreateFollowUp(r)
  <2>1. /\ q.cascade = "done" /\ q.stage[o] = "done" /\ q.of \in Tasks
        /\ task[q.of] = "none" /\ order[OrderOf[q.of]] = "live"
    BY <1>0, <1>4 DEF CreateFollowUp, Knows, Steady
  <2>2. request'[r].stage[o] = "done"
    BY <1>0, <1>4, <2>1, BecomeStays DEF CreateFollowUp
  <2>3. /\ task' = [task EXCEPT ![q.of] = "live"]
        /\ half' = [half EXCEPT ![q.of] = [side \in Sides |-> TRUE]]
        /\ UNCHANGED <<order, reviews, interrupted>>
    BY <1>4 DEF CreateFollowUp, history
  <2>4. \A t \in TasksOf(o) : t \in Tasks /\
          IF t = q.of THEN task'[t] = "live" /\ \A side \in Sides : half'[t][side] = TRUE
          ELSE task'[t] = task[t] /\ half'[t] = half[t]
    BY <2>3 DEF TasksOf, CascadeInv, RowsOK
  <2>5. CASE OrderOf[q.of] = o
    <3>1. order[o] = "live"
      BY <2>1, <2>5
    <3>2. Rows(o)'
      BY <1>0, <2>3, <2>4, <3>1 DEF OrderInv, AnyOrder, Rows
    <3>3. Whole(o) => Whole(o)'
      <4> SUFFICES ASSUME Whole(o) PROVE Whole(o)'
        OBVIOUS
      <4>1. reviews'[o] = (order'[o] = "live") /\ order'[o] = "live"
        BY <2>3, <3>1 DEF Whole
      <4>2. \A t \in TasksOf(o) : task'[t] # "deleted" /\
              \A side \in Sides : half'[t][side] = (task'[t] = "live")
        <5> TAKE t \in TasksOf(o)
        <5>1. CASE t = q.of
          BY <2>4, <5>1
        <5>2. CASE t # q.of
          BY <2>4, <3>1, <5>2 DEF Whole
        <5> QED
          BY <5>1, <5>2
      <4> QED
        BY <4>1, <4>2 DEF Whole
    <3>4. o \notin interrupted => Whole(o)
      BY <1>0, <2>1 DEF OrderInv, GoodOrder, St
    <3> QED
      BY <2>2, <2>3, <3>1, <3>2, <3>3, <3>4 DEF OrderInv, AnyOrder, GoodOrder, St
  <2>6. CASE OrderOf[q.of] # o
    <3>1. RowsKept(o)
      BY <2>3, <2>4, <2>6 DEF RowsKept, TasksOf
    <3> QED
      BY <1>0, <2>1, <2>2, <2>3, <3>1, Untouched
  <2> QED
    BY <2>5, <2>6
<1>5. CASE ListOrders(r)
  <2>1. RowsKept(o) /\ interrupted' = interrupted
    BY <1>5 DEF ListOrders, tables, history, RowsKept
  <2>2. q.stage[o] = "done"
    BY <1>0, <1>5 DEF ListOrders, Steady
  <2>3. /\ request'[r].kind = q.kind
        /\ request'[r].stage[o] = IF o \in Listed(q) THEN FirstStage(q.kind) ELSE "done"
    <3>1. request'[r] = Working(q, Listed(q))
      BY <1>0, <1>5 DEF ListOrders
    <3>2. q.kind \in {"removeClient", "restoreClient", "restoreCompany"}
      BY <1>0, <1>5 DEF ListOrders, Knows
    <3>3. Listed(q) \in SUBSET Orders
      BY <3>2 DEF Listed, Deleted, OrdersOf
    <3> QED
      BY <1>0, <3>1, <3>3, WorkingOnto
  <2>4. CASE q.kind \in {"removeClient", "restoreClient", "restoreCompany"}
    <3>1. o \in Listed(q) => order[o] # "none"
      BY <2>4 DEF Listed, Deleted
    <3> QED
      BY <1>0, <2>1, <2>2, <2>3, <3>1, Starts
  <2>5. CASE q.kind \notin {"removeClient", "restoreClient", "restoreCompany"}
    \* only these three have a handler
    BY <1>0, <1>5, <2>5 DEF ListOrders, Knows
  <2> QED
    BY <2>4, <2>5
<1>6. CASE EndCascade(r)
  <2>1. q.stage[o] = "done" /\ request'[r].stage[o] = "done"
    BY <1>0, <1>6, HandlerEnds DEF EndCascade
  <2>2. RowsKept(o) /\ interrupted' = interrupted
    BY <1>6 DEF EndCascade, tables, history, RowsKept
  <2> QED
    BY <1>0, <2>1, <2>2, Untouched
<1>7. ASSUME NEW p \in Orders, OrderStep(r, p) PROVE OrderInv(r, o)'
  BY <1>7, OrderStepOrders DEF SerialInv
<1> QED
  BY <1>1, <1>2, <1>3, <1>4, <1>5, <1>6, <1>7 DEF Step

LEMMA FailOrders ==
    ASSUME CascadeInv, NEW r \in Requests, Fail(r), NEW o \in Orders, OrderInv(r, o)
    PROVE  OrderInv(r, o)'
<1>0. /\ RequestsOK /\ request[r] \in Request /\ Steady(request[r])
      /\ RowsKept(o) /\ (o \in interrupted => o \in interrupted')
  BY DEF CascadeInv, RequestsOK, RequestOK, Fail, FailCall, FailListing, FailOrder, tables, RowsKept
<1>1. CASE FailCall(r)
  BY <1>0, <1>1, BecomeStays, Untouched DEF FailCall
<1>2. CASE FailListing(r)
  <2>1. request[r].stage[o] = "done"
    BY <1>0, <1>2 DEF FailListing, Steady
  <2>2. request'[r].stage[o] = "done"
    BY <1>0, <1>2, <2>1, HandlerEnds DEF FailListing
  <2> QED
    BY <1>0, <2>1, <2>2, Untouched
<1>3. ASSUME NEW p \in Orders, FailOrder(r, p) PROVE OrderInv(r, o)'
  <2>1. Onto(r, p, "done")
    <3>1. request' = [request EXCEPT ![r].stage[p] = "done", ![r].found[p] = {}]
      BY <1>3 DEF FailOrder
    <3>2. "done" \in Stages \cup {"done"} /\ {} \in SUBSET TasksOf(p)
      OBVIOUS
    <3> QED
      BY <1>0, <3>1, <3>2, FoundOnto
  <2>2. CASE o = p
    <3>1. request'[r].stage[o] = "done" /\ o \in interrupted'
      BY <1>0, <1>3, <2>1, <2>2 DEF FailOrder, Onto, Request
    <3> QED
      BY <1>0, <3>1, GivenUp
  <2>3. CASE o # p
    BY <1>0, <2>1, <2>3, OthersUntouched
  <2> QED
    BY <2>2, <2>3
<1> QED
  BY <1>1, <1>2, <1>3 DEF Fail

LEMMA OrdersStep ==
    ASSUME Distinct, CascadeInv, NEW r \in Requests, Requests = {r}, SerialInv(r), [Next]_vars,
           NEW o \in Orders
    PROVE  OrderInv(r, o)'
<1>0. OrderInv(r, o)
  BY DEF SerialInv
<1>1. CASE NewRequest(r) \/ Step(r) \/ Fail(r)
  BY <1>0, <1>1, NewRequestOrders, StepOrders, FailOrders
<1>2. CASE Restart
  <2>1. RowsKept(o) /\ request'[r] = NoRequest
    BY <1>2 DEF Restart, tables, RowsKept
  <2>2. o \in interrupted \/ request[r].stage[o] # "done" => o \in interrupted'
    BY <1>2 DEF Restart
  <2> QED
    BY <1>0, <2>1, <2>2, Untouched, GivenUp DEF NoRequest
<1>3. CASE UNCHANGED <<order, reviews, task, half, request, interrupted>>
  BY <1>0, <1>3, Untouched DEF RowsKept
<1>4. ASSUME NEW k \in Companies, RemoveCompany(k) PROVE OrderInv(r, o)'
  BY <1>3, <1>4 DEF RemoveCompany, history
<1>5. CASE UNCHANGED vars
  BY <1>3, <1>5 DEF vars, tables, history
<1> QED
  BY <1>1, <1>2, <1>4, <1>5 DEF Next

----------------------------------------------------------------------------
(* What the request in flight knows, and the clients. *)

\* The request goes on where it was: its own calls are as before, or done.
Onward(r) ==
    /\ request'[r].kind = request[r].kind /\ request'[r].of = request[r].of
    /\ request'[r].pc = request[r].pc
    /\ request[r].cascade # "done" /\ request'[r].cascade \in {"run", "done"}
Over(r) ==
    /\ request'[r].pc = "done" /\ request'[r].cascade \in {request[r].cascade, "done"}
    /\ request'[r].kind \in {request[r].kind, "none"}
    /\ request'[r].kind = "none" => request'[r] = NoRequest

LEMMA BecomeOver ==
    ASSUME RequestsOK, NEW r \in Requests
    PROVE  /\ Become(r, [request[r] EXCEPT !.pc = "done"]) => Over(r)
           /\ Become(r, [request[r] EXCEPT !.cascade = "done"]) /\ request[r].cascade # "done" =>
                Onward(r) \/ (request'[r] = NoRequest /\ request[r].pc = "done")
<1> DEFINE a == [request[r] EXCEPT !.pc = "done"]
           b == [request[r] EXCEPT !.cascade = "done"]
<1>1. request[r] \in Request /\ Steady(request[r]) /\ request = [s \in Requests |-> request[s]]
  BY DEF RequestsOK, RequestOK
<1>2. /\ a.pc = "done" /\ a.cascade = request[r].cascade /\ a.kind = request[r].kind
      /\ b.pc = request[r].pc /\ b.cascade = "done" /\ b.kind = request[r].kind
      /\ b.of = request[r].of
  BY <1>1 DEF Request
<1>3. ASSUME a.kind = "none" PROVE a = NoRequest
  <2>1. request[r] = NoRequest
    <3>1. request[r].kind = "none"
      BY <1>2, <1>3
    <3> QED
      BY <1>1, <3>1 DEF Steady
  <2>2. a = [NoRequest EXCEPT !.pc = "done"]
    BY <2>1
  <2>3. [NoRequest EXCEPT !.pc = "done"] = NoRequest
    BY DEF NoRequest
  <2> HIDE DEF a, b
  <2> QED
    BY <2>2, <2>3
<1> HIDE DEF a, b
<1>4. Become(r, a) => (request'[r] = NoRequest /\ request[r].cascade = "done") \/ request'[r] = a
  BY <1>1, <1>2 DEF Become
<1>5. Become(r, b) => (request'[r] = NoRequest /\ request[r].pc = "done") \/ request'[r] = b
  BY <1>1, <1>2 DEF Become
<1>6. NoRequest.pc = "done" /\ NoRequest.cascade = "done" /\ NoRequest.kind = "none"
  BY DEF NoRequest
<1>7. Become(r, a) => Over(r)
  BY <1>2, <1>3, <1>4, <1>6 DEF Over
<1>8. Become(r, b) /\ request[r].cascade # "done" =>
        Onward(r) \/ (request'[r] = NoRequest /\ request[r].pc = "done")
  <2>1. request'[r] = b /\ request[r].cascade # "done" => Onward(r)
    BY <1>2 DEF Onward
  <2> QED
    BY <1>5, <2>1
<1> QED
  BY <1>7, <1>8 DEF a, b

\* The step of an order is the request's and goes on with it.
LEMMA OrderStepOnward ==
    ASSUME CascadeInv, NEW r \in Requests, NEW o \in Orders, OrderStep(r, o), OrderInv(r, o)
    PROVE  /\ Onward(r) /\ client' = client /\ request[r].cascade = "run"
           /\ request'[r].cascade = "run"
           /\ \A p \in Orders \ {o} : /\ order'[p] = order[p]
                                      /\ request'[r].stage[p] = request[r].stage[p]
                                      /\ p \in interrupted => p \in interrupted'
           /\ \A c \in Clients : c \notin Orders /\ c \in interrupted => c \in interrupted'
<1>0. /\ request[r] \in Request /\ Steady(request[r]) /\ RequestsOK
      /\ order \in [Orders -> RowStates]
  BY DEF CascadeInv, RequestsOK, RequestOK, RowsOK
<1>1. PICK stage : Onto(r, o, stage)
  BY FindsTheTasks, DeletesTheReviews, RestoresTheRow, MarksTheHalves, MarksTheTasks,
     DeletesTheOrder DEF OrderStep
<1>2. request[r].stage[o] # "done"
  BY DEF OrderStep, FindTasks, DeleteReviews, RestoreRow, MarkHalves, MarkTasks, DeleteOrder, At, Sides
<1>3. request[r].cascade = "run"
  BY <1>0, <1>2 DEF Steady, Request
<1>4. client' = client
  BY DEF OrderStep, FindTasks, DeleteReviews, RestoreRow, MarkHalves, MarkTasks, DeleteOrder, tables
<1>5. \A p \in Orders \ {o} : order'[p] = order[p]
  BY <1>0 DEF OrderStep, FindTasks, DeleteReviews, RestoreRow, MarkHalves, MarkTasks, DeleteOrder, tables
<1>6. interrupted \ {o} \subseteq interrupted'
  BY DEF OrderStep, FindTasks, DeleteReviews, RestoreRow, MarkHalves, MarkTasks, DeleteOrder, history
<1>7. \A p \in Orders \ {o} : request'[r].stage[p] = request[r].stage[p]
  BY <1>0, <1>1 DEF Onto, Request
<1> QED
  BY <1>1, <1>3, <1>4, <1>5, <1>6, <1>7 DEF Onto, Onward

LEMMA KnowsStep ==
    ASSUME CascadeInv, NEW r \in Requests, Requests = {r}, SerialInv(r), [Next]_vars
    PROVE  Knows(r)'
<1> DEFINE q == request[r]
<1>0. /\ RequestsOK /\ Knows(r) /\ q \in Request /\ Steady(q)
      /\ request = [s \in Requests |-> request[s]]
  BY DEF CascadeInv, RequestsOK, RequestOK, SerialInv
<1>1. ASSUME Onward(r), client' = client PROVE Knows(r)'
  BY <1>0, <1>1 DEF Knows, Onward
<1>2. ASSUME Over(r) PROVE Knows(r)'
  <2>1. NoRequest.cascade = "done"
    BY DEF NoRequest
  <2> QED
    BY <1>0, <1>2, <2>1 DEF Knows, Over
<1>3. ASSUME request'[r] = NoRequest PROVE Knows(r)'
  BY <1>3 DEF Knows, NoRequest
<1>4. CASE UNCHANGED <<client, order, task, request>>
  BY <1>0, <1>4 DEF Knows
<1>5. CASE NewRequest(r)
  <2>1. ASSUME NEW c \in Clients, RemoveClient(r, c) PROVE Knows(r)'
    BY <1>0, <2>1 DEF RemoveClient, Start, On, NoRequest, Knows
  <2>2. ASSUME NEW c \in Clients, RestoreClient(r, c) PROVE Knows(r)'
    BY <1>0, <2>2 DEF RestoreClient, Start, On, NoRequest, Knows
  <2>3. ASSUME NEW k \in Companies, RestoreCompany(r, k) PROVE Knows(r)'
    BY <1>0, <2>3 DEF RestoreCompany, Start, On, NoRequest, Knows
  <2>4. ASSUME NEW o \in Orders, CreateOrder(r, o) PROVE Knows(r)'
    BY <1>0, <2>4 DEF CreateOrder, Start, On, NoRequest, Knows, tables
  <2>5. ASSUME NEW t \in Tasks, FollowUp(r, t) PROVE Knows(r)'
    BY <1>0, <2>5 DEF FollowUp, Start, On, NoRequest, Knows, tables
  <2>6. ASSUME NEW kind \in {"removeOrder", "restoreOrder", "restoreAll"}, NEW S \in SUBSET Orders,
               request' = [request EXCEPT ![r] = Working(On(kind), S)]
        PROVE  Knows(r)'
    <3>1. On(kind) \in Request /\ On(kind).kind = kind /\ On(kind).pc = "done"
      BY DEF On, NoRequest, Request, AllKinds, Removals, Restorations, Stages
    <3>2. request'[r] = Working(On(kind), S)
      BY <1>0, <2>6
    <3>3. request'[r].pc = "done" /\ request'[r].cascade = "run"
      BY <3>1, <3>2 DEF Working, Request
    <3> QED
      BY <3>3 DEF Knows
  <2>7. Deleted \in SUBSET Orders /\ \A o \in Orders : {o} \in SUBSET Orders
    BY DEF Deleted
  <2>8. CASE RestoreAll(r)
    BY <2>6, <2>7, <2>8 DEF RestoreAll, Start
  <2>9. ASSUME NEW o \in Orders, RemoveOrder(r, o) \/ RestoreOrder(r, o) PROVE Knows(r)'
    <3>1. \/ request' = [request EXCEPT ![r] = Working(On("removeOrder"), {o})]
          \/ request' = [request EXCEPT ![r] = Working(On("restoreOrder"), {o})]
      BY <2>9 DEF RemoveOrder, RestoreOrder, Start
    <3> QED
      BY <2>6, <2>7, <3>1
  <2> QED
    BY <1>5, <2>1, <2>2, <2>3, <2>4, <2>5, <2>8, <2>9 DEF NewRequest
<1>6. CASE Step(r)
  <2>1. CASE DeleteInfo(r)
    <3>1. q.kind = "removeClient" /\ q.of \in Clients
      BY <1>0, <2>1 DEF DeleteInfo, Steady
    <3>2. /\ request'[r].pc = "client" /\ request'[r].cascade = "list"
          /\ request'[r].kind = "removeClient" /\ request'[r].of = q.of
      BY <1>0, <2>1, <3>1 DEF DeleteInfo, Request
    <3>3. ~ client'[q.of].info
      BY <2>1, <3>1 DEF DeleteInfo, CascadeInv, RowsOK
    <3> QED
      BY <3>2, <3>3 DEF Knows
  <2>2. CASE DeleteClient(r) \/ InsertOrder(r) \/ CreateFollowUp(r)
    BY <1>0, <1>2, <2>2, BecomeOver DEF DeleteClient, InsertOrder, CreateFollowUp
  <2>3. CASE ListOrders(r)
    <3>1. request'[r] = Working(q, Listed(q)) /\ client' = client /\ q.cascade = "list"
      BY <1>0, <2>3 DEF ListOrders, tables
    <3>2. /\ request'[r].kind = q.kind /\ request'[r].of = q.of /\ request'[r].pc = q.pc
          /\ request'[r].cascade = "run"
      BY <1>0, <3>1 DEF Working, Request
    <3> QED
      BY <1>1, <3>1, <3>2 DEF Onward
  <2>4. CASE EndCascade(r)
    BY <1>0, <1>1, <1>3, <2>4, BecomeOver DEF EndCascade, tables
  <2>5. ASSUME NEW o \in Orders, OrderStep(r, o) PROVE Knows(r)'
    BY <1>1, <2>5, OrderStepOnward DEF SerialInv
  <2> QED
    BY <1>6, <2>1, <2>2, <2>3, <2>4, <2>5 DEF Step
<1>7. CASE Fail(r)
  <2>1. CASE FailCall(r)
    BY <1>0, <1>2, <2>1, BecomeOver DEF FailCall
  <2>2. CASE FailListing(r)
    BY <1>0, <1>1, <1>3, <2>2, BecomeOver DEF FailListing, tables
  <2>3. ASSUME NEW o \in Orders, FailOrder(r, o) PROVE Knows(r)'
    <3>1. request'[r] = [request[r] EXCEPT !.stage[o] = "done", !.found[o] = {}]
      BY <1>0, <2>3 DEF FailOrder
    <3>2. /\ request'[r].kind = q.kind /\ request'[r].of = q.of /\ request'[r].pc = q.pc
          /\ request'[r].cascade = q.cascade
      BY <1>0, <3>1 DEF Request
    <3>3. client' = client /\ q.cascade = "run"
      BY <1>0, <2>3 DEF FailOrder, tables, Steady, Request
    <3> QED
      BY <1>1, <3>2, <3>3 DEF Onward
  <2> QED
    BY <1>7, <2>1, <2>2, <2>3 DEF Fail
<1>8. CASE Restart
  BY <1>3, <1>8 DEF Restart
<1>9. ASSUME NEW k \in Companies, RemoveCompany(k) PROVE Knows(r)'
  BY <1>4, <1>9 DEF RemoveCompany
<1>10. CASE UNCHANGED vars
  BY <1>4, <1>10 DEF vars, tables
<1> QED
  BY <1>5, <1>6, <1>7, <1>8, <1>9, <1>10 DEF Next

LEMMA ClientsStep ==
    ASSUME Distinct, CascadeInv, NEW r \in Requests, Requests = {r}, SerialInv(r), [Next]_vars,
           NEW c \in Clients
    PROVE  ClientInv(r, c)'
<1> DEFINE q == request[r]
<1>0. /\ RequestsOK /\ Knows(r) /\ q \in Request /\ Steady(q) /\ ClientInv(r, c)
      /\ request = [s \in Requests |-> request[s]]
      /\ client \in [Clients -> [row : BOOLEAN, info : BOOLEAN]] /\ c \notin Orders
  BY DEF CascadeInv, RequestsOK, RequestOK, SerialInv, Distinct, RowsOK
<1>1. ASSUME client' = client, c \in interrupted => c \in interrupted',
             q.pc = "client" => request'[r].pc = "client" /\ request'[r].of = q.of
      PROVE  ClientInv(r, c)'
  BY <1>0, <1>1 DEF ClientInv
<1>2. CASE NewRequest(r)
  <2>1. q.pc = "done"
    <3>1. Idle(r)
      BY <1>2 DEF NewRequest, RemoveClient, RestoreClient, RestoreCompany, CreateOrder,
         RemoveOrder, RestoreOrder, RestoreAll, FollowUp, Start
    <3>2. q = NoRequest
      BY <1>0, <3>1 DEF Idle, Steady
    <3> QED
      BY <3>2 DEF NoRequest
  <2>2. ASSUME NEW d \in Clients, RestoreClient(r, d) PROVE ClientInv(r, c)'
    <3>1. c = d => client'[c].row = client'[c].info
      BY <1>0, <2>2 DEF RestoreClient
    <3>2. c # d => client'[c] = client[c] /\ (c \in interrupted => c \in interrupted')
      BY <1>0, <2>2 DEF RestoreClient
    <3> QED
      BY <1>0, <2>1, <3>1, <3>2 DEF ClientInv
  <2>3. CASE UNCHANGED <<client, interrupted>>
    BY <1>1, <2>1, <2>3
  <2> QED
    BY <1>2, <2>2, <2>3 DEF NewRequest, RemoveClient, RestoreCompany, CreateOrder, RemoveOrder,
       RestoreOrder, RestoreAll, FollowUp, tables, history
<1>3. CASE Step(r)
  <2>1. CASE DeleteInfo(r)
    <3>1. request'[r].pc = "client" /\ request'[r].of = q.of
      BY <1>0, <2>1 DEF DeleteInfo, Request
    <3>2. c # q.of => client'[c] = client[c]
      BY <1>0, <2>1 DEF DeleteInfo
    <3>3. interrupted' = interrupted /\ q.pc = "info"
      BY <2>1 DEF DeleteInfo
    <3> QED
      BY <1>0, <3>1, <3>2, <3>3 DEF ClientInv
  <2>2. CASE DeleteClient(r)
    <3>1. q.of \in Clients /\ client[q.of].info = FALSE
      BY <1>0, <2>2 DEF DeleteClient, Steady, Knows
    <3>2. c = q.of => client'[c].row = client'[c].info
      BY <1>0, <2>2, <3>1 DEF DeleteClient
    <3>3. c # q.of => client'[c] = client[c] /\ (c \in interrupted => c \in interrupted')
      BY <1>0, <2>2 DEF DeleteClient
    <3> QED
      BY <1>0, <3>2, <3>3 DEF ClientInv
  <2>3. CASE InsertOrder(r) \/ CreateFollowUp(r)
    BY <1>1, <2>3 DEF InsertOrder, CreateFollowUp, history
  <2>4. CASE ListOrders(r)
    <3>1. request'[r] = Working(q, Listed(q)) /\ UNCHANGED <<client, interrupted>>
      BY <1>0, <2>4 DEF ListOrders, tables, history
    <3>2. request'[r].of = q.of /\ request'[r].pc = q.pc
      BY <1>0, <3>1 DEF Working, Request
    <3> QED
      BY <1>1, <3>1, <3>2
  <2>5. CASE EndCascade(r)
    <3>1. UNCHANGED <<client, interrupted>>
      BY <2>5 DEF EndCascade, tables, history
    <3>2. Onward(r) \/ (request'[r] = NoRequest /\ q.pc = "done")
      BY <1>0, <2>5, BecomeOver DEF EndCascade
    <3> QED
      BY <1>1, <3>1, <3>2 DEF Onward
  <2>6. ASSUME NEW o \in Orders, OrderStep(r, o) PROVE ClientInv(r, c)'
    <3>1. Onward(r) /\ client' = client /\ (c \in interrupted => c \in interrupted')
      BY <1>0, <2>6, OrderStepOnward DEF SerialInv
    <3> QED
      BY <1>1, <3>1 DEF Onward
  <2> QED
    BY <1>3, <2>1, <2>2, <2>3, <2>4, <2>5, <2>6 DEF Step
<1>4. CASE Fail(r)
  <2>1. client' = client /\ (c \in interrupted => c \in interrupted')
    BY <1>4 DEF Fail, FailCall, FailListing, FailOrder, tables
  <2>2. CASE FailCall(r)
    <3>1. q.pc = "client" /\ q.of = c => c \in interrupted'
      BY <2>2 DEF FailCall
    <3> QED
      BY <1>0, <2>1, <3>1 DEF ClientInv
  <2>3. CASE FailListing(r)
    <3>1. Onward(r) \/ (request'[r] = NoRequest /\ q.pc = "done")
      BY <1>0, <2>3, BecomeOver DEF FailListing
    <3> QED
      BY <1>1, <2>1, <3>1 DEF Onward
  <2>4. ASSUME NEW o \in Orders, FailOrder(r, o) PROVE ClientInv(r, c)'
    <3>1. request'[r] = [request[r] EXCEPT !.stage[o] = "done", !.found[o] = {}]
      BY <1>0, <2>4 DEF FailOrder
    <3>2. request'[r].of = q.of /\ request'[r].pc = q.pc
      BY <1>0, <3>1 DEF Request
    <3> QED
      BY <1>1, <2>1, <3>2
  <2> QED
    BY <1>4, <2>2, <2>3, <2>4 DEF Fail
<1>5. CASE Restart
  <2>1. client' = client /\ (c \in interrupted => c \in interrupted')
        /\ (q.pc = "client" /\ q.of = c => c \in interrupted')
    BY <1>5 DEF Restart, tables
  <2> QED
    BY <1>0, <2>1 DEF ClientInv
<1>6. ASSUME NEW k \in Companies, RemoveCompany(k) PROVE ClientInv(r, c)'
  BY <1>1, <1>6 DEF RemoveCompany, history
<1>7. CASE UNCHANGED vars
  BY <1>1, <1>7 DEF vars, tables, history
<1> QED
  BY <1>2, <1>3, <1>4, <1>5, <1>6, <1>7 DEF Next

----------------------------------------------------------------------------
(* The orders an event handler has before it. *)

LEMMA OrderStepFollows ==
    ASSUME CascadeInv, NEW r \in Requests, SerialInv(r), NEW p \in Orders, OrderStep(r, p)
    PROVE  Follows(r)'
<1> DEFINE q == request[r]
<1>0. /\ Follows(r) /\ OrderInv(r, p) /\ q \in Request
      /\ Onward(r) /\ q.cascade = "run" /\ request'[r].cascade = "run"
      /\ \A o \in Orders \ {p} : /\ order'[o] = order[o]
                                 /\ request'[r].stage[o] = request[r].stage[o]
                                 /\ o \in interrupted => o \in interrupted'
  BY OrderStepOnward DEF SerialInv, CascadeInv, RequestsOK, RequestOK
<1>1. ASSUME NEW stage, Onto(r, p, stage) PROVE request'[r].stage[p] = stage
  BY <1>0, <1>1 DEF Onto, Request
<1>2. ASSUME q.kind = "removeClient", order'[p] = "live"
      PROVE  request'[r].stage[p] # "done"
  <2>1. Removing(r)
    BY <1>2 DEF Removing, Removals
  <2>2. CASE FindTasks(r, p) \/ DeleteReviews(r, p)
    BY <1>0, <1>1, <2>2, FindsTheTasks, DeletesTheReviews
  <2>3. CASE RestoreRow(r, p) \/ DeleteOrder(r, p)
    BY <1>0, <1>2, <2>1, <2>3, DeletesTheOrder DEF RestoreRow
  <2>4. ASSUME NEW side \in Sides, MarkHalves(r, p, side) PROVE request'[r].stage[p] # "done"
    BY <1>0, <1>1, <2>4, MarksTheHalves DEF NextStage, Sides
  <2>5. CASE MarkTasks(r, p)
    <3>1. Onto(r, p, "order")
      BY <1>0, <2>1, <2>5, MarksTheTasks
    <3> QED
      BY <1>1, <3>1
  <2> QED
    BY <2>2, <2>3, <2>4, <2>5 DEF OrderStep
<1>3. ASSUME q.kind = "restoreClient", order'[p] = "deleted", company[CompanyOf[p]]
      PROVE  request'[r].stage[p] # "done"
  <2>1. ~ Removing(r)
    BY <1>3 DEF Removing, Removals
  <2>2. CASE FindTasks(r, p) \/ DeleteReviews(r, p)
    BY <1>0, <1>1, <2>2, FindsTheTasks, DeletesTheReviews
  <2>3. CASE RestoreRow(r, p)
    <3>1. order[p] # "deleted"
      BY <1>3, <2>3 DEF RestoreRow, CascadeInv, RowsOK
    <3>2. order' = order
      BY <2>3, <3>1 DEF RestoreRow
    <3> QED
      BY <1>3, <3>1, <3>2
  <2>4. ASSUME NEW side \in Sides, MarkHalves(r, p, side) PROVE request'[r].stage[p] # "done"
    BY <1>0, <1>1, <2>4, MarksTheHalves DEF NextStage, Sides
  <2>5. CASE MarkTasks(r, p) \/ DeleteOrder(r, p)
    BY <1>0, <1>3, <2>1, <2>5, MarksTheTasks DEF DeleteOrder
  <2> QED
    BY <2>2, <2>3, <2>4, <2>5 DEF OrderStep
<1>4. q.kind = "restoreClient" =>
        \A o \in Orders : company'[CompanyOf[o]] => company[CompanyOf[o]]
  <2>1. \A o \in Orders : CompanyOf[o] \in Companies
    BY CascadeConstantsOK
  <2>2. CASE company' = company
    BY <2>2
  <2>3. CASE RestoreRow(r, p)
    BY <2>1, <2>3 DEF RestoreRow, CascadeInv, RowsOK
  <2> QED
    BY <2>2, <2>3 DEF OrderStep, FindTasks, DeleteReviews, MarkHalves, MarkTasks, DeleteOrder, tables
<1>5. request'[r].kind = q.kind /\ request'[r].of = q.of
  BY <1>0 DEF Onward
<1>6. ASSUME q.kind = "removeClient", NEW o \in OrdersOf(q.of), order'[o] = "live"
      PROVE  request'[r].stage[o] # "done" \/ o \in interrupted'
  <2>1. CASE o = p
    BY <1>2, <1>6, <2>1
  <2>2. CASE o # p
    BY <1>0, <1>6, <2>2 DEF Follows, OrdersOf
  <2> QED
    BY <2>1, <2>2
<1>7. ASSUME q.kind = "restoreClient", NEW o \in OrdersOf(q.of), order'[o] = "deleted"
      PROVE  request'[r].stage[o] # "done" \/ o \in interrupted' \/ ~ company'[CompanyOf[o]]
  <2>1. CASE o = p
    BY <1>3, <1>4, <1>7, <2>1
  <2>2. CASE o # p
    BY <1>0, <1>4, <1>7, <2>2 DEF Follows, OrdersOf
  <2> QED
    BY <2>1, <2>2
<1> QED
  BY <1>5, <1>6, <1>7 DEF Follows, OrdersOf

LEMMA FollowsStep ==
    ASSUME Distinct, CascadeInv, NEW r \in Requests, Requests = {r}, SerialInv(r), [Next]_vars
    PROVE  Follows(r)'
<1> DEFINE q == request[r]
<1>0. /\ RequestsOK /\ Knows(r) /\ Follows(r) /\ q \in Request /\ Steady(q)
      /\ request = [s \in Requests |-> request[s]]
  BY DEF CascadeInv, RequestsOK, RequestOK, SerialInv
<1>1. CASE request'[r].cascade # "run"
  BY <1>1 DEF Follows
<1>2. ASSUME order' = order, request'[r].kind = q.kind, request'[r].of = q.of, q.cascade = "run",
             \A o \in Orders :
               /\ request'[r].stage[o] = q.stage[o] \/ o \in interrupted'
               /\ o \in interrupted => o \in interrupted'
               /\ company'[CompanyOf[o]] => company[CompanyOf[o]]
      PROVE  Follows(r)'
  BY <1>0, <1>2 DEF Follows, OrdersOf
<1>3. NoRequest.cascade = "done"
  BY DEF NoRequest
<1>4. CASE NewRequest(r)
  <2>1. ASSUME request'[r].kind \notin {"removeClient", "restoreClient"} PROVE Follows(r)'
    BY <2>1 DEF Follows
  <2>2. ASSUME NEW c \in Clients, RemoveClient(r, c) \/ RestoreClient(r, c) PROVE Follows(r)'
    <3>1. CASE RemoveClient(r, c)
      <4>1. request'[r].cascade = "done"
        BY <1>0, <3>1 DEF RemoveClient, Start, On, NoRequest
      <4> QED
        BY <1>1, <4>1
    <3>2. CASE RestoreClient(r, c)
      <4>1. request'[r].cascade = "list"
        BY <1>0, <3>2 DEF RestoreClient, Start, On, NoRequest
      <4> QED
        BY <1>1, <4>1
    <3> QED
      BY <2>2, <3>1, <3>2
  <2>3. ASSUME NEW k \in Companies, RestoreCompany(r, k) PROVE Follows(r)'
    BY <1>0, <2>3 DEF RestoreCompany, Start, On, NoRequest, Follows
  <2>4. ASSUME NEW o \in Orders, CreateOrder(r, o) PROVE Follows(r)'
    BY <1>0, <2>4 DEF CreateOrder, Start, On, NoRequest, Follows
  <2>5. ASSUME NEW t \in Tasks, FollowUp(r, t) PROVE Follows(r)'
    BY <1>0, <2>5 DEF FollowUp, Start, On, NoRequest, Follows
  <2>6. ASSUME NEW kind \in {"removeOrder", "restoreOrder", "restoreAll"}, NEW S \in SUBSET Orders,
               request' = [request EXCEPT ![r] = Working(On(kind), S)]
        PROVE  Follows(r)'
    <3>1. On(kind) \in Request /\ On(kind).kind = kind
      BY DEF On, NoRequest, Request, AllKinds, Removals, Restorations, Stages
    <3>2. request'[r] = Working(On(kind), S)
      BY <1>0, <2>6
    <3>3. request'[r].kind = kind
      BY <3>1, <3>2 DEF Working, Request
    <3> QED
      BY <2>1, <3>3
  <2>7. Deleted \in SUBSET Orders /\ \A o \in Orders : {o} \in SUBSET Orders
    BY DEF Deleted
  <2>8. CASE RestoreAll(r)
    BY <2>6, <2>7, <2>8 DEF RestoreAll, Start
  <2>9. ASSUME NEW o \in Orders, RemoveOrder(r, o) \/ RestoreOrder(r, o) PROVE Follows(r)'
    <3>1. \/ request' = [request EXCEPT ![r] = Working(On("removeOrder"), {o})]
          \/ request' = [request EXCEPT ![r] = Working(On("restoreOrder"), {o})]
      BY <2>9 DEF RemoveOrder, RestoreOrder, Start
    <3> QED
      BY <2>6, <2>7, <3>1
  <2> QED
    BY <1>4, <2>2, <2>3, <2>4, <2>5, <2>8, <2>9 DEF NewRequest
<1>5. CASE Step(r)
  <2>1. CASE DeleteInfo(r)
    <3>1. request'[r].cascade = "list"
      BY <1>0, <2>1 DEF DeleteInfo, Request
    <3> QED
      BY <1>1, <3>1
  <2>2. CASE DeleteClient(r)
    <3>1. q.of \in Clients /\ UNCHANGED <<order, company>>
          /\ \A o \in Orders : o \in interrupted => o \in interrupted'
      BY <1>0, <2>2 DEF DeleteClient, Steady, Distinct
    <3> DEFINE n == [q EXCEPT !.pc = "done"]
    <3>2. /\ n.kind = q.kind /\ n.of = q.of /\ n.stage = q.stage /\ n.cascade = q.cascade
      BY <1>0 DEF Request
    <3> HIDE DEF n
    <3>3. request'[r] = n \/ request'[r] = NoRequest
      BY <1>0, <2>2 DEF DeleteClient, Become, n
    <3>4. CASE request'[r] = n /\ q.cascade = "run"
      BY <1>2, <3>1, <3>2, <3>4
    <3> QED
      BY <1>1, <1>3, <3>2, <3>3, <3>4
  <2>3. CASE InsertOrder(r) \/ CreateFollowUp(r)
    <3>1. Over(r) /\ q.cascade = "done"
      BY <1>0, <2>3, BecomeOver DEF InsertOrder, CreateFollowUp, Knows
    <3> QED
      BY <1>1, <3>1 DEF Over
  <2>4. CASE ListOrders(r)
    <3>1. request'[r] = Working(q, Listed(q)) /\ UNCHANGED <<order, company, interrupted>>
      BY <1>0, <2>4 DEF ListOrders, tables, history
    <3>2. q.kind \in {"removeClient", "restoreClient", "restoreCompany"}
      BY <1>0, <2>4 DEF ListOrders, Knows
    <3>3. Listed(q) \in SUBSET Orders
      BY <3>2 DEF Listed, Deleted, OrdersOf
    <3>4. /\ request'[r].kind = q.kind /\ request'[r].of = q.of
          /\ \A o \in Orders : request'[r].stage[o] =
               IF o \in Listed(q) THEN FirstStage(q.kind) ELSE "done"
      <4>1. request'[r].kind = q.kind /\ request'[r].of = q.of
        BY <1>0, <3>1 DEF Working, Request
      <4> QED
        BY <1>0, <3>1, <3>3, <4>1, WorkingOnto
    <3>5. FirstStage(q.kind) # "done"
      BY DEF FirstStage
    <3>6. q.kind = "removeClient" =>
            \A o \in OrdersOf(q.of) : order[o] = "live" => o \in Listed(q)
      BY DEF Listed
    <3>7. q.kind = "restoreClient" =>
            \A o \in OrdersOf(q.of) : order[o] = "deleted" => o \in Listed(q)
      BY DEF Listed, Deleted, OrdersOf
    <3>8. OrdersOf(q.of) \subseteq Orders
      BY DEF OrdersOf
    <3> QED
      BY <3>1, <3>4, <3>5, <3>6, <3>7, <3>8 DEF Follows, OrdersOf
  <2>5. CASE EndCascade(r)
    <3> DEFINE n == [q EXCEPT !.cascade = "done"]
    <3>1. n.cascade = "done"
      BY <1>0 DEF Request
    <3> HIDE DEF n
    <3>2. request'[r] = n \/ request'[r] = NoRequest
      BY <1>0, <2>5 DEF EndCascade, Become, n
    <3> QED
      BY <1>1, <1>3, <3>1, <3>2
  <2>6. ASSUME NEW o \in Orders, OrderStep(r, o) PROVE Follows(r)'
    BY <2>6, OrderStepFollows
  <2> QED
    BY <1>5, <2>1, <2>2, <2>3, <2>4, <2>5, <2>6 DEF Step
<1>6. CASE Fail(r)
  <2>1. UNCHANGED <<order, company>> /\ interrupted \subseteq interrupted'
    BY <1>6 DEF Fail, FailCall, FailListing, FailOrder, tables
  <2>2. CASE FailCall(r)
    <3> DEFINE n == [q EXCEPT !.pc = "done"]
    <3>1. /\ n.kind = q.kind /\ n.of = q.of /\ n.stage = q.stage /\ n.cascade = q.cascade
      BY <1>0 DEF Request
    <3> HIDE DEF n
    <3>2. request'[r] = n \/ request'[r] = NoRequest
      BY <1>0, <2>2 DEF FailCall, Become, n
    <3>3. CASE request'[r] = n /\ q.cascade = "run"
      BY <1>2, <2>1, <3>1, <3>3
    <3> QED
      BY <1>1, <1>3, <3>1, <3>2, <3>3
  <2>3. CASE FailListing(r)
    <3> DEFINE n == [q EXCEPT !.cascade = "done"]
    <3>1. n.cascade = "done"
      BY <1>0 DEF Request
    <3> HIDE DEF n
    <3>2. request'[r] = n \/ request'[r] = NoRequest
      BY <1>0, <2>3 DEF FailListing, Become, n
    <3> QED
      BY <1>1, <1>3, <3>1, <3>2
  <2>4. ASSUME NEW p \in Orders, FailOrder(r, p) PROVE Follows(r)'
    <3>1. request'[r] = [request[r] EXCEPT !.stage[p] = "done", !.found[p] = {}]
      BY <1>0, <2>4 DEF FailOrder
    <3>2. /\ request'[r].kind = q.kind /\ request'[r].of = q.of
          /\ request'[r].stage = [q.stage EXCEPT ![p] = "done"]
      BY <1>0, <3>1 DEF Request
    <3>3. p \in interrupted' /\ q.cascade = "run"
      BY <1>0, <2>4 DEF FailOrder, Steady, Request
    <3>4. \A o \in Orders : request'[r].stage[o] = q.stage[o] \/ o \in interrupted'
      BY <1>0, <3>2, <3>3 DEF Request
    <3> QED
      BY <1>2, <2>1, <3>2, <3>3, <3>4
  <2> QED
    BY <1>6, <2>2, <2>3, <2>4 DEF Fail
<1>7. CASE Restart
  BY <1>1, <1>3, <1>7 DEF Restart
<1>8. ASSUME NEW k \in Companies, RemoveCompany(k) PROVE Follows(r)'
  <2>1. /\ UNCHANGED <<order, request, interrupted>>
        /\ \A o \in Orders : company'[CompanyOf[o]] => company[CompanyOf[o]]
    BY <1>8, CascadeConstantsOK DEF RemoveCompany, history, CascadeInv, RowsOK
  <2> QED
    BY <1>1, <1>2, <2>1
<1>9. CASE UNCHANGED vars
  BY <1>0, <1>9 DEF vars, tables, history, Follows, OrdersOf
<1> QED
  BY <1>4, <1>5, <1>6, <1>7, <1>8, <1>9 DEF Next

----------------------------------------------------------------------------
LEMMA SerialInvStep ==
    ASSUME NEW CONSTANT r \in Requests, Requests = {r}, Distinct
    PROVE  CascadeInv /\ SerialInv(r) /\ [Next]_vars => SerialInv(r)'
<1> SUFFICES ASSUME CascadeInv, SerialInv(r), [Next]_vars PROVE SerialInv(r)'
  OBVIOUS
<1> QED
  BY KnowsStep, FollowsStep, OrdersStep, ClientsStep DEF SerialInv

LEMMA SerialInvInit ==
    ASSUME NEW CONSTANT r \in Requests
    PROVE  Init => SerialInv(r)
<1> SUFFICES ASSUME Init PROVE SerialInv(r)
  OBVIOUS
<1>1. request[r] = NoRequest
  BY DEF Init
<1>2. Knows(r) /\ Follows(r)
  BY <1>1 DEF NoRequest, Knows, Follows
<1>3. ASSUME NEW o \in Orders PROVE OrderInv(r, o)
  <2>1. /\ order[o] = "none" /\ reviews[o] = FALSE
        /\ \A t \in TasksOf(o) : task[t] = "none" /\ \A side \in Sides : half[t][side] = FALSE
    BY DEF Init, TasksOf
  <2>2. St(r, o) = "done"
    BY <1>1 DEF St, NoRequest
  <2> QED
    BY <2>1, <2>2 DEF OrderInv, AnyOrder, GoodOrder, Rows, Whole
<1>4. ASSUME NEW c \in Clients PROVE ClientInv(r, c)
  BY DEF Init, ClientInv
<1> QED
  BY <1>2, <1>3, <1>4 DEF SerialInv

LEMMA SerialInvAlways ==
    ASSUME NEW CONSTANT slot, Requests = {slot}, Distinct
    PROVE  Spec => [](CascadeInv /\ SerialInv(slot))
<1>1. slot \in Requests
  OBVIOUS
<1>2. Init => SerialInv(slot)
  BY <1>1, SerialInvInit
<1>3. CascadeInv /\ SerialInv(slot) /\ [Next]_vars => SerialInv(slot)'
  BY <1>1, SerialInvStep
<1> QED
  BY <1>2, <1>3, CascadeInvAlways, PTL DEF Spec

\* One request at a time: an order that no failure cut off lives and dies with its
\* reviews, its tasks and their halves, whatever was removed and restored before.
THEOREM SerialOrdersAreWhole ==
    ASSUME NEW CONSTANT slot, Requests = {slot}, Distinct
    PROVE  Spec => []OrdersAreWhole
<1>1. ASSUME CascadeInv, SerialInv(slot) PROVE OrdersAreWhole
  <2> SUFFICES ASSUME Quiet, NEW o \in Orders \ interrupted PROVE Whole(o)
    BY DEF OrdersAreWhole
  <2>1. request[slot] = NoRequest
    BY <1>1 DEF Quiet, Idle, CascadeInv, RequestsOK, RequestOK, Steady
  <2>2. St(slot, o) = "done"
    BY <2>1 DEF St, NoRequest
  <2> QED
    BY <1>1, <2>2 DEF SerialInv, OrderInv, GoodOrder
<1> QED
  BY <1>1, SerialInvAlways, PTL

\* One request at a time: a client that no failure cut off lives and dies with its
\* info.
THEOREM SerialClientsAreWhole ==
    ASSUME NEW CONSTANT slot, Requests = {slot}, Distinct
    PROVE  Spec => []ClientsAreWhole
<1>1. ASSUME CascadeInv, SerialInv(slot) PROVE ClientsAreWhole
  <2> SUFFICES ASSUME Quiet, NEW c \in Clients \ interrupted
               PROVE  client[c].row = client[c].info
    BY DEF ClientsAreWhole
  <2>1. request[slot] = NoRequest
    BY <1>1 DEF Quiet, Idle, CascadeInv, RequestsOK, RequestOK, Steady
  <2>2. request[slot].pc = "done"
    BY <2>1 DEF NoRequest
  <2> QED
    BY <1>1, <2>2 DEF SerialInv, ClientInv
<1> QED
  BY <1>1, SerialInvAlways, PTL

\* One request at a time: when the handler of a removed client is done, every order
\* of the client is deleted, but for those that a failure cut off.
THEOREM SerialDeletionIsComplete ==
    ASSUME NEW CONSTANT slot, Requests = {slot}, Distinct
    PROVE  Spec => DeletionIsComplete
<1>1. CascadeInv /\ SerialInv(slot) =>
        [\A r \in Requests : EndCascade(r) /\ request[r].kind = "removeClient" =>
           \A o \in OrdersOf(request[r].of) :
              order[o] = "live" => o \in interrupted]_vars
  BY DEF SerialInv, Follows, EndCascade, OrdersOf
<1> QED
  BY <1>1, SerialInvAlways, PTL DEF DeletionIsComplete

\* One request at a time: when the handler of a restored client is done, no order of
\* the client is deleted, but for those of a deleted company and those cut off.
THEOREM SerialRestorationIsComplete ==
    ASSUME NEW CONSTANT slot, Requests = {slot}, Distinct
    PROVE  Spec => RestorationIsComplete
<1>1. CascadeInv /\ SerialInv(slot) =>
        [\A r \in Requests : EndCascade(r) /\ request[r].kind = "restoreClient" =>
           \A o \in OrdersOf(request[r].of) :
              order[o] = "deleted" => o \in interrupted \/ ~ company[CompanyOf[o]]]_vars
  BY DEF SerialInv, Follows, EndCascade, OrdersOf
<1> QED
  BY <1>1, SerialInvAlways, PTL DEF RestorationIsComplete
=============================================================================
