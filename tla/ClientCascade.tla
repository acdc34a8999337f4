---------------------------- MODULE ClientCascade ----------------------------
(***************************************************************************)
(* Removing and restoring clients, companies and orders.  Every row is     *)
(* deleted softly, the rows that hang on it one after the other:           *)
(* ClientsService.remove and restore mark the client and emit an event,    *)
(* ClientSubscriber then removes or restores the client's orders, all at   *)
(* once, and OrdersService.remove and restore do the same for the reviews  *)
(* and the tasks of an order.  Companies cascade in one direction only,    *)
(* and the command restore:orders brings back whatever is deleted.         *)
(*                                                                         *)
(* An event handler starts with the request that emits it and outlives it: *)
(* a request ends when both are done.  Each step is one database call.     *)
(***************************************************************************)
EXTENDS Naturals, FiniteSets

CONSTANTS
    Clients, Companies, Orders, Tasks,
    ClientOf,     \* the client and the company of each order
    CompanyOf,
    OrderOf,      \* the order of each task
    Nobody,
    Requests,     \* slots for requests that may overlap
    Kinds,        \* the requests that are sent: subset of AllKinds
    MaxFailures   \* bound on failed calls and restarts

Removals == {"removeClient", "removeOrder"}
Restorations == {"restoreClient", "restoreCompany", "restoreOrder", "restoreAll"}
AllKinds == Removals \cup Restorations \cup {"removeCompany", "createOrder", "followUp"}

ASSUME CascadeConstantsOK ==
    /\ ClientOf \in [Orders -> Clients]
    /\ CompanyOf \in [Orders -> Companies]
    /\ OrderOf \in [Tasks -> Orders]
    /\ Kinds \subseteq AllKinds
    /\ MaxFailures \in Nat

RowStates == {"none", "live", "deleted"}
Sides     == {"taskAccountant", "taskSeller"}

VARIABLES
    client,       \* [Clients -> [row, info : BOOLEAN]]: deletedAt is null
    company,      \* [Companies -> BOOLEAN]
    order,        \* [Orders -> RowStates]
    reviews,      \* [Orders -> BOOLEAN]: whether its reviews are live
    task,         \* [Tasks -> RowStates]
    half,         \* [Tasks -> [Sides -> BOOLEAN]]
    request,      \* the request in each slot, with its event handler
    failures,
    strays,       \* history: orders that came to life after their client's removal
                  \* began, or whose own removal in its course was cut off
    interrupted   \* history: clients and orders whose removal or restoration was cut
                  \* off, until a later one (of an order: restoration) succeeds

tables  == <<client, company, order, reviews, task, half>>
history == <<failures, strays, interrupted>>
vars    == <<tables, request, history>>

----------------------------------------------------------------------------
(* Requests in flight. *)

Stages == {"reviews", "order", "find", "taskAccountant", "taskSeller", "tasks"}

\* pc: the request itself; cascade: its event handler, and for the requests on
\* orders the request; stage: where it stands with each order
NoRequest == [kind |-> "none", of |-> Nobody, pc |-> "done", cascade |-> "done",
              stage |-> [o \in Orders |-> "done"], found |-> [o \in Orders |-> {}]]

Idle(r)  == request[r].kind = "none"
Quiet    == \A r \in Requests : Idle(r)
On(kind) == [NoRequest EXCEPT !.kind = kind]

\* nobody else is creating this row
Unclaimed(kind, x) == \A r \in Requests : ~ (request[r].kind = kind /\ request[r].of = x)

Start(r, q)  == Idle(r) /\ q.kind \in Kinds /\ request' = [request EXCEPT ![r] = q]
\* a request and its handler are forgotten when both are done
Become(r, q) == request' = [request EXCEPT ![r] =
                    IF q.pc = "done" /\ q.cascade = "done" THEN NoRequest ELSE q]

FirstStage(kind) == IF kind \in Removals THEN "reviews" ELSE "order"
Working(q, S) == [q EXCEPT !.cascade = "run",
                    !.stage = [o \in Orders |-> IF o \in S THEN FirstStage(q.kind) ELSE "done"]]
StageTo(r, o, stage) == request' = [request EXCEPT ![r].stage[o] = stage]

OrdersOf(c) == {o \in Orders : ClientOf[o] = c}
TasksOf(o)  == {t \in Tasks : OrderOf[t] = o}
Deleted     == {o \in Orders : order[o] = "deleted"}

\* the orders an event handler goes through
EmptyWhere(q) ==  \* a mutant: the soft-delete client lists no deleted order
    {o \in OrdersOf(q.of) : order[o] = "live" /\ q.kind = "removeClient"}
LiveCompanies(q) ==  \* a mutant: the filter of restore used for the removal
    {o \in OrdersOf(q.of) : order[o] = (IF q.kind = "removeClient" THEN "live" ELSE "deleted")
                             /\ company[CompanyOf[o]]}
Listed(q) ==
    CASE q.kind = "removeClient"   -> {o \in OrdersOf(q.of) : order[o] = "live"}
      [] q.kind = "restoreClient"  -> Deleted \cap OrdersOf(q.of)
      [] q.kind = "restoreCompany" -> {o \in Deleted : CompanyOf[o] = q.of}

\* an order that comes to life is a stray when its client's removal has begun
Revive(o) == strays' = IF client[ClientOf[o]].info THEN strays \ {o} ELSE strays \cup {o}

Init ==
    /\ client = [c \in Clients |-> [row |-> TRUE, info |-> TRUE]]
    /\ company = [k \in Companies |-> TRUE]
    /\ order = [o \in Orders |-> "none"]
    /\ reviews = [o \in Orders |-> FALSE]
    /\ task = [t \in Tasks |-> "none"]
    /\ half = [t \in Tasks |-> [side \in Sides |-> FALSE]]
    /\ request = [r \in Requests |-> NoRequest]
    /\ failures = 0
    /\ strays = {}
    /\ interrupted = {}

----------------------------------------------------------------------------
(* Clients. *)

\* DELETE /clients/:id: the client must be live when it is read
RemoveClient(r, c) ==
    /\ client[c].row
    /\ Start(r, [On("removeClient") EXCEPT !.of = c, !.pc = "info"])
    /\ UNCHANGED <<tables, history>>

\* the info is marked and the event emitted, before the client is deleted
DeleteInfoOnly(r) ==  \* a mutant: the event is not emitted
    LET q == request[r] IN
    /\ q.pc = "info"
    /\ client' = [client EXCEPT ![q.of].info = FALSE]
    /\ request' = [request EXCEPT ![r].pc = "client"]
    /\ UNCHANGED <<company, order, reviews, task, half, history>>
DeleteInfo(r) ==
    LET q == request[r] IN
    /\ q.pc = "info"
    /\ client' = [client EXCEPT ![q.of].info = FALSE]
    /\ request' = [request EXCEPT ![r].pc = "client", ![r].cascade = "list"]
    /\ strays' = strays \ OrdersOf(q.of)
    /\ UNCHANGED <<company, order, reviews, task, half, failures, interrupted>>

DeleteClient(r) ==
    LET q == request[r] IN
    /\ q.pc = "client"
    /\ client' = [client EXCEPT ![q.of].row = FALSE]
    /\ interrupted' = interrupted \ {q.of}
    /\ Become(r, [q EXCEPT !.pc = "done"])
    /\ UNCHANGED <<company, order, reviews, task, half, failures, strays>>

\* PATCH /clients/restore/:id, and POST /clients with the email of a deleted one:
\* whether the client is deleted is not asked
RowOnly(r, c) ==  \* a mutant: the info stays deleted
    /\ client' = [client EXCEPT ![c].row = TRUE]
    /\ Start(r, [On("restoreClient") EXCEPT !.of = c, !.cascade = "list"])
    /\ UNCHANGED <<company, order, reviews, task, half, failures, strays, interrupted>>
RestoreClient(r, c) ==
    /\ client' = [client EXCEPT ![c] = [row |-> TRUE, info |-> TRUE]]
    /\ Start(r, [On("restoreClient") EXCEPT !.of = c, !.cascade = "list"])
    /\ interrupted' = interrupted \ {c}
    /\ UNCHANGED <<company, order, reviews, task, half, failures, strays>>

----------------------------------------------------------------------------
(* Companies: the removal emits no event, the restoration does. *)

RemoveCompany(k) ==
    /\ "removeCompany" \in Kinds
    /\ company' = [company EXCEPT ![k] = FALSE]
    /\ UNCHANGED <<client, order, reviews, task, half, request, history>>

RestoreCompany(r, k) ==
    /\ ~ company[k]
    /\ company' = [company EXCEPT ![k] = TRUE]
    /\ Start(r, [On("restoreCompany") EXCEPT !.of = k, !.cascade = "list"])
    /\ UNCHANGED <<client, order, reviews, task, half, history>>

----------------------------------------------------------------------------
(* The event handlers: list the orders, then all of them at once. *)

ListOrders(r) ==
    LET q == request[r] IN
    /\ q.cascade = "list"
    /\ request' = [request EXCEPT ![r] = Working(q, Listed(q))]
    /\ UNCHANGED <<tables, history>>

\* Promise.all: every order has been dealt with, or has failed
EndCascade(r) ==
    LET q == request[r] IN
    /\ q.cascade = "run" /\ \A o \in Orders : q.stage[o] = "done"
    /\ Become(r, [q EXCEPT !.cascade = "done"])
    /\ UNCHANGED <<tables, history>>

----------------------------------------------------------------------------
(* Orders. *)

\* POST /orders, for any client of that email, deleted or not; a company that
\* is deleted is not found (a new one is made, with another name here)
CreateOrder(r, o) ==
    /\ order[o] = "none" /\ Unclaimed("createOrder", o)
    /\ company[CompanyOf[o]]
    /\ Start(r, [On("createOrder") EXCEPT !.of = o, !.pc = "create"])
    /\ UNCHANGED <<tables, history>>

InsertOrder(r) ==
    LET q == request[r] IN
    /\ q.pc = "create"
    /\ order' = [order EXCEPT ![q.of] = "live"]
    /\ reviews' = [reviews EXCEPT ![q.of] = TRUE]
    /\ Revive(q.of)
    /\ Become(r, [q EXCEPT !.pc = "done"])
    /\ UNCHANGED <<client, company, task, half, failures, interrupted>>

RemoveOrder(r, o) ==
    /\ order[o] # "none"
    /\ Start(r, Working(On("removeOrder"), {o}))
    /\ UNCHANGED <<tables, history>>

RestoreOrder(r, o) ==
    /\ order[o] # "none"
    /\ Start(r, Working(On("restoreOrder"), {o}))
    /\ UNCHANGED <<tables, history>>

\* restore:orders, one order after the other
RestoreAll(r) ==
    /\ Start(r, Working(On("restoreAll"), Deleted))
    /\ UNCHANGED <<tables, history>>

At(r, o, stage) ==
    /\ request[r].stage[o] = stage
    /\ request[r].kind = "restoreAll" =>
         \A p \in Orders \ {o} : request[r].stage[p] \in {"order", "done"}
Removing(r) == request[r].kind \in Removals

DeleteReviews(r, o) ==
    /\ At(r, o, "reviews")
    /\ reviews' = [reviews EXCEPT ![o] = FALSE]
    /\ StageTo(r, o, "find")
    /\ UNCHANGED <<client, company, order, task, half, history>>

\* OrdersService.restore: the order must be deleted and its company live; the
\* command restores the company with it
RestoreRow(r, o) ==
    LET all == request[r].kind = "restoreAll"
        found == order[o] = "deleted" /\ (company[CompanyOf[o]] \/ all)
    IN  /\ At(r, o, "order") /\ ~ Removing(r)
        /\ IF found
           THEN /\ order' = [order EXCEPT ![o] = "live"]
                /\ reviews' = [reviews EXCEPT ![o] = TRUE]
                /\ company' = [company EXCEPT ![CompanyOf[o]] = TRUE]
                /\ Revive(o)
                /\ StageTo(r, o, "find")
           ELSE /\ StageTo(r, o, "done")
                /\ UNCHANGED <<order, reviews, company, strays>>
        /\ UNCHANGED <<client, task, half, failures, interrupted>>

\* the tasks that are to be removed, or restored
TasksAt(r, o, S) == request' = [request EXCEPT ![r].stage[o] = "taskAccountant",
                                               ![r].found[o] = S]
FindAnyTasks(r, o) ==  \* a mutant: where: { orderId: undefined }
    /\ At(r, o, "find")
    /\ TasksAt(r, o, {t \in Tasks : task[t] = IF Removing(r) THEN "live" ELSE "deleted"})
    /\ UNCHANGED <<tables, history>>
FindTasks(r, o) ==
    /\ At(r, o, "find")
    /\ TasksAt(r, o, {t \in TasksOf(o) : task[t] = IF Removing(r) THEN "live" ELSE "deleted"})
    /\ UNCHANGED <<tables, history>>

\* removeMany and restoreMany: one updateMany for each table of halves
SkipSellers(side) == "tasks"  \* a mutant: only one of the two updateMany
NextStage(side) == IF side = "taskAccountant" THEN "taskSeller" ELSE "tasks"
MarkHalves(r, o, side) ==
    /\ At(r, o, side)
    /\ half' = [t \in Tasks |-> IF t \in request[r].found[o]
                                THEN [half[t] EXCEPT ![side] = ~ Removing(r)] ELSE half[t]]
    /\ StageTo(r, o, NextStage(side))
    /\ UNCHANGED <<client, company, order, reviews, task, history>>

MarkTasks(r, o) ==
    /\ At(r, o, "tasks")
    /\ task' = [t \in Tasks |-> IF t \in request[r].found[o]
                                THEN IF Removing(r) THEN "deleted" ELSE "live" ELSE task[t]]
    /\ request' = [request EXCEPT ![r].found[o] = {},
                                  ![r].stage[o] = IF Removing(r) THEN "order" ELSE "done"]
    /\ interrupted' = IF Removing(r) THEN interrupted ELSE interrupted \ {o}
    /\ UNCHANGED <<client, company, order, reviews, half, failures, strays>>

KeepOrder(r, o) ==  \* a mutant: the order itself stays
    /\ At(r, o, "order") /\ Removing(r)
    /\ StageTo(r, o, "done")
    /\ UNCHANGED <<tables, history>>
DeleteOrder(r, o) ==
    /\ At(r, o, "order") /\ Removing(r)
    /\ order' = [order EXCEPT ![o] = "deleted"]
    /\ strays' = strays \ {o}
    /\ StageTo(r, o, "done")
    /\ UNCHANGED <<client, company, reviews, task, half, failures, interrupted>>

----------------------------------------------------------------------------
(* The nightly follow-up of a live order: checked first, created later. *)

FollowUp(r, t) ==
    /\ task[t] = "none" /\ Unclaimed("followUp", t)
    /\ order[OrderOf[t]] = "live" /\ client[ClientOf[OrderOf[t]]].row
    /\ Start(r, [On("followUp") EXCEPT !.of = t, !.pc = "followUp"])
    /\ UNCHANGED <<tables, history>>

CreateFollowUp(r) ==
    LET q == request[r] IN
    /\ q.pc = "followUp"
    /\ task' = [task EXCEPT ![q.of] = "live"]
    /\ half' = [half EXCEPT ![q.of] = [side \in Sides |-> TRUE]]
    /\ Become(r, [q EXCEPT !.pc = "done"])
    /\ UNCHANGED <<client, company, order, reviews, history>>
----------------------------------------------------------------------------
(* Failures: nothing that was written is rolled back. *)

\* the orders that a request in flight would still have removed
Unremoved(q) ==
    IF q.kind # "removeClient" THEN {}
    ELSE IF q.cascade = "list" THEN OrdersOf(q.of)
    ELSE {o \in Orders : q.stage[o] # "done"}

CanFail == failures < MaxFailures /\ failures' = failures + 1

\* a call of the request itself fails; its event handler goes on
FailCall(r) ==
    LET q == request[r] IN
    /\ q.pc # "done" /\ CanFail
    /\ interrupted' = interrupted \cup ({q.of} \cap Clients)
    /\ Become(r, [q EXCEPT !.pc = "done"])
    /\ UNCHANGED <<tables, strays>>

\* a call for one order fails (also: the log of the order); the others go on
FailOrder(r, o) ==
    LET q == request[r] IN
    /\ q.stage[o] # "done" /\ CanFail
    /\ interrupted' = interrupted \cup {o}
    /\ strays' = IF q.kind = "removeClient" THEN strays \cup {o} ELSE strays
    /\ request' = [request EXCEPT ![r].stage[o] = "done", ![r].found[o] = {}]
    /\ UNCHANGED tables

\* the listing of an event handler fails: its orders are left as they are
FailListing(r) ==
    LET q == request[r] IN
    /\ q.cascade = "list" /\ CanFail
    /\ strays' = strays \cup Unremoved(q)
    /\ Become(r, [q EXCEPT !.cascade = "done"])
    /\ UNCHANGED <<tables, interrupted>>

\* the process restarts
Restart ==
    /\ ~ Quiet /\ CanFail
    /\ request' = [r \in Requests |-> NoRequest]
    /\ strays' = strays \cup UNION {Unremoved(request[r]) : r \in Requests}
    /\ interrupted' = interrupted
         \cup {c \in Clients : \E r \in Requests : request[r].of = c /\ request[r].pc = "client"}
         \cup {o \in Orders : \E r \in Requests : request[r].stage[o] # "done"}
    /\ UNCHANGED tables

----------------------------------------------------------------------------
OrderStep(r, o) ==
    \/ DeleteReviews(r, o) \/ RestoreRow(r, o) \/ FindTasks(r, o)
    \/ \E side \in Sides : MarkHalves(r, o, side)
    \/ MarkTasks(r, o) \/ DeleteOrder(r, o)

Step(r) ==
    \/ DeleteInfo(r) \/ DeleteClient(r) \/ InsertOrder(r) \/ CreateFollowUp(r)
    \/ ListOrders(r) \/ EndCascade(r)
    \/ \E o \in Orders : OrderStep(r, o)

NewRequest(r) ==
    \/ \E c \in Clients : RemoveClient(r, c) \/ RestoreClient(r, c)
    \/ \E k \in Companies : RestoreCompany(r, k)
    \/ \E o \in Orders : CreateOrder(r, o) \/ RemoveOrder(r, o) \/ RestoreOrder(r, o)
    \/ RestoreAll(r)
    \/ \E t \in Tasks : FollowUp(r, t)

Fail(r) == FailCall(r) \/ FailListing(r) \/ \E o \in Orders : FailOrder(r, o)

Next ==
    \/ \E r \in Requests : NewRequest(r) \/ Step(r) \/ Fail(r)
    \/ \E k \in Companies : RemoveCompany(k)
    \/ Restart

Spec == Init /\ [][Next]_vars

\* every call returns, so every request and every event handler goes on
Fairness == \A r \in Requests : WF_vars(Step(r))
FairSpec == Spec /\ Fairness

----------------------------------------------------------------------------
Request ==
    [kind : AllKinds \cup {"none"},
     of : Clients \cup Companies \cup Orders \cup Tasks \cup {Nobody},
     pc : {"info", "client", "create", "followUp", "done"},
     cascade : {"list", "run", "done"},
     stage : [Orders -> Stages \cup {"done"}],
     found : [Orders -> SUBSET Tasks]]

\* The type invariant; the tasks found for an order are that order's own.
TypeOK ==
    /\ client \in [Clients -> [row : BOOLEAN, info : BOOLEAN]]
    /\ company \in [Companies -> BOOLEAN]
    /\ order \in [Orders -> RowStates]
    /\ reviews \in [Orders -> BOOLEAN]
    /\ task \in [Tasks -> RowStates]
    /\ half \in [Tasks -> [Sides -> BOOLEAN]]
    /\ request \in [Requests -> Request]
    /\ \A r \in Requests, o \in Orders : request[r].found[o] \subseteq TasksOf(o)
    /\ failures \in 0 .. MaxFailures
    /\ strays \subseteq Orders
    /\ interrupted \subseteq Clients \cup Orders

\* However requests, event handlers and failures overlap, a live order of a client
\* that is marked as deleted is about to be removed, or it came to life after the
\* removal began, or its own removal was cut off: the handler misses no order.
UnderRemoval(o) ==
    \E r \in Requests : o \in Unremoved(request[r]) /\ request[r].of = ClientOf[o]
OrphansAreStrays ==
    \A o \in Orders : order[o] = "live" /\ ~ client[ClientOf[o]].info
        => o \in strays \/ UnderRemoval(o)

\* One request at a time: an order, its reviews and its tasks live and die together.
Whole(o) ==
    /\ reviews[o] = (order[o] = "live")
    /\ \A t \in TasksOf(o) :
         /\ order[o] = "live" => task[t] # "deleted"
         /\ order[o] = "deleted" => task[t] # "live"
         /\ \A side \in Sides : half[t][side] = (task[t] = "live")
OrdersAreWhole == Quiet => \A o \in Orders \ interrupted : Whole(o)

\* One request at a time: a client and its info live and die together.
ClientsAreWhole ==
    Quiet => \A c \in Clients \ interrupted : client[c].row = client[c].info

\* The comment in clients.subscriber.ts, line 54: "Delete orders associated with the
\* client". When the handler is done, none of the client's orders is live.
DeletionIsComplete ==
    [][\A r \in Requests : EndCascade(r) /\ request[r].kind = "removeClient" =>
         \A o \in OrdersOf(request[r].of) : order[o] = "live" => o \in interrupted]_vars

\* One request at a time: when a client's handler is done, every order of its that
\* exists and has a live company is live.
RestorationIsComplete ==
    [][\A r \in Requests : EndCascade(r) /\ request[r].kind = "restoreClient" =>
         \A o \in OrdersOf(request[r].of) :
            order[o] = "deleted" => o \in interrupted \/ ~ company[CompanyOf[o]]]_vars

\* The removal of a client reaches its orders in the end, unless it is restored.
RemovalIsFollowed ==
    \A c \in Clients : ~ client[c].info ~>
        \/ client[c].info
        \/ \A o \in OrdersOf(c) : order[o] # "live" \/ o \in strays
=============================================================================
