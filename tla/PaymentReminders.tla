---------------------------- MODULE PaymentReminders ----------------------------
(***************************************************************************)
(* The payment reminders of an order: the payment part of                  *)
(* PATCH /orders/:id (OrdersService.update and updatePaymentStatus), the   *)
(* task endpoints of TasksService, and the two jobs of OrdersCronService   *)
(* that run every night (checkPayments and checkOrders).                   *)
(*                                                                         *)
(* A request is a handler that performs one database call per step; other  *)
(* handlers and the nightly jobs run between two of its steps, because     *)
(* every call is awaited and no transaction spans them.                    *)
(***************************************************************************)
EXTENDS Naturals, FiniteSets

CONSTANTS
    Orders,       \* orders that exist (none is removed here)
    Clients,      \* live clients
    LastOrder,    \* the newest order of each client, or NoOrder
    NoOrder,
    Handlers,     \* slots for requests that may overlap
    Roles,        \* roles that send requests: subset of UserRoles
    Kinds,        \* the requests users send: subset of AllKinds
    Recorded,     \* the payment statuses users record
    MaxTasks,     \* bound on the rows of the Task table
    MaxInFlight,  \* how many handlers and jobs may overlap
    MaxFailures   \* bound on failed requests and process restarts

UserRoles == {"ADMIN", "ACCOUNTANT", "SELLER"}
AllKinds  == {"update", "create", "edit", "status", "remove"}

\* the payment statuses of an order that is being reminded
Dunning         == {"SENT_INVOICE", "PR1", "PR2"}
PaymentStatuses == Dunning \cup {"NEW", "PAID", "UNPAID"}

ASSUME ConstantsOK ==
    /\ NoOrder \notin Orders
    /\ LastOrder \in [Clients -> Orders \cup {NoOrder}]
    /\ Roles \subseteq UserRoles
    /\ Kinds \subseteq AllKinds
    /\ Recorded \subseteq PaymentStatuses
    /\ MaxTasks \in Nat /\ MaxInFlight \in Nat /\ MaxFailures \in Nat

----------------------------------------------------------------------------
(* The tables. *)

TaskTypes       == Dunning \cup {"TWO_MTFU", "UNPAID", "NONE"}

\* payment_status_date: null, less than eight days old, or at least eight
Dates == {"none", "recent", "due"}
OrderRow == [status : PaymentStatuses, date : Dates, paid : BOOLEAN]

TaskIds == 1 .. MaxTasks
TaskRow == [order : Orders \cup {NoOrder}, type : TaskTypes,
            createdBy : UserRoles \cup {"AUTO"}, owner : UserRoles,
            live : BOOLEAN]

\* A task has a row in TaskAccountant and one in TaskSeller. "NONE": no row;
\* live: deletedAt is null. (completedAt is left out: nothing here reads it.)
Sides   == {"taskAccountant", "taskSeller"}
HalfRow == [status : {"NONE", "ACTIVE", "COMPLETED", "DELETED"},
            live : BOOLEAN]
NoHalf  == [status |-> "NONE", live |-> TRUE]
NewHalf == [status |-> "ACTIVE", live |-> TRUE]
BlankTask == [order |-> NoOrder, type |-> "NONE", createdBy |-> "AUTO",
              owner |-> "ADMIN", live |-> FALSE]

VARIABLES
    order,        \* [Orders -> OrderRow]
    quiet,        \* clients whose newest order is over two months old
    task,         \* [TaskIds -> TaskRow]
    half,         \* [TaskIds -> [Sides -> HalfRow]]
    made,         \* tasks 1..made exist, in the order of createdAt
    handler,      \* the request in each slot
    pay,          \* the running checkPayments job
    follow,       \* the running checkOrders job
    failures,     \* failures so far
    worked,       \* history: tasks completed since the job last advanced them
    interrupted   \* history: orders whose last payment update was cut off

tables == <<order, quiet, task, half, made>>
vars == <<order, quiet, task, half, made, handler, pay, follow, failures,
          worked, interrupted>>

----------------------------------------------------------------------------
(* Reading the tables. *)

\* findOne / findFirst on the soft-delete client: live rows only
LiveTasks    == {t \in TaskIds : t <= made /\ task[t].live}
AutoOfStatus(o) ==  \* a mutant: looked up by its type too
    {t \in LiveTasks : task[t].order = o /\ task[t].createdBy = "AUTO"
                       /\ task[t].type = order[o].status}
AutoTasks(o) == {t \in LiveTasks : task[t].order = o /\ task[t].createdBy = "AUTO"}

\* where: { orderId: undefined } does not filter at all
TasksWhere(o) == IF o = NoOrder THEN LiveTasks
                 ELSE {t \in LiveTasks : task[t].order = o}

IsOldest(t, S) == t \in S /\ \A u \in S : t <= u
FirstOf(t, S)  == t \in S /\ \A u \in S : t <= u  \* a mutant: asc for desc
IsNewest(t, S) == t \in S /\ \A u \in S : u <= t

\* the relation of the task a role works on
taskRelationHelper(role) ==
    IF role = "ACCOUNTANT" THEN "taskAccountant" ELSE "taskSeller"

EndsPaid(type) == IF type = "PR2" THEN "PAID" ELSE "PR2"  \* a mutant
newTaskTypeHelper(type) ==
    CASE type = "SENT_INVOICE" -> "PR1"
      [] type = "PR1" -> "PR2"
      [] OTHER -> "UNPAID"

\* AbilityFactory, for Action.Update on a task
MayUpdate(role, t) ==
    \/ role = "ACCOUNTANT" /\ task[t].createdBy # "SELLER"
    \/ role = "SELLER" /\ task[t].owner = "SELLER"

BothHalves(t) == \A side \in Sides : half[t][side].status # "NONE"

\* included through the soft-delete client, a deleted row reads as null
EitherComplete(t) ==
    \E side \in Sides : half[t][side].live /\ half[t][side].status = "COMPLETED"

(* Writing one half. *)
Completed(row) == [row EXCEPT !.status = "COMPLETED"]
LeftAlone(row) == row  \* a mutant: reopening forgotten
Reopened(row)  == [row EXCEPT !.status = "ACTIVE"]
Upserted(row)  == IF row.status = "NONE" THEN NewHalf
                  ELSE Reopened(row)

----------------------------------------------------------------------------
(* Handlers in flight. *)

Idle == [pc |-> "idle", order |-> NoOrder, arg |-> "NONE", role |-> "ADMIN",
         task |-> 0]
NoPay == [pc |-> "idle", todo |-> {}, task |-> 0, type |-> "NONE"]
NoFollow == [pc |-> "idle", todo |-> {}, order |-> NoOrder]

Busy == {h \in Handlers : handler[h].pc # "idle"}
InFlight == Cardinality(Busy) + (IF pay.pc = "idle" THEN 0 ELSE 1)
                              + (IF follow.pc = "idle" THEN 0 ELSE 1)

Free(h) == handler[h].pc = "idle" /\ InFlight < MaxInFlight

\* the bound on Task: whoever may add n rows starts only if there is room for them
Room(n) == made + InFlight + n <= MaxTasks

At(h, pc)     == handler[h].pc = pc
Goto(h, pc)   == handler' = [handler EXCEPT ![h].pc = pc]
Finish(h)     == handler' = [handler EXCEPT ![h] = Idle]
Start(h, req) == handler' = [handler EXCEPT ![h] = req]

\* an order's update that ends with every write done, or is cut off
Settle(h) == interrupted' = interrupted \ {handler[h].order}
CutOff(h) == interrupted' = interrupted \cup ({handler[h].order} \cap Orders)

AddTask(row) ==
    /\ made < MaxTasks
    /\ made' = made + 1
    /\ task' = [task EXCEPT ![made + 1] = row]

Init ==
    /\ order = [o \in Orders |-> [status |-> "NEW", date |-> "none", paid |-> FALSE]]
    /\ quiet = {}
    /\ task = [t \in TaskIds |-> BlankTask]
    /\ half = [t \in TaskIds |-> [side \in Sides |-> NoHalf]]
    /\ made = 0
    /\ handler = [h \in Handlers |-> Idle]
    /\ pay = NoPay
    /\ follow = NoFollow
    /\ failures = 0
    /\ worked = {}
    /\ interrupted = {}

----------------------------------------------------------------------------
(* PATCH /orders/:id with a payment_status. *)

\* OrdersService.update writes payment_status with the rest of the order
UpdateOrder(h, o, status, role) ==
    /\ "update" \in Kinds /\ Free(h)
    /\ status \in Dunning => Room(1)
    /\ order' = [order EXCEPT ![o].status = status]
    /\ Start(h, [pc |-> "find", order |-> o, arg |-> status, role |-> role, task |-> 0])
    /\ UNCHANGED <<quiet, task, half, made, pay, follow, failures, worked, interrupted>>

\* the branches of updatePaymentStatus, with foundTask (0: none)
Branch(h, t) ==
    LET arg == handler[h].arg
        On(pc) == handler' = [handler EXCEPT ![h].pc = pc, ![h].task = t]
    IN  \/ arg = "PAID" /\ On("pay")
        \/ arg \in Dunning /\ On("stamp")
        \/ arg \in {"NEW", "UNPAID"} /\ Finish(h)

\* updatePaymentStatus: the oldest AUTO task of the order, if any
FindTask(h) ==
    LET autos == AutoTasks(handler[h].order) IN
    /\ At(h, "find")
    /\ \/ autos = {} /\ Branch(h, 0)
       \/ \E t \in TaskIds : IsOldest(t, autos) /\ Branch(h, t)
    /\ UNCHANGED <<order, quiet, task, half, made, pay, follow, failures, worked,
                   interrupted>>

\* PAID: date_paid first, then both halves of the task in one nested update
StampPaid(h) ==
    LET r == handler[h] IN
    /\ At(h, "pay")
    /\ order' = [order EXCEPT ![r.order].paid = TRUE]
    /\ IF r.task = 0 THEN Finish(h) /\ Settle(h)
                     ELSE Goto(h, "complete") /\ UNCHANGED interrupted
    /\ UNCHANGED <<quiet, task, half, made, pay, follow, failures, worked>>

CompleteTask(h) ==
    LET t == handler[h].task IN
    /\ At(h, "complete")
    /\ Finish(h)
    /\ \/ /\ BothHalves(t)
          /\ half' = [half EXCEPT ![t] = [side \in Sides |-> Completed(half[t][side])]]
          /\ worked' = worked \cup {t}
          /\ Settle(h)
       \/ \* the nested update finds no row: the request fails, date_paid stays
          /\ ~ BothHalves(t)
          /\ CutOff(h)
          /\ UNCHANGED <<half, worked>>
    /\ UNCHANGED <<order, quiet, task, made, pay, follow, failures>>

\* SENT_INVOICE, PR1, PR2: the eight days start over
StampReminder(h) ==
    LET r == handler[h] IN
    /\ At(h, "stamp")
    /\ order' = [order EXCEPT ![r.order].date = "recent", ![r.order].paid = FALSE]
    /\ Goto(h, IF r.task = 0 THEN "create" ELSE "retype")
    /\ UNCHANGED <<quiet, task, half, made, pay, follow, failures, worked, interrupted>>

\* TasksService.create with createdBy AUTO
CreateReminder(h) ==
    LET r == handler[h] IN
    /\ At(h, "create")
    /\ AddTask([order |-> r.order, type |-> r.arg, createdBy |-> "AUTO",
                owner |-> r.role, live |-> TRUE])
    /\ handler' = [handler EXCEPT ![h].pc = "taskAccountant", ![h].task = made + 1]
    /\ UNCHANGED <<order, quiet, half, pay, follow, failures, worked, interrupted>>

\* TasksService.update with a taskType
KeepType(h) ==  \* a mutant: the type is not passed on
    /\ At(h, "retype") /\ Goto(h, "taskAccountant")
    /\ UNCHANGED <<tables, pay, follow, failures, worked, interrupted>>
RetypeReminder(h) ==
    LET r == handler[h] IN
    /\ At(h, "retype")
    /\ task' = [task EXCEPT ![r.task].type = r.arg]
    /\ Goto(h, "taskAccountant")
    /\ UNCHANGED <<order, quiet, half, made, pay, follow, failures, worked, interrupted>>

\* updateOrCreateTaskAccountantAndSeller for an AUTO task: one upsert per half
UpsertOneHalf(h) ==  \* a mutant: the seller's half is forgotten
    LET t == handler[h].task IN
    /\ At(h, "taskAccountant")
    /\ half' = [half EXCEPT ![t]["taskAccountant"] = Upserted(half[t]["taskAccountant"])]
    /\ Finish(h) /\ Settle(h)
    /\ UNCHANGED <<order, quiet, task, made, pay, follow, failures, worked>>
UpsertAccountant(h) ==
    LET t == handler[h].task IN
    /\ At(h, "taskAccountant")
    /\ half' = [half EXCEPT ![t]["taskAccountant"] = Upserted(half[t]["taskAccountant"])]
    /\ Goto(h, "taskSeller")
    /\ UNCHANGED <<order, quiet, task, made, pay, follow, failures, worked, interrupted>>

UpsertSeller(h) ==
    LET t == handler[h].task IN
    /\ At(h, "taskSeller")
    /\ half' = [half EXCEPT ![t]["taskSeller"] = Upserted(half[t]["taskSeller"])]
    /\ Finish(h)
    /\ Settle(h)
    /\ UNCHANGED <<order, quiet, task, made, pay, follow, failures, worked>>

----------------------------------------------------------------------------
(* The task endpoints. *)

Request(pc, arg, role, t) ==
    [pc |-> pc, order |-> NoOrder, arg |-> arg, role |-> role, task |-> t]

\* POST /tasks: the task, then the half of the role that asks
CreateTask(h, o, role) ==
    /\ "create" \in Kinds /\ Free(h) /\ Room(1)
    /\ role # "ADMIN"
    /\ AddTask([order |-> o, type |-> "NONE", createdBy |-> role, owner |-> role,
                live |-> TRUE])
    /\ Start(h, Request("own", "NONE", role, made + 1))
    /\ UNCHANGED <<order, quiet, half, pay, follow, failures, worked, interrupted>>

\* a task that is not AUTO: only the half of the role that asks, its status kept
UpsertOwnHalf(h) ==
    LET r == handler[h]
        side == taskRelationHelper(r.role)
    IN  /\ At(h, "own")
        /\ half' = IF half[r.task][side].status = "NONE"
                   THEN [half EXCEPT ![r.task][side] = NewHalf] ELSE half
        /\ Finish(h)
        /\ UNCHANGED <<order, quiet, task, made, pay, follow, failures, worked, interrupted>>

\* PATCH /tasks/:id: on an AUTO task it upserts both halves and so reopens them
EditTask(h, t, role) ==
    /\ "edit" \in Kinds /\ Free(h)
    /\ t \in LiveTasks /\ MayUpdate(role, t)
    /\ Start(h, Request(IF task[t].createdBy = "AUTO" THEN "taskAccountant" ELSE "own",
                        "NONE", role, t))
    /\ UNCHANGED <<order, quiet, task, half, made, pay, follow, failures, worked,
                   interrupted>>

\* PATCH /tasks/complete/:id and /tasks/active/:id: the task is read and the
\* ability checked first, the half is written in a later transaction
CheckStatus(h, t, role, status) ==
    /\ "status" \in Kinds /\ Free(h)
    /\ t \in LiveTasks /\ MayUpdate(role, t)
    /\ Start(h, Request("status", status, role, t))
    /\ UNCHANGED <<order, quiet, task, half, made, pay, follow, failures, worked,
                   interrupted>>

SetStatus(h) ==
    LET r == handler[h]
        t == r.task
        side == taskRelationHelper(r.role)
        exists == half[t][side].status # "NONE"
        done == exists /\ r.arg = "COMPLETED"
    IN  /\ At(h, "status")
        /\ half' = IF exists
                   THEN [half EXCEPT ![t][side] = IF done THEN Completed(half[t][side])
                                                  ELSE Reopened(half[t][side])]
                   ELSE half
        /\ worked' = IF done THEN worked \cup {t} ELSE worked
        /\ Finish(h)
        /\ UNCHANGED <<order, quiet, task, made, pay, follow, failures, interrupted>>

\* DELETE /tasks/:id: the half of the role that asks, then the task. The
\* accountant's half keeps deletedAt null; the seller's gets it in a call of its own
CheckRemove(h, t, role) ==
    /\ "remove" \in Kinds /\ Free(h)
    /\ t \in LiveTasks /\ MayUpdate(role, t)
    /\ Start(h, Request(IF role = "ACCOUNTANT" THEN "markHalf" ELSE "deleteHalf",
                        "NONE", role, t))
    /\ UNCHANGED <<order, quiet, task, half, made, pay, follow, failures, worked,
                   interrupted>>

DeleteHalf(h) ==
    LET t == handler[h].task IN
    /\ At(h, "deleteHalf")
    /\ IF half[t]["taskSeller"].status = "NONE"
       THEN Finish(h) /\ UNCHANGED half
       ELSE /\ half' = [half EXCEPT ![t]["taskSeller"].live = FALSE]
            /\ Goto(h, "markHalf")
    /\ UNCHANGED <<order, quiet, task, made, pay, follow, failures, worked, interrupted>>

MarkHalf(h) ==
    LET t == handler[h].task
        side == taskRelationHelper(handler[h].role)
    IN  /\ At(h, "markHalf")
        /\ IF half[t][side].status = "NONE"
           THEN Finish(h) /\ UNCHANGED half
           ELSE /\ half' = [half EXCEPT ![t][side].status = "DELETED"]
                /\ Goto(h, "deleteTask")
        /\ UNCHANGED <<order, quiet, task, made, pay, follow, failures, worked,
                       interrupted>>

DeleteTask(h) ==
    /\ At(h, "deleteTask")
    /\ task' = [task EXCEPT ![handler[h].task].live = FALSE]
    /\ Finish(h)
    /\ UNCHANGED <<order, quiet, half, made, pay, follow, failures, worked, interrupted>>

----------------------------------------------------------------------------
(* checkPayments, every night at one. *)

Listed == {[order |-> o, status |-> order[o].status, date |-> order[o].date] :
             o \in {p \in Orders : order[p].status \in Dunning}}

\* the orders still to be looked at, and what the job does next
Pass == [pc |-> "scan", task |-> 0, type |-> "NONE"]

Turn(todo, d) == [pc |-> d.pc, todo |-> todo, task |-> d.task, type |-> d.type]

\* the orders are listed once; the loop works from what was listed
StartPayments ==
    /\ pay.pc = "idle" /\ InFlight < MaxInFlight
    /\ pay' = Turn(Listed, Pass)
    /\ UNCHANGED <<order, quiet, task, half, made, handler, follow, failures, worked,
                   interrupted>>

DecidedAnyDay(s, t) == EitherComplete(t)  \* a mutant: the date is not looked at
DecidedTooSoon(s, t) == s.date = "recent" /\ EitherComplete(t)  \* a mutant: lt for gte
Decided(s, t) == s.date = "due" /\ EitherComplete(t)

\* what the job will do to the task it has read
NextOfStatus(s, t) ==  \* a mutant: moves on from the order's status
    [pc |-> "advance", task |-> t, type |-> s.status]
Decision(s, t) ==
    [pc |-> IF task[t].type # "UNPAID" /\ s.status = task[t].type THEN "advance" ELSE "reset",
     task |-> t, type |-> task[t].type]

\* for each listed order, its newest AUTO task
ReadTask(s) ==
    LET autos == AutoTasks(s.order)
        rest == pay.todo \ {s}
    IN  /\ pay.pc = "scan" /\ s \in pay.todo
        /\ \/ autos = {} /\ pay' = Turn(rest, Pass)
           \/ \E t \in TaskIds :
                /\ IsNewest(t, autos)
                /\ pay' = Turn(rest, IF Decided(s, t) THEN Decision(s, t) ELSE Pass)
        /\ UNCHANGED <<order, quiet, task, half, made, handler, follow, failures, worked,
                       interrupted>>

BackToScan == pay' = Turn(pay.todo, Pass)

\* updateToNewTaskType: from the type that was read; a missing half is caught
AdvanceTask ==
    LET t == pay.task IN
    /\ pay.pc = "advance"
    /\ IF BothHalves(t)
       THEN /\ task' = [task EXCEPT ![t].type = newTaskTypeHelper(pay.type)]
            /\ half' = [half EXCEPT ![t] = [side \in Sides |-> Reopened(half[t][side])]]
            /\ worked' = worked \ {t}
       ELSE UNCHANGED <<task, half, worked>>
    /\ BackToScan
    /\ UNCHANGED <<order, quiet, made, handler, follow, failures, interrupted>>

\* setTaskToIncomplete
ResetTask ==
    LET t == pay.task IN
    /\ pay.pc = "reset"
    /\ half' = IF BothHalves(t)
               THEN [half EXCEPT ![t] = [side \in Sides |-> Reopened(half[t][side])]]
               ELSE half
    /\ BackToScan
    /\ UNCHANGED <<order, quiet, task, made, handler, follow, failures, worked,
                   interrupted>>

EndPayments ==
    /\ pay.pc = "scan" /\ pay.todo = {}
    /\ pay' = NoPay
    /\ UNCHANGED <<order, quiet, task, half, made, handler, follow, failures, worked,
                   interrupted>>

----------------------------------------------------------------------------
(* checkOrders, at the same hour. *)

\* the clients whose newest order is not within two months, or who have none
NeverOrdered == {c \in Clients : LastOrder[c] = NoOrder}  \* a mutant
LongSilent == {c \in Clients : c \in quiet \/ LastOrder[c] = NoOrder}

StartOrders ==
    /\ follow.pc = "idle" /\ InFlight < MaxInFlight /\ Room(Cardinality(LongSilent))
    /\ follow' = [NoFollow EXCEPT !.pc = "scan", !.todo = LongSilent]
    /\ UNCHANGED <<order, quiet, task, half, made, handler, pay, failures, worked,
                   interrupted>>

CheckClient(c) ==
    LET o == LastOrder[c] IN
    /\ follow.pc = "scan" /\ c \in follow.todo
    /\ follow' = [follow EXCEPT !.todo = follow.todo \ {c}, !.order = o,
                    !.pc = IF \E t \in TaskIds : /\ IsNewest(t, TasksWhere(o))
                                                 /\ task[t].type = "TWO_MTFU"
                           THEN "scan" ELSE "create"]
    /\ UNCHANGED <<order, quiet, task, half, made, handler, pay, failures, worked,
                   interrupted>>

\* createTask: the task and both halves in one nested create
CreateFollowUp ==
    /\ follow.pc = "create"
    /\ AddTask([order |-> follow.order, type |-> "TWO_MTFU", createdBy |-> "AUTO",
                owner |-> "SELLER", live |-> TRUE])
    /\ half' = [half EXCEPT ![made + 1] = [side \in Sides |-> NewHalf]]
    /\ follow' = [follow EXCEPT !.pc = "scan"]
    /\ UNCHANGED <<order, quiet, handler, pay, failures, worked, interrupted>>

EndOrders ==
    /\ follow.pc = "scan" /\ follow.todo = {}
    /\ follow' = NoFollow
    /\ UNCHANGED <<order, quiet, task, half, made, handler, pay, failures, worked,
                   interrupted>>

----------------------------------------------------------------------------
(* Time and failures. *)

\* Days pass between requests and jobs, not within them: they last seconds.
EightDaysPass(o) ==
    /\ InFlight = 0
    /\ order[o].date = "recent"
    /\ order' = [order EXCEPT ![o].date = "due"]
    /\ UNCHANGED <<quiet, task, half, made, handler, pay, follow, failures, worked,
                   interrupted>>

TwoMonthsPass(c) ==
    /\ InFlight = 0
    /\ c \notin quiet /\ LastOrder[c] # NoOrder
    /\ quiet' = quiet \cup {c}
    /\ UNCHANGED <<order, task, half, made, handler, pay, follow, failures, worked,
                   interrupted>>

\* a request fails at its next call (database error, failed log): nothing is rolled back
FailRequest(h) ==
    /\ ~ At(h, "idle") /\ failures < MaxFailures
    /\ failures' = failures + 1
    /\ Finish(h) /\ CutOff(h)
    /\ UNCHANGED <<order, quiet, task, half, made, pay, follow, worked>>

\* the process restarts: every request and both jobs are gone
Restart ==
    /\ InFlight > 0 /\ failures < MaxFailures
    /\ failures' = failures + 1
    /\ handler' = [h \in Handlers |-> Idle]
    /\ pay' = NoPay /\ follow' = NoFollow
    /\ interrupted' = interrupted \cup {o \in Orders : \E h \in Busy : handler[h].order = o}
    /\ UNCHANGED <<tables, worked>>

----------------------------------------------------------------------------
RequestStep(h) ==
    \/ FindTask(h) \/ StampPaid(h) \/ CompleteTask(h) \/ StampReminder(h)
    \/ CreateReminder(h) \/ RetypeReminder(h) \/ UpsertAccountant(h) \/ UpsertSeller(h)
    \/ UpsertOwnHalf(h) \/ SetStatus(h) \/ DeleteHalf(h) \/ MarkHalf(h) \/ DeleteTask(h)

NewRequest(h) ==
    \E role \in Roles :
        \/ \E o \in Orders, status \in Recorded : UpdateOrder(h, o, status, role)
        \/ \E o \in Orders : CreateTask(h, o, role)
        \/ \E t \in TaskIds :
             \/ EditTask(h, t, role)
             \/ \E status \in {"COMPLETED", "ACTIVE"} : CheckStatus(h, t, role, status)
             \/ CheckRemove(h, t, role)

PayStep == (\E s \in pay.todo : ReadTask(s)) \/ AdvanceTask \/ ResetTask \/ EndPayments
FollowStep == (\E c \in Clients : CheckClient(c)) \/ CreateFollowUp \/ EndOrders

TimePasses == (\E o \in Orders : EightDaysPass(o)) \/ (\E c \in Clients : TwoMonthsPass(c))

Next ==
    \/ \E h \in Handlers : NewRequest(h) \/ RequestStep(h) \/ FailRequest(h)
    \/ StartPayments \/ PayStep
    \/ StartOrders \/ FollowStep
    \/ TimePasses
    \/ Restart

Spec == Init /\ [][Next]_vars

(***************************************************************************)
(* Every call returns or fails, and a running job goes on.  The jobs are   *)
(* started every night and days pass whatever the users do: strong         *)
(* fairness, because in a model with few slots requests can occupy them.   *)
(* No user is obliged to send a request.                                   *)
(***************************************************************************)
Fairness ==
    /\ \A h \in Handlers : WF_vars(RequestStep(h))
    /\ WF_vars(PayStep) /\ WF_vars(FollowStep)
    /\ SF_vars(StartPayments) /\ SF_vars(StartOrders)
    /\ \A o \in Orders : SF_vars(EightDaysPass(o))

FairSpec == Spec /\ Fairness

----------------------------------------------------------------------------
\* the steps of a request, by what it has in hand
TypeSteps  == {"stamp", "create", "retype"}
OrderSteps == {"find", "pay", "stamp", "create"}
TaskSteps  == {"complete", "retype", "taskAccountant", "taskSeller", "own", "status",
               "deleteHalf", "markHalf", "deleteTask"}

HandlerState ==
    [pc : {"idle"} \cup OrderSteps \cup TaskSteps,
     order : Orders \cup {NoOrder},
     arg : PaymentStatuses \cup {"NONE", "COMPLETED", "ACTIVE"},
     role : UserRoles, task : TaskIds \cup {0}]

ListedRow == [order : Orders, status : Dunning, date : Dates]

\* The type invariant: what each table and each handler may hold.
TypeOK ==
    /\ order \in [Orders -> OrderRow]
    /\ quiet \in SUBSET Clients
    /\ task \in [TaskIds -> TaskRow]
    /\ half \in [TaskIds -> [Sides -> HalfRow]]
    /\ made \in 0 .. MaxTasks
    /\ handler \in [Handlers -> HandlerState]
    /\ pay \in [pc : {"idle", "scan", "advance", "reset"}, todo : SUBSET ListedRow,
                task : TaskIds \cup {0}, type : TaskTypes]
    /\ follow \in [pc : {"idle", "scan", "create"}, todo : SUBSET Clients,
                   order : Orders \cup {NoOrder}]
    /\ failures \in 0 .. MaxFailures
    /\ worked \in SUBSET TaskIds
    /\ interrupted \in SUBSET Orders

\* checkPayments moves or reopens a task only if somebody completed the task
\* after the last move: two nights in a row never climb two rungs, however the
\* requests interleave with the job.
EarnedBeforeAdvance == pay.pc \in {"advance", "reset"} => pay.task \in worked

Reminder(t) == t \in LiveTasks /\ task[t].createdBy = "AUTO" /\ task[t].type # "TWO_MTFU"

\* Only a recorded payment status takes a task out of UNPAID: no late write of
\* the job brings back a reminder that is over.
UnpaidIsFinal ==
    [][\A t \in TaskIds : task[t].type = "UNPAID" /\ task'[t].type # "UNPAID"
           => \E h \in Handlers : At(h, "retype") /\ handler[h].task = t]_vars

\* Without overlap, a task of an order lacks a half only while the request that
\* creates it is under way, or until the update that was cut off is repeated.
HalvesArePaired ==
    \A t \in LiveTasks :
        task[t].createdBy = "AUTO" /\ ~ BothHalves(t)
            => task[t].order \in interrupted \/ \E h \in Busy : handler[h].task = t

\* Two live follow-ups of one order have another task between them: checkOrders
\* does not repeat itself night after night.
FollowUpsAreSpaced ==
    \A t, u \in LiveTasks :
        /\ t < u /\ task[t].order = task[u].order
        /\ task[t].type = "TWO_MTFU" /\ task[u].type = "TWO_MTFU"
        => \E v \in TaskIds : t < v /\ v < u

\* Without overlap, an order has at most one live reminder.
OneReminder ==
    \A t, u \in TaskIds :
        Reminder(t) /\ Reminder(u) /\ task[t].order = task[u].order => t = u

\* Without overlap, between requests and jobs, what was recorded on an order and
\* its reminder agree: the dates match the status, and the reminder is at the
\* recorded status or one rung above it.
RecordsAgree ==
    InFlight = 0 =>
        \A o \in Orders \ interrupted :
            /\ order[o].status = "PAID" => order[o].paid
            /\ order[o].status \in Dunning =>
                 /\ ~ order[o].paid /\ order[o].date # "none"
                 /\ \A t \in AutoTasks(o) : Reminder(t) =>
                      task[t].type \in {order[o].status, newTaskTypeHelper(order[o].status)}

\* A completed reminder of a due order does not wait for ever: the job moves it
\* on, unless the reminder or the order is changed first.
Owed(o, t) ==
    /\ IsNewest(t, AutoTasks(o)) /\ BothHalves(t) /\ EitherComplete(t)
    /\ order[o].date = "due" /\ order[o].status \in Dunning
    /\ task[t].type = order[o].status

CompletedRemindersMove ==
    \A o \in Orders, t \in TaskIds : Owed(o, t) ~> ~ Owed(o, t)

\* A client who has not ordered for two months eventually has a follow-up as
\* the newest task of that last order.
QuietClientsAreFollowedUp ==
    \A c \in Clients :
        c \in quiet ~> \E t \in TaskIds : /\ IsNewest(t, TasksWhere(LastOrder[c]))
                                          /\ task[t].type = "TWO_MTFU"

----------------------------------------------------------------------------
(* Two statements of comments in orders-cron.service.ts. *)

\* Line 161: "It will automatically update the order's task into new Task".
\* When the job reaches a due order whose reminder is completed, it moves it.
DueRemindersAreMoved ==
    [][\A s \in pay.todo : ReadTask(s) /\ s.date = "due" =>
         \A t \in AutoTasks(s.order) :
            Reminder(t) /\ EitherComplete(t) /\ task[t].type = s.status
                => pay'.pc = "advance" /\ pay'.task = t]_vars

\* Line 166: "If the task status of the order is complete, but the payment status
\* of the order has not been updated to the new type": only then is it reopened.
ReopensOnlyUnrecorded ==
    [][ResetTask /\ half' # half =>
         LET recorded == order[task[pay.task].order].status
         IN  recorded \in Dunning /\ recorded # task[pay.task].type]_vars
----------------------------------------------------------------------------
(* What the reminders promise, in the terms of ReminderLadder. *)

Ladder == INSTANCE ReminderLadder WITH
    Tasks  <- TaskIds,
    rung   <- [t \in TaskIds |-> task[t].type],
    earned <- [t \in TaskIds |-> EitherComplete(t)],
    aged   <- [t \in TaskIds |-> task[t].order # NoOrder
                                 /\ order[task[t].order].date = "due"]

\* Without overlap, the calls of requests and jobs implement the ladder: the job
\* moves a task one rung, and only if it is completed and its order is due.
ClimbsTheLadder == Ladder!Spec
=============================================================================
