-------------------------- MODULE PaymentRemindersProofs --------------------------
(***************************************************************************)
(* Proofs about PaymentReminders, for every set of orders, clients and     *)
(* handlers and every bound: the type invariant, and the three properties  *)
(* that the run RemindersRaces checks on a small instance; then what users *)
(* rely on while requests and jobs do not overlap: one reminder per order, *)
(* both halves of each task, records that agree, and the ladder of         *)
(* ReminderLadder, which PaymentReminders then implements.                 *)
(***************************************************************************)
EXTENDS PaymentReminders, FiniteSetTheorems, TLAPS

(***************************************************************************)
(* What a request knows when it has come to a step: the task it works on   *)
(* exists, and only a Dunning status reaches the steps that write a type.  *)
(***************************************************************************)
InStep(r, rows) ==
    /\ r \in HandlerState
    /\ r.task <= rows
    /\ r.pc \in OrderSteps => r.order \in Orders
    /\ r.pc \in TypeSteps => r.arg \in Dunning
    /\ r.pc \in TaskSteps => r.task \in TaskIds

HandlersInStep ==
    /\ made \in 0 .. MaxTasks
    /\ handler = [h \in Handlers |-> handler[h]]
    /\ \A h \in Handlers : InStep(handler[h], made)

JobInStep ==
    /\ pay.task <= made
    /\ pay.pc \in {"advance", "reset"} => pay.task \in TaskIds

TypeInv == TypeOK /\ HandlersInStep /\ JobInStep

----------------------------------------------------------------------------
LEMMA HelperTypes ==
    /\ \A type : newTaskTypeHelper(type) \in TaskTypes \ {"NONE", "TWO_MTFU"}
    /\ \A role : taskRelationHelper(role) \in Sides
    /\ \A row \in HalfRow : Completed(row) \in HalfRow /\ Reopened(row) \in HalfRow
                            /\ Upserted(row) \in HalfRow
BY DEF newTaskTypeHelper, taskRelationHelper, TaskTypes, Dunning, Sides, HalfRow,
       Completed, Reopened, Upserted, NewHalf

\* A row stays a row of its table when one of its columns is written.
LEMMA RowUpdates ==
    /\ \A row \in OrderRow :
         /\ [row EXCEPT !.paid = TRUE] \in OrderRow
         /\ [row EXCEPT !.date = "recent", !.paid = FALSE] \in OrderRow
    /\ \A row \in TaskRow, type \in TaskTypes : [row EXCEPT !.type = type] \in TaskRow
    /\ \A row \in TaskRow : [row EXCEPT !.live = FALSE] \in TaskRow
    /\ \A row \in HalfRow : /\ [row EXCEPT !.live = FALSE] \in HalfRow
                            /\ [row EXCEPT !.status = "DELETED"] \in HalfRow
    /\ \A r \in HandlerState, pc \in OrderSteps \cup TaskSteps, t \in TaskIds \cup {0} :
         [r EXCEPT !.pc = pc, !.task = t] \in HandlerState
<1>1. \A row \in OrderRow :
         /\ [row EXCEPT !.paid = TRUE] \in OrderRow
         /\ [row EXCEPT !.date = "recent", !.paid = FALSE] \in OrderRow
  BY DEF OrderRow, Dates
<1>2. /\ \A row \in TaskRow, type \in TaskTypes : [row EXCEPT !.type = type] \in TaskRow
      /\ \A row \in TaskRow : [row EXCEPT !.live = FALSE] \in TaskRow
  BY DEF TaskRow
<1>3. \A row \in HalfRow : /\ [row EXCEPT !.live = FALSE] \in HalfRow
                           /\ [row EXCEPT !.status = "DELETED"] \in HalfRow
  BY DEF HalfRow
<1>4. \A r \in HandlerState, pc \in OrderSteps \cup TaskSteps, t \in TaskIds \cup {0} :
         [r EXCEPT !.pc = pc, !.task = t] \in HandlerState
  BY DEF HandlerState
<1> QED
  BY <1>1, <1>2, <1>3, <1>4

LEMMA IdleInStep == \A rows \in Nat : InStep(Idle, rows)
BY ConstantsOK DEF InStep, Idle, HandlerState, UserRoles, OrderSteps, TypeSteps, TaskSteps

LEMMA TypeInvInit == Init => TypeInv
<1> SUFFICES ASSUME Init PROVE TypeInv
  OBVIOUS
<1>1. TypeOK
  BY ConstantsOK DEF Init, TypeOK, OrderRow, PaymentStatuses, Dates, TaskRow, BlankTask, TaskTypes,
     TaskIds, UserRoles, HalfRow, NoHalf, Sides, HandlerState, Idle, NoPay, NoFollow
<1>2. HandlersInStep
  BY IdleInStep, ConstantsOK DEF Init, HandlersInStep
<1> QED
  BY <1>1, <1>2 DEF TypeInv, JobInStep, Init, NoPay

\* Only one slot changes in a step, and rows are never taken away.
LEMMA OneSlot ==
    ASSUME HandlersInStep, NEW h \in Handlers, NEW r, handler' = [handler EXCEPT ![h] = r],
           made' \in 0 .. MaxTasks, made <= made', InStep(r, made')
    PROVE  HandlersInStep'
<1>1. \A g \in Handlers : InStep(handler[g], made')
  BY ConstantsOK DEF HandlersInStep, InStep, HandlerState, TaskIds
<1>2. \A g \in Handlers : handler'[g] = IF g = h THEN r ELSE handler[g]
  BY DEF HandlersInStep
<1>3. handler' = [g \in Handlers |-> handler'[g]]
  BY DEF HandlersInStep
<1> QED
  BY <1>1, <1>2, <1>3 DEF HandlersInStep, InStep, HandlerState

LEMMA FinishInStep ==
    ASSUME HandlersInStep, NEW h \in Handlers, Finish(h), made' = made
    PROVE  HandlersInStep'
BY OneSlot, IdleInStep, ConstantsOK DEF Finish, HandlersInStep

LEMMA GotoInStep ==
    ASSUME HandlersInStep, NEW h \in Handlers, made' = made,
           NEW pc \in OrderSteps \cup TaskSteps, Goto(h, pc),
           pc \in OrderSteps => handler[h].order \in Orders,
           pc \in TypeSteps => handler[h].arg \in Dunning,
           pc \in TaskSteps => handler[h].task \in TaskIds
    PROVE  HandlersInStep'
<1> DEFINE r == [handler[h] EXCEPT !.pc = pc]
<1>1. InStep(r, made)
  BY DEF HandlersInStep, InStep, HandlerState
<1>2. handler' = [handler EXCEPT ![h] = r]
  BY DEF Goto, HandlersInStep
<1> QED
  BY <1>1, <1>2, OneSlot DEF HandlersInStep

LEMMA HandlersStep ==
    ASSUME HandlersInStep, [Next]_vars
    PROVE  HandlersInStep'
<1> USE ConstantsOK DEF At, OrderSteps, TypeSteps, TaskSteps
<1>1. ASSUME NEW h \in Handlers, NEW role \in Roles, NEW o \in Orders, NEW status \in Recorded,
             UpdateOrder(h, o, status, role)
      PROVE  HandlersInStep'
  <2> DEFINE r == [pc |-> "find", order |-> o, arg |-> status, role |-> role, task |-> 0]
  <2>1. InStep(r, made)
    BY DEF InStep, HandlerState, HandlersInStep
  <2> QED
    BY <1>1, <2>1, OneSlot DEF UpdateOrder, Start, HandlersInStep
<1>2. ASSUME NEW h \in Handlers, FindTask(h) PROVE HandlersInStep'
  <2>1. InStep(handler[h], made) /\ made' = made /\ handler[h].pc = "find"
    BY <1>2 DEF HandlersInStep, FindTask
  <2>2. PICK t \in TaskIds \cup {0} : Branch(h, t) /\ t <= made
    BY <1>2, <2>1 DEF FindTask, HandlersInStep, IsOldest, AutoTasks, LiveTasks
  <2>3. ASSUME NEW pc \in {"pay", "stamp"}, pc = "stamp" => handler[h].arg \in Dunning,
               handler' = [handler EXCEPT ![h].pc = pc, ![h].task = t]
        PROVE  HandlersInStep'
    <3> DEFINE r == [handler[h] EXCEPT !.pc = pc, !.task = t]
    <3>1. InStep(r, made)
      BY <2>1, <2>2, <2>3 DEF InStep, HandlerState
    <3>2. handler' = [handler EXCEPT ![h] = r]
      BY <2>3 DEF HandlersInStep
    <3> QED
      BY <2>1, <3>1, <3>2, OneSlot DEF HandlersInStep
  <2> QED
    BY <2>1, <2>2, <2>3, FinishInStep DEF Branch
<1>3. ASSUME NEW h \in Handlers, StampPaid(h) PROVE HandlersInStep'
  BY <1>3, GotoInStep, FinishInStep DEF StampPaid, HandlersInStep, InStep, HandlerState
<1>4. ASSUME NEW h \in Handlers, CompleteTask(h) PROVE HandlersInStep'
  BY <1>4, FinishInStep DEF CompleteTask
<1>5. ASSUME NEW h \in Handlers, StampReminder(h) PROVE HandlersInStep'
  BY <1>5, GotoInStep DEF StampReminder, HandlersInStep, InStep, HandlerState
<1>6. ASSUME NEW h \in Handlers, CreateReminder(h) PROVE HandlersInStep'
  <2> DEFINE r == [handler[h] EXCEPT !.pc = "taskAccountant", !.task = made + 1]
  <2>1. /\ InStep(handler[h], made) /\ handler[h].pc = "create"
        /\ made' = made + 1 /\ made \in Nat /\ made + 1 \in TaskIds
    BY <1>6 DEF HandlersInStep, CreateReminder, AddTask, TaskIds
  <2>2. r \in HandlerState /\ r.task = made + 1 /\ r.pc = "taskAccountant"
    BY <2>1, RowUpdates DEF InStep, HandlerState
  <2>3. InStep(r, made + 1)
    BY <2>1, <2>2 DEF InStep
  <2>4. handler' = [handler EXCEPT ![h] = r]
    BY <1>6 DEF HandlersInStep, CreateReminder
  <2> QED
    BY <2>1, <2>3, <2>4, OneSlot DEF HandlersInStep, TaskIds
<1>7. ASSUME NEW h \in Handlers, RetypeReminder(h) PROVE HandlersInStep'
  BY <1>7, GotoInStep DEF RetypeReminder, HandlersInStep, InStep
<1>8. ASSUME NEW h \in Handlers, UpsertAccountant(h) PROVE HandlersInStep'
  BY <1>8, GotoInStep DEF UpsertAccountant, HandlersInStep, InStep
<1>9. ASSUME NEW h \in Handlers,
             UpsertSeller(h) \/ UpsertOwnHalf(h) \/ SetStatus(h) \/ DeleteTask(h) \/ FailRequest(h)
      PROVE  HandlersInStep'
  BY <1>9, FinishInStep DEF UpsertSeller, UpsertOwnHalf, SetStatus, DeleteTask, FailRequest
<1>10. ASSUME NEW h \in Handlers, NEW role \in Roles, NEW o \in Orders, CreateTask(h, o, role)
       PROVE  HandlersInStep'
  <2> DEFINE r == Request("own", "NONE", role, made + 1)
  <2>1. made' = made + 1 /\ made + 1 \in TaskIds
    BY <1>10 DEF HandlersInStep, CreateTask, AddTask, TaskIds
  <2>2. InStep(r, made + 1)
    BY <2>1 DEF InStep, HandlerState, Request, TaskIds
  <2> QED
    BY <1>10, <2>1, <2>2, OneSlot DEF HandlersInStep, TaskIds, CreateTask, Start
<1>11. ASSUME NEW h \in Handlers, NEW role \in Roles, NEW t \in LiveTasks, NEW pc \in TaskSteps \ TypeSteps,
              NEW arg \in {"NONE", "COMPLETED", "ACTIVE"},
              Start(h, Request(pc, arg, role, t)), made' = made
       PROVE  HandlersInStep'
  <2>1. InStep(Request(pc, arg, role, t), made)
    BY DEF InStep, HandlerState, Request, LiveTasks, HandlersInStep
  <2> QED
    BY <1>11, <2>1, OneSlot DEF HandlersInStep, Start
<1>12. ASSUME NEW h \in Handlers, NEW role \in Roles, NEW t \in TaskIds, EditTask(h, t, role)
       PROVE  HandlersInStep'
  BY <1>11, <1>12 DEF EditTask
<1>13. ASSUME NEW h \in Handlers, NEW role \in Roles, NEW t \in TaskIds,
              NEW status \in {"COMPLETED", "ACTIVE"}, CheckStatus(h, t, role, status)
       PROVE  HandlersInStep'
  BY <1>11, <1>13 DEF CheckStatus
<1>14. ASSUME NEW h \in Handlers, NEW role \in Roles, NEW t \in TaskIds, CheckRemove(h, t, role)
       PROVE  HandlersInStep'
  BY <1>11, <1>14 DEF CheckRemove
<1>15. ASSUME NEW h \in Handlers, DeleteHalf(h) \/ MarkHalf(h) PROVE HandlersInStep'
  BY <1>15, FinishInStep, GotoInStep DEF DeleteHalf, MarkHalf, HandlersInStep, InStep
<1>16. CASE Restart
  BY <1>16, IdleInStep DEF Restart, tables, HandlersInStep
<1>17. CASE CreateFollowUp
  BY <1>17 DEF CreateFollowUp, AddTask, HandlersInStep, InStep, HandlerState, TaskIds
<1>18. CASE UNCHANGED <<handler, made>>
  BY <1>18 DEF HandlersInStep
<1>19. CASE StartPayments \/ PayStep \/ StartOrders \/ (\E c \in Clients : CheckClient(c)) \/ EndOrders
            \/ TimePasses
  BY <1>18, <1>19 DEF StartPayments, PayStep, ReadTask, AdvanceTask, ResetTask, EndPayments,
     StartOrders, CheckClient, EndOrders, TimePasses, EightDaysPass, TwoMonthsPass
<1> QED
  BY <1>1, <1>2, <1>3, <1>4, <1>5, <1>6, <1>7, <1>8, <1>9, <1>10, <1>12, <1>13, <1>14, <1>15,
     <1>16, <1>17, <1>18, <1>19 DEF Next, NewRequest, RequestStep, FollowStep, vars

----------------------------------------------------------------------------
LEMMA OrdersStep ==
    ASSUME TypeInv, [Next]_vars
    PROVE  order' \in [Orders -> OrderRow]
<1> USE ConstantsOK DEF TypeInv, TypeOK
<1>1. ASSUME NEW h \in Handlers, NEW role \in Roles, NEW o \in Orders, NEW status \in Recorded,
             UpdateOrder(h, o, status, role)
      PROVE  order' \in [Orders -> OrderRow]
  BY <1>1 DEF UpdateOrder, OrderRow
<1>2. ASSUME NEW h \in Handlers, StampPaid(h) \/ StampReminder(h)
      PROVE  order' \in [Orders -> OrderRow]
  <2> DEFINE o == handler[h].order
             row == IF StampPaid(h) THEN [order[o] EXCEPT !.paid = TRUE]
                    ELSE [order[o] EXCEPT !.date = "recent", !.paid = FALSE]
  <2>1. o \in Orders
    BY <1>2 DEF HandlersInStep, InStep, At, StampPaid, StampReminder, OrderSteps
  <2>2. order[o] \in OrderRow
    BY <2>1
  <2>3. row \in OrderRow
    BY <2>2, RowUpdates
  <2>4. order' = [order EXCEPT ![o] = row]
    BY <1>2, <2>1 DEF StampPaid, StampReminder
  <2> QED
    BY <2>1, <2>3, <2>4
<1>3. ASSUME NEW o \in Orders, EightDaysPass(o) PROVE order' \in [Orders -> OrderRow]
  BY <1>3 DEF EightDaysPass, OrderRow, Dates
<1>4. CASE UNCHANGED order
  BY <1>4
<1>5. ASSUME NEW h \in Handlers, RequestStep(h), ~ StampPaid(h), ~ StampReminder(h)
      PROVE  UNCHANGED order
  BY <1>5 DEF RequestStep, FindTask, CompleteTask, CreateReminder, RetypeReminder, UpsertAccountant,
     UpsertSeller, UpsertOwnHalf, SetStatus, DeleteHalf, MarkHalf, DeleteTask
<1>6. ASSUME NEW h \in Handlers, NewRequest(h) PROVE order' \in [Orders -> OrderRow]
  BY <1>1, <1>6 DEF NewRequest, CreateTask, EditTask, CheckStatus, CheckRemove
<1>7. CASE StartPayments \/ PayStep \/ StartOrders \/ FollowStep \/ Restart
  BY <1>7 DEF StartPayments, PayStep, ReadTask, AdvanceTask, ResetTask, EndPayments, StartOrders,
     FollowStep, CheckClient, CreateFollowUp, EndOrders, Restart, tables
<1>8. ASSUME NEW h \in Handlers, FailRequest(h) PROVE UNCHANGED order
  BY <1>8 DEF FailRequest
<1>9. ASSUME TimePasses PROVE order' \in [Orders -> OrderRow]
  BY <1>3, <1>9 DEF TimePasses, TwoMonthsPass
<1> QED
  BY <1>2, <1>4, <1>5, <1>6, <1>7, <1>8, <1>9 DEF Next, vars

\* What an action that works on the tables may do to a row.
LEMMA TasksStep ==
    ASSUME TypeInv, [Next]_vars
    PROVE  task' \in [TaskIds -> TaskRow] /\ made' \in made .. MaxTasks
<1> USE ConstantsOK DEF TypeInv, TypeOK
<1>1. ASSUME NEW row \in TaskRow, AddTask(row)
      PROVE  task' \in [TaskIds -> TaskRow] /\ made' \in made .. MaxTasks
  BY <1>1 DEF AddTask, TaskIds
<1>2. ASSUME NEW h \in Handlers, CreateReminder(h)
      PROVE  task' \in [TaskIds -> TaskRow] /\ made' \in made .. MaxTasks
  <2>1. /\ handler[h].order \in Orders /\ handler[h].arg \in Dunning
        /\ handler[h].role \in UserRoles
    BY <1>2 DEF CreateReminder, At, HandlersInStep, InStep, HandlerState, OrderSteps, TypeSteps
  <2> QED
    BY <1>1, <1>2, <2>1 DEF CreateReminder, TaskRow, TaskTypes
<1>3. ASSUME NEW h \in Handlers, NEW role \in Roles, NEW o \in Orders, CreateTask(h, o, role)
      PROVE  task' \in [TaskIds -> TaskRow] /\ made' \in made .. MaxTasks
  BY <1>1, <1>3 DEF CreateTask, TaskRow, TaskTypes, UserRoles
<1>4. ASSUME CreateFollowUp
      PROVE  task' \in [TaskIds -> TaskRow] /\ made' \in made .. MaxTasks
  BY <1>1, <1>4 DEF CreateFollowUp, TaskRow, TaskTypes, UserRoles
<1>5. ASSUME NEW h \in Handlers, RetypeReminder(h)
      PROVE  task' \in [TaskIds -> TaskRow] /\ made' \in made .. MaxTasks
  <2> DEFINE t == handler[h].task
  <2>1. t \in TaskIds /\ handler[h].arg \in TaskTypes /\ task[t] \in TaskRow
    BY <1>5 DEF RetypeReminder, At, HandlersInStep, InStep, TypeSteps, TaskSteps, TaskTypes
  <2>2. [task[t] EXCEPT !.type = handler[h].arg] \in TaskRow
    BY <2>1, RowUpdates
  <2> QED
    BY <1>5, <2>1, <2>2 DEF RetypeReminder
<1>6. ASSUME NEW h \in Handlers, DeleteTask(h)
       PROVE  task' \in [TaskIds -> TaskRow] /\ made' \in made .. MaxTasks
  <2> DEFINE t == handler[h].task
  <2>1. t \in TaskIds /\ task[t] \in TaskRow
    BY <1>6 DEF DeleteTask, At, HandlersInStep, InStep, TaskSteps
  <2>2. made' = made /\ task' = [task EXCEPT ![t].live = FALSE]
    BY <1>6 DEF DeleteTask
  <2>3. [task[t] EXCEPT !.live = FALSE] \in TaskRow
    BY <2>1, RowUpdates
  <2>4. task \in [TaskIds -> TaskRow] /\ made \in 0 .. MaxTasks
    OBVIOUS
  <2> HIDE DEF t, TypeInv, TypeOK
  <2> QED
    BY <2>1, <2>2, <2>3, <2>4
<1>7. ASSUME AdvanceTask
      PROVE  task' \in [TaskIds -> TaskRow] /\ made' \in made .. MaxTasks
  <2> DEFINE t == pay.task
  <2>1. t \in TaskIds /\ task[t] \in TaskRow
    BY <1>7 DEF AdvanceTask, JobInStep
  <2>2. PICK type \in TaskTypes : type = newTaskTypeHelper(pay.type)
    BY HelperTypes
  <2>3. made' = made /\ (task' = task \/ task' = [task EXCEPT ![t].type = type])
    BY <1>7, <2>2, Zenon DEF AdvanceTask
  <2>4. [task[t] EXCEPT !.type = type] \in TaskRow
    BY <2>1, RowUpdates
  <2>5. task \in [TaskIds -> TaskRow] /\ made \in 0 .. MaxTasks
    OBVIOUS
  <2> HIDE DEF t, TypeInv, TypeOK
  <2> QED
    BY <2>1, <2>3, <2>4, <2>5
<1>8. CASE UNCHANGED <<task, made>>
  BY <1>8
<1>9. ASSUME NEW h \in Handlers, RequestStep(h), ~ CreateReminder(h), ~ RetypeReminder(h),
             ~ DeleteTask(h)
      PROVE  UNCHANGED <<task, made>>
  BY <1>9 DEF RequestStep, FindTask, StampPaid, CompleteTask, StampReminder, UpsertAccountant,
     UpsertSeller, UpsertOwnHalf, SetStatus, DeleteHalf, MarkHalf
<1>10. ASSUME NEW h \in Handlers, NewRequest(h)
      PROVE  task' \in [TaskIds -> TaskRow] /\ made' \in made .. MaxTasks
  BY <1>3, <1>8, <1>10 DEF NewRequest, UpdateOrder, EditTask, CheckStatus, CheckRemove
<1>11. CASE StartPayments \/ (PayStep /\ ~ AdvanceTask) \/ StartOrders
            \/ (FollowStep /\ ~ CreateFollowUp) \/ TimePasses \/ Restart
  BY <1>8, <1>11 DEF StartPayments, PayStep, ReadTask, ResetTask, EndPayments, StartOrders,
     FollowStep, CheckClient, EndOrders, TimePasses, EightDaysPass, TwoMonthsPass, Restart, tables
<1>12. ASSUME NEW h \in Handlers, FailRequest(h) PROVE UNCHANGED <<task, made>>
  BY <1>12 DEF FailRequest
<1> QED
  BY <1>2, <1>4, <1>5, <1>6, <1>7, <1>8, <1>9, <1>10, <1>11, <1>12 DEF Next, vars

LEMMA HalvesStep ==
    ASSUME TypeInv, [Next]_vars
    PROVE  half' \in [TaskIds -> [Sides -> HalfRow]]
<1> DEFINE Halves == [TaskIds -> [Sides -> HalfRow]]
<1> USE DEF TypeInv
<1>1. half \in Halves /\ NewHalf \in HalfRow
  BY DEF TypeOK, NewHalf, HalfRow
<1>2. ASSUME NEW t \in TaskIds, NEW side \in Sides, NEW row \in HalfRow,
             half' = [half EXCEPT ![t][side] = row]
      PROVE  half' \in Halves
  BY <1>1, <1>2
<1>3. ASSUME NEW h \in Handlers, handler[h].pc \in TaskSteps
      PROVE  handler[h].task \in TaskIds
  BY <1>3 DEF HandlersInStep, InStep
<1>4. ASSUME NEW h \in Handlers, UpsertAccountant(h) \/ UpsertSeller(h) PROVE half' \in Halves
  <2> DEFINE side == IF UpsertAccountant(h) THEN "taskAccountant" ELSE "taskSeller"
             t == handler[h].task
  <2>1. t \in TaskIds
    BY <1>3, <1>4 DEF UpsertAccountant, UpsertSeller, At, TaskSteps
  <2>2. side \in Sides /\ half[t][side] \in HalfRow
    BY <1>1, <2>1 DEF Sides
  <2>3. Upserted(half[t][side]) \in HalfRow
    BY <2>2, HelperTypes
  <2>4. half' = [half EXCEPT ![t][side] = Upserted(half[t][side])]
    BY <1>4 DEF UpsertAccountant, UpsertSeller
  <2> QED
    BY <1>2, <2>1, <2>2, <2>3, <2>4
<1>5. ASSUME NEW h \in Handlers, CompleteTask(h) PROVE half' \in Halves
  <2>1. handler[h].task \in TaskIds
    BY <1>3, <1>5 DEF CompleteTask, At, TaskSteps
  <2> QED
    BY <1>1, <1>5, <2>1, HelperTypes DEF CompleteTask
<1>6. ASSUME NEW h \in Handlers, UpsertOwnHalf(h) PROVE half' \in Halves
  BY <1>1, <1>2, <1>3, <1>6, HelperTypes DEF UpsertOwnHalf, At, TaskSteps
<1>7. ASSUME NEW h \in Handlers, SetStatus(h) PROVE half' \in Halves
  <2> DEFINE side == taskRelationHelper(handler[h].role)
             t == handler[h].task
  <2>1. t \in TaskIds
    BY <1>3, <1>7 DEF SetStatus, At, TaskSteps
  <2>2. side \in Sides /\ half[t][side] \in HalfRow
    BY <1>1, <2>1, HelperTypes
  <2>3. Completed(half[t][side]) \in HalfRow /\ Reopened(half[t][side]) \in HalfRow
    BY <2>2, HelperTypes
  <2>4. \/ half' = half
        \/ half' = [half EXCEPT ![t][side] = Completed(half[t][side])]
        \/ half' = [half EXCEPT ![t][side] = Reopened(half[t][side])]
    BY <1>7 DEF SetStatus
  <2> QED
    BY <1>1, <1>2, <2>1, <2>2, <2>3, <2>4
<1>8. ASSUME NEW h \in Handlers, DeleteHalf(h) \/ MarkHalf(h) PROVE half' \in Halves
  <2> DEFINE side == IF DeleteHalf(h) THEN "taskSeller" ELSE taskRelationHelper(handler[h].role)
             t == handler[h].task
             row == IF DeleteHalf(h) THEN [half[t][side] EXCEPT !.live = FALSE]
                    ELSE [half[t][side] EXCEPT !.status = "DELETED"]
  <2>1. t \in TaskIds
    BY <1>3, <1>8 DEF DeleteHalf, MarkHalf, At, TaskSteps
  <2>2. side \in Sides /\ half[t][side] \in HalfRow
    BY <1>1, <2>1, HelperTypes DEF Sides
  <2>3. row \in HalfRow
    BY <2>2, RowUpdates
  <2>4. half' = half \/ half' = [half EXCEPT ![t][side] = row]
    BY <1>8, <2>1, <2>2 DEF DeleteHalf, MarkHalf
  <2> QED
    BY <1>1, <1>2, <2>1, <2>2, <2>3, <2>4
<1>9. ASSUME AdvanceTask \/ ResetTask PROVE half' \in Halves
  <2>1. pay.task \in TaskIds
    BY <1>9 DEF AdvanceTask, ResetTask, JobInStep
  <2>2. \/ half' = half
        \/ half' = [half EXCEPT ![pay.task] = [side \in Sides |-> Reopened(half[pay.task][side])]]
    BY <1>9 DEF AdvanceTask, ResetTask
  <2> QED
    BY <1>1, <2>1, <2>2, HelperTypes
<1>10. ASSUME CreateFollowUp PROVE half' \in Halves
  BY <1>1, <1>10 DEF CreateFollowUp, Sides
<1>11. CASE UNCHANGED half
  BY <1>1, <1>11
<1>12. ASSUME NEW h \in Handlers, NewRequest(h) \/ FailRequest(h) PROVE UNCHANGED half
  BY <1>12 DEF NewRequest, UpdateOrder, CreateTask, EditTask, CheckStatus, CheckRemove, FailRequest
<1>13. CASE StartPayments \/ (PayStep /\ ~ AdvanceTask /\ ~ ResetTask) \/ StartOrders
            \/ (FollowStep /\ ~ CreateFollowUp) \/ TimePasses \/ Restart
  BY <1>1, <1>13 DEF StartPayments, PayStep, ReadTask, EndPayments, StartOrders, FollowStep,
     CheckClient, EndOrders, TimePasses, EightDaysPass, TwoMonthsPass, Restart, tables
<1>14. ASSUME NEW h \in Handlers,
              FindTask(h) \/ StampPaid(h) \/ StampReminder(h) \/ CreateReminder(h)
                \/ RetypeReminder(h) \/ DeleteTask(h)
       PROVE  UNCHANGED half
  BY <1>14 DEF FindTask, StampPaid, StampReminder, CreateReminder, RetypeReminder, DeleteTask
<1> QED
  BY <1>4, <1>5, <1>6, <1>7, <1>8, <1>9, <1>10, <1>11, <1>12, <1>13, <1>14
  DEF Next, RequestStep, vars

LEMMA JobsStep ==
    ASSUME TypeInv, [Next]_vars
    PROVE  /\ pay' \in [pc : {"idle", "scan", "advance", "reset"}, todo : SUBSET ListedRow,
                        task : TaskIds \cup {0}, type : TaskTypes]
           /\ follow' \in [pc : {"idle", "scan", "create"}, todo : SUBSET Clients,
                           order : Orders \cup {NoOrder}]
           /\ JobInStep'
<1> DEFINE Pays == [pc : {"idle", "scan", "advance", "reset"}, todo : SUBSET ListedRow,
                    task : TaskIds \cup {0}, type : TaskTypes]
           Follows == [pc : {"idle", "scan", "create"}, todo : SUBSET Clients,
                       order : Orders \cup {NoOrder}]
<1>1. /\ pay \in Pays /\ follow \in Follows /\ JobInStep /\ NoPay \in Pays /\ NoFollow \in Follows
      /\ made \in Nat /\ order \in [Orders -> OrderRow] /\ task \in [TaskIds -> TaskRow]
  BY DEF TypeInv, TypeOK, TaskIds, NoPay, NoFollow, TaskTypes
<1>2. made' \in Nat /\ made <= made'
  BY <1>1, TasksStep, ConstantsOK
<1>3. ASSUME UNCHANGED <<pay, follow>> PROVE pay' \in Pays /\ follow' \in Follows /\ JobInStep'
  BY <1>1, <1>2, <1>3 DEF JobInStep, TaskIds
<1>4. ASSUME NEW h \in Handlers, NewRequest(h) \/ RequestStep(h) \/ FailRequest(h)
      PROVE  UNCHANGED <<pay, follow>>
  BY <1>4 DEF NewRequest, RequestStep, UpdateOrder, CreateTask, EditTask, CheckStatus,
     CheckRemove, FindTask, StampPaid, CompleteTask, StampReminder, CreateReminder,
     RetypeReminder, UpsertAccountant, UpsertSeller, UpsertOwnHalf, SetStatus, DeleteHalf,
     MarkHalf, DeleteTask, FailRequest
<1>5. ASSUME NEW todo \in SUBSET ListedRow, pay' = Turn(todo, Pass), follow' = follow
      PROVE  pay' \in Pays /\ follow' \in Follows /\ JobInStep'
  BY <1>1, <1>2, <1>5 DEF Turn, Pass, JobInStep, TaskTypes
<1>6. CASE StartPayments
  <2>1. Listed \in SUBSET ListedRow
    BY <1>1 DEF Listed, ListedRow, OrderRow
  <2> QED
    BY <1>5, <1>6, <2>1 DEF StartPayments
<1>7. ASSUME NEW s \in pay.todo, ReadTask(s)
      PROVE  pay' \in Pays /\ follow' \in Follows /\ JobInStep'
  <2>1. pay.todo \ {s} \in SUBSET ListedRow
    BY <1>1
  <2>2. ASSUME NEW t \in TaskIds, t \in LiveTasks, pay' = Turn(pay.todo \ {s}, Decision(s, t))
        PROVE  pay' \in Pays /\ JobInStep'
    <3>1. task[t].type \in TaskTypes /\ t <= made
      BY <1>1, <2>2 DEF TaskRow, LiveTasks
    <3> QED
      BY <1>1, <1>2, <2>1, <2>2, <3>1 DEF Turn, Decision, JobInStep, TaskIds
  <2>3. follow' = follow
    BY <1>7 DEF ReadTask
  <2> QED
    BY <1>1, <1>5, <1>7, <2>1, <2>2, <2>3 DEF ReadTask, IsNewest, AutoTasks
<1>8. CASE AdvanceTask \/ ResetTask
  BY <1>1, <1>5, <1>8 DEF AdvanceTask, ResetTask, BackToScan
<1>9. CASE EndPayments \/ Restart
  BY <1>1, <1>2, <1>9 DEF EndPayments, Restart, JobInStep, NoPay
<1>10. ASSUME follow' \in Follows, pay' = pay
       PROVE  pay' \in Pays /\ follow' \in Follows /\ JobInStep'
  BY <1>1, <1>2, <1>10 DEF JobInStep, TaskIds
<1>11. CASE StartOrders
  BY <1>1, <1>10, <1>11 DEF StartOrders, LongSilent, NoFollow
<1>12. ASSUME NEW c \in Clients, CheckClient(c)
       PROVE  pay' \in Pays /\ follow' \in Follows /\ JobInStep'
  BY <1>1, <1>10, <1>12, ConstantsOK DEF CheckClient
<1>13. CASE CreateFollowUp \/ EndOrders
  BY <1>1, <1>10, <1>13 DEF CreateFollowUp, EndOrders
<1>14. CASE TimePasses \/ UNCHANGED vars
  BY <1>3, <1>14 DEF TimePasses, EightDaysPass, TwoMonthsPass, vars
<1> QED
  BY <1>3, <1>4, <1>6, <1>7, <1>8, <1>9, <1>11, <1>12, <1>13, <1>14 DEF Next, PayStep, FollowStep

LEMMA HistoriesStep ==
    ASSUME TypeInv, [Next]_vars
    PROVE  /\ quiet' \in SUBSET Clients /\ failures' \in 0 .. MaxFailures
           /\ worked' \in SUBSET TaskIds /\ interrupted' \in SUBSET Orders
<1>1. /\ quiet \in SUBSET Clients /\ failures \in 0 .. MaxFailures
      /\ worked \in SUBSET TaskIds /\ interrupted \in SUBSET Orders
  BY DEF TypeInv, TypeOK
<1>2. ASSUME NEW h \in Handlers, handler[h].pc \in TaskSteps
      PROVE  handler[h].task \in TaskIds
  BY <1>2 DEF TypeInv, HandlersInStep, InStep
<1>3. ASSUME NEW h \in Handlers, RequestStep(h)
      PROVE  /\ UNCHANGED <<quiet, failures>>
             /\ interrupted' = interrupted \/ Settle(h) \/ CutOff(h)
             /\ worked' = worked \/ (worked' = worked \cup {handler[h].task}
                                      /\ handler[h].pc \in TaskSteps)
  BY <1>3 DEF RequestStep, FindTask, StampPaid, CompleteTask, StampReminder, CreateReminder,
     RetypeReminder, UpsertAccountant, UpsertSeller, UpsertOwnHalf, SetStatus, DeleteHalf,
     MarkHalf, DeleteTask, At, TaskSteps
<1>4. ASSUME NEW h \in Handlers, NewRequest(h) PROVE UNCHANGED <<quiet, failures, worked, interrupted>>
  BY <1>4 DEF NewRequest, UpdateOrder, CreateTask, EditTask, CheckStatus, CheckRemove
<1>5. ASSUME NEW h \in Handlers, FailRequest(h)
      PROVE  /\ UNCHANGED <<quiet, worked>> /\ CutOff(h)
             /\ failures' = failures + 1 /\ failures < MaxFailures
  BY <1>5 DEF FailRequest
<1>6. ASSUME StartPayments \/ PayStep \/ StartOrders \/ FollowStep
      PROVE  /\ UNCHANGED <<quiet, failures, interrupted>>
             /\ worked' = worked \/ worked' = worked \ {pay.task}
  BY <1>6 DEF StartPayments, PayStep, ReadTask, AdvanceTask, ResetTask, EndPayments, StartOrders,
     FollowStep, CheckClient, CreateFollowUp, EndOrders
<1>7. ASSUME TimePasses
      PROVE  /\ UNCHANGED <<failures, worked, interrupted>>
             /\ quiet' = quiet \/ \E c \in Clients : quiet' = quiet \cup {c}
  BY <1>7 DEF TimePasses, EightDaysPass, TwoMonthsPass
<1>8. CASE Restart
  BY <1>1, <1>8, ConstantsOK DEF Restart, tables
<1>9. CASE UNCHANGED vars
  BY <1>1, <1>9 DEF vars
<1> QED
  BY <1>1, <1>2, <1>3, <1>4, <1>5, <1>6, <1>7, <1>8, <1>9, ConstantsOK DEF Next, Settle, CutOff

LEMMA TypeInvStep == TypeInv /\ [Next]_vars => TypeInv'
<1> SUFFICES ASSUME TypeInv, [Next]_vars PROVE TypeInv'
  OBVIOUS
<1>1. HandlersInStep'
  BY HandlersStep DEF TypeInv
<1>2. handler' \in [Handlers -> HandlerState]
  BY <1>1 DEF HandlersInStep, InStep
<1> QED
  BY <1>1, <1>2, OrdersStep, TasksStep, HalvesStep, JobsStep, HistoriesStep
  DEF TypeInv, TypeOK, HandlersInStep

LEMMA AlwaysTyped == Spec => []TypeInv
BY TypeInvInit, TypeInvStep, PTL DEF Spec

(***************************************************************************)
(* TypeOK: every table holds rows of its table and every request is in one *)
(* of its steps, with the row its next write needs, whatever overlaps.     *)
(***************************************************************************)
THEOREM TypesAreKept == Spec => []TypeOK
<1>1. TypeInv => TypeOK
  BY DEF TypeInv
<1> QED
  BY <1>1, AlwaysTyped, PTL

----------------------------------------------------------------------------
(***************************************************************************)
(* EarnedBeforeAdvance.  It is not inductive: the job decides on what it   *)
(* reads in the halves, so a completed half has to remember who earned it. *)
(***************************************************************************)
CompletedIsWorked ==
    \A t \in TaskIds, side \in Sides : half[t][side].status = "COMPLETED" => t \in worked

EarnedInv == CompletedIsWorked /\ EarnedBeforeAdvance

\* A request that writes one half, and not "COMPLETED", earns nothing and takes nothing.
LEMMA OneHalfWritten ==
    ASSUME TypeInv, EarnedInv, NEW t \in TaskIds, NEW side \in Sides, NEW row,
           half' = half \/ half' = [half EXCEPT ![t][side] = row],
           row.status = "COMPLETED" => half[t][side].status = "COMPLETED" \/ t \in worked',
           worked \subseteq worked', pay' = pay
    PROVE  EarnedInv'
<1>1. half \in [TaskIds -> [Sides -> HalfRow]]
  BY DEF TypeInv, TypeOK
<1>2. ASSUME half' = [half EXCEPT ![t][side] = row], NEW u \in TaskIds, NEW s \in Sides
      PROVE  half'[u][s] = IF u = t /\ s = side THEN row ELSE half[u][s]
  BY <1>1, <1>2
<1> QED
  BY <1>1, <1>2 DEF EarnedInv, CompletedIsWorked, EarnedBeforeAdvance

LEMMA EarnedStep ==
    ASSUME TypeInv, EarnedInv, [Next]_vars
    PROVE  EarnedInv'
<1>1. half \in [TaskIds -> [Sides -> HalfRow]]
  BY DEF TypeInv, TypeOK
<1>2. ASSUME NEW h \in Handlers, handler[h].pc \in TaskSteps
      PROVE  handler[h].task \in TaskIds
  BY <1>2 DEF TypeInv, HandlersInStep, InStep
<1>3. ASSUME UNCHANGED <<half, worked>>, pay' = pay \/ pay'.pc \in {"idle", "scan"}
      PROVE  EarnedInv'
  BY <1>3 DEF EarnedInv, CompletedIsWorked, EarnedBeforeAdvance
<1>4. ASSUME NEW h \in Handlers, UpsertAccountant(h) \/ UpsertSeller(h) PROVE EarnedInv'
  <2> DEFINE side == IF UpsertAccountant(h) THEN "taskAccountant" ELSE "taskSeller"
             t == handler[h].task
  <2>1. t \in TaskIds /\ side \in Sides
    BY <1>2, <1>4 DEF UpsertAccountant, UpsertSeller, At, TaskSteps, Sides
  <2>2. half' = [half EXCEPT ![t][side] = Upserted(half[t][side])] /\ UNCHANGED <<worked, pay>>
    BY <1>4 DEF UpsertAccountant, UpsertSeller
  <2>3. Upserted(half[t][side]).status = "ACTIVE"
    BY <1>1, <2>1 DEF Upserted, Reopened, NewHalf, HalfRow
  <2> QED
    BY <2>1, <2>2, <2>3, OneHalfWritten
<1>5. ASSUME NEW h \in Handlers, UpsertOwnHalf(h) PROVE EarnedInv'
  BY <1>2, <1>5, HelperTypes, OneHalfWritten DEF UpsertOwnHalf, At, TaskSteps, NewHalf
<1>6. ASSUME NEW h \in Handlers, SetStatus(h) PROVE EarnedInv'
  <2> DEFINE side == taskRelationHelper(handler[h].role)
             t == handler[h].task
             done == half[t][side].status # "NONE" /\ handler[h].arg = "COMPLETED"
             row == IF done THEN Completed(half[t][side]) ELSE Reopened(half[t][side])
  <2>1. t \in TaskIds /\ side \in Sides
    BY <1>2, <1>6, HelperTypes DEF SetStatus, At, TaskSteps
  <2>2. /\ half' = half \/ half' = [half EXCEPT ![t][side] = row]
        /\ pay' = pay /\ worked' = IF done THEN worked \cup {t} ELSE worked
    BY <1>6 DEF SetStatus
  <2>3. row.status = "COMPLETED" => done
    BY <1>1, <2>1 DEF Reopened, HalfRow
  <2> HIDE DEF row, side, t, done
  <2>4. worked \subseteq worked' /\ (row.status = "COMPLETED" => t \in worked')
    BY <2>2, <2>3
  <2> QED
    BY <2>1, <2>2, <2>4, OneHalfWritten
<1>7. ASSUME NEW h \in Handlers, DeleteHalf(h) \/ MarkHalf(h) PROVE EarnedInv'
  <2> DEFINE side == IF DeleteHalf(h) THEN "taskSeller" ELSE taskRelationHelper(handler[h].role)
             t == handler[h].task
             row == IF DeleteHalf(h) THEN [half[t][side] EXCEPT !.live = FALSE]
                    ELSE [half[t][side] EXCEPT !.status = "DELETED"]
  <2>1. t \in TaskIds /\ side \in Sides
    BY <1>2, <1>7, HelperTypes DEF DeleteHalf, MarkHalf, At, TaskSteps, Sides
  <2>2. (half' = half \/ half' = [half EXCEPT ![t][side] = row]) /\ UNCHANGED <<worked, pay>>
    BY <1>1, <1>7, <2>1 DEF DeleteHalf, MarkHalf
  <2>3. row.status = "COMPLETED" => half[t][side].status = "COMPLETED"
    BY <1>1, <2>1 DEF HalfRow
  <2> HIDE DEF row, side, t
  <2> QED
    BY <2>1, <2>2, <2>3, OneHalfWritten
<1>8. ASSUME NEW h \in Handlers, CompleteTask(h) PROVE EarnedInv'
  <2> DEFINE t == handler[h].task
  <2>1. t \in TaskIds /\ pay' = pay
    BY <1>2, <1>8 DEF CompleteTask, At, TaskSteps
  <2>2. \/ UNCHANGED <<half, worked>>
        \/ /\ half' = [half EXCEPT ![t] = [side \in Sides |-> Completed(half[t][side])]]
           /\ worked' = worked \cup {t}
    BY <1>8 DEF CompleteTask
  <2> QED
    BY <1>1, <1>3, <2>1, <2>2 DEF EarnedInv, CompletedIsWorked, EarnedBeforeAdvance
<1>9. ASSUME NEW s \in pay.todo, ReadTask(s) PROVE EarnedInv'
  <2>1. UNCHANGED <<half, worked>>
    BY <1>9 DEF ReadTask
  <2>2. ASSUME NEW t \in TaskIds, Decided(s, t), pay' = Turn(pay.todo \ {s}, Decision(s, t))
        PROVE  pay'.task \in worked
    BY <2>2 DEF Decided, EitherComplete, EarnedInv, CompletedIsWorked, Turn, Decision
  <2> QED
    BY <1>9, <2>1, <2>2
    DEF ReadTask, Turn, Pass, EarnedInv, CompletedIsWorked, EarnedBeforeAdvance
<1>10. CASE AdvanceTask \/ ResetTask
  <2> DEFINE t == pay.task
  <2>1. t \in TaskIds /\ pay'.pc = "scan"
    BY <1>10 DEF AdvanceTask, ResetTask, TypeInv, JobInStep, BackToScan, Turn, Pass
  <2>2. \/ UNCHANGED <<half, worked>>
        \/ /\ half' = [half EXCEPT ![t] = [side \in Sides |-> Reopened(half[t][side])]]
           /\ worked' \in {worked, worked \ {t}}
    BY <1>10 DEF AdvanceTask, ResetTask
  <2>3. \A side \in Sides : Reopened(half[t][side]).status = "ACTIVE"
    BY <1>1, <2>1 DEF Reopened, HalfRow
  <2> QED
    BY <1>1, <1>3, <2>1, <2>2, <2>3 DEF EarnedInv, CompletedIsWorked, EarnedBeforeAdvance
<1>11. CASE CreateFollowUp
  <2>1. made + 1 \in TaskIds /\ UNCHANGED <<worked, pay>>
        /\ half' = [half EXCEPT ![made + 1] = [side \in Sides |-> NewHalf]]
    BY <1>11, ConstantsOK DEF CreateFollowUp, AddTask, TypeInv, HandlersInStep, TaskIds
  <2> QED
    BY <1>1, <2>1 DEF EarnedInv, CompletedIsWorked, EarnedBeforeAdvance, NewHalf
<1>12. ASSUME NEW h \in Handlers, NewRequest(h) \/ FailRequest(h) \/ FindTask(h) \/ StampPaid(h)
                  \/ StampReminder(h) \/ CreateReminder(h) \/ RetypeReminder(h) \/ DeleteTask(h)
       PROVE  UNCHANGED <<half, worked, pay>>
  BY <1>12 DEF NewRequest, FailRequest, FindTask, StampPaid, StampReminder, CreateReminder,
     RetypeReminder, DeleteTask, UpdateOrder, CreateTask, EditTask, CheckStatus, CheckRemove
<1>13. CASE StartPayments \/ EndPayments \/ Restart
  BY <1>3, <1>13 DEF StartPayments, EndPayments, Restart, Turn, Pass, NoPay, tables
<1>14. CASE StartOrders \/ (\E c \in Clients : CheckClient(c)) \/ EndOrders \/ TimePasses
            \/ UNCHANGED vars
  BY <1>3, <1>14 DEF StartOrders, CheckClient, EndOrders, TimePasses, EightDaysPass,
     TwoMonthsPass, vars
<1> QED
  BY <1>3, <1>4, <1>5, <1>6, <1>7, <1>8, <1>9, <1>10, <1>11, <1>12, <1>13, <1>14
  DEF Next, RequestStep, PayStep, FollowStep

----------------------------------------------------------------------------
(***************************************************************************)
(* How the Task table may change in a step: all that the two properties    *)
(* about task types need to know of the actions.                           *)
(***************************************************************************)
Unchanged == UNCHANGED <<task, made>>
Added(type) ==
    /\ made' = made + 1 /\ made + 1 \in TaskIds
    /\ \E row \in TaskRow : row.type = type /\ task' = [task EXCEPT ![made + 1] = row]
Retyped(t, type) == made' = made /\ task' = [task EXCEPT ![t].type = type]
Deleted(t) == made' = made /\ task' = [task EXCEPT ![t].live = FALSE]

LEMMA TableSteps ==
    ASSUME TypeInv, [Next]_vars
    PROVE  \/ Unchanged
           \/ (\E type \in Dunning \cup {"NONE"} : Added(type)) /\ UNCHANGED <<pay, follow>>
           \/ \E h \in Handlers : /\ handler[h].pc = "retype"
                                  /\ handler[h].task \in 1 .. made
                                  /\ Retyped(handler[h].task, handler[h].arg)
                                  /\ handler[h].arg \in Dunning /\ UNCHANGED <<pay, follow>>
           \/ \E h \in Handlers : Deleted(handler[h].task) /\ UNCHANGED <<pay, follow>>
           \/ /\ pay.pc = "advance" /\ pay'.pc = "scan" /\ follow' = follow
              /\ Retyped(pay.task, newTaskTypeHelper(pay.type)) /\ pay.task \in 1 .. made
           \/ CreateFollowUp
<1>1. made \in 0 .. MaxTasks /\ task \in [TaskIds -> TaskRow]
  BY DEF TypeInv, TypeOK
<1>2. ASSUME NEW row \in TaskRow, AddTask(row) PROVE Added(row.type)
  <2>1. /\ made' = made + 1 /\ made + 1 \in TaskIds
        /\ task' = [task EXCEPT ![made + 1] = row]
    BY <1>1, <1>2, ConstantsOK DEF AddTask, TaskIds
  <2> QED
    BY <2>1, Zenon DEF Added
<1>3. ASSUME NEW h \in Handlers, CreateReminder(h)
      PROVE  (\E type \in Dunning : Added(type)) /\ UNCHANGED <<pay, follow>>
  <2>1. /\ handler[h].order \in Orders /\ handler[h].arg \in Dunning
        /\ handler[h].role \in UserRoles
    BY <1>3 DEF CreateReminder, At, TypeInv, HandlersInStep, InStep, HandlerState, OrderSteps,
       TypeSteps
  <2> DEFINE row == [order |-> handler[h].order, type |-> handler[h].arg, createdBy |-> "AUTO",
                     owner |-> handler[h].role, live |-> TRUE]
  <2>2. row \in TaskRow /\ row.type = handler[h].arg
    BY <2>1 DEF TaskRow, TaskTypes
  <2>3. AddTask(row) /\ UNCHANGED <<pay, follow>>
    BY <1>3 DEF CreateReminder
  <2> HIDE DEF row
  <2> QED
    BY <1>2, <2>1, <2>2, <2>3
<1>4. ASSUME NEW h \in Handlers, NEW role \in Roles, NEW o \in Orders, CreateTask(h, o, role)
      PROVE  Added("NONE") /\ UNCHANGED <<pay, follow>>
  <2> DEFINE row == [order |-> o, type |-> "NONE", createdBy |-> role, owner |-> role,
                     live |-> TRUE]
  <2>1. row \in TaskRow /\ row.type = "NONE"
    BY ConstantsOK DEF TaskRow, TaskTypes
  <2>2. AddTask(row) /\ UNCHANGED <<pay, follow>>
    BY <1>4 DEF CreateTask
  <2> HIDE DEF row
  <2> QED
    BY <1>2, <2>1, <2>2
<1>5. ASSUME NEW h \in Handlers, RetypeReminder(h)
      PROVE  /\ handler[h].pc = "retype" /\ handler[h].task \in 1 .. made
             /\ Retyped(handler[h].task, handler[h].arg)
             /\ handler[h].arg \in Dunning /\ UNCHANGED <<pay, follow>>
  BY <1>1, <1>5 DEF RetypeReminder, At, TypeInv, HandlersInStep, InStep, TypeSteps, TaskSteps,
     TaskIds, Retyped
<1>6. ASSUME NEW h \in Handlers, DeleteTask(h)
      PROVE  Deleted(handler[h].task) /\ UNCHANGED <<pay, follow>>
  BY <1>6 DEF DeleteTask, Deleted
<1>7. ASSUME AdvanceTask
      PROVE  \/ Unchanged
             \/ /\ pay.pc = "advance" /\ pay'.pc = "scan" /\ follow' = follow
                /\ Retyped(pay.task, newTaskTypeHelper(pay.type)) /\ pay.task \in 1 .. made
  <2>1. /\ pay.pc = "advance" /\ pay'.pc = "scan" /\ follow' = follow
        /\ pay.task \in 1 .. made
    BY <1>1, <1>7 DEF AdvanceTask, BackToScan, Turn, Pass, TypeInv, JobInStep, TaskIds
  <2>2. Unchanged \/ Retyped(pay.task, newTaskTypeHelper(pay.type))
    BY <1>7, Zenon DEF AdvanceTask, Unchanged, Retyped
  <2> QED
    BY <2>1, <2>2
<1>8. ASSUME NEW h \in Handlers, NewRequest(h), \A role \in Roles, o \in Orders : ~ CreateTask(h, o, role)
      PROVE  Unchanged
  BY <1>8 DEF NewRequest, UpdateOrder, EditTask, CheckStatus, CheckRemove, Unchanged
<1>9. ASSUME NEW h \in Handlers, FailRequest(h) \/ FindTask(h) \/ StampPaid(h) \/ CompleteTask(h)
                \/ StampReminder(h) \/ UpsertAccountant(h) \/ UpsertSeller(h) \/ UpsertOwnHalf(h)
                \/ SetStatus(h) \/ DeleteHalf(h) \/ MarkHalf(h)
      PROVE  Unchanged
  BY <1>9 DEF FailRequest, FindTask, StampPaid, CompleteTask, StampReminder, UpsertAccountant,
     UpsertSeller, UpsertOwnHalf, SetStatus, DeleteHalf, MarkHalf, Unchanged
<1>10. ASSUME \/ StartPayments \/ (PayStep /\ ~ AdvanceTask) \/ StartOrders
              \/ (FollowStep /\ ~ CreateFollowUp) \/ TimePasses \/ Restart \/ UNCHANGED vars
       PROVE  Unchanged
  BY <1>10 DEF StartPayments, PayStep, ReadTask, ResetTask, EndPayments, StartOrders, FollowStep,
     CheckClient, EndOrders, TimePasses, EightDaysPass, TwoMonthsPass, Restart, tables, vars,
     Unchanged
<1>11. ASSUME NEW h \in Handlers, NewRequest(h)
       PROVE  Unchanged \/ (Added("NONE") /\ UNCHANGED <<pay, follow>>)
  BY <1>4, <1>8, <1>11
<1>12. ASSUME NEW h \in Handlers, RequestStep(h)
       PROVE  \/ Unchanged
              \/ (\E type \in Dunning \cup {"NONE"} : Added(type)) /\ UNCHANGED <<pay, follow>>
              \/ /\ handler[h].pc = "retype" /\ handler[h].task \in 1 .. made
                 /\ Retyped(handler[h].task, handler[h].arg)
                 /\ handler[h].arg \in Dunning /\ UNCHANGED <<pay, follow>>
              \/ Deleted(handler[h].task) /\ UNCHANGED <<pay, follow>>
  <2>1. CASE CreateReminder(h)
    BY <1>3, <2>1
  <2> QED
    BY <1>5, <1>6, <1>9, <1>12, <2>1, Zenon DEF RequestStep
<1>13. ASSUME NEW h \in Handlers, NewRequest(h)
       PROVE  \/ Unchanged
              \/ (\E type \in Dunning \cup {"NONE"} : Added(type)) /\ UNCHANGED <<pay, follow>>
  BY <1>11, <1>13
<1>14. ASSUME NEW h \in Handlers, FailRequest(h) PROVE Unchanged
  BY <1>9, <1>14
<1> QED
  BY <1>7, <1>10, <1>12, <1>13, <1>14, Zenon DEF Next

(***************************************************************************)
(* UnpaidIsFinal.  The job writes a type it computed from an earlier read; *)
(* it never decides to advance an UNPAID task, and no other step makes one *)
(* between the read and the write.                                         *)
(***************************************************************************)
AdvancesUnfinished ==
    /\ \A t \in TaskIds : t > made => task[t].type # "UNPAID"
    /\ pay.pc = "advance" => task[pay.task].type # "UNPAID"

LEMMA DecisionsAreFresh ==
    ASSUME [Next]_vars, pay'.pc = "advance"
    PROVE  \/ pay' = pay
           \/ UNCHANGED <<task, made>> /\ task[pay'.task].type # "UNPAID"
<1>1. ASSUME NEW h \in Handlers, NewRequest(h) \/ RequestStep(h) \/ FailRequest(h)
      PROVE  pay' = pay
  BY <1>1 DEF NewRequest, RequestStep, UpdateOrder, CreateTask, EditTask, CheckStatus,
     CheckRemove, FindTask, StampPaid, CompleteTask, StampReminder, CreateReminder,
     RetypeReminder, UpsertAccountant, UpsertSeller, UpsertOwnHalf, SetStatus, DeleteHalf,
     MarkHalf, DeleteTask, FailRequest
<1>2. ASSUME NEW s \in pay.todo, ReadTask(s)
      PROVE  UNCHANGED <<task, made>> /\ task[pay'.task].type # "UNPAID"
  BY <1>2 DEF ReadTask, Turn, Decision, Pass
<1>3. ASSUME StartPayments \/ AdvanceTask \/ ResetTask \/ EndPayments \/ Restart PROVE FALSE
  BY <1>3 DEF StartPayments, AdvanceTask, ResetTask, EndPayments, Restart, BackToScan, Turn,
     Pass, NoPay
<1>4. ASSUME StartOrders \/ FollowStep \/ TimePasses \/ UNCHANGED vars PROVE pay' = pay
  BY <1>4 DEF StartOrders, FollowStep, CheckClient, CreateFollowUp, EndOrders, TimePasses,
     EightDaysPass, TwoMonthsPass, vars
<1> QED
  BY <1>1, <1>2, <1>3, <1>4 DEF Next, PayStep

\* Rows that a step leaves at UNPAID, and rows that it takes there or away from there.
LEMMA UnpaidSteps ==
    ASSUME TypeInv, AdvancesUnfinished, [Next]_vars
    PROVE  /\ \A t \in TaskIds : task[t].type = "UNPAID" /\ task'[t].type # "UNPAID"
                => \E h \in Handlers : At(h, "retype") /\ handler[h].task = t
           /\ \A t \in TaskIds : task[t].type # "UNPAID" /\ task'[t].type = "UNPAID"
                => pay'.pc = "scan" /\ t <= made
           /\ made <= made' /\ made' \in Nat
<1>1. made \in Nat /\ task \in [TaskIds -> TaskRow]
  BY DEF TypeInv, TypeOK
<1>2. CASE Unchanged
  BY <1>1, <1>2 DEF Unchanged
<1>3. ASSUME NEW type \in Dunning \cup {"NONE", "TWO_MTFU"}, Added(type)
      PROVE  /\ \A t \in TaskIds : task'[t].type # task[t].type
                  => task[t].type # "UNPAID" /\ task'[t].type # "UNPAID"
             /\ made' = made + 1
  <2>1. PICK row \in TaskRow : row.type = type /\ task' = [task EXCEPT ![made + 1] = row]
    BY <1>3 DEF Added
  <2>2. made' = made + 1 /\ made + 1 \in TaskIds /\ task[made + 1].type # "UNPAID"
    BY <1>1, <1>3 DEF Added, AdvancesUnfinished
  <2>3. type # "UNPAID"
    BY DEF Dunning
  <2> QED
    BY <1>1, <2>1, <2>2, <2>3
<1>4. ASSUME NEW h \in Handlers, Retyped(handler[h].task, handler[h].arg),
             handler[h].pc = "retype", handler[h].arg \in Dunning
      PROVE  /\ \A t \in TaskIds : task'[t].type # task[t].type
                  => t = handler[h].task /\ task'[t].type # "UNPAID"
             /\ made' = made
  BY <1>1, <1>4 DEF Retyped, Dunning, TaskRow
<1>5. ASSUME NEW h \in Handlers, Deleted(handler[h].task)
      PROVE  (\A t \in TaskIds : task'[t].type = task[t].type) /\ made' = made
  BY <1>1, <1>5 DEF Deleted, TaskRow
<1>6. ASSUME NEW type, Retyped(pay.task, type), pay.pc = "advance", pay.task \in 1 .. made
      PROVE  /\ \A t \in TaskIds : task'[t].type # task[t].type
                  => task[t].type # "UNPAID" /\ t <= made
             /\ made' = made
  BY <1>1, <1>6 DEF Retyped, AdvancesUnfinished, TaskRow
<1>7. ASSUME CreateFollowUp PROVE Added("TWO_MTFU")
  <2> DEFINE row == [order |-> follow.order, type |-> "TWO_MTFU", createdBy |-> "AUTO",
                     owner |-> "SELLER", live |-> TRUE]
  <2>1. row \in TaskRow /\ row.type = "TWO_MTFU"
    BY DEF TypeInv, TypeOK, TaskRow, TaskTypes, UserRoles
  <2>2. /\ made' = made + 1 /\ made + 1 \in TaskIds
        /\ task' = [task EXCEPT ![made + 1] = row]
    BY <1>1, <1>7, ConstantsOK DEF CreateFollowUp, AddTask, TaskIds
  <2> HIDE DEF row
  <2> QED
    BY <2>1, <2>2, Zenon DEF Added
<1> QED
  BY <1>1, <1>2, <1>3, <1>4, <1>5, <1>6, <1>7, TableSteps DEF At

LEMMA UnfinishedStep ==
    ASSUME TypeInv, AdvancesUnfinished, [Next]_vars
    PROVE  AdvancesUnfinished'
<1>1. made \in Nat /\ pay.task \in TaskIds \cup {0}
  BY DEF TypeInv, TypeOK
<1>2. \A t \in TaskIds : t > made' => task'[t].type # "UNPAID"
  BY <1>1, UnpaidSteps DEF AdvancesUnfinished, TaskIds
<1>3. ASSUME pay'.pc = "advance" PROVE task'[pay'.task].type # "UNPAID"
  <2>1. pay' = pay => pay.task \in TaskIds
    BY <1>3 DEF TypeInv, JobInStep
  <2> QED
    BY <1>3, <2>1, DecisionsAreFresh, UnpaidSteps DEF AdvancesUnfinished
<1> QED
  BY <1>2, <1>3 DEF AdvancesUnfinished

(***************************************************************************)
(* FollowUpsAreSpaced.  What checkOrders read of a client stays true until *)
(* it writes: behind each follow-up of the order stands a newer task.      *)
(***************************************************************************)
IsFollowUp(t, o) == t \in LiveTasks /\ task[t].order = o /\ task[t].type = "TWO_MTFU"

FollowUpIsDue ==
    follow.pc = "create" =>
        \A t \in TaskIds : IsFollowUp(t, follow.order) => \E v \in TaskIds : t < v /\ v <= made

SpacedInv == FollowUpsAreSpaced /\ FollowUpIsDue

\* Steps that make no task a follow-up leave the follow-ups where they are.
LEMMA NoNewFollowUp ==
    ASSUME TypeInv, SpacedInv, made' \in Nat, made <= made',
           \A t \in TaskIds, o \in Orders \cup {NoOrder} : IsFollowUp(t, o)' => IsFollowUp(t, o),
           task' \in [TaskIds -> TaskRow]
    PROVE  /\ FollowUpsAreSpaced'
           /\ follow' = follow => FollowUpIsDue'
<1>1. FollowUpsAreSpaced'
  BY DEF SpacedInv, FollowUpsAreSpaced, IsFollowUp, LiveTasks, TaskRow
<1>2. ASSUME follow' = follow PROVE FollowUpIsDue'
  <2>1. follow.order \in Orders \cup {NoOrder} /\ made \in Nat
    BY DEF TypeInv, TypeOK
  <2> QED
    BY <1>2, <2>1 DEF SpacedInv, FollowUpIsDue, TaskIds
<1> QED
  BY <1>1, <1>2

LEMMA FollowUpAdded ==
    ASSUME TypeInv, SpacedInv, CreateFollowUp
    PROVE  SpacedInv'
<1>1. /\ made \in Nat /\ made' = made + 1 /\ made + 1 \in TaskIds
      /\ follow.pc = "create" /\ follow'.pc = "scan" /\ task \in [TaskIds -> TaskRow]
  BY ConstantsOK DEF CreateFollowUp, AddTask, TypeInv, TypeOK, TaskIds
<1>2. /\ \A t \in TaskIds : t # made + 1 => task'[t] = task[t]
      /\ task'[made + 1].order = follow.order
  BY <1>1 DEF CreateFollowUp, AddTask
<1>3. LiveTasks' \subseteq LiveTasks \cup {made + 1}
  BY <1>1, <1>2 DEF LiveTasks, TaskIds
<1>4. ASSUME NEW t \in LiveTasks', NEW u \in LiveTasks', t < u, task'[t].order = task'[u].order,
             task'[t].type = "TWO_MTFU", task'[u].type = "TWO_MTFU"
      PROVE  \E v \in TaskIds : t < v /\ v < u
  <2>1. t \in LiveTasks /\ task[t].type = "TWO_MTFU" /\ task[t].order = task'[t].order
        /\ t \in TaskIds /\ u \in TaskIds
    BY <1>1, <1>2, <1>3, <1>4 DEF LiveTasks, TaskIds
  <2>2. CASE u = made + 1
    <3>1. IsFollowUp(t, follow.order)
      BY <1>2, <1>4, <2>1, <2>2 DEF IsFollowUp
    <3> QED
      BY <1>1, <2>1, <2>2, <3>1 DEF SpacedInv, FollowUpIsDue, TaskIds
  <2>3. CASE u # made + 1
    BY <1>2, <1>3, <1>4, <2>1, <2>3 DEF SpacedInv, FollowUpsAreSpaced
  <2> QED
    BY <2>2, <2>3
<1> QED
  BY <1>1, <1>4 DEF SpacedInv, FollowUpsAreSpaced, FollowUpIsDue

LEMMA FollowStepDue ==
    ASSUME TypeInv, [Next]_vars, follow' # follow, ~ CreateFollowUp
    PROVE  UNCHANGED <<task, made>> /\ FollowUpIsDue'
<1>1. ASSUME NEW h \in Handlers, NewRequest(h) \/ RequestStep(h) \/ FailRequest(h)
      PROVE  follow' = follow
  BY <1>1 DEF NewRequest, RequestStep, UpdateOrder, CreateTask, EditTask, CheckStatus,
     CheckRemove, FindTask, StampPaid, CompleteTask, StampReminder, CreateReminder,
     RetypeReminder, UpsertAccountant, UpsertSeller, UpsertOwnHalf, SetStatus, DeleteHalf,
     MarkHalf, DeleteTask, FailRequest
<1>2. ASSUME StartPayments \/ PayStep \/ TimePasses PROVE follow' = follow
  BY <1>2 DEF StartPayments, PayStep, ReadTask, AdvanceTask, ResetTask, EndPayments, TimePasses,
     EightDaysPass, TwoMonthsPass
<1>3. ASSUME StartOrders \/ EndOrders \/ Restart
      PROVE  UNCHANGED <<task, made>> /\ FollowUpIsDue'
  <2>1. follow' = NoFollow \/ follow' = [NoFollow EXCEPT !.pc = "scan", !.todo = LongSilent]
    BY <1>3, Zenon DEF StartOrders, EndOrders, Restart
  <2>2. NoFollow \in [pc : {"idle"}, todo : SUBSET Clients, order : {NoOrder}]
    BY DEF NoFollow
  <2>3. follow'.pc \in {"idle", "scan"}
    BY <2>2, <2>1
  <2>4. StartOrders \/ EndOrders => UNCHANGED <<task, made>>
    BY DEF StartOrders, EndOrders
  <2>5. Restart => UNCHANGED <<task, made>>
    BY DEF Restart, tables
  <2> QED
    BY <1>3, <2>3, <2>4, <2>5 DEF FollowUpIsDue
<1>4. ASSUME NEW c \in Clients, CheckClient(c)
      PROVE  UNCHANGED <<task, made>> /\ FollowUpIsDue'
  <2> DEFINE o == LastOrder[c]
  <2>1. /\ UNCHANGED <<task, made>> /\ follow'.order = o /\ made \in Nat
        /\ follow'.pc = "create"
             => ~ \E t \in TaskIds : IsNewest(t, TasksWhere(o)) /\ task[t].type = "TWO_MTFU"
    BY <1>4 DEF CheckClient, TypeInv, TypeOK
  <2>2. ASSUME follow'.pc = "create", NEW t \in TaskIds, IsFollowUp(t, o)
        PROVE  \E v \in TaskIds : t < v /\ v <= made
    <3>1. t \in TasksWhere(o) /\ ~ IsNewest(t, TasksWhere(o))
      BY <2>1, <2>2 DEF IsFollowUp, TasksWhere
    <3> QED
      BY <3>1 DEF IsNewest, TasksWhere, LiveTasks, TaskIds
  <2> QED
    BY <2>1, <2>2 DEF FollowUpIsDue, IsFollowUp, LiveTasks
<1> QED
  BY <1>1, <1>2, <1>3, <1>4 DEF Next, FollowStep, vars

LEMMA SpacedStep ==
    ASSUME TypeInv, SpacedInv, [Next]_vars
    PROVE  SpacedInv'
<1> DEFINE NoneNew == \A t \in TaskIds, o \in Orders \cup {NoOrder} :
                         IsFollowUp(t, o)' => IsFollowUp(t, o)
<1>1. /\ made \in Nat /\ task \in [TaskIds -> TaskRow] /\ task' \in [TaskIds -> TaskRow]
      /\ made' \in Nat /\ made <= made'
  BY TasksStep, ConstantsOK DEF TypeInv, TypeOK
<1>2. ASSUME NEW type \in Dunning \cup {"NONE"}, Added(type) PROVE NoneNew
  <2>1. PICK row \in TaskRow : row.type = type /\ task' = [task EXCEPT ![made + 1] = row]
    BY <1>2 DEF Added
  <2>2. made' = made + 1 /\ type # "TWO_MTFU"
    BY <1>2 DEF Added, Dunning
  <2> QED
    BY <1>1, <2>1, <2>2 DEF IsFollowUp, LiveTasks, TaskIds
<1>3. ASSUME NEW t \in TaskIds \cup {0}, NEW type \in TaskTypes, Retyped(t, type), type # "TWO_MTFU"
      PROVE  NoneNew
  BY <1>1, <1>3 DEF Retyped, IsFollowUp, LiveTasks, TaskRow
<1>4. ASSUME NEW t, Deleted(t) PROVE NoneNew
  BY <1>1, <1>4 DEF Deleted, IsFollowUp, LiveTasks, TaskRow
<1>5. CASE CreateFollowUp
  BY <1>5, FollowUpAdded
<1>6. ASSUME ~ CreateFollowUp PROVE NoneNew
  <2>1. \A type \in Dunning : type \in TaskTypes /\ type # "TWO_MTFU"
    BY DEF Dunning, TaskTypes
  <2>2. \A h \in Handlers : handler[h].task \in TaskIds \cup {0}
    BY DEF TypeInv, HandlersInStep, InStep, HandlerState
  <2>3. pay.task \in TaskIds \cup {0}
    BY DEF TypeInv, TypeOK
  <2>4. Unchanged => NoneNew
    BY <1>1 DEF Unchanged, IsFollowUp, LiveTasks
  <2>5. Retyped(pay.task, newTaskTypeHelper(pay.type)) => NoneNew
    BY <1>3, <2>3, HelperTypes
  <2>6. \A h \in Handlers : Retyped(handler[h].task, handler[h].arg) /\ handler[h].arg \in Dunning
                           => NoneNew
    BY <1>3, <2>1, <2>2
  <2> HIDE DEF NoneNew
  <2> QED
    BY <1>2, <1>4, <1>6, <2>4, <2>5, <2>6, TableSteps
<1> HIDE DEF NoneNew
<1>7. ASSUME NoneNew, ~ CreateFollowUp PROVE SpacedInv'
  <2>1. FollowUpsAreSpaced' /\ (follow' = follow => FollowUpIsDue')
    BY <1>1, <1>7, NoNewFollowUp DEF NoneNew
  <2> QED
    BY <1>7, <2>1, FollowStepDue DEF SpacedInv
<1> QED
  BY <1>5, <1>6, <1>7

----------------------------------------------------------------------------
(***************************************************************************)
(* EarnedBeforeAdvance: checkPayments never moves or reopens a task that   *)
(* nobody completed since its last move, however requests overlap with it. *)
(***************************************************************************)
THEOREM AdvancesAreEarned == Spec => []EarnedBeforeAdvance
<1>1. Init => EarnedInv
  BY DEF Init, EarnedInv, CompletedIsWorked, EarnedBeforeAdvance, NoHalf, NoPay
<1>2. TypeInv /\ EarnedInv /\ [Next]_vars => EarnedInv'
  BY EarnedStep
<1>3. EarnedInv => EarnedBeforeAdvance
  BY DEF EarnedInv
<1> QED
  BY <1>1, <1>2, <1>3, AlwaysTyped, PTL DEF Spec

(***************************************************************************)
(* UnpaidIsFinal: no late write of checkPayments takes a task out of       *)
(* UNPAID; only a user who records a payment status does.                  *)
(***************************************************************************)
THEOREM UnpaidStaysUnpaid == Spec => UnpaidIsFinal
<1>1. Init => AdvancesUnfinished
  BY DEF Init, AdvancesUnfinished, BlankTask, NoPay
<1>2. TypeInv /\ AdvancesUnfinished /\ [Next]_vars => AdvancesUnfinished'
  BY UnfinishedStep
<1> DEFINE Kept == \A t \in TaskIds : task[t].type = "UNPAID" /\ task'[t].type # "UNPAID"
                     => \E h \in Handlers : At(h, "retype") /\ handler[h].task = t
<1>3. TypeInv /\ AdvancesUnfinished /\ [Next]_vars => [Kept]_vars
  BY UnpaidSteps
<1> QED
  BY <1>1, <1>2, <1>3, AlwaysTyped, PTL DEF Spec, UnpaidIsFinal

(***************************************************************************)
(* FollowUpsAreSpaced: checkOrders never adds a second follow-up right     *)
(* behind a live one of the same order, whatever it overlaps with.         *)
(***************************************************************************)
THEOREM FollowUpsStaySpaced == Spec => []FollowUpsAreSpaced
<1>1. Init => SpacedInv
  BY DEF Init, SpacedInv, FollowUpsAreSpaced, FollowUpIsDue, LiveTasks, NoFollow, BlankTask
<1>2. TypeInv /\ SpacedInv /\ [Next]_vars => SpacedInv'
  BY SpacedStep
<1>3. SpacedInv => FollowUpsAreSpaced
  BY DEF SpacedInv
<1> QED
  BY <1>1, <1>2, <1>3, AlwaysTyped, PTL DEF Spec

-----------------------------------------------------------------------------
(***************************************************************************)
(* From here on, requests and jobs do not overlap.                         *)
(***************************************************************************)
Serial == MaxInFlight = 1 /\ IsFiniteSet(Handlers)

(***************************************************************************)
(* Who is at work.                                                         *)
(***************************************************************************)
AtRest    == Busy = {} /\ pay.pc = "idle" /\ follow.pc = "idle"
AtWork(h) == Busy = {h} /\ pay.pc = "idle" /\ follow.pc = "idle"

Alone ==
    /\ \A g, h \in Busy : g = h
    /\ pay.pc # "idle" => Busy = {} /\ follow.pc = "idle"
    /\ follow.pc # "idle" => Busy = {}

(***************************************************************************)
(* The rows.  Of the AUTO tasks of an order, only the oldest may be a      *)
(* reminder or lack a half: the others are follow-ups, made whole.         *)
(***************************************************************************)
Blank ==
    \A t \in TaskIds : t > made => /\ task[t] = BlankTask
                                   /\ half[t] = [side \in Sides |-> NoHalf]

Foremost ==
    \A t \in LiveTasks :
        task[t].createdBy = "AUTO" /\ (task[t].type # "TWO_MTFU" \/ ~ BothHalves(t))
            => IsOldest(t, AutoTasks(task[t].order))

AgreeOn(o) ==
    /\ order[o].status = "PAID" => order[o].paid
    /\ order[o].status \in Dunning =>
         /\ ~ order[o].paid /\ order[o].date # "none"
         /\ \A t \in AutoTasks(o) :
              task[t].type \in {"TWO_MTFU", order[o].status, newTaskTypeHelper(order[o].status)}

Whole(o) ==
    /\ o \in Orders => AgreeOn(o)
    /\ \A t \in AutoTasks(o) : BothHalves(t)

InHand(o) == o \in Orders /\ \E h \in Busy : handler[h].order = o

Settled ==
    \A o \in Orders \cup {NoOrder} : o \in interrupted \/ Whole(o) \/ InHand(o)

(***************************************************************************)
(* What a request that records a status has established by each step, and  *)
(* what the job has read and nobody has changed since.                     *)
(***************************************************************************)
Upserting == {"taskAccountant", "taskSeller"}

RecordKnows(r) ==
    /\ order[r.order].status = r.arg
    /\ r.pc = "find" => \/ r.order \in interrupted
                        \/ \A t \in AutoTasks(r.order) : BothHalves(t)
    /\ r.pc # "find" =>
         IF r.task = 0 THEN AutoTasks(r.order) = {}
                       ELSE IsOldest(r.task, AutoTasks(r.order))
    /\ r.pc \in {"pay", "complete"} => r.arg = "PAID"
    /\ r.pc = "complete" => order[r.order].paid
    /\ r.pc \in {"stamp", "create", "retype"} \cup Upserting => r.arg \in Dunning
    /\ r.pc \in {"create", "retype"} \cup Upserting
         => ~ order[r.order].paid /\ order[r.order].date = "recent"
    /\ r.pc = "create" => r.task = 0
    /\ r.pc \in Upserting => task[r.task].type = r.arg

Knows(r) ==
    /\ r.pc \in OrderSteps \cup {"complete", "retype"} => r.order \in Orders
    /\ r.pc \in {"own", "status", "deleteHalf", "markHalf", "deleteTask"} => r.order = NoOrder
    /\ r.pc = "taskSeller" => half[r.task]["taskAccountant"].status # "NONE"
    /\ r.pc # "idle" /\ r.order # NoOrder => RecordKnows(r)

RequestsKnow == \A h \in Handlers : Knows(handler[h])

JobKnows ==
    /\ pay.pc # "idle" => pay.todo \subseteq Listed
    /\ pay.pc = "advance" =>
         /\ task[pay.task].order \in Orders
         /\ pay.task \in AutoTasks(task[pay.task].order)
         /\ pay.type \in Dunning
         /\ task[pay.task].type = pay.type
         /\ order[task[pay.task].order].status = pay.type
         /\ order[task[pay.task].order].date = "due"
         /\ EitherComplete(pay.task)

SerialInv ==
    Alone /\ Blank /\ Foremost /\ Settled /\ RequestsKnow /\ JobKnows

----------------------------------------------------------------------------
(***************************************************************************)
(* One at a time.                                                          *)
(***************************************************************************)
LEMMA StartsAtRest ==
    ASSUME Serial, InFlight < MaxInFlight
    PROVE  AtRest
<1>1. IsFiniteSet(Busy)
  BY FS_Subset DEF Serial, Busy
<1>2. Cardinality(Busy) \in Nat
  BY <1>1, FS_CardinalityType
<1>3. Cardinality(Busy) = 0 /\ pay.pc = "idle" /\ follow.pc = "idle"
  BY <1>2 DEF Serial, InFlight
<1> QED
  BY <1>1, <1>3, FS_EmptySet DEF AtRest

LEMMA RequestAtWork ==
    ASSUME Alone, NEW h \in Handlers, RequestStep(h) \/ FailRequest(h)
    PROVE  AtWork(h)
<1>1. handler[h].pc # "idle"
  BY DEF RequestStep, FailRequest, FindTask, StampPaid, CompleteTask, StampReminder,
     CreateReminder, RetypeReminder, UpsertAccountant, UpsertSeller, UpsertOwnHalf, SetStatus,
     DeleteHalf, MarkHalf, DeleteTask, At
<1>2. h \in Busy
  BY <1>1 DEF Busy
<1> QED
  BY <1>2 DEF Alone, AtWork

\* A step that writes one slot leaves that slot, or nobody, at work.
LEMMA SlotWritten ==
    ASSUME TypeInv, NEW h \in Handlers, NEW r, handler' = [handler EXCEPT ![h] = r],
           UNCHANGED <<pay, follow>>, AtRest \/ AtWork(h)
    PROVE  /\ handler'[h] = r
           /\ r.pc = "idle" => AtRest'
           /\ r.pc # "idle" => AtWork(h)'
           /\ Alone'
           /\ \A g \in Handlers : g # h => handler'[g].pc = "idle"
<1>1. \A g \in Handlers : handler'[g] = IF g = h THEN r ELSE handler[g]
  BY DEF TypeInv, TypeOK
<1>2. \A g \in Handlers : g # h => handler'[g].pc = "idle"
  BY <1>1 DEF AtRest, AtWork, Busy
<1>3. Busy' = IF r.pc = "idle" THEN {} ELSE {h}
  BY <1>1, <1>2 DEF Busy
<1> QED
  BY <1>1, <1>2, <1>3 DEF AtRest, AtWork, Alone

LEMMA StaysInHand ==
    ASSUME TypeInv, NEW h \in Handlers, NEW r, handler' = [handler EXCEPT ![h] = r],
           UNCHANGED <<pay, follow>>, AtRest \/ AtWork(h),
           NEW o \in Orders, r.order = o, r.pc # "idle"
    PROVE  InHand(o)'
<1>1. AtWork(h)' /\ handler'[h] = r
  BY SlotWritten
<1> QED
  BY <1>1 DEF InHand, AtWork

----------------------------------------------------------------------------
(***************************************************************************)
(* What a step leaves alone.                                               *)
(***************************************************************************)
\* No half disappears, and rows that do not exist yet get none.
HalvesStay ==
    /\ \A t \in TaskIds : BothHalves(t) => BothHalves(t)'
    /\ \A t \in TaskIds : t > made => half'[t] = half[t]

SameFor(o) ==
    /\ o \in Orders => order'[o] = order[o]
    /\ AutoTasks(o)' \subseteq AutoTasks(o)
    /\ \A t \in AutoTasks(o)' : task'[t].type = task[t].type /\ (BothHalves(t) => BothHalves(t)')

LEMMA SameIsWhole ==
    ASSUME NEW o \in Orders \cup {NoOrder}, SameFor(o), Whole(o)
    PROVE  Whole(o)'
<1>1. o \in Orders => AgreeOn(o)'
  BY DEF SameFor, Whole, AgreeOn
<1>2. \A t \in AutoTasks(o)' : BothHalves(t)'
  BY DEF SameFor, Whole
<1> QED
  BY <1>1, <1>2 DEF Whole

\* A step that concerns the order o only.
LEMMA SettledFrame ==
    ASSUME Settled, NEW o \in Orders \cup {NoOrder},
           \A p \in Orders \cup {NoOrder} :
              p # o => SameFor(p) /\ ~ InHand(p) /\ (p \in interrupted => p \in interrupted'),
           o \in interrupted' \/ Whole(o)' \/ InHand(o)'
    PROVE  Settled'
<1> SUFFICES ASSUME NEW p \in Orders \cup {NoOrder}, p # o
             PROVE  p \in interrupted' \/ Whole(p)' \/ InHand(p)'
  BY DEF Settled
<1>1. CASE p \in interrupted
  BY <1>1
<1>2. CASE Whole(p)
  BY <1>2, SameIsWhole
<1> QED
  BY <1>1, <1>2 DEF Settled

\* The rows of Task stand still.
LEMMA TasksStandStill ==
    ASSUME TypeInv, UNCHANGED <<task, made>>
    PROVE  /\ LiveTasks' = LiveTasks
           /\ \A o \in Orders \cup {NoOrder} : AutoTasks(o)' = AutoTasks(o)
           /\ HalvesStay /\ Foremost => Foremost'
           /\ HalvesStay /\ Blank => Blank'
           /\ \A o \in Orders \cup {NoOrder} :
                HalvesStay /\ (o \in Orders => order'[o] = order[o]) => SameFor(o)
<1>1. /\ LiveTasks' = LiveTasks
      /\ \A o \in Orders \cup {NoOrder} : AutoTasks(o)' = AutoTasks(o)
  BY DEF LiveTasks, AutoTasks
<1>2. \A t \in LiveTasks : t \in TaskIds /\ task[t].order \in Orders \cup {NoOrder}
  BY DEF LiveTasks, TypeInv, TypeOK, TaskRow
<1>3. HalvesStay /\ Foremost => Foremost'
  BY <1>1, <1>2 DEF Foremost, HalvesStay, IsOldest
<1>4. HalvesStay /\ Blank => Blank'
  BY DEF Blank, HalvesStay
<1>5. ASSUME NEW o \in Orders \cup {NoOrder}, HalvesStay, o \in Orders => order'[o] = order[o]
      PROVE  SameFor(o)
  BY <1>1, <1>5 DEF SameFor, HalvesStay, AutoTasks, LiveTasks
<1> QED
  BY <1>1, <1>3, <1>4, <1>5

LEMMA NoHalfTouched == UNCHANGED half => HalvesStay
BY DEF HalvesStay, BothHalves

----------------------------------------------------------------------------
(***************************************************************************)
(* The steps of a request.                                                 *)
(***************************************************************************)
LEMMA RequestConcludes ==
    ASSUME TypeInv, SerialInv, NEW h \in Handlers, NEW r, handler' = [handler EXCEPT ![h] = r],
           UNCHANGED <<pay, follow>>, AtRest \/ AtWork(h),
           Blank', Foremost', Settled', Knows(r)'
    PROVE  SerialInv'
<1>1. handler'[h] = r /\ Alone' /\ \A g \in Handlers : g # h => handler'[g].pc = "idle"
  BY SlotWritten
<1>2. RequestsKnow'
  <2> SUFFICES ASSUME NEW g \in Handlers PROVE Knows(handler[g])'
    BY DEF RequestsKnow
  <2>1. CASE g = h
    BY <1>1, <2>1
  <2>2. CASE g # h
    BY <1>1, <2>2 DEF Knows, OrderSteps
  <2> QED
    BY <2>1, <2>2
<1>3. JobKnows'
  BY DEF JobKnows, AtRest, AtWork
<1> QED
  BY <1>1, <1>2, <1>3 DEF SerialInv

\* A step that writes no row of Task, and concerns the order o only.
LEMMA TableStep ==
    ASSUME TypeInv, SerialInv, NEW h \in Handlers, NEW r, handler' = [handler EXCEPT ![h] = r],
           UNCHANGED <<pay, follow, task, made>>, HalvesStay,
           NEW o \in Orders \cup {NoOrder},
           AtRest \/ (AtWork(h) /\ handler[h].order \in {o, NoOrder}),
           \A p \in Orders : p # o => order'[p] = order[p],
           interrupted \ {o} \subseteq interrupted',
           o \in interrupted' \/ Whole(o)' \/ InHand(o)',
           Knows(r)'
    PROVE  SerialInv'
<1>1. Blank' /\ Foremost'
  BY TasksStandStill DEF SerialInv
<1>2. ASSUME NEW p \in Orders \cup {NoOrder}, p # o
      PROVE  SameFor(p) /\ ~ InHand(p) /\ (p \in interrupted => p \in interrupted')
  <2>1. SameFor(p)
    BY <1>2, TasksStandStill
  <2>2. ~ InHand(p)
    BY <1>2, ConstantsOK DEF InHand, AtRest, AtWork
  <2> QED
    BY <1>2, <2>1, <2>2
<1>3. Settled'
  BY <1>2, SettledFrame DEF SerialInv
<1> QED
  BY <1>1, <1>3, RequestConcludes

\* A request that records no status writes only halves, of one task.
LEMMA OffRecord ==
    ASSUME TypeInv, SerialInv, NEW h \in Handlers, NEW r, handler' = [handler EXCEPT ![h] = r],
           UNCHANGED <<pay, follow, task, made, order, interrupted>>, HalvesStay,
           AtRest \/ (AtWork(h) /\ handler[h].order = NoOrder),
           Knows(r)'
    PROVE  SerialInv'
<1>1. Whole(NoOrder)
  BY ConstantsOK DEF SerialInv, Settled, InHand, TypeInv, TypeOK
<1>2. Whole(NoOrder)'
  BY <1>1, TasksStandStill, SameIsWhole, ConstantsOK
<1> QED
  BY <1>2, TableStep

LEMMA UpdateOrderStep ==
    ASSUME Serial, TypeInv, SerialInv, NEW h \in Handlers, NEW o \in Orders, NEW status \in Recorded,
           NEW role \in Roles, UpdateOrder(h, o, status, role)
    PROVE  SerialInv'
<1> DEFINE r == [pc |-> "find", order |-> o, arg |-> status, role |-> role, task |-> 0]
<1>1. /\ AtRest /\ handler' = [handler EXCEPT ![h] = r]
      /\ UNCHANGED <<pay, follow, task, made, half, interrupted>>
      /\ order' = [order EXCEPT ![o].status = status]
  BY StartsAtRest DEF UpdateOrder, Free, Start
<1>2. /\ \A p \in Orders : p # o => order'[p] = order[p]
      /\ order'[o].status = status
  <2>1. order \in [Orders -> OrderRow] /\ order[o] \in OrderRow
    BY DEF TypeInv, TypeOK
  <2>2. [order[o] EXCEPT !.status = status].status = status
    BY <2>1 DEF OrderRow
  <2> QED
    BY <1>1, <2>1, <2>2
<1>3. r.pc = "find" /\ r.order = o /\ r.arg = status
  OBVIOUS
<1> HIDE DEF r
<1>4. InHand(o)'
  BY <1>1, <1>3, StaysInHand
<1>5. Knows(r)'
  <2>1. o \in interrupted \/ \A t \in AutoTasks(o) : BothHalves(t)
    BY <1>1 DEF SerialInv, Settled, Whole, InHand, AtRest
  <2>2. AutoTasks(o)' = AutoTasks(o) /\ \A t : BothHalves(t)' = BothHalves(t)
    BY <1>1, TasksStandStill DEF BothHalves
  <2>3. RecordKnows(r)'
    BY <1>1, <1>2, <1>3, <2>1, <2>2 DEF RecordKnows, Upserting
  <2> QED
    BY <1>3, <2>3 DEF Knows
<1> QED
  BY <1>1, <1>2, <1>4, <1>5, NoHalfTouched, TableStep

\* A request that records a status, before its next step.
OnRecord(h, o) ==
    /\ AtWork(h) /\ handler[h].order = o /\ o \in Orders
    /\ handler[h].pc # "idle" /\ RecordKnows(handler[h])

LEMMA RecordingHandlers ==
    ASSUME SerialInv, NEW h \in Handlers, AtWork(h),
           handler[h].pc \in OrderSteps \cup {"complete", "retype"}
    PROVE  OnRecord(h, handler[h].order)
BY ConstantsOK DEF SerialInv, RequestsKnow, Knows, OnRecord, AtWork, Busy

\* An order whose records agree is whole once its oldest AUTO task is.
LEMMA WholeAgain ==
    ASSUME NEW o \in Orders, Foremost', AgreeOn(o)',
           \A t \in TaskIds : IsOldest(t, AutoTasks(o))' => BothHalves(t)'
    PROVE  Whole(o)'
<1>1. \A t \in AutoTasks(o)' : t \in LiveTasks' /\ t \in TaskIds /\ task'[t].order = o
                              /\ task'[t].createdBy = "AUTO"
  BY DEF AutoTasks, LiveTasks
<1> QED
  BY <1>1, ConstantsOK DEF Foremost, Whole

LEMMA FindTaskStep ==
    ASSUME TypeInv, SerialInv, NEW h \in Handlers, FindTask(h)
    PROVE  SerialInv'
<1> PICK o : o = handler[h].order
  OBVIOUS
<1>1. /\ AtWork(h) /\ OnRecord(h, o) /\ handler[h].pc = "find" /\ handler[h] \in HandlerState
      /\ UNCHANGED <<order, task, made, half, pay, follow, interrupted>>
  BY RequestAtWork, RecordingHandlers DEF SerialInv, RequestStep, FindTask, At, OrderSteps, TypeInv,
     TypeOK
<1>2. /\ AutoTasks(o)' = AutoTasks(o) /\ HalvesStay
      /\ \A t : BothHalves(t)' = BothHalves(t)
  BY <1>1, TasksStandStill, NoHalfTouched DEF OnRecord, BothHalves
<1>3. PICK t \in TaskIds \cup {0} :
         /\ Branch(h, t)
         /\ IF t = 0 THEN AutoTasks(o) = {} ELSE IsOldest(t, AutoTasks(o))
  <2>1. 0 \notin TaskIds
    BY DEF TaskIds
  <2> QED
    BY <2>1 DEF FindTask
<1>4. CASE Finish(h)
  <2>1. handler[h].arg \in {"NEW", "UNPAID"}
    <3>1. ASSUME NEW pc \in {"pay", "stamp"},
                 handler' = [handler EXCEPT ![h].pc = pc, ![h].task = t]
          PROVE  FALSE
      <4>1. handler'[h] = [handler[h] EXCEPT !.pc = pc, !.task = t]
        BY <3>1 DEF TypeInv, TypeOK
      <4>2. handler'[h].pc = pc
        BY <1>1, <4>1 DEF HandlerState
      <4>3. handler'[h].pc = "idle"
        BY <1>4 DEF Finish, Idle, TypeInv, TypeOK
      <4> QED
        BY <4>2, <4>3
    <3> QED
      BY <1>3, <3>1 DEF Branch
  <2>2. AgreeOn(o)
    BY <1>1, <2>1 DEF OnRecord, RecordKnows, AgreeOn, Dunning
  <2>3. o \in interrupted \/ Whole(o)
    BY <1>1, <2>2 DEF OnRecord, RecordKnows, Whole
  <2>4. o \in interrupted' \/ Whole(o)'
    BY <1>1, <1>2, <2>3, TasksStandStill, SameIsWhole DEF OnRecord
  <2>5. Knows(Idle)'
    BY DEF Knows, Idle, OrderSteps
  <2> QED
    BY <1>1, <1>2, <1>4, <2>4, <2>5, TableStep DEF OnRecord, Finish
<1>5. ASSUME NEW pc \in {"pay", "stamp"}, pc = "pay" => handler[h].arg = "PAID",
             pc = "stamp" => handler[h].arg \in Dunning,
             handler' = [handler EXCEPT ![h].pc = pc, ![h].task = t]
      PROVE  SerialInv'
  <2> PICK r : r = [handler[h] EXCEPT !.pc = pc, !.task = t]
    OBVIOUS
  <2>1. handler' = [handler EXCEPT ![h] = r]
    BY <1>5 DEF TypeInv, TypeOK
  <2>2. r.pc = pc /\ r.task = t /\ r.order = o /\ r.arg = handler[h].arg
    BY <1>1 DEF HandlerState
  <2>3. RecordKnows(r)'
    BY <1>1, <1>2, <1>3, <1>5, <2>2 DEF RecordKnows, OnRecord, Upserting, IsOldest
  <2>4. Knows(r)'
    BY <1>1, <2>2, <2>3 DEF Knows, OnRecord
  <2>5. InHand(o)'
    BY <1>1, <1>5, <2>1, <2>2, StaysInHand DEF OnRecord
  <2> QED
    BY <1>1, <1>2, <2>1, <2>4, <2>5, TableStep DEF OnRecord
<1> QED
  BY <1>3, <1>4, <1>5 DEF Branch

\* A request that records a status on o goes on, or stops with o whole or marked.
LEMMA StampPaidStep ==
    ASSUME TypeInv, SerialInv, NEW h \in Handlers, StampPaid(h)
    PROVE  SerialInv'
<1> PICK o, r :
      /\ o = handler[h].order
      /\ r = IF handler[h].task = 0 THEN Idle ELSE [handler[h] EXCEPT !.pc = "complete"]
  OBVIOUS
<1>1. /\ AtWork(h) /\ OnRecord(h, o) /\ handler[h].pc = "pay" /\ handler[h] \in HandlerState
      /\ UNCHANGED <<task, made, half, pay, follow>>
  BY RequestAtWork, RecordingHandlers DEF SerialInv, RequestStep, StampPaid, At, OrderSteps, TypeInv,
     TypeOK
<1>2. /\ \A p \in Orders : p # o => order'[p] = order[p]
      /\ order'[o].paid /\ order'[o].status = "PAID"
  <2>1. order \in [Orders -> OrderRow] /\ order[o] \in OrderRow /\ order[o].status = "PAID"
    BY <1>1 DEF TypeInv, TypeOK, OnRecord, RecordKnows
  <2>2. order' = [order EXCEPT ![o] = [order[o] EXCEPT !.paid = TRUE]]
    BY <2>1 DEF StampPaid
  <2>3. [order[o] EXCEPT !.paid = TRUE].paid /\ [order[o] EXCEPT !.paid = TRUE].status = "PAID"
    BY <2>1 DEF OrderRow
  <2> QED
    BY <1>1, <2>1, <2>2, <2>3 DEF OnRecord
<1>3. /\ AutoTasks(o)' = AutoTasks(o) /\ HalvesStay
      /\ handler' = [handler EXCEPT ![h] = r]
      /\ interrupted \ {o} \subseteq interrupted'
  BY <1>1, TasksStandStill, NoHalfTouched
  DEF OnRecord, StampPaid, Finish, Goto, Settle, TypeInv, TypeOK
<1>4. Knows(r)' /\ (o \in interrupted' \/ Whole(o)' \/ InHand(o)')
  <2>1. CASE handler[h].task = 0
    <3>1. AutoTasks(o)' = {}
      BY <1>1, <1>3, <2>1 DEF OnRecord, RecordKnows
    <3>2. Whole(o)'
      BY <1>2, <3>1 DEF Whole, AgreeOn, Dunning
    <3>3. Knows(Idle)'
      BY DEF Knows, Idle, OrderSteps
    <3> QED
      BY <2>1, <3>2, <3>3
  <2>2. CASE handler[h].task # 0
    <3>1. /\ r.pc = "complete" /\ r.task = handler[h].task /\ r.order = o /\ r.task # 0
          /\ r.arg = handler[h].arg
      BY <1>1, <2>2 DEF HandlerState
    <3>2. RecordKnows(r)'
      BY <1>1, <1>2, <1>3, <3>1 DEF RecordKnows, OnRecord, Upserting, IsOldest
    <3>3. Knows(r)'
      BY <1>1, <3>1, <3>2 DEF Knows, OnRecord
    <3>4. InHand(o)'
      BY <1>1, <1>3, <3>1, StaysInHand DEF OnRecord
    <3> QED
      BY <3>3, <3>4
  <2> QED
    BY <2>1, <2>2
<1> QED
  BY <1>1, <1>2, <1>3, <1>4, TableStep DEF OnRecord

LEMMA StampReminderStep ==
    ASSUME TypeInv, SerialInv, NEW h \in Handlers, StampReminder(h)
    PROVE  SerialInv'
<1> PICK o, r, pc :
      /\ o = handler[h].order
      /\ pc = IF handler[h].task = 0 THEN "create" ELSE "retype"
      /\ r = [handler[h] EXCEPT !.pc = pc]
  OBVIOUS
<1>1. /\ AtWork(h) /\ OnRecord(h, o) /\ handler[h].pc = "stamp" /\ handler[h] \in HandlerState
      /\ UNCHANGED <<task, made, half, pay, follow, interrupted>>
  BY RequestAtWork, RecordingHandlers
  DEF SerialInv, RequestStep, StampReminder, At, OrderSteps, TypeInv, TypeOK
<1>2. /\ \A p \in Orders : p # o => order'[p] = order[p]
      /\ ~ order'[o].paid /\ order'[o].date = "recent" /\ order'[o].status = order[o].status
  <2>1. order \in [Orders -> OrderRow] /\ order[o] \in OrderRow
    BY <1>1 DEF TypeInv, TypeOK, OnRecord
  <2> DEFINE row == [order[o] EXCEPT !.date = "recent", !.paid = FALSE]
  <2>2. order' = [order EXCEPT ![o] = row]
    BY <2>1 DEF StampReminder
  <2>3. ~ row.paid /\ row.date = "recent" /\ row.status = order[o].status
    BY <2>1 DEF OrderRow
  <2> QED
    BY <1>1, <2>1, <2>2, <2>3 DEF OnRecord
<1>3. /\ AutoTasks(o)' = AutoTasks(o) /\ HalvesStay
      /\ handler' = [handler EXCEPT ![h] = r]
  BY <1>1, TasksStandStill, NoHalfTouched DEF OnRecord, StampReminder, Goto, TypeInv, TypeOK
<1>4. /\ r.pc = pc /\ r.task = handler[h].task /\ r.order = o /\ r.arg = handler[h].arg
      /\ r.pc # "idle"
  BY <1>1 DEF HandlerState
<1>5. RecordKnows(r)'
  BY <1>1, <1>2, <1>3, <1>4 DEF RecordKnows, OnRecord, Upserting, IsOldest
<1>6. Knows(r)'
  BY <1>1, <1>4, <1>5 DEF Knows, OnRecord
<1>7. InHand(o)'
  BY <1>1, <1>3, <1>4, StaysInHand DEF OnRecord
<1> QED
  BY <1>1, <1>2, <1>3, <1>6, <1>7, TableStep DEF OnRecord

----------------------------------------------------------------------------
(***************************************************************************)
(* The steps that write halves.                                            *)
(***************************************************************************)
LEMMA OneHalfStays ==
    ASSUME TypeInv, NEW t \in TaskIds, t <= made, NEW side \in Sides, NEW row \in HalfRow,
           row.status # "NONE", half' = [half EXCEPT ![t][side] = row]
    PROVE  /\ HalvesStay
           /\ half'[t][side] = row
           /\ \A s \in Sides : s # side => half'[t][s] = half[t][s]
<1>1. /\ half \in [TaskIds -> [Sides -> HalfRow]] /\ made \in Nat
  BY DEF TypeInv, TypeOK
<1>2. \A u \in TaskIds, s \in Sides :
        half'[u][s] = IF u = t /\ s = side THEN row ELSE half[u][s]
  BY <1>1
<1>3. \A u \in TaskIds : u # t => half'[u] = half[u]
  BY <1>1
<1> QED
  BY <1>1, <1>2, <1>3 DEF HalvesStay, BothHalves, TaskIds

LEMMA BothHalvesStay ==
    ASSUME TypeInv, NEW t \in TaskIds, t <= made, NEW both \in [Sides -> HalfRow],
           \A side \in Sides : both[side].status # "NONE",
           half' = [half EXCEPT ![t] = both]
    PROVE  HalvesStay /\ BothHalves(t)' /\ half'[t] = both
<1>1. /\ half \in [TaskIds -> [Sides -> HalfRow]] /\ made \in Nat
  BY DEF TypeInv, TypeOK
<1>2. \A u \in TaskIds : half'[u] = IF u = t THEN both ELSE half[u]
  BY <1>1
<1> QED
  BY <1>1, <1>2 DEF HalvesStay, BothHalves, TaskIds

LEMMA HalfStatuses ==
    \A row \in HalfRow : /\ Upserted(row) \in HalfRow /\ Upserted(row).status = "ACTIVE"
                         /\ Completed(row) \in HalfRow /\ Reopened(row) \in HalfRow
                         /\ Completed(row).status = "COMPLETED"
                         /\ Reopened(row).status = "ACTIVE"
BY DEF Upserted, Completed, Reopened, NewHalf, HalfRow

\* The task a request works on exists.
LEMMA TaskInHand ==
    ASSUME TypeInv, NEW h \in Handlers, handler[h].pc \in TaskSteps
    PROVE  handler[h].task \in TaskIds /\ handler[h].task <= made /\ handler[h].task # 0
BY DEF TypeInv, HandlersInStep, InStep, TaskIds

\* A request that ends with every write done leaves its order whole.
LEMMA SettlesWhole ==
    ASSUME TypeInv, SerialInv, NEW h \in Handlers, NEW o \in Orders, OnRecord(h, o),
           handler[h].pc \in {"complete", "taskSeller"}, NEW u \in TaskIds, handler[h].task = u,
           UNCHANGED <<order, task, made>>, HalvesStay, BothHalves(u)'
    PROVE  Whole(o)'
<1>1. u # 0
  BY DEF TaskIds
<1>2. IsOldest(u, AutoTasks(o)) /\ AutoTasks(o)' = AutoTasks(o) /\ Foremost'
  BY <1>1, TasksStandStill DEF OnRecord, RecordKnows, SerialInv
<1> \A t \in TaskIds : IsOldest(t, AutoTasks(o)) => t = u
  BY <1>2, ConstantsOK DEF IsOldest, TaskIds
<1>3. \A t \in TaskIds : IsOldest(t, AutoTasks(o))' => BothHalves(t)'
  BY <1>2 DEF IsOldest
<1>4. \A t \in AutoTasks(o) : t \in TaskIds /\ task[t].order = o /\ task[t].createdBy = "AUTO"
                             /\ t \in LiveTasks
  BY DEF AutoTasks, LiveTasks
<1>5. AgreeOn(o)'
  <2>1. CASE handler[h].pc = "complete"
    BY <1>2, <2>1 DEF OnRecord, RecordKnows, AgreeOn, Dunning
  <2>2. CASE handler[h].pc = "taskSeller"
    <3>1. /\ task[u].type = order[o].status
          /\ ~ order[o].paid /\ order[o].date = "recent" /\ order[o].status \in Dunning
      BY <2>2 DEF OnRecord, RecordKnows, Upserting
    <3>2. \A t \in AutoTasks(o) : task[t].type \in {"TWO_MTFU", order[o].status}
      BY <1>4, <3>1 DEF SerialInv, Foremost
    <3> QED
      BY <1>2, <3>1, <3>2 DEF AgreeOn, Dunning
  <2> QED
    BY <2>1, <2>2
<1> QED
  BY <1>2, <1>3, <1>5, WholeAgain

LEMMA CompleteTaskStep ==
    ASSUME TypeInv, SerialInv, NEW h \in Handlers, CompleteTask(h)
    PROVE  SerialInv'
<1> PICK o, t : o = handler[h].order /\ t = handler[h].task
  OBVIOUS
<1>1. /\ AtWork(h) /\ OnRecord(h, o) /\ handler[h].pc = "complete" /\ o \in Orders
      /\ handler' = [handler EXCEPT ![h] = Idle]
      /\ UNCHANGED <<order, task, made, pay, follow>>
  BY RequestAtWork, RecordingHandlers
  DEF SerialInv, RequestStep, CompleteTask, At, OnRecord, Finish
<1>2. t \in TaskIds /\ t <= made
  BY <1>1, TaskInHand DEF TaskSteps
<1>3. Knows(Idle)'
  BY DEF Knows, Idle, OrderSteps
<1>4. CASE BothHalves(t)
  <2> PICK both : both = [side \in Sides |-> Completed(half[t][side])]
    OBVIOUS
  <2>1. half' = [half EXCEPT ![t] = both] /\ interrupted' = interrupted \ {o}
    BY <1>4 DEF CompleteTask, Settle
  <2>2. both \in [Sides -> HalfRow] /\ \A side \in Sides : both[side].status # "NONE"
    BY <1>2, HalfStatuses DEF TypeInv, TypeOK
  <2>3. HalvesStay /\ BothHalves(t)'
    BY <1>2, <2>1, <2>2, BothHalvesStay
  <2>4. Whole(o)'
    BY <1>1, <1>2, <2>3, SettlesWhole
  <2> QED
    BY <1>1, <1>3, <2>1, <2>3, <2>4, TableStep DEF OnRecord
<1>5. CASE ~ BothHalves(t)
  <2>1. half' = half /\ interrupted' = interrupted \cup {o}
    BY <1>1, <1>5 DEF CompleteTask, CutOff
  <2> QED
    BY <1>1, <1>3, <2>1, NoHalfTouched, TableStep DEF OnRecord
<1> QED
  BY <1>4, <1>5

\* The upserts of a request: on record, or for an edit of the task.
LEMMA UpsertAccountantStep ==
    ASSUME TypeInv, SerialInv, NEW h \in Handlers, UpsertAccountant(h)
    PROVE  SerialInv'
<1> PICK o, t, r, row :
      /\ o = handler[h].order /\ t = handler[h].task
      /\ r = [handler[h] EXCEPT !.pc = "taskSeller"]
      /\ row = Upserted(half[t]["taskAccountant"])
  OBVIOUS
<1>1. /\ AtWork(h) /\ Knows(handler[h]) /\ handler[h].pc = "taskAccountant"
      /\ handler[h] \in HandlerState
      /\ handler' = [handler EXCEPT ![h] = r] /\ half' = [half EXCEPT ![t]["taskAccountant"] = row]
      /\ UNCHANGED <<order, task, made, pay, follow, interrupted>>
  BY RequestAtWork
  DEF SerialInv, RequestsKnow, RequestStep, UpsertAccountant, At, Goto, TypeInv, TypeOK
<1>2. t \in TaskIds /\ t <= made
  BY <1>1, TaskInHand DEF TaskSteps
<1>3. row \in HalfRow /\ row.status = "ACTIVE" /\ "taskAccountant" \in Sides
  BY <1>2, HalfStatuses DEF TypeInv, TypeOK, Sides
<1>4. HalvesStay /\ half'[t]["taskAccountant"] = row
  <2>1. row.status # "NONE" /\ half' = [half EXCEPT ![t]["taskAccountant"] = row]
    BY <1>1, <1>3
  <2> QED
    BY <1>2, <1>3, <2>1, OneHalfStays, ZenonT(60) DEF Sides
<1>5. /\ r.pc = "taskSeller" /\ r.task = t /\ r.order = o /\ r.arg = handler[h].arg
      /\ o \in Orders \cup {NoOrder}
  BY <1>1 DEF HandlerState
<1>6. Knows(r)'
  <2>1. o # NoOrder => RecordKnows(handler[h])
    BY <1>1 DEF Knows
  <2>2. AutoTasks(o)' = AutoTasks(o)
    BY <1>1, <1>5, TasksStandStill
  <2>3. o # NoOrder => RecordKnows(r)'
    BY <1>1, <1>5, <2>1, <2>2 DEF RecordKnows, Upserting, IsOldest
  <2> QED
    BY <1>3, <1>4, <1>5, <2>3 DEF Knows, OrderSteps
<1>7. CASE o = NoOrder
  BY <1>1, <1>4, <1>6, <1>7, OffRecord
<1>8. CASE o \in Orders
  <2>1. InHand(o)'
    BY <1>1, <1>5, <1>8, StaysInHand
  <2> QED
    BY <1>1, <1>4, <1>5, <1>6, <2>1, TableStep
<1> QED
  BY <1>5, <1>7, <1>8

LEMMA UpsertSellerStep ==
    ASSUME TypeInv, SerialInv, NEW h \in Handlers, UpsertSeller(h)
    PROVE  SerialInv'
<1> PICK o, t, row :
      /\ o = handler[h].order /\ t = handler[h].task
      /\ row = Upserted(half[t]["taskSeller"])
  OBVIOUS
<1>1. /\ AtWork(h) /\ Knows(handler[h]) /\ handler[h].pc = "taskSeller"
      /\ o \in Orders \cup {NoOrder}
      /\ handler' = [handler EXCEPT ![h] = Idle] /\ half' = [half EXCEPT ![t]["taskSeller"] = row]
      /\ interrupted' = interrupted \ {o}
      /\ UNCHANGED <<order, task, made, pay, follow>>
  BY RequestAtWork DEF SerialInv, RequestsKnow, RequestStep, UpsertSeller, At, Finish, Settle, TypeInv,
     TypeOK, HandlerState
<1>2. t \in TaskIds /\ t <= made
  BY <1>1, TaskInHand DEF TaskSteps
<1>3. row \in HalfRow /\ row.status = "ACTIVE" /\ "taskSeller" \in Sides
  BY <1>2, HalfStatuses DEF TypeInv, TypeOK, Sides
<1>4. HalvesStay /\ BothHalves(t)'
  <2>1. half[t]["taskAccountant"].status # "NONE"
    BY <1>1 DEF Knows
  <2> QED
    BY <1>1, <1>2, <1>3, <2>1, OneHalfStays, ZenonT(60) DEF BothHalves, Sides
<1>5. Knows(Idle)'
  BY DEF Knows, Idle, OrderSteps
<1>6. CASE o = NoOrder
  <2>1. interrupted' = interrupted
    BY <1>1, <1>6, ConstantsOK DEF TypeInv, TypeOK
  <2> QED
    BY <1>1, <1>4, <1>5, <1>6, <2>1, OffRecord
<1>7. CASE o \in Orders
  <2>1. OnRecord(h, o)
    BY <1>1, <1>7, ConstantsOK DEF OnRecord, Knows
  <2>2. Whole(o)'
    BY <1>1, <1>2, <1>4, <1>7, <2>1, SettlesWhole
  <2> QED
    BY <1>1, <1>4, <1>5, <2>2, TableStep
<1> QED
  BY <1>1, <1>6, <1>7

\* Steps of the task endpoints: nothing is recorded on an order.
TaskRequests == {"own", "status", "deleteHalf", "markHalf", "deleteTask"}

LEMMA TaskRequestKnows ==
    ASSUME NEW r, r.pc \in TaskRequests \cup {"idle", "taskAccountant"}, r.order = NoOrder
    PROVE  Knows(r)'
BY DEF Knows, TaskRequests, OrderSteps

LEMMA OwnHalfStep ==
    ASSUME TypeInv, SerialInv, NEW h \in Handlers,
           UpsertOwnHalf(h) \/ SetStatus(h) \/ DeleteHalf(h) \/ MarkHalf(h)
    PROVE  SerialInv'
<1> PICK t, side : /\ t = handler[h].task
                   /\ side = IF DeleteHalf(h) THEN "taskSeller"
                             ELSE taskRelationHelper(handler[h].role)
  OBVIOUS
<1>1. /\ AtWork(h) /\ handler[h].pc \in TaskRequests /\ handler[h].order = NoOrder
      /\ handler[h] \in HandlerState
      /\ UNCHANGED <<order, task, made, pay, follow, interrupted>>
  <2>1. /\ handler[h].pc \in TaskRequests
        /\ UNCHANGED <<order, task, made, pay, follow, interrupted>>
    BY DEF UpsertOwnHalf, SetStatus, DeleteHalf, MarkHalf, At, TaskRequests
  <2>2. AtWork(h)
    BY RequestAtWork DEF SerialInv, RequestStep
  <2> QED
    BY <2>1, <2>2 DEF SerialInv, RequestsKnow, Knows, TypeInv, TypeOK, TaskRequests
<1>2. t \in TaskIds /\ t <= made /\ side \in Sides
  BY <1>1, TaskInHand, HelperTypes DEF TaskSteps, TaskRequests, Sides
<1>3. half[t][side] \in HalfRow /\ half \in [TaskIds -> [Sides -> HalfRow]]
  BY <1>2 DEF TypeInv, TypeOK
<1>4. \/ half' = half
      \/ \E row \in HalfRow : row.status # "NONE" /\ half' = [half EXCEPT ![t][side] = row]
  <2>1. CASE UpsertOwnHalf(h)
    <3>1. NewHalf \in HalfRow /\ NewHalf.status # "NONE"
      BY DEF NewHalf, HalfRow
    <3>2. ~ DeleteHalf(h)
      BY <2>1 DEF UpsertOwnHalf, DeleteHalf, At
    <3> QED
      BY <2>1, <3>1, <3>2 DEF UpsertOwnHalf
  <2>2. CASE SetStatus(h)
    <3>1. /\ Completed(half[t][side]) \in HalfRow /\ Completed(half[t][side]).status # "NONE"
          /\ Reopened(half[t][side]) \in HalfRow /\ Reopened(half[t][side]).status # "NONE"
      BY <1>3, HalfStatuses
    <3>2. ~ DeleteHalf(h)
      BY <2>2 DEF SetStatus, DeleteHalf, At
    <3>3. \/ half' = half
          \/ half' = [half EXCEPT ![t][side] = Completed(half[t][side])]
          \/ half' = [half EXCEPT ![t][side] = Reopened(half[t][side])]
      BY <2>2, <3>2 DEF SetStatus
    <3> QED
      BY <3>1, <3>3
  <2>3. CASE DeleteHalf(h)
    <3> PICK row : row = [half[t][side] EXCEPT !.live = FALSE]
      OBVIOUS
    <3>1. row \in HalfRow /\ row.status = half[t][side].status
      BY <1>3 DEF HalfRow
    <3>2. half' = half \/ (half[t][side].status # "NONE" /\ half' = [half EXCEPT ![t][side] = row])
      BY <1>2, <1>3, <2>3 DEF DeleteHalf
    <3> QED
      BY <3>1, <3>2
  <2>4. CASE MarkHalf(h)
    <3> PICK row : row = [half[t][side] EXCEPT !.status = "DELETED"]
      OBVIOUS
    <3>1. row \in HalfRow /\ row.status = "DELETED"
      BY <1>3 DEF HalfRow
    <3>2. ~ DeleteHalf(h)
      BY <2>4 DEF MarkHalf, DeleteHalf, At
    <3>3. half' = half \/ half' = [half EXCEPT ![t][side] = row]
      BY <1>2, <1>3, <2>4, <3>2 DEF MarkHalf
    <3> QED
      BY <3>1, <3>3
  <2> QED
    BY <2>1, <2>2, <2>3, <2>4
<1>5. HalvesStay
  <2>1. ASSUME NEW row \in HalfRow, row.status # "NONE", half' = [half EXCEPT ![t][side] = row]
        PROVE  HalvesStay
    BY <1>2, <2>1, OneHalfStays
  <2> QED
    BY <1>4, <2>1, NoHalfTouched
<1>6. \E r : /\ handler' = [handler EXCEPT ![h] = r]
             /\ r.pc \in TaskRequests \cup {"idle"} /\ r.order = NoOrder
  <2>1. CASE Finish(h)
    <3>1. Idle.pc = "idle" /\ Idle.order = NoOrder
      BY DEF Idle
    <3> QED
      BY <2>1, <3>1 DEF Finish
  <2>2. ASSUME NEW pc \in TaskRequests, Goto(h, pc)
        PROVE  \E r : /\ handler' = [handler EXCEPT ![h] = r]
                      /\ r.pc \in TaskRequests \cup {"idle"} /\ r.order = NoOrder
    <3> PICK r : r = [handler[h] EXCEPT !.pc = pc]
      OBVIOUS
    <3>1. r.pc = pc /\ r.order = NoOrder
      BY <1>1 DEF HandlerState
    <3>2. handler' = [handler EXCEPT ![h] = r]
      BY <2>2 DEF Goto, TypeInv, TypeOK
    <3> QED
      BY <3>1, <3>2
  <2> QED
    BY <2>1, <2>2 DEF UpsertOwnHalf, SetStatus, DeleteHalf, MarkHalf, TaskRequests
<1> QED
  BY <1>1, <1>5, <1>6, TaskRequestKnows, OffRecord

\* Requests about a task that only check it first.
LEMMA TaskRequestStarts ==
    ASSUME Serial, TypeInv, SerialInv, NEW h \in Handlers, NEW role \in Roles, NEW t \in TaskIds,
           \/ EditTask(h, t, role)
           \/ \E status \in {"COMPLETED", "ACTIVE"} : CheckStatus(h, t, role, status)
           \/ CheckRemove(h, t, role)
    PROVE  SerialInv'
<1>1. AtRest /\ UNCHANGED <<order, task, half, made, pay, follow, interrupted>>
  BY StartsAtRest DEF EditTask, CheckStatus, CheckRemove, Free
<1>2. \E r : /\ handler' = [handler EXCEPT ![h] = r]
             /\ r.pc \in TaskRequests \cup {"taskAccountant"} /\ r.order = NoOrder
  <2>1. ASSUME NEW pc, NEW arg, Start(h, Request(pc, arg, role, t)),
               pc \in TaskRequests \cup {"taskAccountant"}
        PROVE  \E r : /\ handler' = [handler EXCEPT ![h] = r]
                      /\ r.pc \in TaskRequests \cup {"taskAccountant"} /\ r.order = NoOrder
    <3> PICK r : r = Request(pc, arg, role, t)
      OBVIOUS
    <3>1. r.pc = pc /\ r.order = NoOrder
      BY DEF Request
    <3> QED
      BY <2>1, <3>1 DEF Start
  <2> QED
    BY <2>1 DEF EditTask, CheckStatus, CheckRemove, TaskRequests
<1> QED
  BY <1>1, <1>2, NoHalfTouched, TaskRequestKnows, OffRecord

\* A request that fails leaves its order marked.
LEMMA FailRequestStep ==
    ASSUME TypeInv, SerialInv, NEW h \in Handlers, FailRequest(h)
    PROVE  SerialInv'
<1> PICK o : o = handler[h].order
  OBVIOUS
<1>1. /\ AtWork(h) /\ o \in Orders \cup {NoOrder}
      /\ handler' = [handler EXCEPT ![h] = Idle]
      /\ interrupted' = interrupted \cup ({o} \cap Orders)
      /\ UNCHANGED <<order, task, half, made, pay, follow>>
  BY RequestAtWork DEF SerialInv, FailRequest, Finish, CutOff, TypeInv, TypeOK, HandlerState
<1>2. Knows(Idle)'
  BY DEF Knows, Idle, OrderSteps
<1>3. CASE o = NoOrder
  <2>1. interrupted' = interrupted
    BY <1>1, <1>3, ConstantsOK
  <2> QED
    BY <1>1, <1>2, <1>3, <2>1, NoHalfTouched, OffRecord
<1>4. CASE o \in Orders
  BY <1>1, <1>2, <1>4, NoHalfTouched, TableStep
<1> QED
  BY <1>1, <1>3, <1>4

----------------------------------------------------------------------------
(***************************************************************************)
(* The steps that write rows of Task.                                      *)
(***************************************************************************)
LEMMA RowAdded ==
    ASSUME TypeInv, NEW row \in TaskRow, row.live, AddTask(row), NEW n, n = made + 1
    PROVE  /\ n \in TaskIds /\ n \in Nat \ {0} /\ made' = n
           /\ task' = [task EXCEPT ![n] = row]
           /\ task'[n] = row /\ \A t \in TaskIds : t # n => task'[t] = task[t]
           /\ \A t \in LiveTasks : t < n
           /\ LiveTasks' = LiveTasks \cup {n}
           /\ \A o \in Orders \cup {NoOrder} :
                AutoTasks(o)' = IF row.createdBy = "AUTO" /\ row.order = o
                                THEN AutoTasks(o) \cup {n} ELSE AutoTasks(o)
<1>1. made \in Nat /\ task \in [TaskIds -> TaskRow]
  BY DEF TypeInv, TypeOK
<1>2. /\ n \in TaskIds /\ n \in Nat \ {0} /\ made' = n /\ task' = [task EXCEPT ![n] = row]
  BY <1>1, ConstantsOK DEF AddTask, TaskIds
<1>3. task'[n] = row /\ \A t \in TaskIds : t # n => task'[t] = task[t]
  BY <1>1, <1>2
<1>4. \A t \in LiveTasks : t < n
  BY <1>1, <1>2, ConstantsOK DEF LiveTasks, TaskIds
<1>5. LiveTasks' = LiveTasks \cup {n}
  BY <1>1, <1>2, <1>3, ConstantsOK DEF LiveTasks, TaskIds
<1>6. ASSUME NEW o \in Orders \cup {NoOrder}
      PROVE  AutoTasks(o)' = IF row.createdBy = "AUTO" /\ row.order = o
                             THEN AutoTasks(o) \cup {n} ELSE AutoTasks(o)
  <2>1. \A t \in LiveTasks : t \in TaskIds /\ t # n
    BY <1>2, <1>4 DEF LiveTasks
  <2> QED
    BY <1>3, <1>5, <2>1 DEF AutoTasks
<1> QED
  BY <1>2, <1>3, <1>4, <1>5, <1>6

\* A new AUTO task is the first of its order, or a follow-up with both halves.
LEMMA AddedForemost ==
    ASSUME TypeInv, Blank, Foremost, NEW row \in TaskRow, row.live, AddTask(row),
           NEW n, n = made + 1,
           \A t \in TaskIds : t # n => half'[t] = half[t],
           \/ row.createdBy # "AUTO"
           \/ AutoTasks(row.order) = {}
           \/ row.type = "TWO_MTFU" /\ BothHalves(n)'
    PROVE  Blank' /\ Foremost'
<1>1. /\ n \in TaskIds /\ n \in Nat \ {0} /\ made' = n
      /\ task'[n] = row /\ \A t \in TaskIds : t # n => task'[t] = task[t]
      /\ \A t \in LiveTasks : t < n
      /\ LiveTasks' = LiveTasks \cup {n}
      /\ \A o \in Orders \cup {NoOrder} :
           AutoTasks(o)' = IF row.createdBy = "AUTO" /\ row.order = o
                           THEN AutoTasks(o) \cup {n} ELSE AutoTasks(o)
  BY RowAdded
<1>2. Blank'
  BY <1>1, ConstantsOK DEF Blank, TypeInv, TypeOK, TaskIds
<1>3. ASSUME NEW t \in LiveTasks', task'[t].createdBy = "AUTO",
             task'[t].type # "TWO_MTFU" \/ ~ BothHalves(t)'
      PROVE  IsOldest(t, AutoTasks(task[t].order))'
  <2> PICK o : o = task'[t].order
    OBVIOUS
  <2>1. t \in TaskIds /\ task'[t] \in TaskRow
    BY <1>1 DEF LiveTasks, TypeInv, TypeOK
  <2>2. o \in Orders \cup {NoOrder}
    BY <2>1 DEF TaskRow
  <2>3. t \in AutoTasks(o)'
    BY <1>3 DEF AutoTasks
  <2>4. CASE t = n
    <3>1. AutoTasks(o)' = {n}
      BY <1>1, <1>3, <2>2, <2>4
    <3> QED
      BY <1>1, <2>4, <3>1 DEF IsOldest
  <2>5. CASE t # n
    <3>1. t \in LiveTasks /\ task'[t] = task[t] /\ (BothHalves(t)' <=> BothHalves(t))
      BY <1>1, <2>1, <2>5 DEF BothHalves
    <3>2. IsOldest(t, AutoTasks(o))
      BY <1>3, <3>1 DEF Foremost
    <3>3. AutoTasks(o)' \subseteq AutoTasks(o) \cup {n} /\ t < n /\ t \in Nat /\ n \in Nat
      BY <1>1, <2>1, <2>2, <3>1, ConstantsOK DEF TaskIds
    <3>4. ASSUME NEW u \in AutoTasks(o)' PROVE t <= u
      <4>1. t <= n
        BY <3>3
      <4>2. u \in AutoTasks(o) \/ u = n
        BY <3>3
      <4> QED
        BY <3>2, <4>1, <4>2 DEF IsOldest
    <3> QED
      BY <2>3, <3>4 DEF IsOldest
  <2> QED
    BY <2>4, <2>5
<1> QED
  BY <1>2, <1>3 DEF Foremost

\* The orders that a new task does not belong to.
LEMMA AddedSame ==
    ASSUME TypeInv, NEW row \in TaskRow, row.live, AddTask(row), NEW n, n = made + 1,
           \A t \in TaskIds : t # n => half'[t] = half[t], order' = order,
           NEW o \in Orders \cup {NoOrder}, row.createdBy # "AUTO" \/ row.order # o
    PROVE  SameFor(o)
<1>1. /\ \A t \in TaskIds : t # n => task'[t] = task[t]
      /\ \A t \in LiveTasks : t < n /\ t \in TaskIds
      /\ AutoTasks(o)' = AutoTasks(o) /\ n \in Nat
  BY RowAdded DEF LiveTasks
<1>2. \A t \in AutoTasks(o) : t \in TaskIds /\ t # n
  BY <1>1 DEF AutoTasks
<1> QED
  BY <1>1, <1>2 DEF SameFor, BothHalves

LEMMA CreateReminderStep ==
    ASSUME TypeInv, SerialInv, NEW h \in Handlers, CreateReminder(h)
    PROVE  SerialInv'
<1> PICK o, n, r, row :
      /\ o = handler[h].order /\ n = made + 1
      /\ r = [handler[h] EXCEPT !.pc = "taskAccountant", !.task = n]
      /\ row = [order |-> o, type |-> handler[h].arg, createdBy |-> "AUTO",
                owner |-> handler[h].role, live |-> TRUE]
  OBVIOUS
<1>1. /\ AtWork(h) /\ OnRecord(h, o) /\ handler[h].pc = "create" /\ handler[h] \in HandlerState
      /\ AddTask(row) /\ UNCHANGED <<order, half, pay, follow, interrupted>>
  BY RequestAtWork, RecordingHandlers
  DEF SerialInv, RequestStep, CreateReminder, At, OrderSteps, TypeInv, TypeOK
<1>2. handler' = [handler EXCEPT ![h] = r]
  BY DEF CreateReminder, TypeInv, TypeOK
<1>3. /\ row \in TaskRow /\ row.live /\ row.order = o /\ row.type = handler[h].arg
      /\ AutoTasks(o) = {} /\ o \in Orders /\ handler[h].arg \in Dunning
      /\ order[o].status = handler[h].arg /\ ~ order[o].paid /\ order[o].date = "recent"
      /\ row.createdBy = "AUTO"
  BY <1>1 DEF TaskRow, OnRecord, RecordKnows, TaskTypes, HandlerState, Upserting
<1> HIDE DEF AddTask
<1>4. /\ task'[n] = row /\ AutoTasks(o)' = {n} /\ n \in Nat \ {0}
  BY <1>1, <1>3, RowAdded
<1>5. /\ r.pc = "taskAccountant" /\ r.task = n /\ r.order = o /\ r.arg = handler[h].arg
  BY <1>1 DEF HandlerState
<1>6. Blank' /\ Foremost'
  BY <1>1, <1>3, AddedForemost DEF SerialInv
<1>7. Knows(r)'
  <2>1. RecordKnows(r)'
    BY <1>1, <1>3, <1>4, <1>5 DEF RecordKnows, Upserting, IsOldest
  <2> QED
    BY <1>5, <2>1 DEF Knows, OrderSteps
<1>8. Settled'
  <2>1. InHand(o)'
    BY <1>1, <1>2, <1>3, <1>5, StaysInHand
  <2>2. ASSUME NEW p \in Orders \cup {NoOrder}, p # o
        PROVE  SameFor(p) /\ ~ InHand(p) /\ (p \in interrupted => p \in interrupted')
    <3>1. SameFor(p)
      BY <1>1, <1>3, <2>2, AddedSame
    <3> QED
      BY <1>1, <2>2, <3>1 DEF InHand, AtWork
  <2> QED
    BY <1>3, <2>1, <2>2, SettledFrame DEF SerialInv
<1> QED
  BY <1>1, <1>2, <1>6, <1>7, <1>8, RequestConcludes

LEMMA CreateTaskStep ==
    ASSUME Serial, TypeInv, SerialInv, NEW h \in Handlers, NEW o \in Orders, NEW role \in Roles,
           CreateTask(h, o, role)
    PROVE  SerialInv'
<1> PICK n, r, row :
      /\ n = made + 1 /\ r = Request("own", "NONE", role, n)
      /\ row = [order |-> o, type |-> "NONE", createdBy |-> role, owner |-> role, live |-> TRUE]
  OBVIOUS
<1>1. /\ AtRest /\ AddTask(row) /\ handler' = [handler EXCEPT ![h] = r]
      /\ UNCHANGED <<order, half, pay, follow, interrupted>>
  BY StartsAtRest DEF CreateTask, Free, Start
<1>2. row \in TaskRow /\ row.live /\ row.createdBy # "AUTO"
  BY ConstantsOK DEF TaskRow, TaskTypes, UserRoles
<1>3. Blank' /\ Foremost'
  BY <1>1, <1>2, AddedForemost DEF SerialInv
<1>4. \A p \in Orders \cup {NoOrder} : SameFor(p) /\ ~ InHand(p)
  BY <1>1, <1>2, AddedSame DEF InHand, AtRest
<1>5. Whole(NoOrder)'
  BY <1>4, SameIsWhole, ConstantsOK DEF SerialInv, Settled, TypeInv, TypeOK
<1>6. Settled'
  BY <1>1, <1>4, <1>5, SettledFrame DEF SerialInv
<1>7. Knows(r)'
  <2>1. r.pc = "own" /\ r.order = NoOrder
    BY DEF Request
  <2> QED
    BY <2>1, TaskRequestKnows DEF TaskRequests
<1> QED
  BY <1>1, <1>3, <1>6, <1>7, RequestConcludes

LEMMA RowRetyped ==
    ASSUME TypeInv, NEW u \in TaskIds, NEW type \in TaskTypes, made' = made,
           task' = [task EXCEPT ![u].type = type]
    PROVE  /\ task'[u].type = type /\ \A t \in TaskIds : t # u => task'[t] = task[t]
           /\ \A t \in TaskIds : /\ task'[t].order = task[t].order
                                 /\ task'[t].createdBy = task[t].createdBy
                                 /\ task'[t].live = task[t].live
           /\ LiveTasks' = LiveTasks
           /\ \A o \in Orders \cup {NoOrder} : AutoTasks(o)' = AutoTasks(o)
<1>1. task \in [TaskIds -> TaskRow] /\ task[u] \in TaskRow
  BY DEF TypeInv, TypeOK
<1>2. \A t \in TaskIds : task'[t] = IF t = u THEN [task[u] EXCEPT !.type = type] ELSE task[t]
  BY <1>1
<1>3. \A t \in TaskIds : /\ task'[t].order = task[t].order
                         /\ task'[t].createdBy = task[t].createdBy
                         /\ task'[t].live = task[t].live
  BY <1>1, <1>2 DEF TaskRow
<1>4. task'[u].type = type
  BY <1>1, <1>2 DEF TaskRow
<1>5. LiveTasks' = LiveTasks
  BY <1>3 DEF LiveTasks
<1>6. \A o \in Orders \cup {NoOrder} : AutoTasks(o)' = AutoTasks(o)
  BY <1>3, <1>5 DEF AutoTasks, LiveTasks
<1> QED
  BY <1>2, <1>3, <1>4, <1>5, <1>6

\* The oldest AUTO task of an order may take any type.
LEMMA RetypedForemost ==
    ASSUME TypeInv, Blank, Foremost, NEW u \in TaskIds, u <= made, NEW type \in TaskTypes,
           made' = made, task' = [task EXCEPT ![u].type = type], HalvesStay,
           NEW o \in Orders \cup {NoOrder}, IsOldest(u, AutoTasks(o))
    PROVE  Blank' /\ Foremost'
<1>1. /\ \A t \in TaskIds : t # u => task'[t] = task[t]
      /\ \A t \in TaskIds : /\ task'[t].order = task[t].order
                            /\ task'[t].createdBy = task[t].createdBy
      /\ LiveTasks' = LiveTasks
      /\ \A p \in Orders \cup {NoOrder} : AutoTasks(p)' = AutoTasks(p)
  BY RowRetyped
<1>2. Blank'
  <2>1. \A t \in TaskIds : t > made => t # u
    BY ConstantsOK DEF TypeInv, TypeOK, TaskIds
  <2> QED
    BY <1>1, <2>1 DEF Blank, HalvesStay
<1>3. ASSUME NEW t \in LiveTasks, task[t].createdBy = "AUTO",
             task'[t].type # "TWO_MTFU" \/ ~ BothHalves(t)'
      PROVE  IsOldest(t, AutoTasks(task[t].order))
  <2>1. t \in TaskIds
    BY DEF LiveTasks
  <2>2. CASE t = u
    BY <2>2 DEF IsOldest, AutoTasks
  <2>3. CASE t # u
    BY <1>1, <1>3, <2>1, <2>3 DEF Foremost, HalvesStay
  <2> QED
    BY <2>2, <2>3
<1>4. \A t \in LiveTasks : t \in TaskIds /\ task[t].order \in Orders \cup {NoOrder}
  BY DEF LiveTasks, TypeInv, TypeOK, TaskRow
<1> QED
  BY <1>1, <1>2, <1>3, <1>4 DEF Foremost, IsOldest

LEMMA OrderOfRow == \A row \in TaskRow : row.order \in Orders \cup {NoOrder}
BY DEF TaskRow

LEMMA RetypeReminderStep ==
    ASSUME TypeInv, SerialInv, NEW h \in Handlers, RetypeReminder(h)
    PROVE  SerialInv'
<1> PICK o, u, r, type :
      /\ o = handler[h].order /\ u = handler[h].task /\ type = handler[h].arg
      /\ r = [handler[h] EXCEPT !.pc = "taskAccountant"]
  OBVIOUS
<1>1. /\ AtWork(h) /\ OnRecord(h, o) /\ handler[h].pc = "retype" /\ handler[h] \in HandlerState
      /\ made' = made /\ task' = [task EXCEPT ![u].type = type]
      /\ UNCHANGED <<order, half, pay, follow, interrupted>>
  BY RequestAtWork, RecordingHandlers
  DEF SerialInv, RequestStep, RetypeReminder, At, TypeInv, TypeOK
<1>2. handler' = [handler EXCEPT ![h] = r]
  BY DEF RetypeReminder, Goto, TypeInv, TypeOK
<1>3. /\ u \in TaskIds /\ u <= made /\ u # 0
  BY <1>1, TaskInHand DEF TaskSteps
<1>4. /\ o \in Orders /\ type \in Dunning /\ type \in TaskTypes
      /\ IsOldest(u, AutoTasks(o)) /\ order[o].status = type /\ ~ order[o].paid
      /\ order[o].date = "recent"
  BY <1>1, <1>3 DEF OnRecord, RecordKnows, Upserting, TaskTypes
<1>5. HalvesStay
  BY <1>1, NoHalfTouched
<1>6. /\ task'[u].type = type /\ \A t \in TaskIds : t # u => task'[t] = task[t]
      /\ \A p \in Orders \cup {NoOrder} : AutoTasks(p)' = AutoTasks(p)
  BY <1>1, <1>3, <1>4, RowRetyped
<1>7. Blank' /\ Foremost'
  BY <1>1, <1>3, <1>4, <1>5, RetypedForemost DEF SerialInv
<1>8. /\ r.pc = "taskAccountant" /\ r.task = u /\ r.order = o /\ r.arg = type
  BY <1>1 DEF HandlerState
<1>9. Knows(r)'
  <2>1. RecordKnows(r)'
    BY <1>1, <1>3, <1>4, <1>6, <1>8 DEF RecordKnows, Upserting, IsOldest
  <2> QED
    BY <1>8, <2>1 DEF Knows, OrderSteps
<1>10. Settled'
  <2>1. InHand(o)'
    BY <1>1, <1>2, <1>4, <1>8, StaysInHand
  <2>2. ASSUME NEW p \in Orders \cup {NoOrder}, p # o
        PROVE  SameFor(p) /\ ~ InHand(p) /\ (p \in interrupted => p \in interrupted')
    <3>1. \A t \in AutoTasks(p) : t \in TaskIds /\ t # u
      BY <1>4, <2>2 DEF AutoTasks, LiveTasks, IsOldest
    <3>2. SameFor(p)
      BY <1>1, <1>5, <1>6, <3>1 DEF SameFor, HalvesStay
    <3> QED
      BY <1>1, <2>2, <3>2 DEF InHand, AtWork
  <2> QED
    BY <1>4, <2>1, <2>2, SettledFrame DEF SerialInv
<1> QED
  BY <1>1, <1>2, <1>7, <1>9, <1>10, RequestConcludes

LEMMA DeleteTaskStep ==
    ASSUME TypeInv, SerialInv, NEW h \in Handlers, DeleteTask(h)
    PROVE  SerialInv'
<1> PICK u : u = handler[h].task
  OBVIOUS
<1>1. /\ AtWork(h) /\ handler[h].order = NoOrder /\ handler[h].pc = "deleteTask"
      /\ made' = made /\ task' = [task EXCEPT ![u].live = FALSE]
      /\ handler' = [handler EXCEPT ![h] = Idle]
      /\ UNCHANGED <<order, half, pay, follow, interrupted>>
  BY RequestAtWork DEF SerialInv, RequestsKnow, Knows, RequestStep, DeleteTask, At, Finish
<1>2. /\ u \in TaskIds /\ u <= made
  BY <1>1, TaskInHand DEF TaskSteps
<1>3. /\ \A t \in TaskIds : t # u => task'[t] = task[t]
      /\ \A t \in TaskIds : /\ task'[t].order = task[t].order
                            /\ task'[t].createdBy = task[t].createdBy
                            /\ task'[t].type = task[t].type
                            /\ task'[t].live => task[t].live
  <2>1. task \in [TaskIds -> TaskRow] /\ task[u] \in TaskRow
    BY <1>2 DEF TypeInv, TypeOK
  <2>2. \A t \in TaskIds : task'[t] = IF t = u THEN [task[u] EXCEPT !.live = FALSE] ELSE task[t]
    BY <1>1, <2>1
  <2>3. ~ task'[u].live
    BY <1>2, <2>1, <2>2 DEF TaskRow
  <2> QED
    BY <2>1, <2>2, <2>3 DEF TaskRow
<1>4. /\ LiveTasks' \subseteq LiveTasks /\ \A t \in LiveTasks : t \in TaskIds
      /\ \A p \in Orders \cup {NoOrder} : AutoTasks(p)' \subseteq AutoTasks(p)
  BY <1>1, <1>3 DEF LiveTasks, AutoTasks
<1>5. Blank' /\ Foremost'
  <2>1. Blank'
    BY <1>1, <1>2, <1>3, ConstantsOK DEF SerialInv, Blank, TypeInv, TypeOK, TaskIds
  <2>2. ASSUME NEW t \in LiveTasks', task'[t].createdBy = "AUTO",
               task'[t].type # "TWO_MTFU" \/ ~ BothHalves(t)'
        PROVE  IsOldest(t, AutoTasks(task[t].order))'
    <3>1. IsOldest(t, AutoTasks(task[t].order)) /\ t \in TaskIds
      BY <1>1, <1>3, <1>4, <2>2 DEF SerialInv, Foremost, BothHalves
    <3>2. task[t].order \in Orders \cup {NoOrder} /\ task'[t].order = task[t].order
      <4>1. task[t] \in TaskRow
        BY <3>1 DEF TypeInv, TypeOK
      <4>2. t \in TaskIds
        BY <3>1
      <4>3. task'[t].order = task[t].order
        BY <1>3, <4>2
      <4> QED
        BY <4>1, <4>3, OrderOfRow
    <3>3. t \in AutoTasks(task[t].order)'
      BY <2>2 DEF AutoTasks
    <3> PICK p : p = task[t].order
      OBVIOUS
    <3> QED
      BY <1>4, <3>1, <3>2, <3>3 DEF IsOldest
  <2> QED
    BY <2>1, <2>2 DEF Foremost
<1>6. \A p \in Orders \cup {NoOrder} : SameFor(p) /\ ~ InHand(p)
  BY <1>1, <1>3, <1>4, ConstantsOK DEF InHand, AtWork, SameFor, BothHalves, AutoTasks
<1>7. Whole(NoOrder)'
  BY <1>6, SameIsWhole, ConstantsOK DEF SerialInv, Settled, TypeInv, TypeOK
<1>8. Settled'
  BY <1>1, <1>6, <1>7, SettledFrame DEF SerialInv
<1>9. Knows(Idle)'
  BY DEF Knows, Idle, OrderSteps
<1> QED
  BY <1>1, <1>5, <1>8, <1>9, RequestConcludes

----------------------------------------------------------------------------
(***************************************************************************)
(* The steps of the jobs, and time.  No request is in flight meanwhile.    *)
(***************************************************************************)
LEMMA NobodyKnows ==
    ASSUME handler' = handler, Busy = {}
    PROVE  RequestsKnow' /\ Busy' = {}
BY DEF RequestsKnow, Knows, Busy, OrderSteps

\* Neither the tables nor the clock change.
LEMMA TablesStandStill ==
    ASSUME TypeInv, SerialInv, UNCHANGED <<order, task, half, made, interrupted, handler>>,
           Alone', JobKnows'
    PROVE  SerialInv'
<1>1. Busy' = Busy /\ (\A t : BothHalves(t)' = BothHalves(t)) /\ HalvesStay
  BY NoHalfTouched DEF Busy, BothHalves
<1>2. Blank' /\ Foremost' /\ \A o \in Orders \cup {NoOrder} : AutoTasks(o)' = AutoTasks(o)
  BY <1>1, TasksStandStill DEF SerialInv
<1>3. Settled'
  BY <1>1, <1>2 DEF SerialInv, Settled, Whole, AgreeOn, InHand
<1>4. RequestsKnow'
  <2> SUFFICES ASSUME NEW h \in Handlers PROVE Knows(handler[h])'
    BY DEF RequestsKnow
  <2> PICK r : r = handler[h]
    OBVIOUS
  <2>1. Knows(r) /\ r \in HandlerState
    BY DEF SerialInv, RequestsKnow, TypeInv, TypeOK
  <2>2. AutoTasks(r.order)' = AutoTasks(r.order)
    BY <1>2, <2>1 DEF HandlerState
  <2>3. RecordKnows(r) => RecordKnows(r)'
    BY <1>1, <2>2 DEF RecordKnows, IsOldest
  <2>4. Knows(r)'
    BY <2>1, <2>3 DEF Knows
  <2> QED
    BY <2>4
<1> QED
  BY <1>2, <1>3, <1>4 DEF SerialInv

LEMMA StartPaymentsStep ==
    ASSUME Serial, TypeInv, SerialInv, StartPayments
    PROVE  SerialInv'
<1>1. AtRest /\ UNCHANGED <<order, task, half, made, interrupted, handler, follow>>
      /\ pay' = Turn(Listed, Pass)
  BY StartsAtRest DEF StartPayments
<1>2. pay'.pc = "scan" /\ pay'.todo = Listed
  BY <1>1 DEF Turn, Pass
<1>3. Alone'
  BY <1>1, <1>2 DEF Alone, AtRest, Busy
<1>4. JobKnows'
  BY <1>1, <1>2 DEF JobKnows, Listed
<1> QED
  BY <1>1, <1>3, <1>4, TablesStandStill

LEMMA ReadTaskStep ==
    ASSUME TypeInv, SerialInv, NEW s \in pay.todo, ReadTask(s)
    PROVE  SerialInv'
<1>1. /\ Busy = {} /\ follow.pc = "idle" /\ s \in Listed /\ pay.todo \subseteq Listed
      /\ UNCHANGED <<order, task, half, made, interrupted, handler, follow>>
  BY DEF ReadTask, SerialInv, Alone, JobKnows
<1>2. /\ s.order \in Orders /\ order[s.order].status = s.status /\ order[s.order].date = s.date
      /\ s.status \in Dunning
  BY <1>1 DEF Listed
<1>3. /\ pay'.todo \subseteq pay.todo
      /\ pay'.pc = "advance" => \E t \in AutoTasks(s.order) :
           /\ Decided(s, t) /\ pay'.task = t /\ pay'.type = task[t].type /\ s.status = task[t].type
  <2>1. pay' = Turn(pay.todo \ {s}, Pass)
          => pay'.todo = pay.todo \ {s} /\ pay'.pc = "scan"
    BY DEF Turn, Pass
  <2>2. ASSUME NEW t \in TaskIds, pay' = Turn(pay.todo \ {s}, Decision(s, t))
        PROVE  /\ pay'.todo = pay.todo \ {s} /\ pay'.task = t /\ pay'.type = task[t].type
               /\ pay'.pc = "advance" => s.status = task[t].type
    BY <2>2 DEF Turn, Decision
  <2> QED
    BY <2>1, <2>2 DEF ReadTask, IsNewest
<1>4. Alone'
  BY <1>1 DEF Alone, Busy
<1>5. JobKnows'
  <2>1. Listed' = Listed
    BY <1>1 DEF Listed
  <2>2. ASSUME pay'.pc = "advance"
        PROVE  /\ task[pay'.task].order \in Orders
               /\ pay'.task \in AutoTasks(task[pay'.task].order)
               /\ pay'.type \in Dunning
               /\ task[pay'.task].type = pay'.type
               /\ order[task[pay'.task].order].status = pay'.type
               /\ order[task[pay'.task].order].date = "due"
               /\ EitherComplete(pay'.task)
    <3> PICK t \in AutoTasks(s.order) :
          /\ Decided(s, t) /\ pay'.task = t /\ pay'.type = task[t].type /\ s.status = task[t].type
      BY <1>3, <2>2
    <3>1. task[t].order = s.order
      BY DEF AutoTasks
    <3> QED
      BY <1>2, <3>1 DEF Decided
  <2>3. /\ \A o \in Orders : AutoTasks(o)' = AutoTasks(o)
        /\ \A t : EitherComplete(t)' = EitherComplete(t)
    BY <1>1, TasksStandStill DEF EitherComplete
  <2> PICK u : u = pay'.task
    OBVIOUS
  <2> QED
    BY <1>1, <1>3, <2>1, <2>2, <2>3 DEF JobKnows
<1> QED
  BY <1>1, <1>4, <1>5, TablesStandStill

LEMMA JobGoesOn ==
    ASSUME JobKnows, pay.pc # "idle", BackToScan, order' = order
    PROVE  JobKnows'
<1>1. pay'.pc = "scan" /\ pay'.todo = pay.todo
  BY DEF BackToScan, Turn, Pass
<1>2. Listed' = Listed
  BY DEF Listed
<1> QED
  BY <1>1, <1>2 DEF JobKnows

LEMMA ReopenedHalves ==
    ASSUME TypeInv, NEW t \in TaskIds, t <= made,
           half' = [half EXCEPT ![t] = [side \in Sides |-> Reopened(half[t][side])]]
    PROVE  /\ HalvesStay /\ BothHalves(t)'
           /\ \A side \in Sides : half'[t][side].status = "ACTIVE"
<1> PICK both : both = [side \in Sides |-> Reopened(half[t][side])]
  OBVIOUS
<1>1. /\ both \in [Sides -> HalfRow] /\ \A side \in Sides : both[side].status = "ACTIVE"
  BY HalfStatuses DEF TypeInv, TypeOK
<1>2. half' = [half EXCEPT ![t] = both]
  OBVIOUS
<1>3. HalvesStay /\ BothHalves(t)' /\ half'[t] = both
  BY <1>1, <1>2, BothHalvesStay
<1> QED
  BY <1>1, <1>3

LEMMA AdvanceTaskStep ==
    ASSUME TypeInv, SerialInv, AdvanceTask
    PROVE  SerialInv'
<1> PICK u, o, type :
      u = pay.task /\ o = task[u].order /\ type = newTaskTypeHelper(pay.type)
  OBVIOUS
<1>1. /\ pay.pc = "advance" /\ Busy = {} /\ follow.pc = "idle" /\ BackToScan
      /\ UNCHANGED <<order, made, handler, follow, interrupted>>
  BY DEF AdvanceTask, SerialInv, Alone
<1>2. Alone' /\ JobKnows' /\ RequestsKnow' /\ Busy' = {}
  BY <1>1, JobGoesOn, NobodyKnows DEF SerialInv, Alone
<1>3. CASE ~ BothHalves(u)
  <2>1. UNCHANGED <<task, half>>
    BY <1>3 DEF AdvanceTask
  <2> QED
    BY <1>1, <1>2, <2>1, TablesStandStill
<1>4. CASE BothHalves(u)
  <2>1. /\ task' = [task EXCEPT ![u].type = type]
        /\ half' = [half EXCEPT ![u] = [side \in Sides |-> Reopened(half[u][side])]]
    BY <1>4 DEF AdvanceTask
  <2>2. /\ o \in Orders /\ u \in AutoTasks(o) /\ pay.type \in Dunning
        /\ task[u].type = pay.type /\ order[o].status = pay.type
    BY <1>1 DEF SerialInv, JobKnows
  <2>3. u \in LiveTasks /\ u \in TaskIds /\ u <= made /\ task[u].createdBy = "AUTO"
    BY <2>2 DEF AutoTasks, LiveTasks
  <2>4. IsOldest(u, AutoTasks(o))
    BY <2>2, <2>3 DEF SerialInv, Foremost, Dunning
  <2>5. HalvesStay
    BY <2>1, <2>3, ReopenedHalves
  <2>6. type \in TaskTypes
    BY HelperTypes
  <2>7. /\ task'[u].type = type /\ \A t \in TaskIds : t # u => task'[t] = task[t]
        /\ \A p \in Orders \cup {NoOrder} : AutoTasks(p)' = AutoTasks(p)
    BY <1>1, <2>1, <2>3, <2>6, RowRetyped
  <2>8. Blank' /\ Foremost'
    BY <1>1, <2>1, <2>2, <2>3, <2>4, <2>5, <2>6, RetypedForemost DEF SerialInv
  <2>9. \A t \in TaskIds : BothHalves(t) => BothHalves(t)'
    BY <2>5 DEF HalvesStay
  <2>10. ASSUME NEW p \in Orders \cup {NoOrder}, p # o
         PROVE  SameFor(p) /\ ~ InHand(p)
    <3>1. \A t \in AutoTasks(p) : t \in TaskIds /\ t # u
      BY <2>2, <2>10 DEF AutoTasks, LiveTasks
    <3> QED
      BY <1>1, <2>7, <2>9, <3>1 DEF SameFor, InHand
  <2>11. o \in interrupted' \/ Whole(o)' \/ InHand(o)'
    <3> SUFFICES ASSUME Whole(o) PROVE Whole(o)'
      BY <1>1, <2>2 DEF SerialInv, Settled, InHand
    <3>1. \A t \in AutoTasks(o) : t \in TaskIds /\ BothHalves(t)'
      BY <2>9 DEF Whole, AutoTasks, LiveTasks
    <3>2. AgreeOn(o) /\ type = newTaskTypeHelper(order[o].status)
      BY <2>2 DEF Whole
    <3>3. AgreeOn(o)'
      BY <1>1, <2>2, <2>7, <3>1, <3>2 DEF AgreeOn
    <3> QED
      BY <2>2, <2>7, <3>1, <3>3 DEF Whole
  <2>12. Settled'
    BY <1>1, <2>2, <2>10, <2>11, SettledFrame DEF SerialInv
  <2> QED
    BY <1>2, <2>8, <2>12 DEF SerialInv
<1> QED
  BY <1>3, <1>4

LEMMA ResetTaskStep ==
    ASSUME TypeInv, SerialInv, ResetTask
    PROVE  SerialInv'
<1> PICK u : u = pay.task
  OBVIOUS
<1>1. /\ pay.pc = "reset" /\ Busy = {} /\ follow.pc = "idle" /\ BackToScan
      /\ UNCHANGED <<order, task, made, handler, follow, interrupted>>
      /\ \/ half' = half
         \/ half' = [half EXCEPT ![u] = [side \in Sides |-> Reopened(half[u][side])]]
  BY DEF ResetTask, SerialInv, Alone
<1>2. Alone' /\ JobKnows' /\ RequestsKnow'
  BY <1>1, JobGoesOn, NobodyKnows DEF SerialInv, Alone
<1>3. u \in TaskIds /\ u <= made
  BY <1>1 DEF TypeInv, JobInStep
<1>4. HalvesStay
  BY <1>1, <1>3, ReopenedHalves, NoHalfTouched
<1>5. Blank' /\ Foremost'
  BY <1>1, <1>4, TasksStandStill DEF SerialInv
<1>6. Settled'
  <2>1. \A p \in Orders \cup {NoOrder} : SameFor(p)
    BY <1>1, <1>4, TasksStandStill
  <2> QED
    BY <1>1, <2>1, SameIsWhole DEF SerialInv, Settled, InHand
<1> QED
  BY <1>2, <1>5, <1>6 DEF SerialInv

\* The steps that only end a job, or begin or continue checkOrders.
LEMMA JobsTurn ==
    ASSUME Serial, TypeInv, SerialInv,
           EndPayments \/ StartOrders \/ (\E c \in Clients : CheckClient(c)) \/ EndOrders
    PROVE  SerialInv'
<1>1. UNCHANGED <<order, task, half, made, interrupted, handler>> /\ Busy' = Busy
  BY DEF EndPayments, StartOrders, CheckClient, EndOrders, Busy
<1>2. CASE EndPayments
  <2>1. pay'.pc = "idle" /\ Busy = {} /\ follow' = follow
    BY <1>2 DEF EndPayments, NoPay, SerialInv, Alone
  <2> QED
    BY <1>1, <2>1, TablesStandStill DEF Alone, JobKnows, SerialInv
<1>3. CASE StartOrders
  <2>1. AtRest /\ pay' = pay
    BY <1>3, StartsAtRest DEF StartOrders
  <2> QED
    BY <1>1, <2>1, TablesStandStill DEF Alone, AtRest, JobKnows
<1>4. CASE (\E c \in Clients : CheckClient(c)) \/ EndOrders
  <2>1. pay' = pay /\ pay.pc = "idle" /\ Busy = {}
    BY <1>4 DEF CheckClient, EndOrders, SerialInv, Alone
  <2> QED
    BY <1>1, <2>1, TablesStandStill DEF Alone, JobKnows
<1> QED
  BY <1>2, <1>3, <1>4

LEMMA CreateFollowUpStep ==
    ASSUME TypeInv, SerialInv, CreateFollowUp
    PROVE  SerialInv'
<1> PICK o, n, row, both :
      /\ o = follow.order /\ n = made + 1 /\ both = [side \in Sides |-> NewHalf]
      /\ row = [order |-> o, type |-> "TWO_MTFU", createdBy |-> "AUTO",
                owner |-> "SELLER", live |-> TRUE]
  OBVIOUS
<1>1. /\ AddTask(row) /\ half' = [half EXCEPT ![n] = both]
      /\ pay.pc = "idle" /\ Busy = {} /\ follow.pc = "create"
      /\ UNCHANGED <<order, handler, pay, interrupted>>
  BY DEF CreateFollowUp, SerialInv, Alone
<1>2. /\ row \in TaskRow /\ row.live /\ row.createdBy = "AUTO" /\ row.type = "TWO_MTFU"
      /\ row.order = o /\ o \in Orders \cup {NoOrder}
  BY DEF TypeInv, TypeOK, TaskRow, TaskTypes, UserRoles
<1> HIDE DEF AddTask
<1>3. /\ n \in TaskIds /\ task'[n] = row /\ \A t \in TaskIds : t # n => task'[t] = task[t]
      /\ \A t \in LiveTasks : t < n
      /\ AutoTasks(o)' = AutoTasks(o) \cup {n}
  BY <1>1, <1>2, RowAdded
<1>4. /\ \A t \in TaskIds : t # n => half'[t] = half[t]
      /\ BothHalves(n)'
  <2>1. half \in [TaskIds -> [Sides -> HalfRow]]
    BY DEF TypeInv, TypeOK
  <2>2. \A t \in TaskIds : half'[t] = IF t = n THEN both ELSE half[t]
    BY <1>1, <2>1
  <2>3. \A side \in Sides : both[side].status # "NONE"
    BY DEF NewHalf
  <2> QED
    BY <1>3, <2>2, <2>3 DEF BothHalves
<1>5. Blank' /\ Foremost'
  BY <1>1, <1>2, <1>4, AddedForemost DEF SerialInv
<1>6. ASSUME NEW p \in Orders \cup {NoOrder}, p # o
      PROVE  SameFor(p) /\ ~ InHand(p)
  <2>1. SameFor(p)
    BY <1>1, <1>2, <1>4, <1>6, AddedSame
  <2> QED
    BY <1>1, <2>1 DEF InHand
<1>7. o \in interrupted' \/ Whole(o)' \/ InHand(o)'
  <2> SUFFICES ASSUME Whole(o) PROVE Whole(o)'
    BY <1>1, <1>2 DEF SerialInv, Settled, InHand
  <2>1. \A t \in AutoTasks(o) : t \in TaskIds /\ t # n
    BY <1>3, ConstantsOK DEF AutoTasks, LiveTasks, TaskIds
  <2>2. \A t \in AutoTasks(o) : task'[t] = task[t] /\ BothHalves(t)'
    BY <1>3, <1>4, <2>1 DEF Whole, BothHalves
  <2>3. \A t \in AutoTasks(o)' : BothHalves(t)'
    BY <1>3, <1>4, <2>2
  <2>4. o \in Orders => AgreeOn(o)'
    BY <1>1, <1>2, <1>3, <2>2 DEF Whole, AgreeOn
  <2> QED
    BY <2>3, <2>4 DEF Whole
<1>8. Settled'
  BY <1>1, <1>2, <1>6, <1>7, SettledFrame DEF SerialInv
<1>9. Alone' /\ JobKnows' /\ RequestsKnow'
  BY <1>1, NobodyKnows DEF Alone, JobKnows
<1> QED
  BY <1>5, <1>8, <1>9 DEF SerialInv

LEMMA EightDaysPassStep ==
    ASSUME Serial, TypeInv, SerialInv, NEW o \in Orders, EightDaysPass(o)
    PROVE  SerialInv'
<1>1. /\ AtRest /\ order' = [order EXCEPT ![o].date = "due"]
      /\ UNCHANGED <<task, half, made, interrupted, handler, pay, follow>>
  BY StartsAtRest DEF EightDaysPass, Serial
<1>2. /\ \A p \in Orders : p # o => order'[p] = order[p]
      /\ order'[o].date = "due" /\ order'[o].status = order[o].status
      /\ order'[o].paid = order[o].paid
  <2>1. order \in [Orders -> OrderRow] /\ order[o] \in OrderRow
    BY DEF TypeInv, TypeOK
  <2>2. order'[o] = [order[o] EXCEPT !.date = "due"] /\ \A p \in Orders : p # o => order'[p] = order[p]
    BY <1>1, <2>1
  <2> QED
    BY <2>1, <2>2 DEF OrderRow
<1>3. HalvesStay /\ \A t : BothHalves(t)' = BothHalves(t)
  BY <1>1, NoHalfTouched DEF BothHalves
<1>4. /\ Blank' /\ Foremost' /\ AutoTasks(o)' = AutoTasks(o)
      /\ \A p \in Orders \cup {NoOrder} : p # o => SameFor(p)
  BY <1>1, <1>2, <1>3, TasksStandStill DEF SerialInv
<1>5. o \in interrupted' \/ Whole(o)'
  <2> SUFFICES ASSUME Whole(o) PROVE Whole(o)'
    BY <1>1 DEF SerialInv, Settled, InHand, AtRest
  <2>1. AgreeOn(o)'
    BY <1>1, <1>2, <1>4 DEF Whole, AgreeOn
  <2> QED
    BY <1>3, <1>4, <2>1 DEF Whole
<1>6. Settled'
  BY <1>1, <1>4, <1>5, SettledFrame DEF SerialInv, InHand, AtRest
<1>7. Alone' /\ JobKnows' /\ RequestsKnow'
  BY <1>1, NobodyKnows DEF Alone, JobKnows, AtRest
<1> QED
  BY <1>4, <1>6, <1>7 DEF SerialInv

LEMMA TwoMonthsPassStep ==
    ASSUME Serial, TypeInv, SerialInv, NEW c \in Clients, TwoMonthsPass(c)
    PROVE  SerialInv'
<1>1. AtRest /\ UNCHANGED <<order, task, half, made, interrupted, handler, pay, follow>>
  BY StartsAtRest DEF TwoMonthsPass, Serial
<1>2. Alone' /\ JobKnows'
  BY <1>1, NobodyKnows DEF Alone, JobKnows, AtRest
<1> QED
  BY <1>1, <1>2, TablesStandStill

LEMMA RestartStep ==
    ASSUME TypeInv, SerialInv, Restart
    PROVE  SerialInv'
<1>1. /\ handler' = [h \in Handlers |-> Idle] /\ pay' = NoPay /\ follow' = NoFollow
      /\ interrupted' = interrupted \cup {o \in Orders : \E h \in Busy : handler[h].order = o}
      /\ UNCHANGED <<order, task, half, made>>
  BY DEF Restart, tables
<1>2. \A h \in Handlers : handler'[h].pc = "idle"
  BY <1>1 DEF Idle
<1>3. Alone' /\ JobKnows' /\ RequestsKnow'
  <2>1. Busy' = {} /\ pay'.pc = "idle" /\ follow'.pc = "idle"
    BY <1>1, <1>2 DEF Busy, NoPay, NoFollow
  <2> QED
    BY <1>2, <2>1 DEF Alone, JobKnows, RequestsKnow, Knows, OrderSteps
<1>4. /\ Blank' /\ Foremost'
      /\ \A p \in Orders \cup {NoOrder} : SameFor(p)
  BY <1>1, NoHalfTouched, TasksStandStill DEF SerialInv
<1>5. Settled'
  BY <1>1, <1>4, SameIsWhole DEF SerialInv, Settled, InHand
<1> QED
  BY <1>3, <1>4, <1>5 DEF SerialInv

LEMMA IdleStep ==
    ASSUME TypeInv, SerialInv, UNCHANGED vars
    PROVE  SerialInv'
<1>1. UNCHANGED <<order, task, half, made, interrupted, handler, pay, follow>>
  BY DEF vars
<1>2. Alone' /\ JobKnows'
  BY <1>1 DEF SerialInv, Alone, Busy, JobKnows, Listed, AutoTasks, LiveTasks, EitherComplete
<1> QED
  BY <1>1, <1>2, TablesStandStill

----------------------------------------------------------------------------
(***************************************************************************)
(* The invariant of the serial behaviours.                                 *)
(***************************************************************************)
LEMMA SerialInvInit == Init => SerialInv
<1> SUFFICES ASSUME Init PROVE SerialInv
  OBVIOUS
<1>1. LiveTasks = {} /\ Busy = {} /\ \A o : AutoTasks(o) = {}
  BY ConstantsOK DEF Init, LiveTasks, AutoTasks, Busy, Idle, TaskIds
<1>2. Alone /\ JobKnows
  BY <1>1 DEF Init, Alone, NoPay, NoFollow, JobKnows
<1>3. Blank /\ Foremost
  BY <1>1 DEF Init, Blank, Foremost
<1>4. Settled
  <2>1. \A o \in Orders : order[o].status = "NEW"
    BY DEF Init
  <2> QED
    BY <1>1, <2>1 DEF Settled, Whole, AgreeOn, Dunning
<1>5. RequestsKnow
  BY DEF Init, RequestsKnow, Knows, Idle, OrderSteps
<1> QED
  BY <1>2, <1>3, <1>4, <1>5 DEF SerialInv

LEMMA SerialInvStep ==
    ASSUME Serial, TypeInv, SerialInv, [Next]_vars
    PROVE  SerialInv'
<1>1. ASSUME NEW h \in Handlers, NewRequest(h) PROVE SerialInv'
  <2> PICK role \in Roles :
        \/ \E o \in Orders, status \in Recorded : UpdateOrder(h, o, status, role)
        \/ \E o \in Orders : CreateTask(h, o, role)
        \/ \E t \in TaskIds :
             \/ EditTask(h, t, role)
             \/ \E status \in {"COMPLETED", "ACTIVE"} : CheckStatus(h, t, role, status)
             \/ CheckRemove(h, t, role)
    BY <1>1 DEF NewRequest
  <2>1. ASSUME NEW o \in Orders, NEW status \in Recorded, UpdateOrder(h, o, status, role)
        PROVE  SerialInv'
    BY <2>1, UpdateOrderStep
  <2>2. ASSUME NEW o \in Orders, CreateTask(h, o, role) PROVE SerialInv'
    BY <2>2, CreateTaskStep
  <2>3. ASSUME NEW t \in TaskIds,
               \/ EditTask(h, t, role)
               \/ \E status \in {"COMPLETED", "ACTIVE"} : CheckStatus(h, t, role, status)
               \/ CheckRemove(h, t, role)
        PROVE  SerialInv'
    BY <2>3, TaskRequestStarts
  <2> QED
    BY <2>1, <2>2, <2>3
<1>2. ASSUME NEW h \in Handlers, RequestStep(h) PROVE SerialInv'
  <2>1. CASE UpsertOwnHalf(h) \/ SetStatus(h) \/ DeleteHalf(h) \/ MarkHalf(h)
    BY <2>1, OwnHalfStep
  <2>2. CASE FindTask(h)
    BY <2>2, FindTaskStep
  <2>3. CASE StampPaid(h)
    BY <2>3, StampPaidStep
  <2>4. CASE CompleteTask(h)
    BY <2>4, CompleteTaskStep
  <2>5. CASE StampReminder(h)
    BY <2>5, StampReminderStep
  <2>6. CASE CreateReminder(h)
    BY <2>6, CreateReminderStep
  <2>7. CASE RetypeReminder(h)
    BY <2>7, RetypeReminderStep
  <2>8. CASE UpsertAccountant(h)
    BY <2>8, UpsertAccountantStep
  <2>9. CASE UpsertSeller(h)
    BY <2>9, UpsertSellerStep
  <2>10. CASE DeleteTask(h)
    BY <2>10, DeleteTaskStep
  <2> QED
    BY <1>2, <2>1, <2>2, <2>3, <2>4, <2>5, <2>6, <2>7, <2>8, <2>9, <2>10 DEF RequestStep
<1>3. ASSUME NEW h \in Handlers, FailRequest(h) PROVE SerialInv'
  BY <1>3, FailRequestStep
<1>4. CASE StartPayments
  BY <1>4, StartPaymentsStep
<1>5. CASE PayStep
  <2>1. ASSUME NEW s \in pay.todo, ReadTask(s) PROVE SerialInv'
    BY <2>1, ReadTaskStep
  <2> QED
    BY <1>5, <2>1, AdvanceTaskStep, ResetTaskStep, JobsTurn DEF PayStep
<1>6. CASE StartOrders \/ FollowStep
  BY <1>6, JobsTurn, CreateFollowUpStep DEF FollowStep
<1>7. CASE TimePasses
  BY <1>7, EightDaysPassStep, TwoMonthsPassStep DEF TimePasses
<1>8. CASE Restart
  BY <1>8, RestartStep
<1>9. CASE UNCHANGED vars
  BY <1>9, IdleStep
<1> QED
  BY <1>1, <1>2, <1>3, <1>4, <1>5, <1>6, <1>7, <1>8, <1>9 DEF Next

LEMMA SerialInvAlways ==
    ASSUME Serial
    PROVE  Spec => []SerialInv
<1>1. Init => SerialInv
  BY SerialInvInit
<1>2. TypeInv /\ SerialInv /\ [Next]_vars => SerialInv'
  BY SerialInvStep
<1> QED
  BY <1>1, <1>2, AlwaysTyped, PTL DEF Spec

(***************************************************************************)
(* OneReminder: as long as requests and jobs do not overlap, an order has  *)
(* at most one live reminder.                                              *)
(***************************************************************************)
THEOREM RemindersAreSingle ==
    ASSUME Serial
    PROVE  Spec => []OneReminder
<1>1. TypeInv /\ SerialInv => OneReminder
  <2> SUFFICES ASSUME TypeInv, SerialInv, NEW t \in TaskIds, NEW u \in TaskIds,
                      Reminder(t), Reminder(u), task[t].order = task[u].order
               PROVE  t = u
    BY DEF OneReminder
  <2> PICK o : o = task[t].order
    OBVIOUS
  <2>1. IsOldest(t, AutoTasks(o)) /\ IsOldest(u, AutoTasks(o))
    BY DEF SerialInv, Foremost, Reminder
  <2>2. t <= u /\ u <= t
    BY <2>1 DEF IsOldest
  <2> QED
    BY <2>2, ConstantsOK DEF TaskIds
<1> QED
  BY <1>1, SerialInvAlways, AlwaysTyped, PTL

(***************************************************************************)
(* RecordsAgree: as long as requests and jobs do not overlap, between two  *)
(* of them what was recorded on an order and its reminder agree.           *)
(***************************************************************************)
THEOREM SerialRecordsAgree ==
    ASSUME Serial
    PROVE  Spec => []RecordsAgree
<1>1. SerialInv => RecordsAgree
  <2> SUFFICES ASSUME SerialInv, InFlight = 0, NEW o \in Orders \ interrupted
               PROVE  /\ order[o].status = "PAID" => order[o].paid
                      /\ order[o].status \in Dunning =>
                           /\ ~ order[o].paid /\ order[o].date # "none"
                           /\ \A t \in AutoTasks(o) : Reminder(t) =>
                                task[t].type \in {order[o].status,
                                                  newTaskTypeHelper(order[o].status)}
    BY DEF RecordsAgree
  <2>1. AtRest
    BY StartsAtRest DEF Serial
  <2>2. AgreeOn(o)
    BY <2>1 DEF SerialInv, Settled, Whole, InHand, AtRest
  <2> QED
    BY <2>2 DEF AgreeOn, Reminder
<1> QED
  BY <1>1, SerialInvAlways, PTL

(***************************************************************************)
(* HalvesArePaired: as long as requests and jobs do not overlap, a task of *)
(* an order lacks a half only while the request that made it is under way, *)
(* or until the update of the order that was cut off is repeated.          *)
(***************************************************************************)
THEOREM SerialHalvesArePaired ==
    ASSUME Serial
    PROVE  Spec => []HalvesArePaired
<1>1. TypeInv /\ SerialInv => HalvesArePaired
  <2> SUFFICES ASSUME TypeInv, SerialInv, NEW t \in LiveTasks, task[t].createdBy = "AUTO",
                      ~ BothHalves(t)
               PROVE  task[t].order \in interrupted \/ \E h \in Busy : handler[h].task = t
    BY DEF HalvesArePaired
  <2> PICK o : o = task[t].order
    OBVIOUS
  <2>1. t \in TaskIds /\ o \in Orders \cup {NoOrder} /\ t \in AutoTasks(o)
    BY DEF LiveTasks, AutoTasks, TypeInv, TypeOK, TaskRow
  <2>2. IsOldest(t, AutoTasks(o))
    BY DEF SerialInv, Foremost
  <2>3. CASE o \in interrupted \/ Whole(o)
    BY <2>1, <2>3 DEF Whole
  <2>4. CASE InHand(o)
    <3> PICK h \in Busy : handler[h].order = o
      BY <2>4 DEF InHand
    <3> PICK r : r = handler[h]
      OBVIOUS
    <3>1. r.pc # "idle" /\ o # NoOrder /\ Knows(r)
      BY <2>4, ConstantsOK DEF InHand, Busy, SerialInv, RequestsKnow
    <3>2. RecordKnows(r)
      BY <3>1 DEF Knows
    <3>3. CASE r.pc = "find"
      BY <2>1, <3>2, <3>3 DEF RecordKnows
    <3>4. CASE r.pc # "find"
      <4>1. r.task # 0 /\ IsOldest(r.task, AutoTasks(o))
        BY <2>1, <3>2, <3>4 DEF RecordKnows
      <4>2. r.task \in TaskIds /\ r.task <= t /\ t <= r.task
        BY <2>2, <4>1 DEF IsOldest, AutoTasks, LiveTasks
      <4>3. r.task = t
        BY <2>1, <4>2, ConstantsOK DEF TaskIds
      <4> QED
        BY <4>3
    <3> QED
      BY <3>3, <3>4
  <2> QED
    BY <2>1, <2>3, <2>4 DEF SerialInv, Settled
<1> QED
  BY <1>1, SerialInvAlways, AlwaysTyped, PTL

----------------------------------------------------------------------------
(***************************************************************************)
(* The ladder.  What each step does to each task, in the terms of          *)
(* PaymentReminders.                                                       *)
(***************************************************************************)
Aged(t) == task[t].order # NoOrder /\ order[task[t].order].date = "due"

SameType(t)   == task'[t].type = task[t].type
SameEarned(t) == EitherComplete(t)' <=> EitherComplete(t)
SameAge(t)    == Aged(t)' <=> Aged(t)

Recording(t) == ~ Aged(t) /\ task'[t].type \in Dunning /\ SameEarned(t) /\ SameAge(t)
Followed(t)  == task[t].type = "NONE" /\ task'[t].type = "TWO_MTFU" /\ SameEarned(t)
Climbed(t) ==
    /\ Aged(t) /\ EitherComplete(t) /\ ~ EitherComplete(t)'
    /\ task[t].type \in Dunning /\ task'[t].type = newTaskTypeHelper(task[t].type)
    /\ SameAge(t)

OnLadder(t) ==
    \/ Recording(t) \/ Followed(t) \/ Climbed(t)
    \/ SameType(t) /\ SameAge(t)
    \/ SameType(t) /\ SameEarned(t)


LEMMA LadderSteps == (\A t \in TaskIds : OnLadder(t)) => Ladder!Next
<1> SUFFICES ASSUME NEW t \in TaskIds, OnLadder(t)
             PROVE  \/ Ladder!Record(t) \/ Ladder!FollowUp(t) \/ Ladder!Work(t)
                    \/ Ladder!Clock(t) \/ Ladder!Climb(t)
  BY DEF Ladder!Next
<1> USE DEF SameType, SameEarned, SameAge, Aged, EitherComplete, Dunning
<1>1. SameType(t) /\ SameAge(t) => Ladder!Work(t)
  BY DEF Ladder!Work, Ladder!Keeps
<1>2. SameType(t) /\ SameEarned(t) => Ladder!Clock(t)
  BY DEF Ladder!Clock, Ladder!Keeps
<1>3. Recording(t) => Ladder!Record(t)
  BY DEF Recording, Ladder!Record, Ladder!Above, Ladder!Keeps
<1>4. Followed(t) => Ladder!FollowUp(t)
  BY DEF Followed, Ladder!FollowUp, Ladder!Keeps
<1>5. Climbed(t) => Ladder!Climb(t)
  <2>1. \A type \in Dunning : type \in DOMAIN Ladder!Above /\ Ladder!Above[type] = newTaskTypeHelper(type)
    BY DEF newTaskTypeHelper, Ladder!Above
  <2> QED
    BY <2>1 DEF Climbed, Ladder!Climb, Ladder!Keeps
<1> QED
  BY <1>1, <1>2, <1>3, <1>4, <1>5 DEF OnLadder

LEMMA LadderStarts == Init => Ladder!Init
<1> SUFFICES ASSUME Init, NEW t \in TaskIds
             PROVE  task[t].type = "NONE" /\ ~ EitherComplete(t) /\ ~ Aged(t)
  BY DEF Ladder!Init, EitherComplete, Aged
<1>1. task[t] = BlankTask
  BY DEF Init
<1>2. \A side \in Sides : half[t][side] = NoHalf
  BY DEF Init
<1> QED
  BY <1>1, <1>2 DEF BlankTask, NoHalf, EitherComplete, Aged

\* A step that changes neither the type of a task nor the clock of an order.
LEMMA NoRungChanges ==
    ASSUME TypeInv,
           \A t \in TaskIds : task'[t].type = task[t].type /\ task'[t].order = task[t].order,
           \A o \in Orders : order'[o].date = order[o].date
    PROVE  \A t \in TaskIds : OnLadder(t)
<1> SUFFICES ASSUME NEW t \in TaskIds PROVE SameType(t) /\ SameAge(t)
  BY DEF OnLadder
<1>1. task[t].order \in Orders \cup {NoOrder}
  BY DEF TypeInv, TypeOK, TaskRow
<1>2. SameAge(t)
  BY <1>1 DEF SameAge, Aged
<1> QED
  BY <1>2 DEF SameType

\* A step that changes only the clock of an order.
LEMMA OnlyClocksChange ==
    UNCHANGED <<task, half>> => \A t \in TaskIds : OnLadder(t)
BY DEF OnLadder, SameType, SameEarned, EitherComplete

\* What a step does to the tasks whose rows it does not write.
LEMMA OthersKeepTheirRung ==
    ASSUME NEW t \in TaskIds, task'[t] = task[t], half'[t] = half[t]
    PROVE  OnLadder(t)
BY DEF OnLadder, SameType, SameEarned, EitherComplete

\* A row that does not exist yet has no type, clock or completion.
LEMMA BlankRows ==
    ASSUME TypeInv, Blank, NEW n \in TaskIds, n = made + 1
    PROVE  task[n].type = "NONE" /\ ~ Aged(n) /\ ~ EitherComplete(n)
<1>1. n > made
  BY ConstantsOK DEF TypeInv, TypeOK, TaskIds
<1>2. task[n] = BlankTask /\ \A side \in Sides : half[n][side] = NoHalf
  BY <1>1 DEF Blank
<1> QED
  BY <1>2 DEF BlankTask, NoHalf, Aged, EitherComplete

LEMMA CreateTaskClimbs ==
    ASSUME TypeInv, SerialInv, NEW h \in Handlers, NEW o \in Orders, NEW role \in Roles,
           CreateTask(h, o, role)
    PROVE  \A t \in TaskIds : OnLadder(t)
<1> PICK n, row :
      /\ n = made + 1
      /\ row = [order |-> o, type |-> "NONE", createdBy |-> role, owner |-> role, live |-> TRUE]
  OBVIOUS
<1>1. AddTask(row) /\ half' = half
  BY DEF CreateTask
<1>2. row \in TaskRow /\ row.live /\ row.type = "NONE"
  BY ConstantsOK DEF TaskRow, TaskTypes, UserRoles
<1>3. n \in TaskIds /\ task'[n] = row /\ \A t \in TaskIds : t # n => task'[t] = task[t]
  BY <1>1, <1>2, RowAdded
<1>4. SameType(n) /\ SameEarned(n)
  BY <1>1, <1>2, <1>3, BlankRows DEF SerialInv, SameType, SameEarned, EitherComplete
<1> QED
  BY <1>1, <1>3, <1>4, OthersKeepTheirRung DEF OnLadder

LEMMA CreateReminderClimbs ==
    ASSUME TypeInv, SerialInv, NEW h \in Handlers, CreateReminder(h)
    PROVE  \A t \in TaskIds : OnLadder(t)
<1> PICK o, n, row :
      /\ o = handler[h].order /\ n = made + 1
      /\ row = [order |-> o, type |-> handler[h].arg, createdBy |-> "AUTO",
                owner |-> handler[h].role, live |-> TRUE]
  OBVIOUS
<1>1. /\ OnRecord(h, o) /\ handler[h].pc = "create" /\ handler[h] \in HandlerState
      /\ AddTask(row) /\ UNCHANGED <<order, half>>
  BY RequestAtWork, RecordingHandlers
  DEF SerialInv, RequestStep, CreateReminder, At, OrderSteps, TypeInv, TypeOK
<1>2. /\ row \in TaskRow /\ row.live /\ row.order = o /\ row.type \in Dunning
      /\ o \in Orders /\ order[o].date = "recent"
  BY <1>1 DEF TaskRow, OnRecord, RecordKnows, TaskTypes, HandlerState, Upserting
<1>3. n \in TaskIds /\ task'[n] = row /\ \A t \in TaskIds : t # n => task'[t] = task[t]
  BY <1>1, <1>2, RowAdded
<1>4. ~ Aged(n) /\ ~ EitherComplete(n)
  BY <1>3, BlankRows DEF SerialInv
<1>5. Recording(n)
  BY <1>1, <1>2, <1>3, <1>4 DEF Recording, SameEarned, SameAge, Aged, EitherComplete
<1> QED
  BY <1>1, <1>3, <1>5, OthersKeepTheirRung DEF OnLadder

LEMMA RetypeReminderClimbs ==
    ASSUME TypeInv, SerialInv, NEW h \in Handlers, RetypeReminder(h)
    PROVE  \A t \in TaskIds : OnLadder(t)
<1> PICK o, u, type : o = handler[h].order /\ u = handler[h].task /\ type = handler[h].arg
  OBVIOUS
<1>1. /\ OnRecord(h, o) /\ handler[h].pc = "retype"
      /\ made' = made /\ task' = [task EXCEPT ![u].type = type]
      /\ UNCHANGED <<order, half>>
  BY RequestAtWork, RecordingHandlers DEF SerialInv, RequestStep, RetypeReminder, At
<1>2. u \in TaskIds /\ u # 0
  BY <1>1, TaskInHand DEF TaskSteps
<1>3. /\ type \in Dunning /\ type \in TaskTypes /\ u \in AutoTasks(o) /\ order[o].date = "recent"
  BY <1>1, <1>2 DEF OnRecord, RecordKnows, Upserting, TaskTypes, IsOldest
<1>4. /\ task'[u].type = type /\ \A t \in TaskIds : t # u => task'[t] = task[t]
      /\ task'[u].order = task[u].order
  BY <1>1, <1>2, <1>3, RowRetyped
<1>5. task[u].order = o
  BY <1>3 DEF AutoTasks
<1>6. Recording(u)
  BY <1>1, <1>3, <1>4, <1>5 DEF Recording, SameEarned, SameAge, Aged, EitherComplete
<1> QED
  BY <1>1, <1>4, <1>6, OthersKeepTheirRung DEF OnLadder

LEMMA AdvanceTaskClimbs ==
    ASSUME TypeInv, SerialInv, AdvanceTask
    PROVE  \A t \in TaskIds : OnLadder(t)
<1> PICK u, type : u = pay.task /\ type = newTaskTypeHelper(pay.type)
  OBVIOUS
<1>1. pay.pc = "advance" /\ order' = order /\ made' = made
  BY DEF AdvanceTask
<1>2. CASE ~ BothHalves(u)
  <2>1. UNCHANGED <<task, half>>
    BY <1>2 DEF AdvanceTask
  <2> QED
    BY <2>1, OnlyClocksChange
<1>3. CASE BothHalves(u)
  <2>1. /\ task' = [task EXCEPT ![u].type = type]
        /\ half' = [half EXCEPT ![u] = [side \in Sides |-> Reopened(half[u][side])]]
    BY <1>3 DEF AdvanceTask
  <2>2. /\ task[u].order \in Orders /\ u \in AutoTasks(task[u].order)
        /\ pay.type \in Dunning /\ task[u].type = pay.type
        /\ order[task[u].order].date = "due" /\ EitherComplete(u)
    BY <1>1 DEF SerialInv, JobKnows
  <2>3. u \in TaskIds /\ u <= made
    BY <2>2 DEF AutoTasks, LiveTasks
  <2>4. type \in TaskTypes
    BY HelperTypes
  <2>5. /\ task'[u].type = type /\ \A t \in TaskIds : t # u => task'[t] = task[t]
        /\ task'[u].order = task[u].order
    BY <1>1, <2>1, <2>3, <2>4, RowRetyped
  <2>6. \A side \in Sides : half'[u][side].status = "ACTIVE"
    BY <2>1, <2>3, ReopenedHalves
  <2>7. \A t \in TaskIds : t # u => half'[t] = half[t]
    BY <2>1 DEF TypeInv, TypeOK
  <2>8. Aged(u) /\ SameAge(u)
    BY <1>1, <2>2, <2>5, ConstantsOK DEF SameAge, Aged
  <2>9. ~ EitherComplete(u)'
    BY <2>6 DEF EitherComplete
  <2>10. Climbed(u)
    BY <2>2, <2>5, <2>8, <2>9 DEF Climbed
  <2> QED
    BY <2>5, <2>7, <2>10, OthersKeepTheirRung DEF OnLadder
<1> QED
  BY <1>2, <1>3

LEMMA CreateFollowUpClimbs ==
    ASSUME TypeInv, SerialInv, CreateFollowUp
    PROVE  \A t \in TaskIds : OnLadder(t)
<1> PICK n, row, both :
      /\ n = made + 1 /\ both = [side \in Sides |-> NewHalf]
      /\ row = [order |-> follow.order, type |-> "TWO_MTFU", createdBy |-> "AUTO",
                owner |-> "SELLER", live |-> TRUE]
  OBVIOUS
<1>1. AddTask(row) /\ half' = [half EXCEPT ![n] = both]
  BY DEF CreateFollowUp
<1>2. row \in TaskRow /\ row.live /\ row.type = "TWO_MTFU"
  BY DEF TypeInv, TypeOK, TaskRow, TaskTypes, UserRoles
<1>3. n \in TaskIds /\ task'[n] = row /\ \A t \in TaskIds : t # n => task'[t] = task[t]
  BY <1>1, <1>2, RowAdded
<1>4. /\ \A t \in TaskIds : t # n => half'[t] = half[t]
      /\ half'[n] = both
  BY <1>1, <1>3 DEF TypeInv, TypeOK
<1>5. ~ EitherComplete(n)'
  BY <1>4 DEF EitherComplete, NewHalf
<1>6. Followed(n)
  BY <1>2, <1>3, <1>5, BlankRows DEF SerialInv, Followed, SameEarned
<1> QED
  BY <1>3, <1>4, <1>6, OthersKeepTheirRung DEF OnLadder

LEMMA DeleteTaskClimbs ==
    ASSUME TypeInv, NEW h \in Handlers, DeleteTask(h)
    PROVE  \A t \in TaskIds : OnLadder(t)
<1> PICK u : u = handler[h].task
  OBVIOUS
<1>1. order' = order /\ task' = [task EXCEPT ![u].live = FALSE]
  BY DEF DeleteTask
<1>2. task \in [TaskIds -> TaskRow]
  BY DEF TypeInv, TypeOK
<1>3. \A t \in TaskIds : \/ task'[t] = task[t]
                         \/ task'[t] = [task[t] EXCEPT !.live = FALSE]
  BY <1>1, <1>2
<1>4. \A t \in TaskIds : task'[t].type = task[t].type /\ task'[t].order = task[t].order
  BY <1>2, <1>3 DEF TaskRow
<1> QED
  BY <1>1, <1>4, NoRungChanges

LEMMA RecordingClimbs ==
    ASSUME TypeInv, NEW o, NEW row \in {[order[o] EXCEPT !.paid = TRUE]}
                                        \cup {[order[o] EXCEPT !.status = s] : s \in Recorded},
           order' = [order EXCEPT ![o] = row], task' = task
    PROVE  \A t \in TaskIds : OnLadder(t)
<1>1. order \in [Orders -> OrderRow]
  BY DEF TypeInv, TypeOK
<1>2. \A p \in Orders : order'[p].date = order[p].date
  BY <1>1 DEF OrderRow
<1> QED
  BY <1>2, NoRungChanges

LEMMA LadderStep ==
    ASSUME TypeInv, SerialInv, [Next]_vars
    PROVE  \A t \in TaskIds : OnLadder(t)
<1> DEFINE Goal == \A t \in TaskIds : OnLadder(t)
<1>1. UNCHANGED <<task, order>> => Goal
  BY NoRungChanges
<1>2. ASSUME NEW h \in Handlers, NewRequest(h) PROVE Goal
  <2>1. ASSUME NEW o \in Orders, NEW status \in Recorded, NEW role \in Roles,
               UpdateOrder(h, o, status, role)
        PROVE  Goal
    BY <2>1, RecordingClimbs DEF UpdateOrder
  <2>2. ASSUME NEW o \in Orders, NEW role \in Roles, CreateTask(h, o, role) PROVE Goal
    BY <2>2, CreateTaskClimbs
  <2> HIDE DEF Goal
  <2>3. ASSUME NEW role \in Roles, NEW t \in TaskIds,
               \/ EditTask(h, t, role)
               \/ \E status \in {"COMPLETED", "ACTIVE"} : CheckStatus(h, t, role, status)
               \/ CheckRemove(h, t, role)
        PROVE  Goal
    BY <1>1, <2>3 DEF EditTask, CheckStatus, CheckRemove
  <2> QED
    BY <1>2, <2>1, <2>2, <2>3 DEF NewRequest
<1>3. ASSUME NEW h \in Handlers, RequestStep(h) PROVE Goal
  <2>1. CASE StampPaid(h)
    BY <2>1, RecordingClimbs DEF StampPaid
  <2>2. CASE StampReminder(h)
    BY <2>2, OnlyClocksChange DEF StampReminder
  <2>3. CASE CreateReminder(h) \/ RetypeReminder(h) \/ DeleteTask(h)
    BY <2>3, CreateReminderClimbs, RetypeReminderClimbs, DeleteTaskClimbs
  <2> HIDE DEF Goal
  <2>4. CASE FindTask(h) \/ CompleteTask(h) \/ UpsertAccountant(h) \/ UpsertSeller(h)
             \/ UpsertOwnHalf(h) \/ SetStatus(h) \/ DeleteHalf(h) \/ MarkHalf(h)
    BY <1>1, <2>4 DEF FindTask, CompleteTask, UpsertAccountant, UpsertSeller, UpsertOwnHalf,
       SetStatus, DeleteHalf, MarkHalf
  <2> QED
    BY <1>3, <2>1, <2>2, <2>3, <2>4 DEF RequestStep
<1>4. ASSUME NEW o \in Orders, EightDaysPass(o) PROVE Goal
  BY <1>4, OnlyClocksChange DEF EightDaysPass
<1>5. ASSUME AdvanceTask \/ CreateFollowUp PROVE Goal
  BY <1>5, AdvanceTaskClimbs, CreateFollowUpClimbs
<1> HIDE DEF Goal
<1>6. ASSUME NEW h \in Handlers, FailRequest(h) PROVE Goal
  BY <1>1, <1>6 DEF FailRequest
<1>7. ASSUME StartPayments \/ (\E s \in pay.todo : ReadTask(s)) \/ ResetTask \/ EndPayments
      PROVE  Goal
  BY <1>1, <1>7 DEF StartPayments, ReadTask, ResetTask, EndPayments
<1>8. ASSUME StartOrders \/ (\E c \in Clients : CheckClient(c)) \/ EndOrders
      PROVE  Goal
  BY <1>1, <1>8 DEF StartOrders, CheckClient, EndOrders
<1>9. ASSUME (\E c \in Clients : TwoMonthsPass(c)) \/ Restart \/ UNCHANGED vars
      PROVE  Goal
  BY <1>1, <1>9 DEF TwoMonthsPass, Restart, tables, vars
<1>10. Goal
  BY <1>2, <1>3, <1>4, <1>5, <1>6, <1>7, <1>8, <1>9
  DEF Next, PayStep, FollowStep, TimePasses
<1> QED
  BY <1>10 DEF Goal

(***************************************************************************)
(* ClimbsTheLadder: as long as requests and jobs do not overlap, the       *)
(* reminders implement ReminderLadder: a task climbs one rung at a time,   *)
(* and only once it is completed and eight days are over.                  *)
(***************************************************************************)
THEOREM ImplementsTheLadder ==
    ASSUME Serial
    PROVE  Spec => ClimbsTheLadder
<1>1. Init => Ladder!Init
  BY LadderStarts
<1>2. TypeInv /\ SerialInv /\ [Next]_vars => [Ladder!Next]_Ladder!vars
  BY LadderStep, LadderSteps
<1> QED
  BY <1>1, <1>2, SerialInvAlways, AlwaysTyped, PTL DEF Spec, ClimbsTheLadder, Ladder!Spec
=============================================================================
