---------------------------- MODULE ReminderLadder ----------------------------
(***************************************************************************)
(* What the reminders promise: a task climbs from SENT_INVOICE over PR1    *)
(* and PR2 to UNPAID one rung at a time, each rung only after somebody     *)
(* completed the task and eight days went by since a payment status was    *)
(* recorded; otherwise its type changes only when a user records a status. *)
(* The tasks of one order share its clock, so a step may concern several.  *)
(***************************************************************************)
CONSTANT Tasks

VARIABLES
    rung,     \* the type of each task, NONE before it exists
    earned,   \* whether somebody completed it
    aged      \* whether its order's status was recorded eight days ago or more

vars == <<rung, earned, aged>>

Above == [SENT_INVOICE |-> "PR1", PR1 |-> "PR2", PR2 |-> "UNPAID"]

Init == \A t \in Tasks : rung[t] = "NONE" /\ ~ earned[t] /\ ~ aged[t]

Keeps(f, t) == f'[t] = f[t]

\* a user records a status, which has just restarted the eight days
Record(t) == ~ aged[t] /\ rung'[t] \in DOMAIN Above /\ Keeps(earned, t) /\ Keeps(aged, t)

\* the task begins as a two-month follow-up
FollowUp(t) == rung[t] = "NONE" /\ rung'[t] = "TWO_MTFU" /\ Keeps(earned, t)

\* the task is completed, reopened or removed; the clock restarts or runs out
Work(t)  == Keeps(rung, t) /\ Keeps(aged, t)
Clock(t) == Keeps(rung, t) /\ Keeps(earned, t)

Climb(t) ==
    /\ aged[t] /\ earned[t]
    /\ rung[t] \in DOMAIN Above /\ rung'[t] = Above[rung[t]]
    /\ ~ earned'[t]
    /\ Keeps(aged, t)

Next == \A t \in Tasks : Record(t) \/ FollowUp(t) \/ Work(t) \/ Clock(t) \/ Climb(t)

Spec == Init /\ [][Next]_vars
=============================================================================
