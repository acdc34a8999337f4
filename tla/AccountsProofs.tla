---------------------------- MODULE AccountsProofs ----------------------------
(***************************************************************************)
(* Proofs about Accounts, for every set of users, emails and request slots: *)
(* what users.service.ts and sellers.service.ts look at before they remove  *)
(* a user keeps every client with a live seller, but for those that came    *)
(* to the seller after the look.  One request at a time, a transferred      *)
(* seller is left empty, and alternate emails have one owner each.          *)
(***************************************************************************)
EXTENDS Accounts, TLAPS

Working == {"moveOrders", "moveClients", "moveAliases", "deleteSeller", "markSeller"}

\* a worker of a transfer has found its seller before it moves anything
WorkOK(w, rows) ==
    \A e \in DOMAIN w : /\ {"pc", "user"} \subseteq DOMAIN w[e]
                        /\ w[e].pc = "findSeller" => w[e].user \in rows \cup {NoUser}
                        /\ w[e].pc \in Working => w[e].user \in rows

Searching == {"idle", "findForCreate", "insertUser", "findTarget", "findNewSeller",
              "findOrderSeller", "findOrderAlias", "findOrderClient"}

\* what a request knows: past its search it holds a user there is
JobOK(r, rows) ==
    /\ "pc" \in DOMAIN r
    /\ r.pc # "idle" => {"op", "user"} \subseteq DOMAIN r
    /\ r.pc # "idle" /\ r.op \in OrderOps => "by" \in DOMAIN r /\ r.by \in rows \cup {NoUser}
    /\ r.pc \in {"findOrderSeller", "findOrderAlias", "findOrderClient", "mismatch"} => r.op \in OrderOps
    /\ r.pc \notin Searching => r.user \in rows
    /\ r.pc \in {"findOrderAlias", "findOrderClient"} => r.user \in rows \cup {NoUser}
    /\ r.pc \in {"findOrderSeller", "findOrderAlias", "findOrderClient"} => "owner" \in DOMAIN r
    /\ r.pc = "findOrderClient" => r.owner \in rows \cup {NoUser}
    /\ r.pc \in {"findTarget", "revive", "work"} => "work" \in DOMAIN r /\ WorkOK(r.work, rows)
    /\ r.pc \in {"findTarget", "revive"} => \A e \in DOMAIN r.work : r.work[e].pc = "findAlias"

UsersOK ==
    /\ user = [u \in Users |-> user[u]]
    /\ \A u \in Users : "life" \in DOMAIN user[u] /\ user[u].life \in {"none", "live", "deleted"}
    /\ \A a \in alias : "user" \in DOMAIN a /\ a.user \in UserRows

CustomerOK ==
    /\ customer \in [life : {"none", "live", "deleted"}, seller : Users \cup {NoUser}]
    /\ customer.life # "none" => customer.seller \in UserRows
    /\ \A j \in Jobs : job[j].pc = "reviveClient" => customer.life # "none"

JobsOK ==
    /\ job = [j \in Jobs |-> job[j]]
    /\ \A j \in Jobs : JobOK(job[j], UserRows)

\* a client whose seller may go has come too late
KeptOrStray == customer.life = "live" /\ ~stray => ~Leaving(customer.seller)

AccountsInv == UsersOK /\ CustomerOK /\ JobsOK /\ KeptOrStray

----------------------------------------------------------------------------
(* Steps of one request. *)

OnlyJob(j) == job' = [job EXCEPT ![j] = job'[j]]

\* what a request is and who makes it stay
Keeps(r, s) == DOMAIN s = DOMAIN r /\ s.op = r.op /\ ("by" \in DOMAIN r => s.by = r.by)

\* with the request a user goes
GoesWith(r, u) ==
    \/ r.pc = "deleteUser" /\ r.user = u
    \/ r.pc = "work" /\ \E e \in DOMAIN r.work :
          r.work[e].user = u /\ r.work[e].pc \in {"moveAliases", "deleteSeller"}

LEMMA LeavingIs ==
    \A u : Leaving(u) <=> user[u].life = "deleted" \/ \E j \in Jobs : GoesWith(job[j], u)
BY DEF Leaving, GoesWith

LEMMA Stepped ==
    ASSUME JobsOK, NEW j \in Jobs, NEW pc, job[j].pc # "idle", Step(j, pc)
    PROVE  /\ OnlyJob(j) /\ job'[j].pc = pc
           /\ Keeps(job[j], job'[j]) /\ job'[j].user = job[j].user
           /\ "work" \in DOMAIN job[j] => job'[j].work = job[j].work
           /\ "owner" \in DOMAIN job[j] => job'[j].owner = job[j].owner
<1>1. job'[j] = [job[j] EXCEPT !.pc = pc] /\ OnlyJob(j)
  BY DEF Step, JobsOK, OnlyJob
<1> QED
  BY <1>1 DEF JobsOK, JobOK, Keeps

LEMMA Finished ==
    ASSUME JobsOK, NEW j \in Jobs, Finish(j)
    PROVE  OnlyJob(j) /\ job'[j] = [pc |-> "idle"] /\ \A rows : JobOK(job'[j], rows)
BY DEF Finish, JobsOK, OnlyJob, Free, JobOK, Keeps, Searching

LEMMA Turned ==
    ASSUME JobsOK, NEW j \in Jobs, NEW e, job[j].pc = "work", e \in DOMAIN job[j].work,
           NEW pc, NEW u, Turn(j, e, pc, u)
    PROVE  /\ OnlyJob(j) /\ Keeps(job[j], job'[j])
           /\ job'[j].pc = "work" /\ job'[j].user = job[j].user
           /\ job'[j].work = [job[j].work EXCEPT ![e] = [pc |-> pc, user |-> u]]
<1>1. /\ job'[j] = [job[j] EXCEPT !.work[e] = [pc |-> pc, user |-> u]]
      /\ OnlyJob(j)
  BY DEF Turn, JobsOK, OnlyJob
<1> QED
  BY <1>1 DEF JobsOK, JobOK, Keeps, Searching

LEMMA TurnedOK ==
    ASSUME JobsOK, NEW j \in Jobs, NEW e, job[j].pc = "work", e \in DOMAIN job[j].work,
           NEW pc, NEW u, Turn(j, e, pc, u),
           pc = "findSeller" => u \in UserRows \cup {NoUser},
           pc \in Working => u \in UserRows
    PROVE  /\ JobOK(job'[j], UserRows)
           /\ \A v : GoesWith(job'[j], v) =>
                 GoesWith(job[j], v) \/ (v = u /\ pc \in {"moveAliases", "deleteSeller"})
<1>1. /\ Keeps(job[j], job'[j])
      /\ job'[j].pc = "work" /\ job'[j].user = job[j].user
      /\ job'[j].work = [job[j].work EXCEPT ![e] = [pc |-> pc, user |-> u]]
  BY Turned
<1>2. JobOK(job[j], UserRows)
  BY DEF JobsOK
<1>3. WorkOK(job[j].work, UserRows)
  BY <1>2 DEF JobOK, Keeps
<1>4. /\ DOMAIN job'[j].work = DOMAIN job[j].work
      /\ job'[j].work[e] = [pc |-> pc, user |-> u]
      /\ \A d \in DOMAIN job[j].work : d # e => job'[j].work[d] = job[j].work[d]
  BY <1>1
<1>5. WorkOK(job'[j].work, UserRows)
  BY <1>3, <1>4 DEF WorkOK
<1>6. JobOK(job'[j], UserRows)
  BY <1>1, <1>2, <1>5 DEF JobOK, Keeps, Searching
<1> QED
  BY <1>1, <1>4, <1>6 DEF GoesWith

LEMMA JobOKGrows ==
    ASSUME NEW r, NEW S, NEW T, S \subseteq T, JobOK(r, S)
    PROVE  JobOK(r, T)
BY DEF JobOK, Keeps, WorkOK

\* A step of one request keeps the invariant if the rows, the client and the request fit.
LEMMA OneJob ==
    ASSUME AccountsInv, NEW j \in Jobs, OnlyJob(j),
           UserRows \subseteq UserRows', JobOK(job'[j], UserRows'), UsersOK',
           customer' \in [life : {"none", "live", "deleted"}, seller : Users \cup {NoUser}],
           customer'.life # "none" => customer'.seller \in UserRows',
           customer.life # "none" => customer'.life # "none",
           job'[j].pc = "reviveClient" => customer'.life # "none",
           KeptOrStray'
    PROVE  AccountsInv'
<1>1. /\ job' = [i \in Jobs |-> job'[i]]
      /\ \A i \in Jobs : i # j => job'[i] = job[i]
  BY DEF OnlyJob, AccountsInv, JobsOK
<1>2. \A i \in Jobs : JobOK(job'[i], UserRows')
  <2> SUFFICES ASSUME NEW i \in Jobs, i # j PROVE JobOK(job[i], UserRows')
    BY <1>1
  <2>1. JobOK(job[i], UserRows)
    BY DEF AccountsInv, JobsOK
  <2> QED
    BY <2>1, JobOKGrows
<1>3. CustomerOK'
  BY <1>1 DEF AccountsInv, CustomerOK
<1> QED
  BY <1>1, <1>2, <1>3 DEF AccountsInv, JobsOK

\* ... and nobody starts to leave but with that request
LEMMA NobodyLeaves ==
    ASSUME AccountsInv, NEW j \in Jobs, OnlyJob(j), UNCHANGED <<customer, stray>>,
           \A u \in Users : user'[u].life = "deleted" => user[u].life = "deleted" \/ GoesWith(job[j], u),
           GoesWith(job'[j], customer.seller) =>
               \/ GoesWith(job[j], customer.seller) \/ user[customer.seller].life = "deleted"
               \/ customer.life # "live" \/ stray
    PROVE  KeptOrStray'
<1>1. \A i \in Jobs : i # j => job'[i] = job[i]
  BY DEF OnlyJob, AccountsInv, JobsOK
<1> SUFFICES ASSUME customer.life = "live", ~stray, Leaving(customer.seller)' PROVE FALSE
  BY DEF KeptOrStray
<1>2. ~Leaving(customer.seller) /\ customer.seller \in Users
  BY DEF AccountsInv, KeptOrStray, CustomerOK, UserRows
<1>3. /\ user[customer.seller].life # "deleted"
      /\ \A i \in Jobs : ~GoesWith(job[i], customer.seller)
  BY <1>2, LeavingIs
<1>4. user'[customer.seller].life = "deleted" \/ \E i \in Jobs : GoesWith(job'[i], customer.seller)
  BY DEF Leaving, GoesWith
<1>5. user'[customer.seller].life # "deleted"
  BY <1>2, <1>3
<1>6. \A i \in Jobs : ~GoesWith(job'[i], customer.seller)
  BY <1>1, <1>3
<1> QED
  BY <1>4, <1>5, <1>6

\* ... which is all there is to a step that reads
LEMMA Reading ==
    ASSUME AccountsInv, NEW j \in Jobs, OnlyJob(j), UNCHANGED <<user, alias, customer, stray>>,
           JobOK(job'[j], UserRows),
           \A u : GoesWith(job'[j], u) => GoesWith(job[j], u),
           job'[j].pc = "reviveClient" => customer.life # "none"
    PROVE  AccountsInv'
<1>1. UserRows' = UserRows /\ UsersOK'
  BY DEF UserRows, AccountsInv, UsersOK
<1>2. KeptOrStray'
  BY NobodyLeaves
<1> QED
  BY <1>1, <1>2, OneJob DEF AccountsInv, CustomerOK

LEMMA Ending ==
    ASSUME AccountsInv, NEW j \in Jobs, Finish(j), UNCHANGED <<user, alias, customer, stray>>
    PROVE  AccountsInv'
<1>1. /\ OnlyJob(j) /\ JobOK(job'[j], UserRows)
      /\ \A u : ~GoesWith(job'[j], u) /\ job'[j].pc # "reviveClient"
  BY Finished DEF AccountsInv, GoesWith
<1> QED
  BY <1>1, Reading

\* the steps at which a request knows its user
LEMMA GoingOn ==
    ASSUME AccountsInv, NEW j \in Jobs, NEW pc, Step(j, pc), job[j].pc \notin Searching,
           pc \notin {"idle", "findTarget", "revive", "work", "deleteUser",
                     "findOrderSeller", "findOrderAlias", "findOrderClient", "mismatch"}
    PROVE  /\ OnlyJob(j) /\ JobOK(job'[j], UserRows) /\ job'[j].pc = pc
           /\ \A u : ~GoesWith(job'[j], u)
<1>1. JobsOK /\ job[j].pc # "idle" /\ JobOK(job[j], UserRows)
  BY DEF AccountsInv, JobsOK, Searching
<1>2. /\ OnlyJob(j) /\ job'[j].pc = pc
      /\ Keeps(job[j], job'[j]) /\ job'[j].user = job[j].user
  BY <1>1, Stepped
<1>3. \A u : ~GoesWith(job'[j], u)
  BY <1>2 DEF GoesWith
<1>4. JobOK(job'[j], UserRows)
  BY <1>1, <1>2 DEF JobOK, Keeps
<1> QED
  BY <1>2, <1>3, <1>4

LEMMA UserFound ==
    ASSUME AccountsInv, NEW S \in SUBSET UserRows, NEW u \in First(S)
    PROVE  u \in UserRows \cup {NoUser} /\ (u # NoUser => u \in UserRows)
BY DEF First

LEMMA OwnerFound ==
    ASSUME AccountsInv, NEW A \in SUBSET alias, NEW u \in Owners(A)
    PROVE  u \in UserRows \cup {NoUser}
BY DEF Owners, First, AccountsInv, UsersOK

LEMMA NobodyIsNoRow == NoUser \notin Users /\ UserRows \subseteq Users
BY AccountsOK DEF NoUser, UserRows

----------------------------------------------------------------------------
(* The steps that read. *)

LEMMA ReadingUsers ==
    ASSUME AccountsInv, NEW j \in Jobs,
           FindForCreate(j) \/ CheckClients(j) \/ FindTarget(j) \/ EndTransfer(j) \/ ReadProfile(j)
    PROVE  AccountsInv'
<1>0. JobsOK /\ JobOK(job[j], UserRows)
  BY DEF AccountsInv, JobsOK
<1>1. CASE FindForCreate(j)
  <2>1. job[j].pc = "findForCreate" /\ UNCHANGED <<user, alias, customer, stray>>
    BY <1>1 DEF FindForCreate, tables, History
  <2>2. CASE Finish(j)
    BY <2>1, <2>2, Ending
  <2>3. CASE Step(j, "insertUser")
    <3>1. OnlyJob(j) /\ job'[j].pc = "insertUser" /\ Keeps(job[j], job'[j])
      BY <1>0, <2>1, <2>3, Stepped
    <3> QED
      BY <1>0, <2>1, <3>1, Reading DEF JobOK, Keeps, Searching, GoesWith
  <2>4. ASSUME NEW u \in UserRows, job' = [job EXCEPT ![j].pc = "restoreUser", ![j].user = u]
        PROVE  AccountsInv'
    <3>1. job'[j] = [job[j] EXCEPT !.pc = "restoreUser", !.user = u] /\ OnlyJob(j)
      BY <1>0, <2>4 DEF JobsOK, OnlyJob
    <3>2. Keeps(job[j], job'[j]) /\ job'[j].pc = "restoreUser" /\ job'[j].user = u
      BY <1>0, <2>1, <3>1 DEF JobOK, Keeps
    <3> QED
      BY <1>0, <2>1, <3>1, <3>2, Reading DEF JobOK, Keeps, Searching, GoesWith
  <2> QED
    BY <1>1, <2>2, <2>3, <2>4, UserFound DEF FindForCreate, Named
<1>2. CASE CheckClients(j)
  <2>1. job[j].pc = "checkClients" /\ UNCHANGED <<user, alias, customer, stray>>
    BY <1>2 DEF CheckClients, tables, History
  <2>2. CASE Finish(j)
    BY <2>1, <2>2, Ending
  <2>3. CASE Step(j, "deleteUser") /\ ~(customer.life = "live" /\ customer.seller = job[j].user)
    <3>1. /\ OnlyJob(j) /\ job'[j].pc = "deleteUser" /\ Keeps(job[j], job'[j])
          /\ job'[j].user = job[j].user
      BY <1>0, <2>1, <2>3, Stepped
    <3>2. JobOK(job'[j], UserRows)
      BY <1>0, <2>1, <3>1 DEF JobOK, Keeps, Searching
    <3>3. KeptOrStray'
      BY <2>1, <2>3, <3>1, NobodyLeaves DEF GoesWith
    <3>4. UserRows' = UserRows /\ UsersOK'
      BY <2>1 DEF UserRows, AccountsInv, UsersOK
    <3> QED
      BY <2>1, <3>1, <3>2, <3>3, <3>4, OneJob DEF AccountsInv, CustomerOK
  <2> QED
    BY <1>2, <2>2, <2>3 DEF CheckClients
<1>3. CASE FindTarget(j)
  <2>1. job[j].pc = "findTarget" /\ UNCHANGED <<user, alias, customer, stray>>
    BY <1>3 DEF FindTarget, tables, History
  <2>2. CASE Finish(j)
    BY <2>1, <2>2, Ending
  <2>3. ASSUME NEW u \in UserRows, NEW pc \in {"revive", "work"},
               job' = [job EXCEPT ![j].user = u, ![j].pc = pc]
        PROVE  AccountsInv'
    <3>1. job'[j] = [job[j] EXCEPT !.user = u, !.pc = pc] /\ OnlyJob(j)
      BY <1>0, <2>3 DEF JobsOK, OnlyJob
    <3>2. /\ Keeps(job[j], job'[j]) /\ job'[j].pc = pc /\ job'[j].user = u
          /\ job'[j].work = job[j].work
      BY <1>0, <2>1, <3>1 DEF JobOK, Keeps
    <3>3. JobOK(job'[j], UserRows)
      BY <1>0, <2>1, <3>2 DEF JobOK, Keeps, Searching
    <3>4. \A v : ~GoesWith(job'[j], v)
      BY <1>0, <2>1, <3>2 DEF JobOK, Keeps, GoesWith
    <3> QED
      BY <2>1, <3>1, <3>2, <3>3, <3>4, Reading
  <2> QED
    BY <1>3, <2>2, <2>3, UserFound DEF FindTarget, Named
<1>4. CASE EndTransfer(j)
  BY <1>4, Ending DEF EndTransfer, tables, History
<1>5. CASE ReadProfile(j)
  <2>1. job[j].pc = "readProfile" /\ UNCHANGED <<user, alias, customer, stray>>
    BY <1>5 DEF ReadProfile, tables, History
  <2>2. CASE Finish(j)
    BY <2>1, <2>2, Ending
  <2>3. CASE Step(j, "forceDelete")
    BY <2>1, <2>3, GoingOn, Reading DEF Searching
  <2> QED
    BY <1>5, <2>2, <2>3 DEF ReadProfile
<1> QED
  BY <1>1, <1>2, <1>3, <1>4, <1>5

LEMMA ReadingClients ==
    ASSUME AccountsInv, NEW j \in Jobs,
           NextEmail(j) \/ FindOther(j) \/ FindClientSeller(j) \/ FindClient(j) \/ FindNewSeller(j)
    PROVE  AccountsInv'
<1>0. JobsOK /\ JobOK(job[j], UserRows)
  BY DEF AccountsInv, JobsOK
<1>1. CASE NextEmail(j)
  <2>1. job[j].pc = "nextEmail" /\ UNCHANGED <<user, alias, customer, stray>>
    BY <1>1 DEF NextEmail, tables, History
  <2>2. CASE Finish(j)
    BY <2>1, <2>2, Ending
  <2>3. ASSUME NEW list, NEW email, NEW taken,
               job' = [job EXCEPT ![j].pc = "findOther", ![j].list = list,
                                  ![j].email = email, ![j].taken = taken]
        PROVE  /\ OnlyJob(j) /\ JobOK(job'[j], UserRows) /\ job'[j].pc = "findOther"
               /\ \A v : ~GoesWith(job'[j], v)
    <3>1. /\ job'[j] = [job[j] EXCEPT !.pc = "findOther", !.list = list, !.email = email,
                                      !.taken = taken]
          /\ OnlyJob(j)
      BY <1>0, <2>3 DEF JobsOK, OnlyJob
    <3>2. Keeps(job[j], job'[j]) /\ job'[j].pc = "findOther" /\ job'[j].user = job[j].user
      BY <1>0, <2>1, <3>1 DEF JobOK, Keeps
    <3>3. JobOK(job'[j], UserRows) /\ \A v : ~GoesWith(job'[j], v)
      BY <1>0, <2>1, <3>2 DEF JobOK, Keeps, Searching, GoesWith
    <3> QED
      BY <3>1, <3>2, <3>3
  <2>4. CASE job[j].list # <<>>
    <3>1. /\ OnlyJob(j) /\ JobOK(job'[j], UserRows) /\ job'[j].pc = "findOther"
          /\ \A v : ~GoesWith(job'[j], v)
      BY <1>1, <2>3, <2>4 DEF NextEmail
    <3> QED
      BY <2>1, <3>1, Reading
  <2> QED
    BY <1>1, <2>2, <2>4 DEF NextEmail
<1>2. CASE FindOther(j)
  <2>1. job[j].pc = "findOther" /\ UNCHANGED <<user, alias, customer, stray>>
    BY <1>2 DEF FindOther, tables, History
  <2>2. PICK pc \in {"nextEmail", "createAlias"} : Step(j, pc)
    BY <1>2 DEF FindOther
  <2> QED
    BY <2>1, <2>2, GoingOn, Reading DEF Searching
<1>3. CASE FindClientSeller(j)
  <2>1. job[j].pc = "findClientSeller" /\ UNCHANGED <<user, alias, customer, stray>>
    BY <1>3 DEF FindClientSeller, tables, History
  <2> QED
    BY <1>3, <2>1, Ending, GoingOn, Reading DEF FindClientSeller, Searching
<1>4. CASE FindClient(j)
  <2>1. job[j].pc = "findClient" /\ UNCHANGED <<user, alias, customer, stray>>
    BY <1>4 DEF FindClient, tables, History
  <2>2. CASE Finish(j)
    BY <2>1, <2>2, Ending
  <2>3. ASSUME NEW pc \in {"insertClient", "reviveClient"}, Step(j, pc),
               pc = "reviveClient" => customer.life # "none"
        PROVE  AccountsInv'
    BY <2>1, <2>3, GoingOn, Reading DEF Searching
  <2>4. customer.life \in {"none", "live", "deleted"}
    BY DEF AccountsInv, CustomerOK
  <2> QED
    BY <1>4, <2>2, <2>3, <2>4 DEF FindClient
<1>5. CASE FindNewSeller(j)
  <2>1. job[j].pc = "findNewSeller" /\ UNCHANGED <<user, alias, customer, stray>>
    BY <1>5 DEF FindNewSeller, tables, History
  <2>2. CASE Finish(j)
    BY <2>1, <2>2, Ending
  <2>3. ASSUME NEW u \in UserRows, job' = [job EXCEPT ![j].pc = "handOver", ![j].user = u]
        PROVE  AccountsInv'
    <3>1. job'[j] = [job[j] EXCEPT !.pc = "handOver", !.user = u] /\ OnlyJob(j)
      BY <1>0, <2>3 DEF JobsOK, OnlyJob
    <3>2. Keeps(job[j], job'[j]) /\ job'[j].pc = "handOver" /\ job'[j].user = u
      BY <1>0, <2>1, <3>1 DEF JobOK, Keeps
    <3> QED
      BY <1>0, <2>1, <3>1, <3>2, Reading DEF JobOK, Keeps, Searching, GoesWith
  <2> QED
    BY <1>5, <2>2, <2>3, UserFound DEF FindNewSeller, Named, LiveUsers, UserRows
<1> QED
  BY <1>1, <1>2, <1>3, <1>4, <1>5

\* the seller that validateSellerAndClient goes on with
LEMMA OrderClientFound ==
    ASSUME AccountsInv, NEW j \in Jobs, FindOrderClient(j)
    PROVE  /\ OnlyJob(j) /\ Keeps(job[j], job'[j])
           /\ job'[j].pc \in {"mismatch", "findForCreate", "giveClient", "findClient"}
           /\ job'[j].pc # "findForCreate" => job'[j].user # NoUser
           /\ \/ job'[j].user \in {job[j].user, job[j].owner}
              \/ job[j].by # NoUser /\ job'[j].user = job[j].by
<1> DEFINE u == job[j].user
           w == job[j].owner
           found == IF u # NoUser THEN u ELSE w
           known == customer.life # "none"
           differs == known /\ \E v \in {u, w} : v # NoUser /\ customer.seller # v
           seller == OrderSeller(j, found)
           chosen == IF differs THEN found ELSE seller
           pc == CASE differs -> "mismatch"
                   [] ~differs /\ seller = NoUser -> "findForCreate"
                   [] OTHER -> IF known THEN "giveClient" ELSE "findClient"
<1>1. job' = [job EXCEPT ![j].known = known, ![j].user = chosen, ![j].pc = pc]
  BY DEF FindOrderClient
<1>2. found \in {u, w} /\ (differs => found # NoUser)
  OBVIOUS
<1>3. seller \in {u, w} \/ (job[j].by # NoUser /\ seller = job[j].by)
  BY <1>2 DEF OrderSeller
<1> HIDE DEF found, known, differs, seller, u, w
<1>4. /\ pc \in {"mismatch", "findForCreate", "giveClient", "findClient"}
      /\ pc # "findForCreate" => chosen # NoUser
  <2>1. CASE differs
    BY <1>2, <2>1
  <2>2. CASE ~differs /\ seller = NoUser
    BY <2>2
  <2>3. CASE ~differs /\ seller # NoUser
    BY <2>3
  <2> QED
    BY <2>1, <2>2, <2>3
<1>5. chosen \in {u, w} \/ (job[j].by # NoUser /\ chosen = job[j].by)
  BY <1>2, <1>3
<1> HIDE DEF chosen, pc
<1>6. job'[j] = [job[j] EXCEPT !.known = known, !.user = chosen, !.pc = pc] /\ OnlyJob(j)
  BY <1>1 DEF AccountsInv, JobsOK, OnlyJob
<1>7. job[j].pc = "findOrderClient" /\ {"pc", "op", "user"} \subseteq DOMAIN job[j]
  BY DEF FindOrderClient, AccountsInv, JobsOK, JobOK
<1>8. Keeps(job[j], job'[j]) /\ job'[j].pc = pc /\ job'[j].user = chosen
  BY <1>6, <1>7 DEF Keeps
<1> QED
  BY <1>4, <1>5, <1>6, <1>8 DEF u, w

LEMMA ReadingForOrders ==
    ASSUME AccountsInv, NEW j \in Jobs,
           FindOrderSeller(j) \/ FindOrderAlias(j) \/ FindOrderClient(j) \/ InsertOrder(j) \/ UpdateOrder(j)
    PROVE  AccountsInv'
<1>0. JobsOK /\ JobOK(job[j], UserRows)
  BY DEF AccountsInv, JobsOK
<1>1. CASE FindOrderSeller(j)
  <2>1. job[j].pc = "findOrderSeller" /\ UNCHANGED <<user, alias, customer, stray>>
    BY <1>1 DEF FindOrderSeller, tables, History
  <2>2. PICK u \in UserRows \cup {NoUser} :
              job' = [job EXCEPT ![j].pc = "findOrderAlias", ![j].user = u]
    BY <1>1, UserFound DEF FindOrderSeller, Named, LiveUsers, UserRows
  <2>3. job'[j] = [job[j] EXCEPT !.pc = "findOrderAlias", !.user = u] /\ OnlyJob(j)
    BY <1>0, <2>2 DEF JobsOK, OnlyJob
  <2>4. Keeps(job[j], job'[j]) /\ job'[j].pc = "findOrderAlias" /\ job'[j].user = u
    BY <1>0, <2>1, <2>3 DEF JobOK, Keeps
  <2> QED
    BY <1>0, <2>1, <2>3, <2>4, Reading DEF JobOK, Keeps, Searching, GoesWith
<1>2. CASE FindOrderAlias(j)
  <2>1. job[j].pc = "findOrderAlias" /\ UNCHANGED <<user, alias, customer, stray>>
    BY <1>2 DEF FindOrderAlias, tables, History
  <2>2. PICK w \in UserRows \cup {NoUser} :
              job' = [job EXCEPT ![j].pc = "findOrderClient", ![j].owner = w]
    BY <1>2, OwnerFound DEF FindOrderAlias, AnyAlias
  <2>3. job'[j] = [job[j] EXCEPT !.pc = "findOrderClient", !.owner = w] /\ OnlyJob(j)
    BY <1>0, <2>2 DEF JobsOK, OnlyJob
  <2>4. /\ Keeps(job[j], job'[j]) /\ job'[j].pc = "findOrderClient"
        /\ job'[j].user = job[j].user /\ job'[j].owner = w
    BY <1>0, <2>1, <2>3 DEF JobOK, Keeps
  <2> QED
    BY <1>0, <2>1, <2>3, <2>4, Reading DEF JobOK, Keeps, Searching, GoesWith
<1>3. CASE FindOrderClient(j)
  <2>1. job[j].pc = "findOrderClient" /\ UNCHANGED <<user, alias, customer, stray>>
    BY <1>3 DEF FindOrderClient, tables, History
  <2>2. /\ job[j].user \in UserRows \cup {NoUser} /\ job[j].owner \in UserRows \cup {NoUser}
        /\ job[j].by \in UserRows \cup {NoUser} /\ job[j].op \in OrderOps
    BY <1>0, <2>1 DEF JobOK
  <2>3. /\ OnlyJob(j) /\ Keeps(job[j], job'[j])
        /\ job'[j].pc \in {"mismatch", "findForCreate", "giveClient", "findClient"}
        /\ job'[j].pc # "findForCreate" => job'[j].user \in UserRows
    BY <1>3, <2>2, OrderClientFound
  <2>4. JobOK(job'[j], UserRows) /\ \A v : ~GoesWith(job'[j], v)
    BY <1>0, <2>1, <2>2, <2>3 DEF JobOK, Keeps, Searching, GoesWith
  <2> QED
    BY <2>1, <2>3, <2>4, Reading
<1>4. CASE InsertOrder(j) \/ UpdateOrder(j)
  BY <1>4, Ending DEF InsertOrder, UpdateOrder
<1> QED
  BY <1>1, <1>2, <1>3, <1>4

\* Workers read who owns the email, and move the orders.
LEMMA ReadingWorkers ==
    ASSUME AccountsInv, NEW j \in Jobs, NEW e \in Emails,
           FindAlias(j, e) \/ FindSeller(j, e) \/ MoveOrders(j, e) \/ MarkSeller(j, e)
    PROVE  AccountsInv'
<1>0. JobsOK /\ JobOK(job[j], UserRows)
  BY DEF AccountsInv, JobsOK
<1>1. /\ job[j].pc = "work" /\ e \in DOMAIN job[j].work
      /\ job[j].work[e].pc \in {"findAlias", "findSeller", "moveOrders", "markSeller"}
      /\ UNCHANGED <<alias, customer, stray>>
  BY DEF FindAlias, FindSeller, MoveOrders, MarkSeller, At, tables, History
<1>2. WorkOK(job[j].work, UserRows)
  BY <1>0, <1>1 DEF JobOK, Keeps
<1>3. PICK pc \in {"findSeller", "moveOrders", "moveClients", "done"},
           u \in UserRows \cup {NoUser} :
           Turn(j, e, pc, u) /\ (pc \in Working => u \in UserRows)
  <2>1. CASE FindAlias(j, e)
    BY <2>1, OwnerFound DEF FindAlias, LiveAliases, Working
  <2>2. CASE FindSeller(j, e)
    <3>1. PICK u \in First(IF Source(j, e) # NoUser THEN {Source(j, e)} \cap LiveUsers
                           ELSE Named(LiveUsers, e)) :
              Turn(j, e, IF u = NoUser THEN "done" ELSE "moveOrders", u)
      BY <2>2 DEF FindSeller
    <3>2. u \in UserRows \cup {NoUser}
      BY <3>1, UserFound DEF Named, LiveUsers, UserRows
    <3> QED
      BY <3>1, <3>2 DEF Working
  <2>3. CASE MoveOrders(j, e)
    BY <1>1, <1>2, <2>3 DEF MoveOrders, At, Source, WorkOK, Working
  <2>4. CASE MarkSeller(j, e)
    BY <1>1, <1>2, <2>4 DEF MarkSeller, At, Source, WorkOK, Working
  <2> QED
    BY <2>1, <2>2, <2>3, <2>4
<1>4. /\ JobOK(job'[j], UserRows) /\ OnlyJob(j) /\ job'[j].pc = "work"
      /\ \A v : GoesWith(job'[j], v) => GoesWith(job[j], v)
  BY <1>0, <1>1, <1>3, Turned, TurnedOK
<1>5. CASE UNCHANGED user
  BY <1>1, <1>4, <1>5, Reading
<1>6. CASE MarkSeller(j, e)
  <2>1. user' = [user EXCEPT ![Source(j, e)].status = "DELETED"]
    BY <1>6 DEF MarkSeller
  <2>2. /\ user' = [v \in Users |-> user'[v]]
        /\ \A v \in Users : user'[v].life = user[v].life /\ "life" \in DOMAIN user'[v]
    BY <2>1 DEF AccountsInv, UsersOK
  <2>3. UserRows' = UserRows
    BY <2>2 DEF UserRows
  <2>4. UsersOK'
    BY <1>1, <2>2, <2>3 DEF AccountsInv, UsersOK
  <2>5. KeptOrStray'
    BY <1>1, <1>4, <2>2, NobodyLeaves
  <2> QED
    BY <1>1, <1>4, <2>3, <2>4, <2>5, OneJob DEF AccountsInv, CustomerOK
<1> QED
  BY <1>5, <1>6 DEF FindAlias, FindSeller, MoveOrders, tables

----------------------------------------------------------------------------
(* The steps that write users and aliases. *)

UserWritten(u) ==
    /\ user' = [user EXCEPT ![u] = user'[u]]
    /\ "life" \in DOMAIN user'[u] /\ user'[u].life \in {"live", "deleted"}

LEMMA RowIsWritten ==
    ASSUME UsersOK, NEW u \in Users, UserWritten(u)
    PROVE  /\ user' = [v \in Users |-> user'[v]]
           /\ \A v \in Users : v # u => user'[v] = user[v]
           /\ u \in UserRows' /\ UserRows \subseteq UserRows'
<1>1. /\ user' = [v \in Users |-> user'[v]]
      /\ \A v \in Users : v # u => user'[v] = user[v]
  BY DEF UsersOK, UserWritten
<1> QED
  BY <1>1 DEF UserWritten, UserRows

LEMMA WritingUsers ==
    ASSUME AccountsInv, NEW j \in Jobs, UNCHANGED <<alias, customer, stray>>,
           NEW u \in Users, UserWritten(u),
           user'[u].life = "deleted" => user[u].life = "deleted" \/ GoesWith(job[j], u),
           OnlyJob(j), JobOK(job'[j], UserRows'), job'[j].pc # "reviveClient",
           \A v : GoesWith(job'[j], v) => GoesWith(job[j], v)
    PROVE  AccountsInv'
<1>1. /\ user' = [v \in Users |-> user'[v]]
      /\ \A v \in Users : v # u => user'[v] = user[v]
      /\ UserRows \subseteq UserRows'
  BY RowIsWritten DEF AccountsInv
<1>2. \A v \in Users : "life" \in DOMAIN user'[v] /\ user'[v].life \in {"none", "live", "deleted"}
  BY <1>1 DEF AccountsInv, UsersOK, UserWritten
<1>3. UsersOK'
  BY <1>1, <1>2 DEF AccountsInv, UsersOK
<1>4. KeptOrStray'
  BY <1>1, NobodyLeaves
<1> QED
  BY <1>1, <1>3, <1>4, OneJob DEF AccountsInv, CustomerOK

LEMMA Continuing ==
    ASSUME AccountsInv, NEW j \in Jobs, job[j].pc \in {"insertUser", "restoreAliases"},
           NEW u \in UserRows', UserRows \subseteq UserRows', Continue(j, u)
    PROVE  /\ OnlyJob(j) /\ JobOK(job'[j], UserRows') /\ job'[j].pc # "reviveClient"
           /\ \A v : ~GoesWith(job'[j], v)
<1>0. JobsOK /\ JobOK(job[j], UserRows)
  BY DEF AccountsInv, JobsOK
<1>1. CASE Finish(j)
  BY <1>0, <1>1, Finished DEF GoesWith
<1>2. ASSUME NEW pc \in {"giveClient", "findClient"},
             job' = [job EXCEPT ![j].pc = pc, ![j].user = u]
      PROVE  /\ OnlyJob(j) /\ JobOK(job'[j], UserRows') /\ job'[j].pc # "reviveClient"
             /\ \A v : ~GoesWith(job'[j], v)
  <2>1. job'[j] = [job[j] EXCEPT !.pc = pc, !.user = u] /\ OnlyJob(j)
    BY <1>0, <1>2 DEF JobsOK, OnlyJob
  <2>2. Keeps(job[j], job'[j]) /\ job'[j].pc = pc /\ job'[j].user = u
    BY <1>0, <2>1 DEF JobOK, Keeps
  <2> QED
    BY <1>0, <2>1, <2>2 DEF JobOK, Keeps, Searching, GoesWith
<1> QED
  BY <1>1, <1>2 DEF Continue

LEMMA WritingOneUser ==
    ASSUME AccountsInv, NEW j \in Jobs,
           InsertUser(j) \/ RestoreUser(j) \/ DeleteUser(j) \/ MarkUser(j) \/ ReviveTarget(j) \/ UpdateUser(j)
    PROVE  AccountsInv'
<1>0. JobsOK /\ JobOK(job[j], UserRows) /\ UsersOK
  BY DEF AccountsInv, JobsOK
<1>1. CASE InsertUser(j)
  <2>1. PICK u \in Users : /\ user' = [user EXCEPT ![u] = [life |-> "live", status |-> "ACTIVE",
                                                         email |-> job[j].email]]
                           /\ Continue(j, u)
    BY <1>1 DEF InsertUser
  <2>2. job[j].pc = "insertUser" /\ UNCHANGED <<alias, customer, stray>>
    BY <1>1 DEF InsertUser, History
  <2>5. user'[u] = [life |-> "live", status |-> "ACTIVE", email |-> job[j].email] /\ UserWritten(u)
    BY <1>0, <2>1 DEF UsersOK, UserWritten
  <2>3. u \in UserRows' /\ UserRows \subseteq UserRows'
    BY <1>0, <2>5, RowIsWritten
  <2>4. /\ OnlyJob(j) /\ JobOK(job'[j], UserRows') /\ job'[j].pc # "reviveClient"
        /\ \A v : ~GoesWith(job'[j], v)
    BY <2>1, <2>2, <2>3, Continuing
  <2> QED
    BY <2>2, <2>4, <2>5, WritingUsers
<1> DEFINE u == job[j].user
<1>2. CASE RestoreUser(j) \/ DeleteUser(j) \/ MarkUser(j) \/ ReviveTarget(j) \/ UpdateUser(j)
  <2>1. /\ job[j].pc \in {"restoreUser", "deleteUser", "markUser", "revive", "updateUser"}
        /\ UNCHANGED <<alias, customer, stray>>
    BY <1>2 DEF RestoreUser, DeleteUser, MarkUser, ReviveTarget, UpdateUser, tables, History
  <2>2. u \in UserRows /\ u \in Users /\ user[u].life # "none"
    BY <1>0, <2>1 DEF JobOK, Keeps, Searching, UserRows
  <2>3. /\ UserWritten(u)
        /\ user'[u].life = "deleted" => user[u].life = "deleted" \/ GoesWith(job[j], u)
    <3>1. CASE RestoreUser(j) \/ ReviveTarget(j)
      <4>1. user' = [user EXCEPT ![u] = [user[u] EXCEPT !.life = "live", !.status = "ACTIVE"]]
        BY <1>0, <2>2, <3>1 DEF RestoreUser, ReviveTarget, UsersOK
      <4>2. user'[u] = [user[u] EXCEPT !.life = "live", !.status = "ACTIVE"]
        BY <1>0, <2>2, <4>1 DEF UsersOK
      <4>3. UserWritten(u)
        BY <1>0, <2>2, <4>1, <4>2 DEF UsersOK, UserWritten
      <4> QED
        BY <1>0, <2>2, <4>2, <4>3 DEF UsersOK
    <3>2. CASE DeleteUser(j)
      <4>1. user' = [user EXCEPT ![u] = [user[u] EXCEPT !.life = "deleted"]]
        BY <1>0, <2>2, <3>2 DEF DeleteUser, UsersOK
      <4>2. user'[u] = [user[u] EXCEPT !.life = "deleted"]
        BY <1>0, <2>2, <4>1 DEF UsersOK
      <4>3. UserWritten(u)
        BY <1>0, <2>2, <4>1, <4>2 DEF UsersOK, UserWritten
      <4> QED
        BY <3>2, <4>3 DEF GoesWith, DeleteUser
    <3>3. CASE MarkUser(j)
      <4>1. user' = [user EXCEPT ![u] = [user[u] EXCEPT !.status = "DELETED"]]
        BY <1>0, <2>2, <3>3 DEF MarkUser, UsersOK
      <4>2. user'[u] = [user[u] EXCEPT !.status = "DELETED"]
        BY <1>0, <2>2, <4>1 DEF UsersOK
      <4>3. UserWritten(u)
        BY <1>0, <2>2, <4>1, <4>2 DEF UsersOK, UserWritten
      <4> QED
        BY <1>0, <2>2, <4>2, <4>3 DEF UsersOK
    <3>4. CASE UpdateUser(j)
      <4>1. user' = [user EXCEPT ![u] = [user[u] EXCEPT !.email = job[j].email]]
        BY <1>0, <2>2, <3>4 DEF UpdateUser, UsersOK
      <4>2. user'[u] = [user[u] EXCEPT !.email = job[j].email]
        BY <1>0, <2>2, <4>1 DEF UsersOK
      <4>3. UserWritten(u)
        BY <1>0, <2>2, <4>1, <4>2 DEF UsersOK, UserWritten
      <4> QED
        BY <1>0, <2>2, <4>2, <4>3 DEF UsersOK
    <3> QED
      BY <1>2, <3>1, <3>2, <3>3, <3>4
  <2>4. UserRows \subseteq UserRows'
    BY <1>0, <2>2, <2>3, RowIsWritten
  <2>5. /\ OnlyJob(j) /\ JobOK(job'[j], UserRows) /\ job'[j].pc # "reviveClient"
        /\ \A v : ~GoesWith(job'[j], v)
    <3>1. CASE RestoreUser(j)
      BY <3>1, GoingOn DEF RestoreUser, Searching
    <3>2. CASE DeleteUser(j)
      BY <3>2, GoingOn DEF DeleteUser, Searching
    <3>3. CASE MarkUser(j)
      BY <3>3, GoingOn DEF MarkUser, Searching
    <3>4. CASE UpdateUser(j)
      BY <1>0, <3>4, Finished DEF UpdateUser, GoesWith
    <3>5. CASE ReviveTarget(j)
      <4>1. job[j].pc = "revive" /\ Step(j, "work")
        BY <3>5 DEF ReviveTarget
      <4>2. /\ OnlyJob(j) /\ Keeps(job[j], job'[j]) /\ job'[j].pc = "work"
            /\ job'[j].user = job[j].user /\ job'[j].work = job[j].work
        BY <1>0, <4>1, Stepped DEF JobOK, Keeps
      <4>3. JobOK(job'[j], UserRows)
        BY <1>0, <4>1, <4>2 DEF JobOK, Keeps, Searching
      <4> QED
        BY <1>0, <4>1, <4>2, <4>3 DEF JobOK, Keeps, GoesWith
    <3> QED
      BY <1>2, <3>1, <3>2, <3>3, <3>4, <3>5
  <2>6. JobOK(job'[j], UserRows')
    BY <2>4, <2>5, JobOKGrows
  <2> HIDE DEF u
  <2> QED
    BY <2>1, <2>2, <2>3, <2>5, <2>6, WritingUsers
<1> QED
  BY <1>1, <1>2

\* A worker removes the seller whose clients and aliases it has moved.
LEMMA RemovingSellers ==
    ASSUME AccountsInv, NEW j \in Jobs, NEW e \in Emails, DeleteSeller(j, e)
    PROVE  AccountsInv'
<1> DEFINE u == Source(j, e)
<1>1. /\ JobsOK /\ JobOK(job[j], UserRows) /\ UsersOK
      /\ job[j].pc = "work" /\ e \in DOMAIN job[j].work
      /\ job[j].work[e].pc = "deleteSeller" /\ job[j].work[e].user = u
      /\ UNCHANGED <<alias, customer, stray>>
  BY DEF AccountsInv, JobsOK, DeleteSeller, At, Source
<1>2. u \in UserRows /\ u \in Users
  BY <1>1 DEF JobOK, Keeps, WorkOK, Working, UserRows
<1>3. user' = [user EXCEPT ![u] = [user[u] EXCEPT !.life = "deleted"]]
  BY <1>1, <1>2 DEF DeleteSeller, UsersOK
<1>4. user'[u] = [user[u] EXCEPT !.life = "deleted"] /\ UserWritten(u)
  BY <1>1, <1>2, <1>3 DEF UsersOK, UserWritten
<1>5. Turn(j, e, "markSeller", u)
  BY DEF DeleteSeller
<1>6. GoesWith(job[j], u)
  BY <1>1 DEF GoesWith
<1> HIDE DEF u
<1>7. /\ OnlyJob(j) /\ JobOK(job'[j], UserRows) /\ job'[j].pc = "work"
      /\ \A v : GoesWith(job'[j], v) => GoesWith(job[j], v)
  <2>1. OnlyJob(j) /\ job'[j].pc = "work"
    BY <1>1, <1>5, Turned
  <2>2. /\ JobOK(job'[j], UserRows)
        /\ \A v : GoesWith(job'[j], v) => GoesWith(job[j], v)
              \/ (v = u /\ "markSeller" \in {"moveAliases", "deleteSeller"})
    <3> DEFINE pc == "markSeller"
    <3>1. pc # "findSeller"
      OBVIOUS
    <3>4. (pc = "findSeller" => u \in UserRows \cup {NoUser}) /\ (pc \in Working => u \in UserRows)
      BY <1>2, <3>1
    <3> HIDE DEF pc
    <3>2. Turn(j, e, pc, u)
      BY <1>5 DEF pc
    <3>3. /\ JobOK(job'[j], UserRows)
          /\ \A v : GoesWith(job'[j], v) => GoesWith(job[j], v)
                \/ (v = u /\ pc \in {"moveAliases", "deleteSeller"})
      BY <1>1, <3>2, <3>4, TurnedOK
    <3> QED
      BY <3>3 DEF pc
  <2> QED
    BY <2>1, <2>2
<1>8. JobOK(job'[j], UserRows')
  BY <1>1, <1>2, <1>4, <1>7, RowIsWritten, JobOKGrows
<1> QED
  BY <1>1, <1>2, <1>4, <1>6, <1>7, <1>8, WritingUsers

LEMMA WritingAliases ==
    ASSUME AccountsInv, NEW j \in Jobs, UNCHANGED <<user, customer, stray>>,
           \A a \in alias' : "user" \in DOMAIN a /\ a.user \in UserRows,
           OnlyJob(j), JobOK(job'[j], UserRows), job'[j].pc # "reviveClient",
           \A v : GoesWith(job'[j], v) => GoesWith(job[j], v)
    PROVE  AccountsInv'
<1>1. UserRows' = UserRows
  BY DEF UserRows
<1>2. UsersOK'
  BY <1>1 DEF AccountsInv, UsersOK
<1>3. KeptOrStray'
  BY NobodyLeaves
<1> QED
  BY <1>1, <1>2, <1>3, OneJob DEF AccountsInv, CustomerOK

LEMMA WritingTheirAliases ==
    ASSUME AccountsInv, NEW j \in Jobs,
           RestoreAliases(j) \/ DeleteAliases(j) \/ ForceDelete(j) \/ CreateAlias(j)
    PROVE  AccountsInv'
<1>0. /\ JobsOK /\ JobOK(job[j], UserRows)
      /\ UNCHANGED <<user, customer, stray>> /\ UserRows' = UserRows
      /\ job[j].pc \in {"restoreAliases", "deleteAliases", "forceDelete", "createAlias"}
  BY DEF AccountsInv, JobsOK, RestoreAliases, DeleteAliases, ForceDelete, CreateAlias, History, UserRows
<1>1. job[j].user \in UserRows
  BY <1>0 DEF JobOK, Keeps, Searching
<1>2. \A a \in alias' : "user" \in DOMAIN a /\ a.user \in UserRows
  <2>1. \A a \in alias : "user" \in DOMAIN a /\ a.user \in UserRows
    BY DEF AccountsInv, UsersOK
  <2>2. \A a \in alias : \A b : LET c == [a EXCEPT !.live = b]
                                IN  "user" \in DOMAIN c /\ c.user \in UserRows
    BY <2>1
  <2>3. CASE RestoreAliases(j)
    BY <2>1, <2>2, <2>3 DEF RestoreAliases
  <2>4. CASE DeleteAliases(j)
    BY <2>1, <2>2, <2>4 DEF DeleteAliases
  <2>5. CASE ForceDelete(j) \/ CreateAlias(j)
    BY <1>1, <2>1, <2>5 DEF ForceDelete, CreateAlias
  <2> QED
    BY <2>3, <2>4, <2>5
<1>3. /\ OnlyJob(j) /\ JobOK(job'[j], UserRows) /\ job'[j].pc # "reviveClient"
      /\ \A v : ~GoesWith(job'[j], v)
  <2>1. CASE RestoreAliases(j)
    BY <1>0, <1>1, <2>1, Continuing DEF RestoreAliases
  <2>2. CASE DeleteAliases(j)
    BY <1>0, <2>2, Finished DEF DeleteAliases, GoesWith
  <2>3. CASE ForceDelete(j) \/ CreateAlias(j)
    BY <2>3, GoingOn DEF ForceDelete, CreateAlias, Searching
  <2> QED
    BY <2>1, <2>2, <2>3
<1> QED
  BY <1>0, <1>2, <1>3, WritingAliases

LEMMA MovingAliases ==
    ASSUME AccountsInv, NEW j \in Jobs, NEW e \in Emails, MoveAliases(j, e)
    PROVE  AccountsInv'
<1>1. /\ JobsOK /\ JobOK(job[j], UserRows)
      /\ job[j].pc = "work" /\ e \in DOMAIN job[j].work
      /\ job[j].work[e].pc = "moveAliases" /\ Source(j, e) = job[j].work[e].user
      /\ Turn(j, e, "deleteSeller", Source(j, e))
      /\ UNCHANGED <<user, customer, stray>>
  BY DEF AccountsInv, JobsOK, MoveAliases, At, Source, History
<1>2. Source(j, e) \in UserRows /\ job[j].user \in UserRows
  BY <1>1 DEF JobOK, Keeps, WorkOK, Working, Searching
<1>3. GoesWith(job[j], Source(j, e))
  BY <1>1 DEF GoesWith
<1>4. \A a \in alias' : "user" \in DOMAIN a /\ a.user \in UserRows
  <2>1. \A a \in alias : "user" \in DOMAIN a /\ a.user \in UserRows
    BY DEF AccountsInv, UsersOK
  <2>2. \A a \in alias : LET c == [a EXCEPT !.user = job[j].user]
                         IN  "user" \in DOMAIN c /\ c.user \in UserRows
    BY <1>2, <2>1
  <2> QED
    BY <2>1, <2>2 DEF MoveAliases
<1>5. /\ OnlyJob(j) /\ JobOK(job'[j], UserRows) /\ job'[j].pc = "work"
      /\ \A v : GoesWith(job'[j], v) => GoesWith(job[j], v)
  <2>1. OnlyJob(j) /\ job'[j].pc = "work"
    BY <1>1, Turned
  <2>2. /\ JobOK(job'[j], UserRows)
        /\ \A v : GoesWith(job'[j], v) => GoesWith(job[j], v) \/ v = Source(j, e)
    <3> DEFINE pc == "deleteSeller"
    <3>1. pc # "findSeller"
      OBVIOUS
    <3>4. (pc = "findSeller" => Source(j, e) \in UserRows \cup {NoUser})
          /\ (pc \in Working => Source(j, e) \in UserRows)
      BY <1>2, <3>1
    <3> HIDE DEF pc
    <3>2. Turn(j, e, pc, Source(j, e))
      BY <1>1 DEF pc
    <3>3. /\ JobOK(job'[j], UserRows)
          /\ \A v : GoesWith(job'[j], v) => GoesWith(job[j], v)
                \/ (v = Source(j, e) /\ pc \in {"moveAliases", "deleteSeller"})
      BY <1>1, <3>2, <3>4, TurnedOK
    <3> QED
      BY <3>3
  <2> QED
    BY <1>3, <2>1, <2>2
<1> QED
  BY <1>1, <1>4, <1>5, WritingAliases

----------------------------------------------------------------------------
(* The steps that write the client. *)

\* A client that is given to a seller who is not about to go is kept.
LEMMA Given ==
    ASSUME AccountsInv, NEW j \in Jobs, OnlyJob(j), UNCHANGED user,
           customer'.life = "live" /\ ~stray' => ~Leaving(customer'.seller),
           GoesWith(job'[j], customer'.seller) =>
               GoesWith(job[j], customer'.seller) \/ customer'.life # "live" \/ stray'
    PROVE  KeptOrStray'
<1>1. \A i \in Jobs : i # j => job'[i] = job[i]
  BY DEF OnlyJob, AccountsInv, JobsOK
<1> SUFFICES ASSUME customer'.life = "live", ~stray', Leaving(customer.seller)' PROVE FALSE
  BY DEF KeptOrStray
<1> DEFINE v == customer'.seller
<1>2. /\ user[v].life # "deleted"
      /\ \A i \in Jobs : ~GoesWith(job[i], v)
  BY LeavingIs
<1>3. user[v].life = "deleted" \/ \E i \in Jobs : GoesWith(job'[i], v)
  BY DEF Leaving, GoesWith
<1>4. \A i \in Jobs : ~GoesWith(job'[i], v)
  BY <1>1, <1>2
<1> QED
  BY <1>2, <1>3, <1>4

LEMMA WritingTheClient ==
    ASSUME AccountsInv, NEW j \in Jobs, OnlyJob(j), UNCHANGED <<user, alias>>,
           JobOK(job'[j], UserRows), job'[j].pc # "reviveClient",
           customer' \in [life : {"none", "live", "deleted"}, seller : Users \cup {NoUser}],
           customer'.life # "none" => customer'.seller \in UserRows,
           customer.life # "none" => customer'.life # "none",
           KeptOrStray'
    PROVE  AccountsInv'
<1>1. UserRows' = UserRows /\ UsersOK'
  BY DEF UserRows, AccountsInv, UsersOK
<1> QED
  BY <1>1, OneJob

LEMMA GivingTheClient ==
    ASSUME AccountsInv, NEW j \in Jobs,
           InsertClient(j) \/ ReviveCustomer(j) \/ DeleteCustomer(j) \/ WriteSeller(j)
           \/ WriteMismatch(j) \/ HandOver(j)
    PROVE  AccountsInv'
<1>0. /\ JobsOK /\ JobOK(job[j], UserRows) /\ UNCHANGED <<user, alias>>
      /\ job[j].pc \in {"insertClient", "reviveClient", "deleteClient", "giveClient", "mismatch",
                        "handOver"}
      /\ customer \in [life : {"none", "live", "deleted"}, seller : Users \cup {NoUser}]
      /\ customer.life # "none" => customer.seller \in UserRows
  BY DEF AccountsInv, JobsOK, CustomerOK,
         InsertClient, ReviveCustomer, DeleteCustomer, WriteSeller, WriteMismatch, HandOver
<1>1. job[j].user \in UserRows /\ job[j].user \in Users
  BY <1>0 DEF JobOK, Keeps, Searching, UserRows
<1>2. /\ OnlyJob(j) /\ JobOK(job'[j], UserRows) /\ job'[j].pc # "reviveClient"
      /\ \A v : ~GoesWith(job'[j], v)
  <2>1. CASE Finish(j)
    BY <1>0, <2>1, Finished DEF GoesWith
  <2>2. CASE Step(j, LastCall(j))
    <3>1. PICK pc \in {"insertOrder", "updateOrder"} : Step(j, pc)
      BY <2>2 DEF LastCall
    <3> QED
      BY <1>0, <3>1, GoingOn DEF Searching
  <2>3. CASE WriteMismatch(j)
    <3>1. PICK u \in UserRows : job' = [job EXCEPT ![j].pc = "giveClient", ![j].user = u]
      BY <1>0, <1>1, <2>3 DEF WriteMismatch, OrderSeller, JobOK
    <3>2. job'[j] = [job[j] EXCEPT !.pc = "giveClient", !.user = u] /\ OnlyJob(j)
      BY <1>0, <3>1 DEF JobsOK, OnlyJob
    <3>3. Keeps(job[j], job'[j]) /\ job'[j].pc = "giveClient" /\ job'[j].user = u
      BY <1>0, <3>2 DEF JobOK, Keeps
    <3> QED
      BY <1>0, <3>2, <3>3 DEF JobOK, Keeps, Searching, GoesWith
  <2> QED
    BY <1>0, <2>1, <2>2, <2>3
       DEF InsertClient, ReviveCustomer, DeleteCustomer, WriteSeller, WriteMismatch, HandOver
<1>3. ASSUME NEW row \in [life : {"none", "live", "deleted"}, seller : Users \cup {NoUser}],
             row.life # "none" => row.seller \in UserRows,
             customer.life # "none" => row.life # "none",
             GiveClient(row)
      PROVE  AccountsInv'
  <2>1. customer' = row /\ (~stray' => ~Leaving(row.seller))
    BY <1>3 DEF GiveClient
  <2>2. KeptOrStray'
    BY <1>0, <1>2, <2>1, Given
  <2> QED
    BY <1>0, <1>2, <1>3, <2>1, <2>2, WritingTheClient
<1>4. ASSUME UNCHANGED <<customer, stray>> PROVE AccountsInv'
  BY <1>0, <1>2, <1>4, Reading
<1>5. CASE InsertClient(j)
  BY <1>0, <1>1, <1>3, <1>4, <1>5 DEF InsertClient
<1>6. CASE ReviveCustomer(j)
  <2>1. customer.life # "none"
    BY <1>6 DEF ReviveCustomer, AccountsInv, CustomerOK
  <2> QED
    BY <1>0, <1>3, <1>6, <2>1 DEF ReviveCustomer
<1>7. CASE DeleteCustomer(j)
  <2>1. ASSUME customer' = [customer EXCEPT !.life = "deleted"], customer.life = "live" PROVE AccountsInv'
    <3>1. /\ customer' \in [life : {"none", "live", "deleted"}, seller : Users \cup {NoUser}]
          /\ customer'.life = "deleted" /\ customer'.seller \in UserRows
      BY <1>0, <2>1
    <3>2. KeptOrStray'
      BY <3>1 DEF KeptOrStray
    <3> QED
      BY <1>0, <1>2, <3>1, <3>2, WritingTheClient
  <2> QED
    BY <1>4, <1>7, <2>1 DEF DeleteCustomer, History
<1>8. CASE WriteSeller(j) \/ WriteMismatch(j) \/ HandOver(j)
  <2>1. GiveClient([customer EXCEPT !.seller = job[j].user])
    BY <1>8 DEF WriteSeller, WriteMismatch, HandOver
  <2> QED
    BY <1>0, <1>1, <1>3, <2>1
<1> QED
  BY <1>5, <1>6, <1>7, <1>8

\* A transfer moves the client before its seller starts to leave.
LEMMA MovingClients ==
    ASSUME AccountsInv, NEW j \in Jobs, NEW e \in Emails, MoveClients(j, e)
    PROVE  AccountsInv'
<1>1. /\ JobsOK /\ JobOK(job[j], UserRows)
      /\ job[j].pc = "work" /\ e \in DOMAIN job[j].work
      /\ job[j].work[e].pc = "moveClients" /\ Source(j, e) = job[j].work[e].user
      /\ Turn(j, e, "moveAliases", Source(j, e))
      /\ UNCHANGED <<user, alias>>
      /\ customer \in [life : {"none", "live", "deleted"}, seller : Users \cup {NoUser}]
      /\ customer.life # "none" => customer.seller \in UserRows
  BY DEF AccountsInv, JobsOK, CustomerOK, MoveClients, At, Source
<1>2. Source(j, e) \in UserRows /\ job[j].user \in UserRows /\ job[j].user \in Users
  BY <1>1 DEF JobOK, Keeps, WorkOK, Working, Searching, UserRows
<1>3. /\ OnlyJob(j) /\ JobOK(job'[j], UserRows) /\ job'[j].pc = "work"
      /\ \A v : GoesWith(job'[j], v) => GoesWith(job[j], v) \/ v = Source(j, e)
  <2>1. OnlyJob(j) /\ job'[j].pc = "work"
    BY <1>1, Turned
  <2> DEFINE pc == "moveAliases"
  <2>2. pc # "findSeller"
    OBVIOUS
  <2> HIDE DEF pc
  <2>3. Turn(j, e, pc, Source(j, e))
    BY <1>1 DEF pc
  <2>4. /\ JobOK(job'[j], UserRows)
        /\ \A v : GoesWith(job'[j], v) => GoesWith(job[j], v)
              \/ (v = Source(j, e) /\ pc \in {"moveAliases", "deleteSeller"})
    BY <1>1, <1>2, <2>2, <2>3, TurnedOK
  <2> QED
    BY <2>1, <2>4
<1>4. CASE customer.life # "none" /\ customer.seller = Source(j, e)
  <2>1. /\ customer' = [customer EXCEPT !.seller = job[j].user]
        /\ stray' = (Leaving(job[j].user) \/ Source(j, e) = job[j].user)
    BY <1>4 DEF MoveClients
  <2>2. /\ customer' \in [life : {"none", "live", "deleted"}, seller : Users \cup {NoUser}]
        /\ customer'.life = customer.life /\ customer'.seller = job[j].user
    BY <1>1, <1>2, <2>1
  <2>3. KeptOrStray'
    BY <1>1, <1>3, <2>1, <2>2, Given
  <2> QED
    BY <1>1, <1>2, <1>3, <1>4, <2>2, <2>3, WritingTheClient
<1>5. CASE ~(customer.life # "none" /\ customer.seller = Source(j, e))
  <2>1. UNCHANGED <<customer, stray>>
    BY <1>5 DEF MoveClients
  <2>2. KeptOrStray'
    BY <1>1, <1>3, <1>5, <2>1, NobodyLeaves
  <2> QED
    BY <1>1, <1>3, <2>1, <2>2, WritingTheClient
<1> QED
  BY <1>4, <1>5

----------------------------------------------------------------------------
(* Requests begin and fail. *)

LEMMA Beginning ==
    ASSUME AccountsInv, NEW j \in Jobs, Begin(j)
    PROVE  AccountsInv'
<1>1. PICK r \in NewJobs : job' = [job EXCEPT ![j] = r]
  BY DEF Begin
<1>2. OnlyJob(j) /\ job'[j] = r /\ UNCHANGED <<user, alias, customer, stray>>
  BY <1>1 DEF Begin, AccountsInv, JobsOK, OnlyJob, tables, History
<1>3. /\ JobOK(r, UserRows) /\ \A u : ~GoesWith(r, u)
      /\ r.pc = "reviveClient" => customer.life # "none"
  <2>1. CASE r \in [op : {"transfer"}, pc : {"findTarget"}, email : Emails, user : {NoUser},
                   work : {[e \in es |-> [pc |-> "findAlias", user |-> NoUser]] :
                              es \in {s \in SUBSET Emails :
                                        Cardinality(s) \in 1 .. (IF alone THEN 2 ELSE 1)}}]
    <3>1. r.pc = "findTarget" /\ {"pc", "op", "user", "work"} \subseteq DOMAIN r
      BY <2>1
    <3>2. PICK es : r.work = [e \in es |-> [pc |-> "findAlias", user |-> NoUser]]
      BY <2>1
    <3> QED
      BY <2>1, <3>1, <3>2 DEF JobOK, WorkOK, Working, Searching, GoesWith, OrderOps
  <2>2. CASE \/ r \in [op : {"create"}, pc : {"findForCreate"}, email : Emails, user : {NoUser}]
             \/ r \in [op : {"clients"}, pc : {"findNewSeller"}, email : Emails, user : {NoUser}]
    BY <2>2 DEF JobOK, Searching, GoesWith, OrderOps
  <2>3. CASE r \in [op : IF sale = NoUser THEN {"place"} ELSE OrderOps, pc : {"findOrderSeller"},
                   email : Emails, user : {NoUser}, owner : {NoUser}, known : {FALSE},
                   by : {NoUser} \cup UserRows]
    BY <2>3 DEF JobOK, Searching, GoesWith, OrderOps
  <2>4. CASE \/ r \in [op : {"remove"}, pc : {"checkClients"}, user : UserRows]
             \/ r \in [op : {"restore"}, pc : {"restoreUser"}, user : UserRows]
             \/ r \in [op : {"newClient"}, pc : {"findClientSeller", "findClient"}, user : UserRows]
    BY <2>4 DEF JobOK, Searching, GoesWith, OrderOps
  <2>5. CASE \/ r \in [op : {"profile"}, pc : {"readProfile"}, user : UserRows, list : AliasLists,
                      email : {"none"}, taken : {FALSE}]
             \/ r \in [op : {"update"}, pc : {"updateUser"}, user : UserRows, email : Emails]
    BY <2>5 DEF JobOK, Searching, GoesWith, OrderOps
  <2>6. CASE /\ r \in [op : {"client"}, pc : {"giveClient", "deleteClient", "reviveClient"},
                       user : UserRows]
             /\ customer.life = IF r.pc = "reviveClient" THEN "deleted" ELSE "live"
    <3>1. JobOK(r, UserRows) /\ \A u : ~GoesWith(r, u)
      BY <2>6 DEF JobOK, Searching, GoesWith, OrderOps
    <3>2. r.pc = "reviveClient" => customer.life = "deleted"
      BY <2>6
    <3> QED
      BY <3>1, <3>2
  <2> QED
    BY <2>1, <2>2, <2>3, <2>4, <2>5, <2>6 DEF NewJobs
<1> QED
  BY <1>2, <1>3, Reading

LEMMA Failing ==
    ASSUME AccountsInv, NEW j \in Jobs, FailJob(j)
    PROVE  AccountsInv'
<1>1. UNCHANGED <<user, alias, customer, stray>> /\ JobsOK
  BY DEF FailJob, tables, History, AccountsInv
<1>2. CASE Finish(j)
  BY <1>1, <1>2, Ending
<1>3. ASSUME job[j].pc = "work", NEW e \in DOMAIN job[j].work, Turn(j, e, "done", Source(j, e))
      PROVE  AccountsInv'
  <2> DEFINE pc == "done"
  <2>1. OnlyJob(j) /\ job'[j].pc = "work"
    BY <1>1, <1>3, Turned
  <2>2. pc # "findSeller" /\ pc \notin Working
    BY DEF Working
  <2>3. pc \notin {"moveAliases", "deleteSeller"}
    OBVIOUS
  <2> HIDE DEF pc
  <2>4. Turn(j, e, pc, Source(j, e))
    BY <1>3 DEF pc
  <2>5. /\ JobOK(job'[j], UserRows)
        /\ \A v : GoesWith(job'[j], v) => GoesWith(job[j], v)
    BY <1>1, <1>3, <2>2, <2>3, <2>4, TurnedOK
  <2> QED
    BY <1>1, <2>1, <2>5, Reading
<1> QED
  BY <1>2, <1>3 DEF FailJob

----------------------------------------------------------------------------
LEMMA AccountsInvInit == AccountsInit => AccountsInv
<1> SUFFICES ASSUME AccountsInit PROVE AccountsInv
  OBVIOUS
<1>1. user = [u \in Users |-> IF u \in DOMAIN FirstUsers
                              THEN [life |-> "live", status |-> "ACTIVE", email |-> FirstUsers[u]]
                              ELSE Absent]
  BY DEF AccountsInit
<1>2. UserRows = DOMAIN FirstUsers /\ \A u \in Users : "life" \in DOMAIN user[u]
                                                /\ user[u].life \in {"none", "live"}
  BY <1>1, AccountsOK DEF UserRows, Absent
<1>3. \A a \in alias : "user" \in DOMAIN a /\ a.user \in UserRows
  BY <1>2, AccountsOK DEF AccountsInit
<1>4. UsersOK
  BY <1>1, <1>2, <1>3 DEF UsersOK
<1>5. job = [j \in Jobs |-> [pc |-> "idle"]]
  BY DEF AccountsInit, Free
<1>6. JobsOK
  BY <1>5 DEF JobsOK, JobOK, Keeps, Searching
<1>7. PICK s \in FirstSellers : customer = [life |-> IF s = NoUser THEN "none" ELSE "live", seller |-> s]
  BY DEF AccountsInit
<1>8. /\ customer \in [life : {"none", "live", "deleted"}, seller : Users \cup {NoUser}]
      /\ customer.life # "none" => customer.seller \in UserRows
  BY <1>2, <1>7, AccountsOK DEF NoUser
<1>9. CustomerOK
  BY <1>5, <1>8 DEF CustomerOK
<1>10. KeptOrStray
  <2> SUFFICES ASSUME customer.life = "live" PROVE ~Leaving(customer.seller)
    BY DEF KeptOrStray
  <2>1. customer.seller \in Users
    BY <1>8 DEF UserRows
  <2> QED
    BY <1>2, <1>5, <2>1 DEF Leaving
<1> QED
  BY <1>4, <1>6, <1>9, <1>10 DEF AccountsInv

LEMMA AccountsInvNext == AccountsInv /\ [AccountsNext]_accountVars => AccountsInv'
<1> SUFFICES ASSUME AccountsInv, [AccountsNext]_accountVars PROVE AccountsInv'
  OBVIOUS
<1>1. CASE UNCHANGED accountVars
  <2>1. UNCHANGED <<user, alias, customer, job, stray>>
    BY <1>1 DEF accountVars, tables
  <2>2. UserRows' = UserRows /\ \A u : Leaving(u)' <=> Leaving(u)
    BY <2>1 DEF UserRows, Leaving
  <2> QED
    BY <2>1, <2>2 DEF AccountsInv, UsersOK, CustomerOK, JobsOK, KeptOrStray
<1>2. ASSUME NEW j \in Jobs, NEW e \in Emails,
             \/ FindAlias(j, e) \/ FindSeller(j, e) \/ MoveOrders(j, e) \/ MoveClients(j, e)
             \/ MoveAliases(j, e) \/ DeleteSeller(j, e) \/ MarkSeller(j, e)
      PROVE  AccountsInv'
  BY <1>2, ReadingWorkers, MovingClients, MovingAliases, RemovingSellers
<1>3. ASSUME NEW j \in Jobs,
             \/ Begin(j) \/ FailJob(j)
             \/ FindForCreate(j) \/ CheckClients(j) \/ FindTarget(j) \/ EndTransfer(j) \/ ReadProfile(j)
             \/ NextEmail(j) \/ FindOther(j) \/ FindClientSeller(j) \/ FindClient(j) \/ FindNewSeller(j)
             \/ FindOrderSeller(j) \/ FindOrderAlias(j) \/ FindOrderClient(j) \/ InsertOrder(j)
             \/ UpdateOrder(j)
      PROVE  AccountsInv'
  BY <1>3, Beginning, Failing, ReadingUsers, ReadingClients, ReadingForOrders
<1>4. ASSUME NEW j \in Jobs,
             \/ InsertUser(j) \/ RestoreUser(j) \/ DeleteUser(j) \/ MarkUser(j) \/ ReviveTarget(j)
             \/ UpdateUser(j)
             \/ RestoreAliases(j) \/ DeleteAliases(j) \/ ForceDelete(j) \/ CreateAlias(j)
             \/ InsertClient(j) \/ ReviveCustomer(j) \/ DeleteCustomer(j) \/ WriteSeller(j)
             \/ WriteMismatch(j) \/ HandOver(j)
      PROVE  AccountsInv'
  BY <1>4, WritingOneUser, WritingTheirAliases, GivingTheClient
<1> QED
  BY <1>1, <1>2, <1>3, <1>4 DEF AccountsNext

LEMMA KeptClientsHaveSellers == AccountsInv => OnlyLateClientsAreStranded
<1> SUFFICES ASSUME AccountsInv, customer.life = "live", ~stray
             PROVE  user[customer.seller].life = "live"
  BY DEF OnlyLateClientsAreStranded, AccountsInv, KeptOrStray
<1> QED
  BY DEF AccountsInv, CustomerOK, UsersOK, UserRows, KeptOrStray, Leaving

\* For every set of users, emails and requests, and however these overlap and fail: a live client
\* has a live seller, unless it came to the seller after the check of users.service.ts remove or
\* the move of sellers.service.ts transferSellersData, or that transfer was to the seller itself.
THEOREM NoClientIsStranded == AccountsSpec => []OnlyLateClientsAreStranded
<1>1. AccountsSpec => []AccountsInv
  BY AccountsInvInit, AccountsInvNext, PTL DEF AccountsSpec
<1> QED
  BY <1>1, KeptClientsHaveSellers, PTL

----------------------------------------------------------------------------
(* One request at a time. *)

\* a seller that a transfer removed, and marked as removed
Gone(u) == u \in emptied /\ user[u].status = "DELETED"

NoSale(u) == sale # u
NoClient(u) == ~(customer.life # "none" /\ customer.seller = u)
NoAlias(u) == \A a \in alias : a.user # u

\* what a worker has moved away from its seller, if not to the seller itself
WorkerKnows(w, t) ==
    /\ w.user # t =>
          /\ w.pc \in {"moveClients", "moveAliases", "deleteSeller", "markSeller"} => NoSale(w.user)
          /\ w.pc \in {"moveAliases", "deleteSeller", "markSeller"} => NoClient(w.user)
          /\ w.pc \in {"deleteSeller", "markSeller"} => NoAlias(w.user)
    /\ w.user = t /\ w.pc \in Working => t \notin emptied

Profiling == {"readProfile", "forceDelete", "nextEmail", "findOther", "createAlias"}
Lasting == {"deleteUser", "markUser", "restoreAliases",
            "forceDelete", "nextEmail", "findOther", "createAlias"}
Ordering == {"findOrderSeller", "findOrderAlias", "findOrderClient", "mismatch",
             "insertOrder", "updateOrder"}
Placing == {"findOrderAlias", "findOrderClient", "mismatch", "giveClient", "findClient",
            "insertClient", "insertOrder", "updateOrder"}

\* what a request that runs alone knows
ProfileKnows(r) ==
    /\ r.pc \in Profiling => {"email", "taken", "list"} \subseteq DOMAIN r
    /\ r.pc = "createAlias" => \A a \in alias : a.live /\ a.email = r.email => a.user = r.user

\* whom an administrator's order is given is not gone; whom a seller's token names may be
OrderKnows(r) ==
    /\ r.pc \in Placing /\ r.op \in OrderOps /\ r.by = NoUser => ~Gone(r.user)
    /\ r.pc = "findOrderClient" => ~Gone(r.owner)
    /\ r.pc \in Ordering => r.op \in OrderOps

TransferKnows(r) ==
    r.pc = "work" => ~Gone(r.user) /\ \A e \in DOMAIN r.work : WorkerKnows(r.work[e], r.user)

Knows(r) ==
    /\ ProfileKnows(r) /\ OrderKnows(r) /\ TransferKnows(r)
    /\ r.pc = "handOver" => ~Gone(r.user)
    /\ r.pc \in Lasting => r.user \notin emptied

RowsOK ==
    /\ \A u \in Users : {"life", "status", "email"} \subseteq DOMAIN user[u]
    /\ \A a \in alias : {"user", "email", "live"} \subseteq DOMAIN a
    /\ \A u \in emptied : u \in Users /\ user[u].life = "deleted"

Quiet == \A i, k \in Jobs : i # k => "idle" \in {job[i].pc, job[k].pc}

AloneInv ==
    alone => /\ Quiet /\ RowsOK
             /\ \A j \in Jobs : Knows(job[j])
             /\ AliasesAreDistinct
             /\ TransferredSellersAreEmpty

----------------------------------------------------------------------------
\* only this request is under way
ByItself(j) == alone /\ alone' = alone /\ \A i \in Jobs : i # j => job[i].pc = "idle"

Hollow(u) == (NoSale(u) \/ late) /\ NoAlias(u) /\ (NoClient(u) \/ stray)

LEMMA GoneIsHollow ==
    ASSUME alone
    PROVE  TransferredSellersAreEmpty <=> \A u : Gone(u) => Hollow(u)
BY DEF TransferredSellersAreEmpty, Gone, Hollow, NoSale, NoAlias, NoClient

LEMMA IdleKnowsNothing ==
    ASSUME NEW r, r.pc = "idle"
    PROVE  Knows(r)
BY DEF Knows, ProfileKnows, OrderKnows, TransferKnows, Profiling, Ordering, Placing, Lasting

LEMMA AloneStep ==
    ASSUME AccountsInv, AloneInv, NEW j \in Jobs, ByItself(j), OnlyJob(j),
           RowsOK', Knows(job[j])', AliasesAreDistinct', TransferredSellersAreEmpty'
    PROVE  AloneInv'
<1>1. \A i \in Jobs : i # j => job'[i] = job[i] /\ job'[i].pc = "idle"
  BY DEF OnlyJob, AccountsInv, JobsOK, ByItself
<1>2. Quiet'
  BY <1>1 DEF Quiet
<1>3. \A i \in Jobs : Knows(job[i])'
  <2> SUFFICES ASSUME NEW i \in Jobs, i # j PROVE Knows(job[i])'
    OBVIOUS
  <2>1. job'[i].pc = "idle"
    BY <1>1
  <2> QED
    BY <2>1 DEF Knows, ProfileKnows, OrderKnows, TransferKnows, Profiling, Ordering, Placing, Lasting
<1> QED
  BY <1>2, <1>3 DEF AloneInv

\* A step that reads keeps the tables.
Reads == UNCHANGED <<tables, emptied, stray, late, brought>>

LEMMA AloneReads ==
    ASSUME AccountsInv, AloneInv, NEW j \in Jobs, ByItself(j), OnlyJob(j),
           Reads, Knows(job[j])'
    PROVE  AloneInv'
<1>1. RowsOK' /\ AliasesAreDistinct' /\ TransferredSellersAreEmpty'
  BY DEF AloneInv, ByItself, Reads, tables, RowsOK, AliasesAreDistinct, TransferredSellersAreEmpty
<1> QED
  BY <1>1, AloneStep

\* the places at which a request needs to know nothing
Plain == {"idle", "findForCreate", "insertUser", "restoreUser", "checkClients", "deleteAliases",
          "findTarget", "revive", "updateUser", "findClientSeller", "reviveClient", "deleteClient",
          "findNewSeller"}

LEMMA PlainKnowsNothing ==
    ASSUME NEW j \in Jobs, job'[j].pc \in Plain
    PROVE  Knows(job[j])'
BY DEF Plain, Knows, ProfileKnows, OrderKnows, TransferKnows, Profiling, Ordering, Placing, Lasting

LEMMA AloneEnds ==
    ASSUME AccountsInv, AloneInv, NEW j \in Jobs, ByItself(j), Finish(j), Reads
    PROVE  AloneInv'
<1>1. OnlyJob(j) /\ job'[j].pc \in Plain
  BY Finished DEF AccountsInv, Plain
<1> QED
  BY <1>1, AloneReads, PlainKnowsNothing

\* What a step keeps of its request.
LEMMA SteppedAlone ==
    ASSUME AccountsInv, NEW j \in Jobs, NEW pc, job[j].pc # "idle", Step(j, pc)
    PROVE  /\ OnlyJob(j) /\ job'[j].pc = pc /\ DOMAIN job'[j] = DOMAIN job[j]
           /\ job'[j].op = job[j].op /\ job'[j].user = job[j].user
           /\ "by" \in DOMAIN job[j] => job'[j].by = job[j].by
           /\ "email" \in DOMAIN job[j] => job'[j].email = job[j].email
           /\ "work" \in DOMAIN job[j] => job'[j].work = job[j].work
<1>1. job'[j] = [job[j] EXCEPT !.pc = pc] /\ OnlyJob(j)
  BY DEF Step, AccountsInv, JobsOK, OnlyJob
<1> QED
  BY <1>1 DEF AccountsInv, JobsOK, JobOK

LEMMA AlonePart ==
    ASSUME AloneInv, alone
    PROVE  /\ Quiet /\ RowsOK /\ AliasesAreDistinct /\ TransferredSellersAreEmpty
           /\ \A j \in Jobs : Knows(job[j])
BY DEF AloneInv

----------------------------------------------------------------------------
(* One request at a time: the steps that read. *)

LEMMA AloneReadingUsers ==
    ASSUME AccountsInv, AloneInv, NEW j \in Jobs, ByItself(j),
           FindForCreate(j) \/ CheckClients(j) \/ FindTarget(j) \/ EndTransfer(j) \/ ReadProfile(j)
    PROVE  AloneInv'
<1>0. RowsOK /\ Knows(job[j]) /\ alone /\ JobOK(job[j], UserRows)
  BY AlonePart DEF ByItself, AccountsInv, JobsOK
<1>1. CASE FindForCreate(j)
  <2>1. job[j].pc = "findForCreate" /\ Reads
    BY <1>1 DEF FindForCreate, Reads, History
  <2>2. CASE Finish(j)
    BY <2>1, <2>2, AloneEnds
  <2>3. CASE Step(j, "insertUser")
    BY <2>1, <2>3, SteppedAlone, AloneReads, PlainKnowsNothing DEF Plain
  <2>4. ASSUME NEW u, job' = [job EXCEPT ![j].pc = "restoreUser", ![j].user = u]
        PROVE  AloneInv'
    <3>1. job'[j] = [job[j] EXCEPT !.pc = "restoreUser", !.user = u] /\ OnlyJob(j)
      BY <2>4 DEF AccountsInv, JobsOK, OnlyJob
    <3>2. job'[j].pc = "restoreUser"
      BY <1>0, <3>1 DEF JobOK
    <3> QED
      BY <2>1, <3>1, <3>2, AloneReads, PlainKnowsNothing DEF Plain
  <2> QED
    BY <1>1, <2>2, <2>3, <2>4 DEF FindForCreate
<1>2. CASE CheckClients(j)
  <2>1. job[j].pc = "checkClients" /\ Reads
    BY <1>2 DEF CheckClients, Reads, History
  <2>2. CASE Finish(j)
    BY <2>1, <2>2, AloneEnds
  <2>3. CASE Step(j, "deleteUser") /\ user[job[j].user].life = "live"
    <3>1. OnlyJob(j) /\ job'[j].pc = "deleteUser" /\ job'[j].user = job[j].user
      BY <2>1, <2>3, SteppedAlone
    <3>2. job[j].user \notin emptied
      BY <1>0, <2>3 DEF RowsOK
    <3>3. Knows(job[j])'
      BY <2>1, <3>1, <3>2
         DEF Knows, ProfileKnows, OrderKnows, TransferKnows, Profiling, Ordering, Placing, Lasting, Reads
    <3> QED
      BY <2>1, <3>1, <3>3, AloneReads
  <2> QED
    BY <1>2, <2>2, <2>3 DEF CheckClients
<1>3. CASE FindTarget(j)
  <2>1. job[j].pc = "findTarget" /\ Reads
    BY <1>3 DEF FindTarget, Reads, History
  <2>2. CASE Finish(j)
    BY <2>1, <2>2, AloneEnds
  <2>3. ASSUME NEW u, job' = [job EXCEPT ![j].user = u, ![j].pc = "revive"]
        PROVE  AloneInv'
    <3>1. job'[j] = [job[j] EXCEPT !.user = u, !.pc = "revive"] /\ OnlyJob(j)
      BY <2>3 DEF AccountsInv, JobsOK, OnlyJob
    <3>2. job'[j].pc = "revive"
      BY <1>0, <3>1 DEF JobOK
    <3> QED
      BY <2>1, <3>1, <3>2, AloneReads, PlainKnowsNothing DEF Plain
  <2>4. ASSUME NEW u \in UserRows, user[u].status # "DELETED",
               job' = [job EXCEPT ![j].user = u, ![j].pc = "work"]
        PROVE  AloneInv'
    <3>1. job'[j] = [job[j] EXCEPT !.user = u, !.pc = "work"] /\ OnlyJob(j)
      BY <2>4 DEF AccountsInv, JobsOK, OnlyJob
    <3>2. /\ job'[j].pc = "work" /\ job'[j].user = u /\ job'[j].work = job[j].work
          /\ \A e \in DOMAIN job[j].work : job[j].work[e].pc = "findAlias"
      BY <1>0, <2>1, <3>1 DEF JobOK
    <3>3. TransferKnows(job[j])'
      BY <2>1, <2>4, <3>2 DEF TransferKnows, WorkerKnows, Gone, Reads, tables, Working
    <3>4. Knows(job[j])'
      BY <3>2, <3>3 DEF Knows, ProfileKnows, OrderKnows, Profiling, Ordering, Placing, Lasting
    <3> QED
      BY <2>1, <3>1, <3>4, AloneReads
  <2> QED
    BY <1>3, <2>2, <2>3, <2>4, UserFound DEF FindTarget, Named
<1>4. CASE EndTransfer(j)
  BY <1>4, AloneEnds DEF EndTransfer, History, Reads
<1>5. CASE ReadProfile(j)
  <2>1. job[j].pc = "readProfile" /\ Reads
    BY <1>5 DEF ReadProfile, Reads, History
  <2>2. CASE Finish(j)
    BY <2>1, <2>2, AloneEnds
  <2>3. CASE Step(j, "forceDelete") /\ user[job[j].user].life = "live"
    <3>1. /\ OnlyJob(j) /\ job'[j].pc = "forceDelete" /\ job'[j].user = job[j].user
          /\ DOMAIN job'[j] = DOMAIN job[j]
      BY <2>1, <2>3, SteppedAlone
    <3>2. job[j].user \notin emptied
      BY <1>0, <2>3 DEF RowsOK
    <3>3. {"email", "taken", "list"} \subseteq DOMAIN job[j]
      BY <1>0, <2>1 DEF Knows, ProfileKnows, Profiling
    <3>4. Knows(job[j])'
      BY <2>1, <3>1, <3>2, <3>3
         DEF Knows, ProfileKnows, OrderKnows, TransferKnows, Profiling, Ordering, Placing, Lasting, Reads
    <3> QED
      BY <2>1, <3>1, <3>4, AloneReads
  <2> QED
    BY <1>5, <2>2, <2>3 DEF ReadProfile
<1> QED
  BY <1>1, <1>2, <1>3, <1>4, <1>5

LEMMA AloneReadingProfiles ==
    ASSUME AccountsInv, AloneInv, NEW j \in Jobs, ByItself(j), NextEmail(j) \/ FindOther(j)
    PROVE  AloneInv'
<1>0. RowsOK /\ Knows(job[j]) /\ alone /\ JobOK(job[j], UserRows)
  BY AlonePart DEF ByItself, AccountsInv, JobsOK
<1>1. /\ job[j].pc \in {"nextEmail", "findOther"} /\ job[j].user \notin emptied
      /\ {"pc", "user", "email", "taken", "list"} \subseteq DOMAIN job[j] /\ Reads
  BY <1>0 DEF NextEmail, FindOther, History, Reads, Knows, ProfileKnows, Profiling, Lasting, JobOK
<1>2. CASE NextEmail(j)
  <2>1. CASE Finish(j)
    BY <1>1, <2>1, AloneEnds
  <2>2. ASSUME NEW list, NEW email, NEW taken,
               job' = [job EXCEPT ![j].pc = "findOther", ![j].list = list,
                                  ![j].email = email, ![j].taken = taken]
        PROVE  AloneInv'
    <3>1. /\ job'[j] = [job[j] EXCEPT !.pc = "findOther", !.list = list, !.email = email,
                                      !.taken = taken]
          /\ OnlyJob(j)
      BY <2>2 DEF AccountsInv, JobsOK, OnlyJob
    <3>2. /\ DOMAIN job'[j] = DOMAIN job[j] /\ job'[j].pc = "findOther"
          /\ job'[j].user = job[j].user
      BY <1>1, <3>1
    <3>3. Knows(job[j])'
      BY <1>1, <3>2
         DEF Knows, ProfileKnows, OrderKnows, TransferKnows, Profiling, Ordering, Placing, Lasting, Reads
    <3> QED
      BY <1>1, <3>1, <3>3, AloneReads
  <2> QED
    BY <1>2, <2>1, <2>2 DEF NextEmail
<1>3. CASE FindOther(j)
  <2>1. PICK pc \in {"nextEmail", "createAlias"} :
              /\ Step(j, pc)
              /\ pc = "createAlias" =>
                    \A a \in alias : a.live /\ a.email = job[j].email => a.user = job[j].user
    BY <1>3 DEF FindOther, LiveAliases
  <2>2. /\ OnlyJob(j) /\ job'[j].pc = pc /\ job'[j].user = job[j].user
        /\ job'[j].email = job[j].email /\ DOMAIN job'[j] = DOMAIN job[j]
    BY <1>1, <2>1, SteppedAlone
  <2>3. ProfileKnows(job[j])'
    BY <1>1, <2>1, <2>2 DEF ProfileKnows, Profiling, Reads, tables
  <2>4. Knows(job[j])'
    BY <1>1, <2>2, <2>3 DEF Knows, OrderKnows, TransferKnows, Ordering, Placing, Lasting, Reads
  <2> QED
    BY <1>1, <2>2, <2>4, AloneReads
<1> QED
  BY <1>2, <1>3

LEMMA AloneReadingClients ==
    ASSUME AccountsInv, AloneInv, NEW j \in Jobs, ByItself(j),
           FindClientSeller(j) \/ FindClient(j) \/ FindNewSeller(j)
    PROVE  AloneInv'
<1>0. RowsOK /\ Knows(job[j]) /\ alone /\ JobOK(job[j], UserRows)
  BY AlonePart DEF ByItself, AccountsInv, JobsOK
<1>1. CASE FindClientSeller(j)
  <2>1. job[j].pc = "findClientSeller" /\ Reads
    BY <1>1 DEF FindClientSeller, Reads, History
  <2>2. CASE Finish(j)
    BY <2>1, <2>2, AloneEnds
  <2>3. CASE Step(j, "findClient") /\ user[job[j].user].life = "live"
    <3>1. OnlyJob(j) /\ job'[j].pc = "findClient" /\ job'[j].user = job[j].user
      BY <2>1, <2>3, SteppedAlone
    <3>2. job[j].user \notin emptied
      BY <1>0, <2>3 DEF RowsOK
    <3>3. Knows(job[j])'
      BY <2>1, <3>1, <3>2
         DEF Knows, ProfileKnows, OrderKnows, TransferKnows, Gone, Profiling, Ordering, Placing, Lasting, Reads
    <3> QED
      BY <2>1, <3>1, <3>3, AloneReads
  <2> QED
    BY <1>1, <2>2, <2>3 DEF FindClientSeller
<1>2. CASE FindClient(j)
  <2>1. job[j].pc = "findClient" /\ Reads
    BY <1>2 DEF FindClient, Reads, History
  <2>2. CASE Finish(j)
    BY <2>1, <2>2, AloneEnds
  <2>3. CASE Step(j, "reviveClient")
    BY <2>1, <2>3, SteppedAlone, AloneReads, PlainKnowsNothing DEF Plain
  <2>4. CASE Step(j, "insertClient")
    <3>1. /\ OnlyJob(j) /\ job'[j].pc = "insertClient" /\ job'[j].user = job[j].user
          /\ job'[j].op = job[j].op
          /\ job[j].op \in OrderOps => job'[j].by = job[j].by
      BY <1>0, <2>1, <2>4, SteppedAlone DEF JobOK
    <3>2. job[j].op \in OrderOps /\ job[j].by = NoUser => ~Gone(job[j].user)
      BY <1>0, <2>1 DEF Knows, OrderKnows, Placing
    <3>3. Knows(job[j])'
      BY <2>1, <3>1, <3>2
         DEF Knows, ProfileKnows, OrderKnows, TransferKnows, Gone, Profiling, Ordering, Placing, Lasting,
             Reads, tables
    <3> QED
      BY <2>1, <3>1, <3>3, AloneReads
  <2> QED
    BY <1>2, <2>2, <2>3, <2>4 DEF FindClient, AccountsInv, CustomerOK
<1>3. CASE FindNewSeller(j)
  <2>1. job[j].pc = "findNewSeller" /\ Reads
    BY <1>3 DEF FindNewSeller, Reads, History
  <2>2. CASE Finish(j)
    BY <2>1, <2>2, AloneEnds
  <2>3. ASSUME NEW u \in LiveUsers, job' = [job EXCEPT ![j].pc = "handOver", ![j].user = u]
        PROVE  AloneInv'
    <3>1. job'[j] = [job[j] EXCEPT !.pc = "handOver", !.user = u] /\ OnlyJob(j)
      BY <2>3 DEF AccountsInv, JobsOK, OnlyJob
    <3>2. job'[j].pc = "handOver" /\ job'[j].user = u
      BY <1>0, <2>1, <3>1 DEF JobOK
    <3>3. u \notin emptied
      BY <1>0, <2>3 DEF RowsOK, LiveUsers
    <3>4. Knows(job[j])'
      BY <2>1, <3>2, <3>3
         DEF Knows, ProfileKnows, OrderKnows, TransferKnows, Gone, Profiling, Ordering, Placing, Lasting, Reads
    <3> QED
      BY <2>1, <3>1, <3>4, AloneReads
  <2> QED
    BY <1>3, <2>2, <2>3 DEF FindNewSeller, Named, First
<1> QED
  BY <1>1, <1>2, <1>3

LEMMA AloneReadingForOrders ==
    ASSUME AccountsInv, AloneInv, NEW j \in Jobs, ByItself(j),
           FindOrderSeller(j) \/ FindOrderAlias(j) \/ FindOrderClient(j)
    PROVE  AloneInv'
<1>0. RowsOK /\ Knows(job[j]) /\ alone /\ JobOK(job[j], UserRows)
  BY AlonePart DEF ByItself, AccountsInv, JobsOK
<1>1. \A u \in emptied : u \in Users /\ u # NoUser
  BY <1>0, NobodyIsNoRow DEF RowsOK
<1>2. CASE FindOrderSeller(j)
  <2>1. job[j].pc = "findOrderSeller" /\ Reads
    BY <1>2 DEF FindOrderSeller, Reads, History
  <2>2. PICK u : /\ u \notin emptied
                 /\ job' = [job EXCEPT ![j].pc = "findOrderAlias", ![j].user = u]
    BY <1>0, <1>1, <1>2 DEF FindOrderSeller, First, Named, LiveUsers, RowsOK
  <2>3. job'[j] = [job[j] EXCEPT !.pc = "findOrderAlias", !.user = u] /\ OnlyJob(j)
    BY <2>2 DEF AccountsInv, JobsOK, OnlyJob
  <2>4. job'[j].pc = "findOrderAlias" /\ job'[j].user = u /\ job'[j].op = job[j].op
    BY <1>0, <2>1, <2>3 DEF JobOK
  <2>5. job[j].op \in OrderOps
    BY <1>0, <2>1 DEF Knows, OrderKnows, Ordering
  <2>6. Knows(job[j])'
    BY <2>1, <2>2, <2>4, <2>5
       DEF Knows, ProfileKnows, OrderKnows, TransferKnows, Gone, Profiling, Ordering, Placing, Lasting, Reads
  <2> QED
    BY <2>1, <2>3, <2>6, AloneReads
<1>3. CASE FindOrderAlias(j)
  <2>1. job[j].pc = "findOrderAlias" /\ Reads
    BY <1>3 DEF FindOrderAlias, Reads, History
  <2>2. PICK w : ~Gone(w) /\ job' = [job EXCEPT ![j].pc = "findOrderClient", ![j].owner = w]
    <3>1. PICK w \in Owners(AnyAlias(job[j].email)) :
                job' = [job EXCEPT ![j].pc = "findOrderClient", ![j].owner = w]
      BY <1>3 DEF FindOrderAlias
    <3>2. w = NoUser \/ \E a \in alias : a.user = w
      BY <3>1 DEF Owners, AnyAlias, First
    <3>3. ~Gone(w)
      BY <1>0, <1>1, <3>2, AlonePart, GoneIsHollow DEF Gone, Hollow, NoAlias
    <3> QED
      BY <3>1, <3>3
  <2>3. job'[j] = [job[j] EXCEPT !.pc = "findOrderClient", !.owner = w] /\ OnlyJob(j)
    BY <2>2 DEF AccountsInv, JobsOK, OnlyJob
  <2>4. /\ job'[j].pc = "findOrderClient" /\ job'[j].owner = w
        /\ job'[j].user = job[j].user /\ job'[j].op = job[j].op /\ job'[j].by = job[j].by
    BY <1>0, <2>1, <2>3 DEF JobOK, Searching
  <2>5. job[j].op \in OrderOps /\ (job[j].by = NoUser => ~Gone(job[j].user))
    BY <1>0, <2>1 DEF Knows, OrderKnows, Placing, Ordering
  <2>6. Knows(job[j])'
    BY <2>1, <2>2, <2>4, <2>5
       DEF Knows, ProfileKnows, OrderKnows, TransferKnows, Gone, Profiling, Ordering, Placing, Lasting,
           Reads, tables
  <2> QED
    BY <2>1, <2>3, <2>6, AloneReads
<1>4. CASE FindOrderClient(j)
  <2>1. job[j].pc = "findOrderClient" /\ Reads
    BY <1>4 DEF FindOrderClient, Reads, History
  <2>2. /\ job[j].op \in OrderOps /\ "by" \in DOMAIN job[j] /\ ~Gone(job[j].owner)
        /\ job[j].by = NoUser => ~Gone(job[j].user)
    BY <1>0, <2>1 DEF Knows, OrderKnows, Placing, Ordering, JobOK
  <2>3. /\ OnlyJob(j) /\ job'[j].op = job[j].op /\ job'[j].by = job[j].by
        /\ job'[j].pc \in {"mismatch", "findForCreate", "giveClient", "findClient"}
        /\ job[j].by = NoUser => job'[j].user \in {job[j].user, job[j].owner}
    BY <1>4, <2>2, OrderClientFound DEF Keeps
  <2>4. job[j].by = NoUser => ~Gone(job'[j].user)
    BY <2>2, <2>3
  <2>5. Knows(job[j])'
    BY <2>1, <2>2, <2>3, <2>4
       DEF Knows, ProfileKnows, OrderKnows, TransferKnows, Gone, Profiling, Ordering, Placing,
           Lasting, Reads, tables
  <2> QED
    BY <2>1, <2>3, <2>5, AloneReads
<1> QED
  BY <1>2, <1>3, <1>4

----------------------------------------------------------------------------
(* One request at a time: the workers of a transfer. *)

\* the worker for e has seller s, and the transfer is to t
Works(j, e, t, s, work) ==
    /\ job[j].pc = "work" /\ job[j].user = t /\ job[j].work = work
    /\ e \in DOMAIN work /\ work[e].user = s

LEMMA WorkersKnow ==
    ASSUME AccountsInv, AloneInv, alone, NEW j \in Jobs, NEW e, NEW t, NEW s, NEW work,
           Works(j, e, t, s, work)
    PROVE  /\ ~Gone(t) /\ \A d \in DOMAIN work : WorkerKnows(work[d], t)
           /\ t \in UserRows /\ (work[e].pc \in Working => s \in UserRows)
           /\ RowsOK /\ AliasesAreDistinct /\ \A u : Gone(u) => Hollow(u)
<1>1. /\ Knows(job[j]) /\ RowsOK /\ AliasesAreDistinct /\ \A u : Gone(u) => Hollow(u)
  BY AlonePart, GoneIsHollow
<1>2. ~Gone(t) /\ \A d \in DOMAIN work : WorkerKnows(work[d], t)
  BY <1>1 DEF Knows, TransferKnows, Works
<1>3. JobOK(job[j], UserRows)
  BY DEF AccountsInv, JobsOK
<1>4. t \in UserRows /\ WorkOK(work, UserRows)
  BY <1>3 DEF JobOK, Searching, Works
<1> QED
  BY <1>1, <1>2, <1>4 DEF WorkOK, Works

LEMMA WorkerStep ==
    ASSUME AccountsInv, AloneInv, NEW j \in Jobs, ByItself(j),
           NEW e, NEW t, NEW s, NEW work, Works(j, e, t, s, work),
           NEW pc, NEW u, Turn(j, e, pc, u),
           RowsOK', AliasesAreDistinct', \A v : Gone(v)' => Hollow(v)', ~Gone(t)',
           \A d \in DOMAIN work \ {e} : WorkerKnows(work[d], t)',
           WorkerKnows([pc |-> pc, user |-> u], t)'
    PROVE  AloneInv'
<1>1. /\ OnlyJob(j) /\ job'[j].pc = "work" /\ job'[j].user = t
      /\ job'[j].work = [work EXCEPT ![e] = [pc |-> pc, user |-> u]]
  BY Turned DEF AccountsInv, Works
<1> PICK row : row = [work EXCEPT ![e] = [pc |-> pc, user |-> u]]
  OBVIOUS
<1>2. /\ DOMAIN row = DOMAIN work /\ row[e] = [pc |-> pc, user |-> u]
      /\ \A d \in DOMAIN work \ {e} : row[d] = work[d]
  BY DEF Works
<1>3. \A d \in DOMAIN row : WorkerKnows(row[d], t)'
  BY <1>2 DEF WorkerKnows
<1>4. TransferKnows(job[j])'
  BY <1>1, <1>3 DEF TransferKnows
<1>5. Knows(job[j])'
  BY <1>1, <1>4 DEF Knows, ProfileKnows, OrderKnows, Profiling, Ordering, Placing, Lasting
<1>6. TransferredSellersAreEmpty'
  BY DEF TransferredSellersAreEmpty, ByItself, Gone, Hollow, NoSale, NoAlias, NoClient
<1> QED
  BY <1>1, <1>5, <1>6, AloneStep

LEMMA WorkerReads ==
    ASSUME AccountsInv, AloneInv, NEW j \in Jobs, ByItself(j),
           NEW e, NEW t, NEW s, NEW work, Works(j, e, t, s, work),
           NEW pc, NEW u, Turn(j, e, pc, u), Reads,
           WorkerKnows([pc |-> pc, user |-> u], t)
    PROVE  AloneInv'
<1>1. /\ ~Gone(t) /\ \A d \in DOMAIN work : WorkerKnows(work[d], t)
      /\ RowsOK /\ AliasesAreDistinct /\ \A v : Gone(v) => Hollow(v)
  BY WorkersKnow DEF ByItself
<1>2. ~Gone(t)' /\ \A v : Gone(v)' => Hollow(v)'
  BY <1>1 DEF Gone, Hollow, NoSale, NoAlias, NoClient, Reads, tables
<1>3. RowsOK' /\ AliasesAreDistinct'
  BY <1>1 DEF RowsOK, AliasesAreDistinct, Reads, tables, ByItself
<1>4. /\ \A d \in DOMAIN work \ {e} : WorkerKnows(work[d], t)'
      /\ WorkerKnows([pc |-> pc, user |-> u], t)'
  BY <1>1 DEF WorkerKnows, NoSale, NoAlias, NoClient, Reads, tables
<1> QED
  BY <1>2, <1>3, <1>4, WorkerStep

LEMMA AloneWorkersRead ==
    ASSUME AccountsInv, AloneInv, NEW j \in Jobs, ByItself(j), NEW e,
           FindAlias(j, e) \/ FindSeller(j, e)
    PROVE  AloneInv'
<1> PICK t, s, work : t = job[j].user /\ work = job[j].work /\ s = work[e].user
  OBVIOUS
<1>1. Works(j, e, t, s, work) /\ Reads
  BY DEF FindAlias, FindSeller, At, Works, Reads, History
<1>2. RowsOK
  BY AlonePart DEF ByItself
<1>3. CASE FindAlias(j, e)
  <2>1. PICK u : Turn(j, e, "findSeller", u)
    BY <1>3 DEF FindAlias
  <2>2. WorkerKnows([pc |-> "findSeller", user |-> u], t)
    BY DEF WorkerKnows, Working
  <2> QED
    BY <1>1, <2>1, <2>2, WorkerReads
<1>4. CASE FindSeller(j, e)
  <2>1. PICK u : \/ Turn(j, e, "done", u)
                 \/ Turn(j, e, "moveOrders", u) /\ u \in LiveUsers
    BY <1>4 DEF FindSeller, First, Named
  <2>2. WorkerKnows([pc |-> "done", user |-> u], t)
    BY DEF WorkerKnows, Working
  <2>3. u \in LiveUsers => WorkerKnows([pc |-> "moveOrders", user |-> u], t)
    BY <1>2 DEF WorkerKnows, Working, LiveUsers, RowsOK
  <2> QED
    BY <1>1, <2>1, <2>2, <2>3, WorkerReads
<1> QED
  BY <1>3, <1>4

LEMMA AloneMovesOrders ==
    ASSUME AccountsInv, AloneInv, NEW j \in Jobs, ByItself(j), NEW e, MoveOrders(j, e)
    PROVE  AloneInv'
<1> PICK t, s, work : t = job[j].user /\ work = job[j].work /\ s = work[e].user
  OBVIOUS
<1>1. /\ Works(j, e, t, s, work) /\ work[e].pc = "moveOrders"
      /\ \/ sale' = t
         \/ sale # s /\ UNCHANGED <<sale, late>>
      /\ Turn(j, e, "moveClients", s)
      /\ UNCHANGED <<user, alias, customer, emptied, stray, brought>>
  BY DEF MoveOrders, At, Works, History, Source
<1>2. /\ ~Gone(t) /\ \A d \in DOMAIN work : WorkerKnows(work[d], t)
      /\ RowsOK /\ AliasesAreDistinct /\ \A v : Gone(v) => Hollow(v)
  BY <1>1, WorkersKnow DEF ByItself
<1>3. ~Gone(t)' /\ \A v : Gone(v)' => Hollow(v)'
  BY <1>1, <1>2 DEF Gone, Hollow, NoSale, NoAlias, NoClient
<1>4. RowsOK' /\ AliasesAreDistinct'
  BY <1>1, <1>2 DEF RowsOK, AliasesAreDistinct, ByItself
<1>5. \A d \in DOMAIN work \ {e} : WorkerKnows(work[d], t)'
  BY <1>1, <1>2 DEF WorkerKnows, NoSale, NoAlias, NoClient
<1>6. WorkerKnows([pc |-> "moveClients", user |-> s], t)'
  <2>1. WorkerKnows(work[e], t)
    BY <1>1, <1>2 DEF Works
  <2> QED
    BY <1>1, <2>1 DEF WorkerKnows, NoSale, Works, Working
<1> QED
  BY <1>1, <1>3, <1>4, <1>5, <1>6, WorkerStep

LEMMA AloneMovesClients ==
    ASSUME AccountsInv, AloneInv, NEW j \in Jobs, ByItself(j), NEW e, MoveClients(j, e)
    PROVE  AloneInv'
<1> PICK t, s, work : t = job[j].user /\ work = job[j].work /\ s = work[e].user
  OBVIOUS
<1>1. /\ Works(j, e, t, s, work) /\ work[e].pc = "moveClients" /\ Turn(j, e, "moveAliases", s)
      /\ UNCHANGED <<user, alias, sale, emptied, late, brought>>
  BY DEF MoveClients, At, Works, Source
<1>2. /\ ~Gone(t) /\ \A d \in DOMAIN work : WorkerKnows(work[d], t)
      /\ RowsOK /\ AliasesAreDistinct /\ \A v : Gone(v) => Hollow(v)
  BY <1>1, WorkersKnow DEF ByItself
<1>3. /\ \A v : v # t /\ NoClient(v) => NoClient(v)' 
      /\ s # t => NoClient(s)'
      /\ \A v : v # t /\ (NoClient(v) \/ stray) => NoClient(v)' \/ stray'
  <2>1. CASE NoClient(s)
    <3>1. UNCHANGED <<customer, stray>>
      BY <1>1, <2>1 DEF MoveClients, NoClient, Source
    <3> QED
      BY <2>1, <3>1 DEF NoClient
  <2>2. CASE ~NoClient(s)
    <3>1. customer' = [customer EXCEPT !.seller = t]
      BY <1>1, <2>2 DEF MoveClients, NoClient, Source
    <3>2. customer'.seller = t
      BY <3>1 DEF AccountsInv, CustomerOK
    <3> QED
      BY <3>2 DEF NoClient
  <2> QED
    BY <2>1, <2>2
<1>4. ~Gone(t)' /\ \A v : Gone(v)' => Hollow(v)'
  <2>1. ~Gone(t)' /\ \A v : Gone(v)' => Gone(v) /\ v # t
    BY <1>1, <1>2 DEF Gone
  <2>2. \A v : (NoSale(v) => NoSale(v)') /\ (NoAlias(v) => NoAlias(v)')
    BY <1>1 DEF NoSale, NoAlias
  <2> QED
    BY <1>1, <1>2, <1>3, <2>1, <2>2 DEF Hollow
<1>5. RowsOK' /\ AliasesAreDistinct'
  BY <1>1, <1>2 DEF RowsOK, AliasesAreDistinct, ByItself
<1>6. \A d \in DOMAIN work \ {e} : WorkerKnows(work[d], t)'
  <2>1. \A v : (NoSale(v) => NoSale(v)') /\ (NoAlias(v) => NoAlias(v)')
    BY <1>1 DEF NoSale, NoAlias
  <2> QED
    BY <1>1, <1>2, <1>3, <2>1 DEF WorkerKnows
<1>7. WorkerKnows([pc |-> "moveAliases", user |-> s], t)'
  <2>1. WorkerKnows(work[e], t)
    BY <1>1, <1>2 DEF Works
  <2> QED
    BY <1>1, <1>3, <2>1 DEF WorkerKnows, NoSale, Works, Working
<1> QED
  BY <1>1, <1>4, <1>5, <1>6, <1>7, WorkerStep

AliasesMove(s, t) ==
    \A b \in alias' : \E a \in alias :
        /\ b.live = a.live /\ b.email = a.email /\ DOMAIN b = DOMAIN a
        /\ b.user = IF a.user = s THEN t ELSE a.user
BroughtMoves(s, t) == brought' = IF s \in brought THEN (brought \ {s}) \cup {t} ELSE brought

\* The aliases that the source had go to the target, and with them that they were brought back.
LEMMA MovedAliasesAreDistinct ==
    ASSUME RowsOK, AliasesAreDistinct, alone' = alone, NEW s, NEW t,
           AliasesMove(s, t), BroughtMoves(s, t)
    PROVE  /\ AliasesAreDistinct'
           /\ \A a \in alias' : {"user", "email", "live"} \subseteq DOMAIN a
           /\ \A v : v # t /\ NoAlias(v) => NoAlias(v)'
           /\ s # t => NoAlias(s)'
<1>2. AliasesAreDistinct'
  <2> SUFFICES ASSUME alone, NEW c \in alias', NEW d \in alias',
                      c.live, d.live, c.email = d.email, c.user # d.user
               PROVE  {c.user, d.user} \cap brought' # {}
    BY DEF AliasesAreDistinct
  <2>1. PICK a \in alias : /\ c.live = a.live /\ c.email = a.email
                           /\ c.user = IF a.user = s THEN t ELSE a.user
    BY DEF AliasesMove
  <2>2. PICK b \in alias : /\ d.live = b.live /\ d.email = b.email
                           /\ d.user = IF b.user = s THEN t ELSE b.user
    BY DEF AliasesMove
  <2>3. {a.user, b.user} \cap brought # {}
    BY <2>1, <2>2 DEF AliasesAreDistinct
  <2> QED
    BY <2>1, <2>2, <2>3 DEF BroughtMoves
<1>3. \A a \in alias' : {"user", "email", "live"} \subseteq DOMAIN a
  BY DEF RowsOK, AliasesMove
<1> QED
  BY <1>2, <1>3 DEF NoAlias, AliasesMove

LEMMA AloneMovesAliases ==
    ASSUME AccountsInv, AloneInv, NEW j \in Jobs, ByItself(j), NEW e, MoveAliases(j, e)
    PROVE  AloneInv'
<1> PICK t, s, work : t = job[j].user /\ work = job[j].work /\ s = work[e].user
  OBVIOUS
<1>1. /\ Works(j, e, t, s, work) /\ work[e].pc = "moveAliases" /\ Turn(j, e, "deleteSeller", s)
      /\ alias' = {IF a.user = s THEN [a EXCEPT !.user = t] ELSE a : a \in alias}
      /\ brought' = IF s \in brought THEN (brought \ {s}) \cup {t} ELSE brought
      /\ UNCHANGED <<user, customer, sale, emptied, stray, late>>
  BY DEF MoveAliases, At, Works, Source
<1>2. /\ ~Gone(t) /\ \A d \in DOMAIN work : WorkerKnows(work[d], t)
      /\ RowsOK /\ AliasesAreDistinct /\ \A v : Gone(v) => Hollow(v)
  BY <1>1, WorkersKnow DEF ByItself
<1>3. /\ AliasesAreDistinct'
      /\ \A a \in alias' : {"user", "email", "live"} \subseteq DOMAIN a
      /\ \A v : v # t /\ NoAlias(v) => NoAlias(v)'
      /\ s # t => NoAlias(s)'
  <2>1. AliasesMove(s, t)
    <3> SUFFICES ASSUME NEW a \in alias,
                        NEW b, b = IF a.user = s THEN [a EXCEPT !.user = t] ELSE a
                 PROVE  /\ b.live = a.live /\ b.email = a.email
                        /\ b.user = IF a.user = s THEN t ELSE a.user
                        /\ DOMAIN b = DOMAIN a
      BY <1>1 DEF AliasesMove
    <3> QED
      BY <1>2 DEF RowsOK
  <2>2. BroughtMoves(s, t)
    BY <1>1 DEF BroughtMoves
  <2> QED
    BY <1>2, <2>1, <2>2, MovedAliasesAreDistinct DEF ByItself
<1>4. RowsOK'
  BY <1>1, <1>2, <1>3 DEF RowsOK
<1>5. \A v : (NoSale(v) => NoSale(v)') /\ (NoClient(v) => NoClient(v)')
  BY <1>1 DEF NoSale, NoClient
<1>6. ~Gone(t)' /\ \A v : Gone(v)' => Gone(v) /\ v # t
  BY <1>1, <1>2 DEF Gone
<1>7. \A v : Gone(v)' => Hollow(v)'
  BY <1>1, <1>2, <1>3, <1>5, <1>6 DEF Hollow
<1>8. \A d \in DOMAIN work \ {e} : WorkerKnows(work[d], t)'
  BY <1>1, <1>2, <1>3, <1>5 DEF WorkerKnows
<1>9. WorkerKnows([pc |-> "deleteSeller", user |-> s], t)'
  <2>1. WorkerKnows(work[e], t)
    BY <1>1, <1>2 DEF Works
  <2> QED
    BY <1>1, <1>3, <1>5, <2>1 DEF WorkerKnows, Works, Working
<1> QED
  BY <1>1, <1>3, <1>4, <1>6, <1>7, <1>8, <1>9, WorkerStep

LEMMA AloneDeletesSellers ==
    ASSUME AccountsInv, AloneInv, NEW j \in Jobs, ByItself(j), NEW e, DeleteSeller(j, e)
    PROVE  AloneInv'
<1> PICK t, s, work : t = job[j].user /\ work = job[j].work /\ s = work[e].user
  OBVIOUS
<1>1. /\ Works(j, e, t, s, work) /\ work[e].pc = "deleteSeller" /\ Turn(j, e, "markSeller", s)
      /\ user' = [user EXCEPT ![s].life = "deleted"]
      /\ emptied' = IF s = t THEN emptied ELSE emptied \cup {s}
      /\ UNCHANGED <<alias, customer, sale, stray, late, brought>>
  BY DEF DeleteSeller, At, Works, Source
<1>2. /\ ~Gone(t) /\ \A d \in DOMAIN work : WorkerKnows(work[d], t)
      /\ RowsOK /\ AliasesAreDistinct /\ \A v : Gone(v) => Hollow(v)
      /\ s \in UserRows /\ s \in Users /\ t \in Users
  BY <1>1, WorkersKnow DEF ByItself, Working, UserRows
<1>3. user'[s] = [user[s] EXCEPT !.life = "deleted"] /\ \A v \in Users : v # s => user'[v] = user[v]
  BY <1>1, <1>2 DEF AccountsInv, UsersOK
<1>4. /\ \A v \in Users : /\ user'[v].status = user[v].status
                          /\ {"life", "status", "email"} \subseteq DOMAIN user'[v]
                          /\ user[v].life = "deleted" => user'[v].life = "deleted"
      /\ user'[s].life = "deleted"
  BY <1>2, <1>3 DEF RowsOK
<1>5. RowsOK'
  BY <1>1, <1>2, <1>4 DEF RowsOK
<1>6. AliasesAreDistinct'
  BY <1>1, <1>2 DEF AliasesAreDistinct, ByItself
<1>7. \A v : /\ (NoSale(v) => NoSale(v)') /\ (NoClient(v) => NoClient(v)')
             /\ (NoAlias(v) => NoAlias(v)')
  BY <1>1 DEF NoSale, NoClient, NoAlias
<1>8. s # t => Hollow(s)
  <2>1. WorkerKnows(work[e], t)
    BY <1>1, <1>2 DEF Works
  <2> QED
    BY <1>1, <2>1 DEF WorkerKnows, Works, Hollow
<1>9. ~Gone(t)' /\ \A v : Gone(v)' => Gone(v) \/ (s # t /\ v = s)
  BY <1>1, <1>2, <1>4, <1>5 DEF Gone, RowsOK
<1>10. \A v : Gone(v)' => Hollow(v)'
  BY <1>1, <1>2, <1>7, <1>8, <1>9 DEF Hollow
<1>11. \A d \in DOMAIN work \ {e} : WorkerKnows(work[d], t)'
  BY <1>1, <1>2, <1>7 DEF WorkerKnows
<1>12. WorkerKnows([pc |-> "markSeller", user |-> s], t)'
  <2>1. WorkerKnows(work[e], t)
    BY <1>1, <1>2 DEF Works
  <2> QED
    BY <1>1, <1>7, <2>1 DEF WorkerKnows, Works, Working
<1> QED
  BY <1>1, <1>5, <1>6, <1>9, <1>10, <1>11, <1>12, WorkerStep

LEMMA AloneMarksSellers ==
    ASSUME AccountsInv, AloneInv, NEW j \in Jobs, ByItself(j), NEW e, MarkSeller(j, e)
    PROVE  AloneInv'
<1> PICK t, s, work : t = job[j].user /\ work = job[j].work /\ s = work[e].user
  OBVIOUS
<1>1. /\ Works(j, e, t, s, work) /\ work[e].pc = "markSeller" /\ Turn(j, e, "done", s)
      /\ user' = [user EXCEPT ![s].status = "DELETED"]
      /\ UNCHANGED <<alias, customer, sale, emptied, stray, late, brought>>
  BY DEF MarkSeller, At, Works, Source, History
<1>2. /\ ~Gone(t) /\ \A d \in DOMAIN work : WorkerKnows(work[d], t)
      /\ RowsOK /\ AliasesAreDistinct /\ \A v : Gone(v) => Hollow(v)
      /\ s \in UserRows /\ s \in Users /\ t \in Users
  BY <1>1, WorkersKnow DEF ByItself, Working, UserRows
<1>3. user'[s] = [user[s] EXCEPT !.status = "DELETED"] /\ \A v \in Users : v # s => user'[v] = user[v]
  BY <1>1, <1>2 DEF AccountsInv, UsersOK
<1>4. \A v \in Users : /\ user'[v].life = user[v].life
                       /\ {"life", "status", "email"} \subseteq DOMAIN user'[v]
  BY <1>2, <1>3 DEF RowsOK
<1>5. RowsOK'
  BY <1>1, <1>2, <1>4 DEF RowsOK
<1>6. AliasesAreDistinct'
  BY <1>1, <1>2 DEF AliasesAreDistinct, ByItself
<1>7. \A v : /\ (NoSale(v) => NoSale(v)') /\ (NoClient(v) => NoClient(v)')
             /\ (NoAlias(v) => NoAlias(v)')
  BY <1>1 DEF NoSale, NoClient, NoAlias
<1>8. (s # t => Hollow(s)) /\ (s = t => t \notin emptied)
  <2>1. WorkerKnows(work[e], t)
    BY <1>1, <1>2 DEF Works
  <2> QED
    BY <1>1, <2>1 DEF WorkerKnows, Works, Hollow, Working
<1>9. ~Gone(t)' /\ \A v : Gone(v)' => Gone(v) \/ (s # t /\ v = s)
  <2>1. \A v : Gone(v)' => v \in Users /\ v \in emptied /\ user'[v].status = "DELETED"
    BY <1>1, <1>2 DEF Gone, RowsOK
  <2>2. \A v \in Users : v # s /\ user'[v].status = "DELETED" => user[v].status = "DELETED"
    BY <1>3
  <2>3. \A v : Gone(v)' => Gone(v) \/ (s # t /\ v = s)
    BY <1>8, <2>1, <2>2 DEF Gone
  <2>4. ~Gone(t)'
    BY <1>2, <2>3 DEF Gone
  <2> QED
    BY <2>3, <2>4
<1>10. \A v : Gone(v)' => Hollow(v)'
  BY <1>1, <1>2, <1>7, <1>8, <1>9 DEF Hollow
<1>11. \A d \in DOMAIN work \ {e} : WorkerKnows(work[d], t)'
  BY <1>1, <1>2, <1>7 DEF WorkerKnows
<1>12. WorkerKnows([pc |-> "done", user |-> s], t)'
  BY DEF WorkerKnows, Working
<1> QED
  BY <1>1, <1>5, <1>6, <1>9, <1>10, <1>11, <1>12, WorkerStep

----------------------------------------------------------------------------
(* One request at a time: the other steps that write users and aliases. *)

LEMMA UserStep ==
    ASSUME AccountsInv, AloneInv, NEW j \in Jobs, ByItself(j), OnlyJob(j), NEW u \in Users,
           UNCHANGED <<alias, customer, sale, stray, late, brought>>, emptied' \subseteq emptied,
           \A v \in Users : v # u => user'[v] = user[v],
           {"life", "status", "email"} \subseteq DOMAIN user'[u],
           u \in emptied' => user'[u].life = user[u].life /\ user'[u].status = user[u].status,
           Knows(job[j])'
    PROVE  AloneInv'
<1>1. RowsOK /\ AliasesAreDistinct /\ \A v : Gone(v) => Hollow(v)
  BY AlonePart, GoneIsHollow DEF ByItself
<1>2. RowsOK'
  BY <1>1 DEF RowsOK
<1>3. AliasesAreDistinct'
  BY <1>1 DEF AliasesAreDistinct, ByItself
<1>4. \A v : Gone(v)' => Gone(v)
  BY <1>1 DEF Gone, RowsOK
<1>5. TransferredSellersAreEmpty'
  BY <1>1, <1>4
     DEF TransferredSellersAreEmpty, ByItself, Gone, Hollow, NoSale, NoAlias, NoClient
<1> QED
  BY <1>2, <1>3, <1>5, AloneStep

LEMMA ContinuingAlone ==
    ASSUME AccountsInv, NEW j \in Jobs, job[j].pc \in {"insertUser", "restoreAliases"},
           NEW u, Continue(j, u), ~Gone(u)'
    PROVE  OnlyJob(j) /\ Knows(job[j])'
<1>1. CASE Finish(j)
  <2>1. OnlyJob(j) /\ job'[j].pc \in Plain
    BY <1>1, Finished DEF AccountsInv, Plain
  <2> QED
    BY <2>1, PlainKnowsNothing
<1>2. ASSUME job[j].op \in OrderOps, NEW pc \in {"giveClient", "findClient"},
             job' = [job EXCEPT ![j].pc = pc, ![j].user = u]
      PROVE  OnlyJob(j) /\ Knows(job[j])'
  <2>1. job'[j] = [job[j] EXCEPT !.pc = pc, !.user = u] /\ OnlyJob(j)
    BY <1>2 DEF AccountsInv, JobsOK, OnlyJob
  <2>2. job'[j].pc = pc /\ job'[j].user = u /\ job'[j].op \in OrderOps
    BY <1>2, <2>1 DEF AccountsInv, JobsOK, JobOK
  <2>3. Knows(job[j])'
    BY <1>2, <2>2
       DEF Knows, ProfileKnows, OrderKnows, TransferKnows, Profiling, Ordering, Placing, Lasting
  <2> QED
    BY <2>1, <2>3
<1> QED
  BY <1>1, <1>2 DEF Continue

LEMMA AloneWritesUsers ==
    ASSUME AccountsInv, AloneInv, NEW j \in Jobs, ByItself(j),
           InsertUser(j) \/ RestoreUser(j) \/ DeleteUser(j) \/ MarkUser(j) \/ ReviveTarget(j) \/ UpdateUser(j)
    PROVE  AloneInv'
<1>0. RowsOK /\ Knows(job[j]) /\ JobOK(job[j], UserRows) /\ UsersOK
  BY AlonePart DEF ByItself, AccountsInv, JobsOK
<1>1. CASE InsertUser(j)
  <2>1. PICK u \in Users \ UserRows :
              /\ user' = [user EXCEPT ![u] = [life |-> "live", status |-> "ACTIVE",
                                              email |-> job[j].email]]
              /\ Continue(j, u)
    BY <1>1 DEF InsertUser
  <2>2. /\ job[j].pc = "insertUser"
        /\ UNCHANGED <<alias, customer, sale, stray, late, brought, emptied>>
    BY <1>1 DEF InsertUser, History
  <2>3. /\ \A v \in Users : v # u => user'[v] = user[v]
        /\ {"life", "status", "email"} \subseteq DOMAIN user'[u]
    BY <1>0, <2>1 DEF UsersOK
  <2>4. u \notin emptied
    BY <1>0, <2>1 DEF RowsOK, UserRows
  <2>5. ~Gone(u)'
    BY <2>2, <2>4 DEF Gone
  <2>6. OnlyJob(j) /\ Knows(job[j])'
    BY <2>1, <2>2, <2>5, ContinuingAlone
  <2> QED
    BY <2>2, <2>3, <2>4, <2>6, UserStep
<1>2. CASE RestoreUser(j) \/ DeleteUser(j) \/ MarkUser(j) \/ ReviveTarget(j) \/ UpdateUser(j)
  <2>1. PICK u : u = job[j].user
    OBVIOUS
  <2>2. /\ job[j].pc \in {"restoreUser", "deleteUser", "markUser", "revive", "updateUser"}
        /\ UNCHANGED <<alias, customer, sale, stray, late, brought>>
    BY <1>2 DEF RestoreUser, DeleteUser, MarkUser, ReviveTarget, UpdateUser, History
  <2>3. u \in UserRows /\ u \in Users
    BY <1>0, <2>1, <2>2 DEF JobOK, Searching, UserRows
  <2>4. /\ emptied' \subseteq emptied
        /\ \A v \in Users : v # u => user'[v] = user[v]
        /\ {"life", "status", "email"} \subseteq DOMAIN user'[u]
        /\ u \in emptied' => user'[u].life = user[u].life /\ user'[u].status = user[u].status
    <3>1. CASE RestoreUser(j) \/ ReviveTarget(j)
      <4>1. /\ user' = [user EXCEPT ![u] = [user[u] EXCEPT !.life = "live", !.status = "ACTIVE"]]
            /\ emptied' = emptied \ {u}
        BY <1>0, <2>1, <2>3, <3>1 DEF RestoreUser, ReviveTarget, UsersOK
      <4> QED
        BY <1>0, <2>3, <4>1 DEF UsersOK, RowsOK
    <3>2. CASE DeleteUser(j)
      <4>1. /\ user' = [user EXCEPT ![u] = [user[u] EXCEPT !.life = "deleted"]]
            /\ emptied' = emptied /\ u \notin emptied
        BY <1>0, <2>1, <2>3, <3>2 DEF DeleteUser, UsersOK, Knows, Lasting, History
      <4> QED
        BY <1>0, <2>3, <4>1 DEF UsersOK, RowsOK
    <3>3. CASE MarkUser(j)
      <4>1. /\ user' = [user EXCEPT ![u] = [user[u] EXCEPT !.status = "DELETED"]]
            /\ emptied' = emptied /\ u \notin emptied
        BY <1>0, <2>1, <2>3, <3>3 DEF MarkUser, UsersOK, Knows, Lasting, History
      <4> QED
        BY <1>0, <2>3, <4>1 DEF UsersOK, RowsOK
    <3>4. CASE UpdateUser(j)
      <4>1. /\ user' = [user EXCEPT ![u] = [user[u] EXCEPT !.email = job[j].email]]
            /\ emptied' = emptied
        BY <1>0, <2>1, <2>3, <3>4 DEF UpdateUser, UsersOK, History
      <4> QED
        BY <1>0, <2>3, <4>1 DEF UsersOK, RowsOK
    <3> QED
      BY <1>2, <3>1, <3>2, <3>3, <3>4
  <2>5. OnlyJob(j) /\ Knows(job[j])'
    <3>1. CASE RestoreUser(j)
      <4>1. /\ OnlyJob(j) /\ job'[j].pc = "restoreAliases" /\ job'[j].user = u
            /\ u \notin emptied'
        BY <2>1, <3>1, SteppedAlone DEF RestoreUser
      <4> QED
        BY <4>1 DEF Knows, ProfileKnows, OrderKnows, TransferKnows, Profiling, Ordering, Placing, Lasting
    <3>2. CASE DeleteUser(j)
      <4>1. /\ OnlyJob(j) /\ job'[j].pc = "markUser" /\ job'[j].user = u
            /\ u \notin emptied'
        BY <1>0, <2>1, <3>2, SteppedAlone DEF DeleteUser, Knows, Lasting, History
      <4> QED
        BY <4>1 DEF Knows, ProfileKnows, OrderKnows, TransferKnows, Profiling, Ordering, Placing, Lasting
    <3>3. CASE MarkUser(j)
      BY <3>3, SteppedAlone, PlainKnowsNothing DEF MarkUser, Plain
    <3>4. CASE UpdateUser(j)
      BY <3>4, Finished, PlainKnowsNothing DEF AccountsInv, UpdateUser, Plain
    <3>5. CASE ReviveTarget(j)
      <4>1. /\ OnlyJob(j) /\ job'[j].pc = "work" /\ job'[j].user = u /\ u \notin emptied'
            /\ job'[j].work = job[j].work
            /\ \A e \in DOMAIN job[j].work : job[j].work[e].pc = "findAlias"
        BY <1>0, <2>1, <3>5, SteppedAlone DEF ReviveTarget, JobOK
      <4>2. TransferKnows(job[j])'
        BY <4>1 DEF TransferKnows, WorkerKnows, Gone, Working
      <4> QED
        BY <4>1, <4>2 DEF Knows, ProfileKnows, OrderKnows, Profiling, Ordering, Placing, Lasting
    <3> QED
      BY <1>2, <3>1, <3>2, <3>3, <3>4, <3>5
  <2> QED
    BY <2>2, <2>3, <2>4, <2>5, UserStep
<1> QED
  BY <1>1, <1>2

LEMMA AliasStep ==
    ASSUME AccountsInv, AloneInv, NEW j \in Jobs, ByItself(j), OnlyJob(j),
           UNCHANGED <<user, customer, sale, emptied, stray, late>>,
           \A a \in alias' : {"user", "email", "live"} \subseteq DOMAIN a,
           \A v : Gone(v) /\ NoAlias(v) => NoAlias(v)',
           AliasesAreDistinct', Knows(job[j])'
    PROVE  AloneInv'
<1>1. RowsOK /\ \A v : Gone(v) => Hollow(v)
  BY AlonePart, GoneIsHollow DEF ByItself
<1>2. RowsOK'
  BY <1>1 DEF RowsOK
<1>3. \A v : Gone(v)' => Hollow(v)'
  BY <1>1 DEF Gone, Hollow, NoSale, NoClient
<1>4. TransferredSellersAreEmpty'
  BY <1>3 DEF TransferredSellersAreEmpty, ByItself, Gone, Hollow, NoSale, NoAlias, NoClient
<1> QED
  BY <1>2, <1>4, AloneStep

\* the aliases of u are switched on or off
Switched(u, on) ==
    \A b \in alias' : \E a \in alias :
        /\ b.user = a.user /\ b.email = a.email /\ DOMAIN b = DOMAIN a
        /\ b.live = IF a.user = u THEN on ELSE a.live

LEMMA SwitchedAliases ==
    ASSUME RowsOK, NEW u, NEW on \in BOOLEAN,
           alias' = {IF a.user = u THEN [a EXCEPT !.live = on] ELSE a : a \in alias}
    PROVE  Switched(u, on)
<1> SUFFICES ASSUME NEW a \in alias,
                    NEW b, b = IF a.user = u THEN [a EXCEPT !.live = on] ELSE a
             PROVE  /\ b.user = a.user /\ b.email = a.email /\ DOMAIN b = DOMAIN a
                    /\ b.live = IF a.user = u THEN on ELSE a.live
  BY DEF Switched
<1> QED
  BY DEF RowsOK

LEMMA AloneSwitchesAliases ==
    ASSUME AccountsInv, AloneInv, NEW j \in Jobs, ByItself(j), RestoreAliases(j) \/ DeleteAliases(j)
    PROVE  AloneInv'
<1> PICK u : u = job[j].user
  OBVIOUS
<1>1. /\ RowsOK /\ Knows(job[j]) /\ AliasesAreDistinct
      /\ UNCHANGED <<user, customer, sale, emptied, stray, late>>
  BY AlonePart DEF ByItself, RestoreAliases, DeleteAliases
<1>2. RestoreAliases(j) => Switched(u, TRUE)
  BY <1>1, SwitchedAliases DEF RestoreAliases
<1>3. DeleteAliases(j) => Switched(u, FALSE)
  BY <1>1, SwitchedAliases DEF DeleteAliases
<1>4. /\ \A a \in alias' : {"user", "email", "live"} \subseteq DOMAIN a
      /\ \A v : NoAlias(v) => NoAlias(v)'
  <2>1. PICK on \in BOOLEAN : Switched(u, on)
    BY <1>2, <1>3
  <2>2. \A b \in alias' : \E a \in alias : b.user = a.user /\ DOMAIN b = DOMAIN a
    BY <2>1 DEF Switched
  <2> QED
    BY <1>1, <2>2 DEF RowsOK, NoAlias
<1>5. CASE RestoreAliases(j)
  <2>1. AliasesAreDistinct'
    <3>1. CASE alias' = alias
      BY <1>1, <1>5, <3>1 DEF RestoreAliases, AliasesAreDistinct, ByItself
    <3>2. CASE brought' = brought \cup {u}
      <4> SUFFICES ASSUME NEW c \in alias', NEW d \in alias',
                          c.live, d.live, c.email = d.email, c.user # d.user
                   PROVE  {c.user, d.user} \cap brought' # {}
        BY DEF AliasesAreDistinct
      <4>1. PICK a \in alias : /\ c.user = a.user /\ c.email = a.email
                               /\ c.live = IF a.user = u THEN TRUE ELSE a.live
        BY <1>2, <1>5 DEF Switched
      <4>2. PICK b \in alias : /\ d.user = b.user /\ d.email = b.email
                               /\ d.live = IF b.user = u THEN TRUE ELSE b.live
        BY <1>2, <1>5 DEF Switched
      <4>3. c.user = u \/ d.user = u \/ {c.user, d.user} \cap brought # {}
        BY <1>1, <4>1, <4>2 DEF AliasesAreDistinct, ByItself
      <4> QED
        BY <3>2, <4>3
    <3> QED
      BY <1>5, <3>1, <3>2 DEF RestoreAliases
  <2>2. job[j].pc = "restoreAliases" /\ Continue(j, u)
    BY <1>5 DEF RestoreAliases
  <2>3. ~Gone(u)'
    BY <1>1, <2>2 DEF Gone, Knows, Lasting
  <2>4. OnlyJob(j) /\ Knows(job[j])'
    BY <2>2, <2>3, ContinuingAlone
  <2> QED
    BY <1>1, <1>4, <2>1, <2>4, AliasStep
<1>6. CASE DeleteAliases(j)
  <2>1. brought' = brought \ {u}
    BY <1>6 DEF DeleteAliases
  <2>2. AliasesAreDistinct'
    <3> SUFFICES ASSUME NEW c \in alias', NEW d \in alias',
                        c.live, d.live, c.email = d.email, c.user # d.user
                 PROVE  {c.user, d.user} \cap brought' # {}
      BY DEF AliasesAreDistinct
    <3>1. PICK a \in alias : /\ c.user = a.user /\ c.email = a.email
                             /\ c.live = IF a.user = u THEN FALSE ELSE a.live
      BY <1>3, <1>6 DEF Switched
    <3>2. PICK b \in alias : /\ d.user = b.user /\ d.email = b.email
                             /\ d.live = IF b.user = u THEN FALSE ELSE b.live
      BY <1>3, <1>6 DEF Switched
    <3>3. c.user # u /\ d.user # u /\ {c.user, d.user} \cap brought # {}
      BY <1>1, <2>1, <3>1, <3>2 DEF AliasesAreDistinct, ByItself
    <3> QED
      BY <2>1, <3>3
  <2>3. OnlyJob(j) /\ Knows(job[j])'
    BY <1>6, Finished, PlainKnowsNothing DEF DeleteAliases, AccountsInv, Plain
  <2> QED
    BY <1>1, <1>4, <2>2, <2>3, AliasStep
<1> QED
  BY <1>5, <1>6

LEMMA AloneReplacesAliases ==
    ASSUME AccountsInv, AloneInv, NEW j \in Jobs, ByItself(j), ForceDelete(j) \/ CreateAlias(j)
    PROVE  AloneInv'
<1> PICK u : u = job[j].user
  OBVIOUS
<1>1. /\ RowsOK /\ Knows(job[j]) /\ AliasesAreDistinct
      /\ UNCHANGED <<user, customer, sale, emptied, stray, late>>
      /\ job[j].pc \in {"forceDelete", "createAlias"} /\ Step(j, "nextEmail")
  BY AlonePart DEF ByItself, ForceDelete, CreateAlias, History
<1>2. u \notin emptied /\ {"email", "taken", "list"} \subseteq DOMAIN job[j]
  BY <1>1 DEF Knows, ProfileKnows, Profiling, Lasting
<1>3. /\ OnlyJob(j) /\ job'[j].pc = "nextEmail" /\ job'[j].user = u
      /\ DOMAIN job'[j] = DOMAIN job[j]
  BY <1>1, SteppedAlone
<1>4. Knows(job[j])'
  BY <1>1, <1>2, <1>3 DEF Knows, ProfileKnows, OrderKnows, TransferKnows, Profiling, Ordering, Placing, Lasting
<1>5. CASE ForceDelete(j)
  <2>1. alias' = {a \in alias : a.user # u} /\ brought' = brought \ {u}
    BY <1>5 DEF ForceDelete
  <2>2. /\ \A a \in alias' : {"user", "email", "live"} \subseteq DOMAIN a
        /\ \A v : NoAlias(v) => NoAlias(v)'
    BY <1>1, <2>1 DEF RowsOK, NoAlias
  <2>3. AliasesAreDistinct'
    BY <1>1, <2>1 DEF AliasesAreDistinct, ByItself
  <2> QED
    BY <1>1, <1>3, <1>4, <2>2, <2>3, AliasStep
<1>6. CASE CreateAlias(j)
  <2> PICK new : new = [user |-> u, email |-> job[j].email, live |-> TRUE]
    OBVIOUS
  <2>1. alias' = alias \cup {new} /\ brought' = brought /\ job[j].pc = "createAlias"
    BY <1>6 DEF CreateAlias, History
  <2>2. \A a \in alias : a.live /\ a.email = new.email => a.user = u
    BY <1>1, <2>1 DEF Knows, ProfileKnows
  <2>3. /\ \A a \in alias' : {"user", "email", "live"} \subseteq DOMAIN a
        /\ \A v : v # u /\ NoAlias(v) => NoAlias(v)'
    BY <1>1, <2>1 DEF RowsOK, NoAlias
  <2>4. AliasesAreDistinct'
    BY <1>1, <2>1, <2>2 DEF AliasesAreDistinct, ByItself
  <2>5. \A v : Gone(v) => v # u
    BY <1>2 DEF Gone
  <2> QED
    BY <1>1, <1>3, <1>4, <2>3, <2>4, <2>5, AliasStep
<1> QED
  BY <1>5, <1>6

----------------------------------------------------------------------------
(* One request at a time: the client and the order. *)

\* A client or an order that is given to nobody who is gone, or late, leaves the gone ones empty.
LEMMA GivingStep ==
    ASSUME AccountsInv, AloneInv, NEW j \in Jobs, ByItself(j), OnlyJob(j),
           UNCHANGED <<user, alias, emptied, brought>>,
           \A v : Gone(v) /\ (NoSale(v) \/ late) => NoSale(v)' \/ late',
           \A v : Gone(v) /\ (NoClient(v) \/ stray) => NoClient(v)' \/ stray',
           Knows(job[j])'
    PROVE  AloneInv'
<1>1. RowsOK /\ AliasesAreDistinct /\ \A v : Gone(v) => Hollow(v)
  BY AlonePart, GoneIsHollow DEF ByItself
<1>2. RowsOK' /\ AliasesAreDistinct'
  BY <1>1 DEF RowsOK, AliasesAreDistinct, ByItself
<1>3. \A v : Gone(v)' => Hollow(v)'
  BY <1>1 DEF Gone, Hollow, NoAlias
<1>4. TransferredSellersAreEmpty'
  BY <1>3 DEF TransferredSellersAreEmpty, ByItself, Gone, Hollow, NoSale, NoAlias, NoClient
<1> QED
  BY <1>2, <1>4, AloneStep

\* a client that is given to somebody removed is late
LEMMA GivenLate ==
    ASSUME RowsOK, NEW row, GiveClient(row)
    PROVE  \A v : Gone(v) => NoClient(v)' \/ stray'
BY DEF RowsOK, GiveClient, Leaving, Gone, NoClient

LEMMA AloneGivesClients ==
    ASSUME AccountsInv, AloneInv, NEW j \in Jobs, ByItself(j),
           \/ InsertClient(j) \/ ReviveCustomer(j) \/ DeleteCustomer(j) \/ WriteSeller(j)
           \/ WriteMismatch(j)
    PROVE  AloneInv'
<1>0. /\ RowsOK /\ Knows(job[j]) /\ JobOK(job[j], UserRows)
      /\ UNCHANGED <<user, alias, sale, emptied, late, brought>>
  BY AlonePart
     DEF ByItself, AccountsInv, JobsOK, InsertClient, ReviveCustomer, DeleteCustomer, WriteSeller,
         WriteMismatch, History
<1>1. \A v : Gone(v) /\ (NoClient(v) \/ stray) => NoClient(v)' \/ stray'
  <2>1. CASE UNCHANGED <<customer, stray>>
    BY <2>1 DEF NoClient
  <2>2. ASSUME NEW row, GiveClient(row)
        PROVE  \A v : Gone(v) => NoClient(v)' \/ stray'
    BY <1>0, <2>2, GivenLate
  <2>3. CASE DeleteCustomer(j)
    BY <2>3 DEF DeleteCustomer, History, NoClient, AccountsInv, CustomerOK
  <2> QED
    BY <2>1, <2>2, <2>3 DEF InsertClient, ReviveCustomer, WriteSeller, WriteMismatch
<1>2. OnlyJob(j) /\ Knows(job[j])'
  <2>1. CASE Finish(j)
    BY <2>1, Finished, PlainKnowsNothing DEF AccountsInv, Plain
  <2>2. CASE /\ InsertClient(j) \/ WriteSeller(j)
             /\ job[j].op \in OrderOps /\ Step(j, LastCall(j))
    <3>1. PICK pc \in {"insertOrder", "updateOrder"} : Step(j, pc)
      BY <2>2 DEF LastCall
    <3>2. job[j].pc \in {"insertClient", "giveClient"}
      BY <2>2 DEF InsertClient, WriteSeller
    <3>3. /\ OnlyJob(j) /\ job'[j].pc = pc /\ job'[j].user = job[j].user
          /\ job'[j].op = job[j].op /\ job'[j].by = job[j].by
      BY <1>0, <2>2, <3>1, <3>2, SteppedAlone DEF JobOK
    <3>4. job'[j].by = NoUser => ~Gone(job[j].user)'
      BY <1>0, <2>2, <3>2, <3>3 DEF Knows, OrderKnows, Placing, Gone
    <3> QED
      BY <2>2, <3>3, <3>4
         DEF Knows, ProfileKnows, OrderKnows, TransferKnows, Gone, Profiling, Ordering, Placing,
             Lasting
  <2>3. CASE WriteMismatch(j)
    <3> PICK u : u = OrderSeller(j, job[j].user)
      OBVIOUS
    <3>1. /\ job[j].pc = "mismatch" /\ job[j].op \in OrderOps
          /\ {"pc", "op", "user", "by"} \subseteq DOMAIN job[j]
          /\ job' = [job EXCEPT ![j].pc = "giveClient", ![j].user = u]
      BY <1>0, <2>3 DEF WriteMismatch, JobOK
    <3>2. job'[j] = [job[j] EXCEPT !.pc = "giveClient", !.user = u] /\ OnlyJob(j)
      BY <3>1 DEF AccountsInv, JobsOK, OnlyJob
    <3>3. /\ job'[j].pc = "giveClient" /\ job'[j].user = u
          /\ job'[j].op = job[j].op /\ job'[j].by = job[j].by
      BY <3>1, <3>2
    <3>4. job[j].by = NoUser => ~Gone(u)'
      BY <1>0, <3>1 DEF OrderSeller, Knows, OrderKnows, Placing, Gone
    <3>5. Knows(job[j])'
      BY <3>3, <3>4
         DEF Knows, ProfileKnows, OrderKnows, TransferKnows, Gone, Profiling, Ordering, Placing,
             Lasting
    <3> QED
      BY <3>2, <3>5
  <2> QED
    BY <2>1, <2>2, <2>3 DEF InsertClient, ReviveCustomer, DeleteCustomer, WriteSeller
<1> QED
  BY <1>0, <1>1, <1>2, GivingStep DEF NoSale

\* an order goes to somebody gone only by the token of that seller
LEMMA TakenLate ==
    ASSUME RowsOK, NEW j \in Jobs, TakeOrder(j), job[j].by = NoUser => ~Gone(job[j].user)
    PROVE  \A v : Gone(v) => NoSale(v)' \/ late'
BY DEF RowsOK, TakeOrder, Leaving, Gone, NoSale

LEMMA AloneGivesOrders ==
    ASSUME AccountsInv, AloneInv, NEW j \in Jobs, ByItself(j),
           HandOver(j) \/ InsertOrder(j) \/ UpdateOrder(j)
    PROVE  AloneInv'
<1>1. RowsOK /\ Knows(job[j]) /\ UNCHANGED <<user, alias, emptied, brought>> /\ Finish(j)
  BY AlonePart DEF ByItself, HandOver, InsertOrder, UpdateOrder
<1>2. OnlyJob(j) /\ Knows(job[j])'
  BY <1>1, Finished, PlainKnowsNothing DEF AccountsInv, Plain
<1>3. \A v : Gone(v) /\ (NoSale(v) \/ late) => NoSale(v)' \/ late'
  <2>1. CASE UNCHANGED <<sale, late>>
    BY <2>1 DEF NoSale
  <2>2. CASE HandOver(j) /\ sale' = job[j].user
    <3>1. ~Gone(job[j].user)
      BY <1>1, <2>2 DEF HandOver, Knows
    <3> QED
      BY <2>2, <3>1 DEF NoSale
  <2>3. CASE (InsertOrder(j) \/ UpdateOrder(j)) /\ TakeOrder(j)
    <3>1. job[j].by = NoUser => ~Gone(job[j].user)
      BY <1>1, <2>3 DEF InsertOrder, UpdateOrder, Knows, OrderKnows, Placing, Ordering
    <3> QED
      BY <1>1, <2>3, <3>1, TakenLate
  <2> QED
    BY <2>1, <2>2, <2>3 DEF HandOver, InsertOrder, UpdateOrder
<1>4. \A v : Gone(v) /\ (NoClient(v) \/ stray) => NoClient(v)' \/ stray'
  <2>1. CASE HandOver(j)
    <3> PICK row : row = [customer EXCEPT !.seller = job[j].user]
      OBVIOUS
    <3> QED
      BY <1>1, <2>1, GivenLate DEF HandOver
  <2>2. CASE InsertOrder(j) \/ UpdateOrder(j)
    BY <2>2 DEF InsertOrder, UpdateOrder, NoClient
  <2> QED
    BY <2>1, <2>2
<1> QED
  BY <1>1, <1>2, <1>3, <1>4, GivingStep

----------------------------------------------------------------------------
(* One request at a time: requests begin and fail. *)

LEMMA AloneBegins ==
    ASSUME AccountsInv, AloneInv, NEW j \in Jobs, ByItself(j), Begin(j)
    PROVE  AloneInv'
<1>1. PICK r \in NewJobs : job' = [job EXCEPT ![j] = r]
  BY DEF Begin
<1>2. OnlyJob(j) /\ job'[j] = r /\ Reads
  BY <1>1 DEF Begin, AccountsInv, JobsOK, OnlyJob, History, Reads
<1>3. Knows(job[j])'
  <2>1. CASE r \in [op : {"transfer"}, pc : {"findTarget"}, email : Emails, user : {NoUser},
                   work : {[e \in es |-> [pc |-> "findAlias", user |-> NoUser]] :
                              es \in {s \in SUBSET Emails :
                                        Cardinality(s) \in 1 .. (IF alone THEN 2 ELSE 1)}}]
    <3>1. job'[j].pc \in Plain
      BY <1>2, <2>1 DEF Plain
    <3> QED
      BY <3>1, PlainKnowsNothing
  <2>2. CASE \/ r \in [op : {"create"}, pc : {"findForCreate"}, email : Emails, user : {NoUser}]
             \/ r \in [op : {"clients"}, pc : {"findNewSeller"}, email : Emails, user : {NoUser}]
             \/ r \in [op : {"remove"}, pc : {"checkClients"}, user : UserRows]
             \/ r \in [op : {"restore"}, pc : {"restoreUser"}, user : UserRows]
             \/ r \in [op : {"update"}, pc : {"updateUser"}, user : UserRows, email : Emails]
    <3>1. job'[j].pc \in Plain
      BY <1>2, <2>2 DEF Plain
    <3> QED
      BY <3>1, PlainKnowsNothing
  <2>3. CASE r \in [op : OrderOps, pc : {"findOrderSeller"}, email : Emails, user : {NoUser},
                   owner : {NoUser}, known : {FALSE}, by : {NoUser} \cup UserRows]
    <3>1. job'[j].pc = "findOrderSeller" /\ job'[j].op \in OrderOps
      BY <1>2, <2>3
    <3> QED
      BY <3>1 DEF Knows, ProfileKnows, OrderKnows, TransferKnows, Profiling, Ordering, Placing, Lasting
  <2>4. CASE r \in [op : {"profile"}, pc : {"readProfile"}, user : UserRows, list : AliasLists,
                   email : {"none"}, taken : {FALSE}]
    <3>1. job'[j].pc = "readProfile" /\ {"email", "taken", "list"} \subseteq DOMAIN job'[j]
      BY <1>2, <2>4
    <3> QED
      BY <3>1 DEF Knows, ProfileKnows, OrderKnows, TransferKnows, Profiling, Ordering, Placing, Lasting
  <2>5. CASE \/ r \in [op : {"client"}, pc : {"giveClient", "deleteClient", "reviveClient"},
                       user : UserRows]
             \/ r \in [op : {"newClient"}, pc : {"findClientSeller", "findClient"}, user : UserRows]
    <3>1. /\ job'[j].op \notin OrderOps
          /\ job'[j].pc \in {"giveClient", "deleteClient", "reviveClient", "findClientSeller",
                             "findClient"}
      BY <1>2, <2>5 DEF OrderOps
    <3> QED
      BY <3>1 DEF Knows, ProfileKnows, OrderKnows, TransferKnows, Profiling, Ordering, Placing, Lasting
  <2>6. CASE r \in [op : IF sale = NoUser THEN {"place"} ELSE OrderOps, pc : {"findOrderSeller"},
                   email : Emails, user : {NoUser}, owner : {NoUser}, known : {FALSE},
                   by : {NoUser} \cup UserRows]
    BY <2>3, <2>6 DEF OrderOps
  <2> QED
    BY <1>1, <2>1, <2>2, <2>4, <2>5, <2>6 DEF NewJobs
<1> QED
  BY <1>2, <1>3, AloneReads

LEMMA AloneFails ==
    ASSUME AccountsInv, AloneInv, NEW j \in Jobs, ByItself(j), FailJob(j)
    PROVE  AloneInv'
<1>1. Reads
  BY DEF FailJob, History, Reads
<1>2. CASE Finish(j)
  BY <1>1, <1>2, AloneEnds
<1>3. ASSUME job[j].pc = "work", NEW e \in DOMAIN job[j].work, Turn(j, e, "done", Source(j, e))
      PROVE  AloneInv'
  <2> PICK t, s, work : t = job[j].user /\ work = job[j].work /\ s = work[e].user
    OBVIOUS
  <2>1. Works(j, e, t, s, work) /\ Turn(j, e, "done", s)
    BY <1>3 DEF Works, Source
  <2>2. WorkerKnows([pc |-> "done", user |-> s], t)
    BY DEF WorkerKnows, Working
  <2> QED
    BY <1>1, <2>1, <2>2, WorkerReads
<1> QED
  BY <1>2, <1>3 DEF FailJob

----------------------------------------------------------------------------
\* Whatever a request does, it does by itself.
LEMMA StepsAreByThemselves ==
    ASSUME AloneInv, alone, NEW j \in Jobs, alone' = alone, job[j].pc # "idle" \/ Begin(j)
    PROVE  ByItself(j)
<1>1. CASE Begin(j)
  BY <1>1 DEF Begin, ByItself
<1>2. CASE job[j].pc # "idle"
  BY <1>2 DEF AloneInv, Quiet, ByItself
<1> QED
  BY <1>1, <1>2

LEMMA AloneInvInit == AccountsInit => AloneInv
<1> SUFFICES ASSUME AccountsInit, alone PROVE AloneInv
  BY DEF AloneInv
<1>1. job = [j \in Jobs |-> [pc |-> "idle"]] /\ emptied = {}
  BY DEF AccountsInit, Free
<1>2. \A u \in Users : {"life", "status", "email"} \subseteq DOMAIN user[u]
  BY DEF AccountsInit, Absent
<1>3. /\ \A a \in alias : {"user", "email", "live"} \subseteq DOMAIN a
      /\ \A a, b \in alias : a.live /\ b.live /\ a.email = b.email => a.user = b.user
  BY AccountsOK DEF AccountsInit
<1>4. RowsOK
  BY <1>1, <1>2, <1>3 DEF RowsOK
<1>5. AliasesAreDistinct /\ TransferredSellersAreEmpty
  BY <1>1, <1>3 DEF AliasesAreDistinct, TransferredSellersAreEmpty
<1>6. \A j \in Jobs : Knows(job[j])
  BY <1>1, IdleKnowsNothing
<1> QED
  BY <1>1, <1>4, <1>5, <1>6 DEF AloneInv, Quiet

LEMMA AloneInvNext == AccountsInv /\ AloneInv /\ [AccountsNext]_accountVars => AloneInv'
<1> SUFFICES ASSUME AccountsInv, AloneInv, [AccountsNext]_accountVars PROVE AloneInv'
  OBVIOUS
<1>1. CASE UNCHANGED accountVars
  BY <1>1 DEF accountVars, tables, AloneInv, Quiet, RowsOK, Knows, ProfileKnows, OrderKnows,
              TransferKnows, WorkerKnows, Gone, NoSale, NoClient, NoAlias,
              AliasesAreDistinct, TransferredSellersAreEmpty
<1>2. ASSUME NEW j \in Jobs, NEW e \in Emails,
             \/ FindAlias(j, e) \/ FindSeller(j, e) \/ MoveOrders(j, e) \/ MoveClients(j, e)
             \/ MoveAliases(j, e) \/ DeleteSeller(j, e) \/ MarkSeller(j, e)
      PROVE  AloneInv'
  <2>1. alone' = alone /\ job[j].pc # "idle"
    BY <1>2 DEF FindAlias, FindSeller, MoveOrders, MoveClients, MoveAliases, DeleteSeller,
                MarkSeller, At, Bounds
  <2>2. CASE ~alone
    BY <2>1, <2>2 DEF AloneInv
  <2>3. CASE alone
    <3>1. ByItself(j)
      BY <2>1, <2>3, StepsAreByThemselves
    <3> QED
      BY <1>2, <3>1, AloneWorkersRead, AloneMovesOrders, AloneMovesClients, AloneMovesAliases,
         AloneDeletesSellers, AloneMarksSellers
  <2> QED
    BY <2>2, <2>3
<1>3. ASSUME NEW j \in Jobs,
             \/ Begin(j) \/ FailJob(j)
             \/ FindForCreate(j) \/ CheckClients(j) \/ FindTarget(j) \/ EndTransfer(j) \/ ReadProfile(j)
             \/ NextEmail(j) \/ FindOther(j) \/ FindClientSeller(j) \/ FindClient(j) \/ FindNewSeller(j)
             \/ FindOrderSeller(j) \/ FindOrderAlias(j) \/ FindOrderClient(j)
      PROVE  AloneInv'
  <2>1. alone' = alone /\ (job[j].pc # "idle" \/ Begin(j))
    BY <1>3 DEF Begin, FailJob, FindForCreate, CheckClients, FindTarget, EndTransfer, ReadProfile,
                NextEmail, FindOther, FindClientSeller, FindClient, FindNewSeller,
                FindOrderSeller, FindOrderAlias, FindOrderClient, Bounds
  <2>2. CASE ~alone
    BY <2>1, <2>2 DEF AloneInv
  <2>3. CASE alone
    <3>1. ByItself(j)
      BY <2>1, <2>3, StepsAreByThemselves
    <3> QED
      BY <1>3, <3>1, AloneBegins, AloneFails, AloneReadingUsers, AloneReadingProfiles,
         AloneReadingClients, AloneReadingForOrders
  <2> QED
    BY <2>2, <2>3
<1>4. ASSUME NEW j \in Jobs,
             \/ InsertUser(j) \/ RestoreUser(j) \/ DeleteUser(j) \/ MarkUser(j) \/ ReviveTarget(j)
             \/ UpdateUser(j)
             \/ RestoreAliases(j) \/ DeleteAliases(j) \/ ForceDelete(j) \/ CreateAlias(j)
             \/ InsertClient(j) \/ ReviveCustomer(j) \/ DeleteCustomer(j) \/ WriteSeller(j) \/ HandOver(j)
             \/ WriteMismatch(j) \/ InsertOrder(j) \/ UpdateOrder(j)
      PROVE  AloneInv'
  <2>1. alone' = alone /\ job[j].pc # "idle"
    BY <1>4 DEF InsertUser, RestoreUser, DeleteUser, MarkUser, ReviveTarget, UpdateUser,
                RestoreAliases, DeleteAliases, ForceDelete, CreateAlias, InsertClient,
                ReviveCustomer, DeleteCustomer, WriteSeller, HandOver, WriteMismatch, InsertOrder,
                UpdateOrder, Bounds
  <2>2. CASE ~alone
    BY <2>1, <2>2 DEF AloneInv
  <2>3. CASE alone
    <3>1. ByItself(j)
      BY <2>1, <2>3, StepsAreByThemselves
    <3> QED
      BY <1>4, <3>1, AloneWritesUsers, AloneSwitchesAliases, AloneReplacesAliases,
         AloneGivesClients, AloneGivesOrders
  <2> QED
    BY <2>2, <2>3
<1> QED
  BY <1>1, <1>2, <1>3, <1>4 DEF AccountsNext

\* For every set of users, emails and aliases that belong to one user each, and every sequence of
\* requests one at a time, whatever call fails: a live alternate email has one owner, unless a
\* restoration (users.service.ts restore) brought it back for another.
THEOREM AliasesHaveOneOwner == AccountsSpec => []AliasesAreDistinct
<1>1. AccountsSpec => [](AccountsInv /\ AloneInv)
  BY AccountsInvInit, AccountsInvNext, AloneInvInit, AloneInvNext, PTL DEF AccountsSpec
<1>2. AloneInv => AliasesAreDistinct
  BY DEF AloneInv, AliasesAreDistinct
<1> QED
  BY <1>1, <1>2, PTL

\* ... and a seller that sellers.service.ts transferSellersData removed, and marked so, keeps no
\* alternate email, no client that it was not given later, and no order but one that it placed or
\* changed after that with the token it kept.
THEOREM TransfersEmptyTheSeller == AccountsSpec => []TransferredSellersAreEmpty
<1>1. AccountsSpec => [](AccountsInv /\ AloneInv)
  BY AccountsInvInit, AccountsInvNext, AloneInvInit, AloneInvNext, PTL DEF AccountsSpec
<1>2. AloneInv => TransferredSellersAreEmpty
  BY DEF AloneInv, TransferredSellersAreEmpty
<1> QED
  BY <1>1, <1>2, PTL
=============================================================================
