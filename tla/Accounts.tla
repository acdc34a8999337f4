------------------------------- MODULE Accounts -------------------------------
(***************************************************************************)
(* Users, their alternate emails, and what belongs to them: clients and     *)
(* orders.  A request is a series of database calls, each an action, any of *)
(* which may reject; a second request may run between two of them.          *)
(***************************************************************************)
EXTENDS Integers, FiniteSets, Sequences

CONSTANTS Users, Emails, Jobs,
          FirstUsers, FirstAliases, FirstSellers,   \* what there is at first
          AliasLists,                               \* what users ask for in a profile
          MaxRequests, MaxTogether                  \* bounds on the requests, one at a time or not

ASSUME AccountsOK ==
    /\ Users \subseteq Nat \ {0} /\ {MaxRequests, MaxTogether} \subseteq Nat
    /\ DOMAIN FirstUsers \subseteq Users
    /\ \A A \in FirstAliases : /\ A \subseteq [user : DOMAIN FirstUsers, email : Emails, live : BOOLEAN]
                               /\ \A a, b \in A : a.live /\ b.live /\ a.email = b.email => a.user = b.user
    /\ FirstSellers \subseteq {0} \cup DOMAIN FirstUsers

NoUser == 0

VARIABLES user,      \* rows of users: [life, status, email]
          alias,     \* rows of alternate emails: [user, email, live]
          customer,  \* one client: [life, seller]
          sale,      \* the seller of one order, NoUser before it is placed
          job, requests, failures,
          alone,     \* one request at a time
          emptied,   \* history: removed by a transfer to somebody else
          stray,     \* history: the client came to its seller too late
          late,      \* history: a removed seller took the order with the token it kept
          brought    \* history: owners of aliases that a restoration brought back
tables == <<user, alias, customer, sale>>
accountVars == <<tables, job, requests, failures, alone, emptied, stray, late, brought>>

Free == [pc |-> "idle"]
Absent == [life |-> "none", status |-> "none", email |-> "none"]

UserRows == {u \in Users : user[u].life # "none"}
LiveUsers == {u \in Users : user[u].life = "live"}
Named(S, e) == {u \in S : user[u].email = e}
LiveAliases(e) == {a \in alias : a.live /\ a.email = e}
AnyAlias(e) == {a \in alias : a.email = e}

\* findFirst: any of the rows, or NoUser
First(S) == IF S = {} THEN {NoUser} ELSE S
Owners(A) == First({a.user : a \in A})

\* past the check on its clients a user is as good as removed
Leaving(u) ==
    \/ user[u].life = "deleted"
    \/ \E j \in Jobs : \/ job[j].pc = "deleteUser" /\ job[j].user = u
                       \/ job[j].pc = "work" /\ \E e \in DOMAIN job[j].work :
                            /\ job[j].work[e].user = u
                            /\ job[j].work[e].pc \in {"moveAliases", "deleteSeller"}

Step(j, pc) == job' = [job EXCEPT ![j].pc = pc]
Finish(j) == job' = [job EXCEPT ![j] = Free]
History == <<emptied, stray, late, brought>>
Bounds == <<requests, failures, alone>>

\* every write of the seller of the client goes through here
GiveClient(row) ==
    /\ customer' = row
    /\ stray' = Leaving(row.seller)

----------------------------------------------------------------------------
\* users.service.ts create and restore; also the end of validateSellerAndClient

OrderOps == {"place", "amend"}     \* POST /orders, PATCH /orders/:id
LastCall(j) == IF job[j].op = "place" THEN "insertOrder" ELSE "updateOrder"

\* a found seller: the order goes on with it, or the request is over
Continue(j, u) == IF job[j].op \in OrderOps
                  THEN job' = [job EXCEPT ![j].pc = IF job[j].known THEN "giveClient" ELSE "findClient",
                                          ![j].user = u]
                  ELSE Finish(j)

FindForCreate(j) ==
    /\ job[j].pc = "findForCreate"
    /\ \E u \in First(Named(UserRows, job[j].email)) :
          IF u = NoUser THEN Step(j, "insertUser")
          ELSE IF user[u].status = "DELETED"
               THEN job' = [job EXCEPT ![j].pc = "restoreUser", ![j].user = u]
               ELSE Finish(j)       \* 400 or 409
    /\ UNCHANGED <<tables, Bounds, History>>

InsertUser(j) ==
    /\ job[j].pc = "insertUser"
    /\ \E u \in Users \ UserRows :
          /\ \A w \in Users \ UserRows : u <= w
          /\ user' = [user EXCEPT ![u] = [life |-> "live", status |-> "ACTIVE",
                                          email |-> job[j].email]]
          /\ Continue(j, u)
    /\ UNCHANGED <<alias, customer, sale, Bounds, History>>

RestoreUser(j) ==
    /\ job[j].pc = "restoreUser"
    /\ user' = [user EXCEPT ![job[j].user].life = "live", ![job[j].user].status = "ACTIVE"]
    /\ Step(j, "restoreAliases")
    /\ emptied' = emptied \ {job[j].user}
    /\ UNCHANGED <<alias, customer, sale, Bounds, stray, late, brought>>

RestoreAliases(j) ==
    /\ job[j].pc = "restoreAliases"
    /\ alias' = {IF a.user = job[j].user THEN [a EXCEPT !.live = TRUE] ELSE a : a \in alias}
    /\ brought' = IF alias' = alias THEN brought ELSE brought \cup {job[j].user}
    /\ Continue(j, job[j].user)
    /\ UNCHANGED <<user, customer, sale, Bounds, emptied, stray, late>>

----------------------------------------------------------------------------
\* users.service.ts remove: the included clients are the live ones

\* a mutant: the clients are not looked at
CheckNobody(j) ==
    /\ job[j].pc = "checkClients"
    /\ IF user[job[j].user].life = "live" THEN Step(j, "deleteUser") ELSE Finish(j)
    /\ UNCHANGED <<tables, Bounds, History>>

CheckClients(j) ==
    /\ job[j].pc = "checkClients"
    /\ IF /\ user[job[j].user].life = "live"
          /\ ~(customer.life = "live" /\ customer.seller = job[j].user)
       THEN Step(j, "deleteUser") ELSE Finish(j)
    /\ UNCHANGED <<tables, Bounds, History>>

DeleteUser(j) ==
    /\ job[j].pc = "deleteUser"
    /\ user' = [user EXCEPT ![job[j].user].life = "deleted"]
    /\ Step(j, "markUser")
    /\ UNCHANGED <<alias, customer, sale, Bounds, History>>

MarkUser(j) ==
    /\ job[j].pc = "markUser"
    /\ user' = [user EXCEPT ![job[j].user].status = "DELETED"]
    /\ Step(j, "deleteAliases")
    /\ UNCHANGED <<alias, customer, sale, Bounds, History>>

DeleteAliases(j) ==
    /\ job[j].pc = "deleteAliases"
    /\ alias' = {IF a.user = job[j].user THEN [a EXCEPT !.live = FALSE] ELSE a : a \in alias}
    /\ brought' = brought \ {job[j].user}
    /\ Finish(j)
    /\ UNCHANGED <<user, customer, sale, Bounds, emptied, stray, late>>

----------------------------------------------------------------------------
\* sellers.service.ts transferSellersData: one worker for each email, all at once

FindTarget(j) ==
    /\ job[j].pc = "findTarget"
    /\ \E u \in First(Named(UserRows, job[j].email)) :
          IF u = NoUser THEN Finish(j)    \* the status of null is read
          ELSE job' = [job EXCEPT ![j].user = u,
                          ![j].pc = IF user[u].status = "DELETED" THEN "revive" ELSE "work"]
    /\ UNCHANGED <<tables, Bounds, History>>

ReviveTarget(j) ==
    /\ job[j].pc = "revive"
    /\ user' = [user EXCEPT ![job[j].user].life = "live", ![job[j].user].status = "ACTIVE"]
    /\ emptied' = emptied \ {job[j].user}
    /\ Step(j, "work")
    /\ UNCHANGED <<alias, customer, sale, Bounds, stray, late, brought>>

At(j, e, pc) == job[j].pc = "work" /\ e \in DOMAIN job[j].work /\ job[j].work[e].pc = pc
Source(j, e) == job[j].work[e].user
Turn(j, e, pc, u) == job' = [job EXCEPT ![j].work[e] = [pc |-> pc, user |-> u]]

FindAlias(j, e) ==
    /\ At(j, e, "findAlias")
    /\ \E u \in Owners(LiveAliases(e)) : Turn(j, e, "findSeller", u)
    /\ UNCHANGED <<tables, Bounds, History>>

\* by the owner of the alias if there is one, else by email; a live user
FindSeller(j, e) ==
    /\ At(j, e, "findSeller")
    /\ \E u \in First(IF Source(j, e) # NoUser THEN {Source(j, e)} \cap LiveUsers
                      ELSE Named(LiveUsers, e)) :
          Turn(j, e, IF u = NoUser THEN "done" ELSE "moveOrders", u)
    /\ UNCHANGED <<tables, Bounds, History>>

MoveOrders(j, e) ==
    /\ At(j, e, "moveOrders")
    /\ IF sale = Source(j, e) THEN sale' = job[j].user /\ late' = FALSE
       ELSE UNCHANGED <<sale, late>>
    /\ Turn(j, e, "moveClients", Source(j, e))
    /\ UNCHANGED <<user, alias, customer, Bounds, emptied, stray, brought>>

MoveClients(j, e) ==
    /\ At(j, e, "moveClients")
    /\ IF customer.life # "none" /\ customer.seller = Source(j, e)
       THEN /\ customer' = [customer EXCEPT !.seller = job[j].user]
            \* nothing forbids a transfer to the seller itself, which is then deleted
            /\ stray' = (Leaving(job[j].user) \/ Source(j, e) = job[j].user)
       ELSE UNCHANGED <<customer, stray>>
    /\ Turn(j, e, "moveAliases", Source(j, e))
    /\ UNCHANGED <<user, alias, sale, Bounds, emptied, late, brought>>

\* a mutant: only live aliases are moved
MoveLiveAliases(j, e) ==
    /\ At(j, e, "moveAliases")
    /\ alias' = {IF a.user = Source(j, e) /\ a.live THEN [a EXCEPT !.user = job[j].user] ELSE a :
                    a \in alias}
    /\ Turn(j, e, "deleteSeller", Source(j, e))
    /\ UNCHANGED <<user, customer, sale, Bounds, History>>

MoveAliases(j, e) ==
    /\ At(j, e, "moveAliases")
    /\ alias' = {IF a.user = Source(j, e) THEN [a EXCEPT !.user = job[j].user] ELSE a :
                    a \in alias}
    /\ brought' = IF Source(j, e) \in brought
                  THEN (brought \ {Source(j, e)}) \cup {job[j].user} ELSE brought
    /\ Turn(j, e, "deleteSeller", Source(j, e))
    /\ UNCHANGED <<user, customer, sale, Bounds, emptied, stray, late>>

DeleteSeller(j, e) ==
    /\ At(j, e, "deleteSeller")
    /\ user' = [user EXCEPT ![Source(j, e)].life = "deleted"]
    /\ emptied' = IF Source(j, e) = job[j].user THEN emptied ELSE emptied \cup {Source(j, e)}
    /\ Turn(j, e, "markSeller", Source(j, e))
    /\ UNCHANGED <<alias, customer, sale, Bounds, stray, late, brought>>

MarkSeller(j, e) ==
    /\ At(j, e, "markSeller")
    /\ user' = [user EXCEPT ![Source(j, e)].status = "DELETED"]
    /\ Turn(j, e, "done", Source(j, e))
    /\ UNCHANGED <<alias, customer, sale, Bounds, History>>

EndTransfer(j) ==
    /\ job[j].pc = "work"
    /\ \A e \in DOMAIN job[j].work : job[j].work[e].pc = "done"
    /\ Finish(j)
    /\ UNCHANGED <<tables, Bounds, History>>

----------------------------------------------------------------------------
\* profile.service.ts updateProfile, alternate-emails.service.ts upsert, users.service.ts update

ReadProfile(j) ==
    /\ job[j].pc = "readProfile"
    /\ IF user[job[j].user].life = "live" THEN Step(j, "forceDelete") ELSE Finish(j)
    /\ UNCHANGED <<tables, Bounds, History>>

\* the deleted ones too
ForceDelete(j) ==
    /\ job[j].pc = "forceDelete"
    /\ alias' = {a \in alias : a.user # job[j].user}
    /\ brought' = brought \ {job[j].user}
    /\ Step(j, "nextEmail")
    /\ UNCHANGED <<user, customer, sale, Bounds, emptied, stray, late>>

NextEmail(j) ==
    /\ job[j].pc = "nextEmail"
    /\ IF job[j].list = <<>> THEN Finish(j)
       ELSE job' = [job EXCEPT ![j].pc = "findOther", ![j].list = Tail(@),
                               ![j].email = Head(job[j].list),
                               ![j].taken = Named(LiveUsers, Head(job[j].list)) # {}]
    /\ UNCHANGED <<tables, Bounds, History>>

\* a mutant: the aliases of others are not looked at
FindNoOther(j) ==
    /\ job[j].pc = "findOther"
    /\ Step(j, IF job[j].taken THEN "nextEmail" ELSE "createAlias")
    /\ UNCHANGED <<tables, Bounds, History>>

FindOther(j) ==
    /\ job[j].pc = "findOther"
    /\ LET others == {a \in LiveAliases(job[j].email) : a.user # job[j].user}
       IN  Step(j, IF job[j].taken \/ others # {} THEN "nextEmail" ELSE "createAlias")
    /\ UNCHANGED <<tables, Bounds, History>>

CreateAlias(j) ==
    /\ job[j].pc = "createAlias"
    /\ alias' = alias \cup {[user |-> job[j].user, email |-> job[j].email, live |-> TRUE]}
    /\ Step(j, "nextEmail")
    /\ UNCHANGED <<user, customer, sale, Bounds, History>>

\* whoever else has that email
UpdateUser(j) ==
    /\ job[j].pc = "updateUser"
    /\ user' = [user EXCEPT ![job[j].user].email = job[j].email]
    /\ Finish(j)
    /\ UNCHANGED <<alias, customer, sale, Bounds, History>>

----------------------------------------------------------------------------
\* clients.service.ts create, update, remove, restore, transferClients

\* the seller's own request does not come here
FindClientSeller(j) ==
    /\ job[j].pc = "findClientSeller"
    /\ IF user[job[j].user].life = "live" THEN Step(j, "findClient") ELSE Finish(j)
    /\ UNCHANGED <<tables, Bounds, History>>

FindClient(j) ==
    /\ job[j].pc = "findClient"
    /\ CASE customer.life = "none" -> Step(j, "insertClient")
         [] customer.life = "deleted" -> Step(j, "reviveClient")
         [] OTHER -> Finish(j)
    /\ UNCHANGED <<tables, Bounds, History>>

\* nothing forbids a second client of that email, which is not followed here
InsertClient(j) ==
    /\ job[j].pc = "insertClient"
    /\ IF customer.life = "none"
       THEN /\ GiveClient([life |-> "live", seller |-> job[j].user])
            /\ IF job[j].op \in OrderOps THEN Step(j, LastCall(j)) ELSE Finish(j)
       ELSE Finish(j) /\ UNCHANGED <<customer, stray>>
    /\ UNCHANGED <<user, alias, sale, Bounds, emptied, late, brought>>

\* for an order it is the end: the client that is returned comes without its info
ReviveCustomer(j) ==
    /\ job[j].pc = "reviveClient"
    /\ GiveClient([customer EXCEPT !.life = "live"])
    /\ Finish(j)
    /\ UNCHANGED <<user, alias, sale, Bounds, emptied, late, brought>>

DeleteCustomer(j) ==
    /\ job[j].pc = "deleteClient"
    /\ customer' = IF customer.life = "live" THEN [customer EXCEPT !.life = "deleted"]
                   ELSE customer    \* not found
    /\ Finish(j)
    /\ UNCHANGED <<user, alias, sale, Bounds, History>>

\* PATCH /clients/:id with any seller, and the last write of an order's client
WriteSeller(j) ==
    /\ job[j].pc = "giveClient"
    /\ GiveClient([customer EXCEPT !.seller = job[j].user])
    /\ IF job[j].op \in OrderOps THEN Step(j, LastCall(j)) ELSE Finish(j)
    /\ UNCHANGED <<user, alias, sale, Bounds, emptied, late, brought>>

FindNewSeller(j) ==
    /\ job[j].pc = "findNewSeller"
    /\ \E u \in First(Named(LiveUsers, job[j].email)) :
          IF u = NoUser \/ customer.life # "live" THEN Finish(j)
          ELSE job' = [job EXCEPT ![j].pc = "handOver", ![j].user = u]
    /\ UNCHANGED <<tables, Bounds, History>>

\* the client and its orders in one call
HandOver(j) ==
    /\ job[j].pc = "handOver"
    /\ GiveClient([customer EXCEPT !.seller = job[j].user])
    /\ IF sale = NoUser THEN UNCHANGED <<sale, late>> ELSE sale' = job[j].user /\ late' = FALSE
    /\ Finish(j)
    /\ UNCHANGED <<user, alias, Bounds, emptied, brought>>

----------------------------------------------------------------------------
\* orders.service.ts validateSellerAndClient, create and update

\* an administrator's order is of the seller found, a seller's own of the user in its token,
\* whose row is not looked at
OrderSeller(j, found) == IF job[j].by = NoUser THEN found ELSE job[j].by

FindOrderSeller(j) ==
    /\ job[j].pc = "findOrderSeller"
    /\ \E u \in First(Named(LiveUsers, job[j].email)) :
          job' = [job EXCEPT ![j].pc = "findOrderAlias", ![j].user = u]
    /\ UNCHANGED <<tables, Bounds, History>>

\* the plain client: deleted aliases too, and the user of the alias may be deleted
FindOrderAlias(j) ==
    /\ job[j].pc = "findOrderAlias"
    /\ \E w \in Owners(AnyAlias(job[j].email)) :
          job' = [job EXCEPT ![j].pc = "findOrderClient", ![j].owner = w]
    /\ UNCHANGED <<tables, Bounds, History>>

\* a client of another seller than those found goes to the one found first, whoever asks
FindOrderClient(j) ==
    /\ job[j].pc = "findOrderClient"
    /\ LET u == job[j].user
           w == job[j].owner
           found == IF u # NoUser THEN u ELSE w
           known == customer.life # "none"
           differs == known /\ \E v \in {u, w} : v # NoUser /\ customer.seller # v
           seller == OrderSeller(j, found)
       IN  job' = [job EXCEPT ![j].known = known,
                       ![j].user = IF differs THEN found ELSE seller,
                       ![j].pc = CASE differs -> "mismatch"
                                   [] ~differs /\ seller = NoUser -> "findForCreate"
                                   [] OTHER -> IF known THEN "giveClient" ELSE "findClient"]
    /\ UNCHANGED <<tables, Bounds, History>>

WriteMismatch(j) ==
    /\ job[j].pc = "mismatch"
    /\ GiveClient([customer EXCEPT !.seller = job[j].user])
    /\ job' = [job EXCEPT ![j].pc = "giveClient", ![j].user = OrderSeller(j, job[j].user)]
    /\ UNCHANGED <<user, alias, sale, Bounds, emptied, late, brought>>

\* every write of the order's seller by these requests
TakeOrder(j) ==
    /\ sale' = job[j].user
    /\ late' = (job[j].by # NoUser /\ Leaving(job[j].user))

\* a second order is not followed here
InsertOrder(j) ==
    /\ job[j].pc = "insertOrder"
    /\ IF sale = NoUser THEN TakeOrder(j) ELSE UNCHANGED <<sale, late>>
    /\ Finish(j)
    /\ UNCHANGED <<user, alias, customer, Bounds, emptied, stray, brought>>

UpdateOrder(j) ==
    /\ job[j].pc = "updateOrder"
    /\ TakeOrder(j)
    /\ Finish(j)
    /\ UNCHANGED <<user, alias, customer, Bounds, emptied, stray, brought>>

----------------------------------------------------------------------------
\* Requests

NewJobs ==
    [op : {"create"}, pc : {"findForCreate"}, email : Emails, user : {NoUser}]
  \cup [op : {"remove"}, pc : {"checkClients"}, user : UserRows]
  \cup [op : {"restore"}, pc : {"restoreUser"}, user : UserRows]
  \cup [op : {"transfer"}, pc : {"findTarget"}, email : Emails, user : {NoUser},
        work : {[e \in es |-> [pc |-> "findAlias", user |-> NoUser]] :
                   es \in {s \in SUBSET Emails : Cardinality(s) \in 1 .. (IF alone THEN 2 ELSE 1)}}]
  \cup [op : {"profile"}, pc : {"readProfile"}, user : UserRows, list : AliasLists,
        email : {"none"}, taken : {FALSE}]
  \cup [op : {"update"}, pc : {"updateUser"}, user : UserRows, email : Emails]
  \* an administrator names a seller; a seller is named by its token, which outlives its removal
  \cup [op : {"newClient"}, pc : {"findClientSeller", "findClient"}, user : UserRows]
  \cup {r \in [op : {"client"}, pc : {"giveClient", "deleteClient", "reviveClient"}, user : UserRows] :
            customer.life = IF r.pc = "reviveClient" THEN "deleted" ELSE "live"}
  \cup [op : {"clients"}, pc : {"findNewSeller"}, email : Emails, user : {NoUser}]
  \cup [op : IF sale = NoUser THEN {"place"} ELSE OrderOps, pc : {"findOrderSeller"}, email : Emails,
        user : {NoUser}, owner : {NoUser}, known : {FALSE}, by : {NoUser} \cup UserRows]

Begin(j) ==
    /\ job[j].pc = "idle"
    /\ requests < (IF alone THEN MaxRequests ELSE MaxTogether) /\ requests' = requests + 1
    /\ \A i \in Jobs : alone => job[i].pc = "idle"
    /\ \A i \in Jobs : i < j => job[i].pc # "idle"
    /\ \E r \in NewJobs : job' = [job EXCEPT ![j] = r]
    /\ UNCHANGED <<tables, failures, alone, History>>

\* a database call rejects: of a transfer, the other workers go on
FailJob(j) ==
    /\ job[j].pc # "idle"
    /\ failures > 0 /\ failures' = failures - 1
    /\ IF job[j].pc = "work"
       THEN \E e \in DOMAIN job[j].work : /\ job[j].work[e].pc # "done"
                                          /\ Turn(j, e, "done", Source(j, e))
       ELSE Finish(j)
    /\ UNCHANGED <<tables, requests, alone, History>>

AccountsInit ==
    /\ user = [u \in Users |-> IF u \in DOMAIN FirstUsers
                               THEN [life |-> "live", status |-> "ACTIVE", email |-> FirstUsers[u]]
                               ELSE Absent]
    /\ alias \in FirstAliases
    /\ \E s \in FirstSellers :
          /\ customer = [life |-> IF s = NoUser THEN "none" ELSE "live", seller |-> s]
          /\ sale = s
    /\ job = [j \in Jobs |-> Free]
    /\ requests = 0
    /\ alone \in BOOLEAN
    /\ failures = IF alone THEN 1 ELSE 0
    /\ emptied = {} /\ stray = FALSE /\ late = FALSE /\ brought = {}

AccountsNext ==
    \E j \in Jobs :
        \/ Begin(j) \/ FailJob(j)
        \/ FindForCreate(j) \/ InsertUser(j) \/ RestoreUser(j) \/ RestoreAliases(j)
        \/ CheckClients(j) \/ DeleteUser(j) \/ MarkUser(j) \/ DeleteAliases(j)
        \/ FindTarget(j) \/ ReviveTarget(j) \/ EndTransfer(j)
        \/ \E e \in Emails : \/ FindAlias(j, e) \/ FindSeller(j, e) \/ MoveOrders(j, e)
                             \/ MoveClients(j, e) \/ MoveAliases(j, e)
                             \/ DeleteSeller(j, e) \/ MarkSeller(j, e)
        \/ ReadProfile(j) \/ ForceDelete(j) \/ NextEmail(j) \/ FindOther(j) \/ CreateAlias(j)
        \/ UpdateUser(j)
        \/ FindClientSeller(j) \/ FindClient(j) \/ InsertClient(j) \/ ReviveCustomer(j) \/ DeleteCustomer(j)
        \/ WriteSeller(j) \/ FindNewSeller(j) \/ HandOver(j)
        \/ FindOrderSeller(j) \/ FindOrderAlias(j) \/ FindOrderClient(j) \/ WriteMismatch(j)
        \/ InsertOrder(j) \/ UpdateOrder(j)

AccountsSpec == AccountsInit /\ [][AccountsNext]_accountVars

----------------------------------------------------------------------------
\* Properties

\* One request at a time, whatever call fails: a seller that a transfer to somebody else has
\* deleted keeps no alternate email, deleted ones included, no client but one that a later request
\* gave to the removed seller, and no order but one that it placed or changed itself after the
\* removal: the role and the id are taken from the token, which stays valid. If the failure falls
\* between the deletion and its mark, the status stays ACTIVE, and a later transfer to the seller
\* does not revive it.
TransferredSellersAreEmpty ==
    alone => \A u \in {w \in emptied : user[w].status = "DELETED"} :
        /\ sale = u => late
        /\ \A a \in alias : a.user # u
        /\ customer.life # "none" /\ customer.seller = u => stray

\* A live client has a live seller, however requests overlap and fail, unless it was given to
\* the seller, or restored, after the check or the move that the removal of the seller relies on,
\* or its seller was transferred to itself.
OnlyLateClientsAreStranded ==
    customer.life = "live" /\ user[customer.seller].life # "live" => stray

\* One request at a time: no two users own one live alternate email, except that the
\* restoration of one of them brought it back without a look at who has it now.
AliasesAreDistinct ==
    alone => \A a, b \in alias :
        a.live /\ b.live /\ a.email = b.email /\ a.user # b.user =>
            {a.user, b.user} \cap brought # {}
=============================================================================
