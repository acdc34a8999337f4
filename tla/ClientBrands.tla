----------------------------- MODULE ClientBrands -----------------------------
(***************************************************************************)
(* The brand of a client is copied to its orders: by the handler of the     *)
(* event that an update of the client emits, and by the requests that       *)
(* create or update an order.  Handlers run later and in any order.         *)
(***************************************************************************)
EXTENDS Naturals, FiniteSets

CONSTANTS Brands, BrandedOrders,
          MaxWrites       \* a bound on the updates of the client

VARIABLES brandId,       \* of the client's info
          branded,       \* rows of orders: [life, brand]
          events,        \* updated clients on their way to the handler
          writing,       \* requests between the update of the client and that of the order
          writes, dropped,
          carried,       \* history: brands on their way since the last quiet moment
          slept          \* history: orders that were deleted when a handler ran
brandVars == <<brandId, branded, events, writing, writes, dropped, carried, slept>>

Quiet == events = {} /\ writing = {}
LiveBranded == {o \in BrandedOrders : branded[o].life = "live"}

Carry(b) == carried' = IF Quiet THEN {b} ELSE carried \cup {b}

\* a mutant: the event holds the client as it was before
EmitBefore(b) ==
    /\ writes < MaxWrites /\ writes' = writes + 1
    /\ brandId' = b
    /\ events' = events \cup {[id |-> writes, brand |-> brandId]}
    /\ Carry(b)

\* clients.service.ts update: one call, and the event holds the row it returned
Emit(b) ==
    /\ writes < MaxWrites /\ writes' = writes + 1
    /\ brandId' = b
    /\ events' = events \cup {[id |-> writes, brand |-> b]}
    /\ Carry(b)

UpdateClient(b) == Emit(b) /\ UNCHANGED <<branded, writing, dropped, slept>>

\* handleUpdateClientOrderBrand: the soft-delete client writes live orders only
HandleUpdateClientOrderBrand(ev) ==
    /\ events' = events \ {ev}
    /\ branded' = [o \in BrandedOrders |->
                      IF o \in LiveBranded THEN [branded[o] EXCEPT !.brand = ev.brand]
                      ELSE branded[o]]
    /\ slept' = {o \in BrandedOrders : branded[o].life = "deleted"}
    /\ UNCHANGED <<brandId, writing, writes, dropped, carried>>

\* orders.service.ts create and update: the client is updated first, an update may give it a brand
BeginOrder(o) ==
    /\ \A w \in writing : w.order # o
    /\ \E b \in IF branded[o].life = "none" THEN {brandId} ELSE Brands :
          /\ Emit(b)
          /\ writing' = writing \cup {[order |-> o, brand |-> b]}
    /\ UNCHANGED <<branded, dropped, slept>>

\* the row of the order, deleted or not, gets the brand that the client had then
WriteOrder(w) ==
    /\ writing' = writing \ {w}
    /\ branded' = [branded EXCEPT ![w.order] =
                      [life |-> IF @.life = "none" THEN "live" ELSE @.life, brand |-> w.brand]]
    /\ slept' = slept \ {w.order}
    /\ UNCHANGED <<brandId, events, writes, dropped, carried>>

RemoveBranded(o) ==
    /\ branded[o].life = "live"
    /\ branded' = [branded EXCEPT ![o].life = "deleted"]
    /\ UNCHANGED <<brandId, events, writing, writes, dropped, carried, slept>>

RestoreBranded(o) ==
    /\ branded[o].life = "deleted"
    /\ branded' = [branded EXCEPT ![o].life = "live"]
    /\ UNCHANGED <<brandId, events, writing, writes, dropped, carried, slept>>

\* the process ends: events and requests are gone, and nobody repeats them
StopProcess ==
    /\ ~Quiet /\ ~dropped
    /\ dropped' = TRUE /\ events' = {} /\ writing' = {}
    /\ UNCHANGED <<brandId, branded, writes, carried, slept>>

ClientBrandsInit ==
    /\ brandId \in Brands
    /\ branded = [o \in BrandedOrders |-> [life |-> "none", brand |-> brandId]]
    /\ events = {} /\ writing = {} /\ writes = 0 /\ dropped = FALSE
    /\ carried = {brandId} /\ slept = {}

ClientBrandsNext ==
    \/ \E b \in Brands : UpdateClient(b)
    \/ \E ev \in events : HandleUpdateClientOrderBrand(ev)
    \/ \E w \in writing : WriteOrder(w)
    \/ \E o \in BrandedOrders : BeginOrder(o) \/ RemoveBranded(o) \/ RestoreBranded(o)
    \/ StopProcess

ClientBrandsSpec == ClientBrandsInit /\ [][ClientBrandsNext]_brandVars

----------------------------------------------------------------------------
\* When nothing is on its way, a live order has a brand that some update of its client carried
\* since the moment before when nothing was, and the order slept through no handler: after one
\* update alone that is the client's brand, after a burst any of the burst. Only the end of the
\* process loses a brand for good.
OrdersFollowTheirClient ==
    Quiet /\ ~dropped => \A o \in LiveBranded \ slept : branded[o].brand \in carried
=============================================================================
