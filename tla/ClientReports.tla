---------------------------- MODULE ClientReports ----------------------------
(***************************************************************************)
(* The lists of clients and the reports that count clients by state and by  *)
(* the state of their seller.  Every report is a series of awaited queries. *)
(***************************************************************************)
EXTENDS ReportDates, FiniteSets

CONSTANTS Clients, Vendors, Labels,
          ClientRow,     \* the columns that never change here
          ClientSays,    \* the keywords found in a column of text
          Words,
          ClientArgs,    \* what users ask the list for
          Surveys        \* what users ask the reports for

ClientColumns == [brand : Labels, seller : Vendors, day : Days, fresh : BOOLEAN]
Questions == [kind : {"clients", "sellers"}, from : Days \cup {NotGiven},
              to : Days \cup {NotGiven}, brand : Labels \cup {NotGiven},
              seller : Vendors \cup {NotGiven}]

ASSUME ClientReportsOK ==
    /\ IsFiniteSet(Clients)
    /\ ClientRow \in [Clients -> ClientColumns]
    /\ Surveys \subseteq {a \in Questions : ~Rejected(a)}

VARIABLES client, vendor, survey
clientReportVars == <<client, vendor, survey>>

ClientRows == {c \in Clients : client[c].life # "none"}      \* the plain client
LiveClients == {c \in Clients : client[c].life = "live"}     \* the soft-delete client

OfLabel(S, code) == {c \in S : code \in {NotGiven, ClientRow[c].brand}}
OfVendor(S, v) == {c \in S : v \in {NotGiven, ClientRow[c].seller}}
ArrivedIn(S, range) == {c \in S : ClientRow[c].day \in range}

\* dateRange for 'client': active infos, whether or not the client is deleted
ActiveDays(code) ==
    {ClientRow[c].day : c \in {d \in OfLabel(ClientRows, code) : client[d].info = "ACTIVE"}}

CountPerDay(S, range) ==
    [d \in range |-> Cardinality({c \in S : ClientRow[c].day = d})]

----------------------------------------------------------------------------
\* find-many-clients.helper.ts: GET /clients and its search

BaseList(a, v) ==
    ArrivedIn(OfVendor(OfLabel(LiveClients, a.brand), v), ListRange(a, ActiveDays(a.brand)))

Shows(c, fields, kw) == \E f \in fields : kw \in ClientSays[c][f]

QueryForSeller(S, kw) ==
    {c \in S : \/ Shows(c, {"name", "email"}, kw)
               \/ Shows(c, {"phone"}, kw) /\ Shows(c, {"thirdPartyId"}, kw)}

QueryOfSeller(S, kw) == {c \in S : Shows(c, {"sellerName", "sellerEmail"}, kw)}

\* the condition on the info replaces the one on its brand
ClientLoggedIn(a, v) ==
    {c \in ArrivedIn(OfVendor(LiveClients, v), ListRange(a, ActiveDays(a.brand))) :
        client[c].loggedIn}

FindManyClients(a, filter, kw, loggedIn) ==
    LET S == IF loggedIn THEN ClientLoggedIn(a, NotGiven) ELSE BaseList(a, NotGiven)
    IN  IF filter = "SELLER" THEN QueryOfSeller(S, kw) ELSE QueryForSeller(S, kw)

\* a mutant: the search of a seller forgets the seller
SellerFindsEveryClient(a, kw, loggedIn, v) ==
    QueryForSeller(IF loggedIn THEN ClientLoggedIn(a, v) ELSE BaseList(a, NotGiven), kw)

SellerFindManyClients(a, kw, loggedIn, v) ==
    QueryForSeller(IF loggedIn THEN ClientLoggedIn(a, v) ELSE BaseList(a, v), kw)

FindAllClientsBySeller(v, kw) == {c \in OfVendor(LiveClients, v) : Shows(c, {"email"}, kw)}

----------------------------------------------------------------------------
\* What is written between two queries

Unasked == [pc |-> "idle"]
Disturb(x) == survey' = IF survey.pc = "idle" THEN survey
                        ELSE [survey EXCEPT !.touched = @ \cup {x}]

WriteClient(c, row) == /\ client' = [client EXCEPT ![c] = row]
                       /\ Disturb(c)
                       /\ UNCHANGED vendor

CreateClient(c) ==
    /\ client[c].life = "none"
    /\ WriteClient(c, [life |-> "live", info |-> "ACTIVE", loggedIn |-> FALSE])

LogIn(c) == /\ client[c].life = "live" /\ ~client[c].loggedIn
            /\ WriteClient(c, [client[c] EXCEPT !.loggedIn = TRUE])

\* a removal marks the info in one call and deletes the client in another
MarkClient(c) == /\ client[c].life = "live" /\ client[c].info = "ACTIVE"
                 /\ WriteClient(c, [client[c] EXCEPT !.info = "DELETED"])

DropClient(c) == /\ client[c].life = "live" /\ client[c].info = "DELETED"
                 /\ WriteClient(c, [client[c] EXCEPT !.life = "deleted"])

ReviveClient(c) == /\ client[c].life = "deleted"
                   /\ WriteClient(c, [client[c] EXCEPT !.life = "live", !.info = "ACTIVE"])

SetVendor(v, status) == /\ vendor[v] # status
                        /\ vendor' = [vendor EXCEPT ![v] = status]
                        /\ Disturb(v)
                        /\ UNCHANGED client

----------------------------------------------------------------------------
\* client-reports.service.ts: range, total, logins, new ones, those of the range, removed ones

Asked(a) == OfVendor(OfLabel(ClientRows, a.brand), a.seller)
AskedLive(a) == Asked(a) \cap LiveClients

\* what a report has found, before it asks
Begun(pc, a, range) ==
    [pc |-> pc, args |-> a, touched |-> {}, range |-> range, total |-> 0, new |-> {},
     first |-> {}, second |-> {}, perDay |-> <<>>]

ClientReport(a) ==
    /\ survey.pc = "idle" /\ a.kind = "clients"
    /\ survey' = Begun("total", a, ReportRange(a, ActiveDays(NotGiven)))
    /\ UNCHANGED <<client, vendor>>

CountClients ==
    /\ survey.pc = "total"
    /\ survey' = [survey EXCEPT !.pc = "new", !.touched = {},
                                !.total = Cardinality(Asked(survey.args))]
    /\ UNCHANGED <<client, vendor>>

\* those of the last 24 hours
FindNewClients ==
    /\ survey.pc = "new"
    /\ survey' = [survey EXCEPT !.pc = "byRange",
                                !.new = {c \in AskedLive(survey.args) : ClientRow[c].fresh}]
    /\ UNCHANGED <<client, vendor>>

FindClientsByRange ==
    /\ survey.pc = "byRange"
    /\ survey' = [survey EXCEPT !.pc = "inactive",
                                !.first = ArrivedIn(AskedLive(survey.args), survey.range)]
    /\ UNCHANGED <<client, vendor>>

\* a mutant: the inactive clients are those who never logged in
FindSilentClients ==
    /\ survey.pc = "inactive"
    /\ survey' = [survey EXCEPT !.pc = "clients",
                    !.second = {c \in ArrivedIn(Asked(survey.args), survey.range) :
                                   ~client[c].loggedIn},
                    !.perDay = CountPerDay(survey.first, survey.range)]
    /\ UNCHANGED <<client, vendor>>

FindInactiveClients ==
    /\ survey.pc = "inactive"
    /\ survey' = [survey EXCEPT !.pc = "clients",
                    !.second = {c \in ArrivedIn(Asked(survey.args), survey.range) :
                                   client[c].info = "DELETED"},
                    !.perDay = CountPerDay(survey.first, survey.range)]
    /\ UNCHANGED <<client, vendor>>

----------------------------------------------------------------------------
\* sellers-report.service.ts: clients by the status of their seller, deleted clients too

OfStatus(S, status) == {c \in S : vendor[ClientRow[c].seller] = status}

InRange(a, range) == ArrivedIn(OfLabel(ClientRows, a.brand), range)

SellerReport(a) ==
    /\ survey.pc = "idle" /\ a.kind = "sellers"
    /\ survey' = [Begun("active", a, DashboardRange(a)) EXCEPT
                    !.total = Cardinality(InRange(a, DashboardRange(a)))]
    /\ UNCHANGED <<client, vendor>>

FindActiveSellers ==
    /\ survey.pc = "active"
    /\ survey' = [survey EXCEPT !.pc = "gone",
                    !.first = OfStatus(InRange(survey.args, survey.range), "ACTIVE")]
    /\ UNCHANGED <<client, vendor>>

FindInactiveSellers ==
    /\ survey.pc = "gone"
    /\ survey' = [survey EXCEPT !.pc = "sellers",
                    !.second = OfStatus(InRange(survey.args, survey.range), "DELETED"),
                    !.perDay = CountPerDay(survey.first, survey.range)]
    /\ UNCHANGED <<client, vendor>>

Reply == survey.pc \in {"clients", "sellers"} /\ survey' = Unasked /\ UNCHANGED <<client, vendor>>

ClientTablesInit ==
    /\ client = [c \in Clients |-> [life |-> "none", info |-> "none", loggedIn |-> FALSE]]
    /\ vendor = [v \in Vendors |-> "ACTIVE"]

ClientReportsInit == ClientTablesInit /\ survey = Unasked

ClientReportsNext ==
    \/ \E c \in Clients : \/ CreateClient(c) \/ LogIn(c)
                          \/ MarkClient(c) \/ DropClient(c) \/ ReviveClient(c)
    \/ \E v \in Vendors : SetVendor(v, "ACTIVE") \/ SetVendor(v, "DELETED")
    \/ \E a \in Surveys : ClientReport(a) \/ SellerReport(a)
    \/ CountClients \/ FindNewClients \/ FindClientsByRange \/ FindInactiveClients
    \/ FindActiveSellers \/ FindInactiveSellers \/ Reply

ClientReportsSpec == ClientReportsInit /\ [][ClientReportsNext]_clientReportVars

----------------------------------------------------------------------------
\* Properties

Moved(c) == c \in survey.touched \/ ClientRow[c].seller \in survey.touched
HalfRemoved(c) == client[c].life = "live" /\ client[c].info = "DELETED"

\* A report on clients or sellers counts nobody twice: who is among the active and among the
\* inactive ones was written between the two queries or is a client whose removal stopped
\* halfway; the total has room for all who were not written; the new clients of the last 24
\* hours are among those of the range; and every client has a day to be counted on.
NobodyIsCountedTwice ==
    survey.pc \in {"clients", "sellers"} =>
        /\ \A c \in survey.first \cap survey.second : Moved(c) \/ HalfRemoved(c)
        /\ Cardinality({c \in survey.first \cup survey.second : ~Moved(c)}) <= survey.total
        /\ \A c \in survey.new \ survey.touched :
              ClientRow[c].day \in survey.range => c \in survey.first
        /\ SumFunction(survey.perDay) = Cardinality(survey.first)

\* A search of clients narrows the list it is made in, and what a seller finds an administrator
\* finds with the same words. Only the filter for logged-in clients widens it: it replaces the
\* condition on the brand, and then finds clients of every brand.
ClientSearchesNarrow ==
    survey.pc = "idle" => \A a \in ClientArgs : \A kw \in Words : \A v \in Vendors :
        LET found(f) == FindManyClients(a, f, kw, FALSE)
            mine == SellerFindManyClients(a, kw, FALSE, v)
        IN  /\ \A f \in {"SELLER", "none"} : found(f) \subseteq BaseList(a, NotGiven)
            /\ mine = found("none") \cap OfVendor(Clients, v)
            /\ SellerFindManyClients(a, kw, TRUE, v) \cap OfLabel(Clients, a.brand) \subseteq mine
            /\ mine \subseteq LiveClients
=============================================================================
