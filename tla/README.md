# Verification of grocket-oms-api-v2

grocket-oms-api-v2 is the API of an order management system: sellers sell packages of
reviews to clients, an order counts its reviews, an accountant and the seller work on the
reminders of its payment, and removed clients, companies and orders can be restored. It is a
NestJS application on PostgreSQL (Prisma). This directory holds TLA+ models of the parts that
keep state through several database calls and of the queries that report on it, TLC configurations that check them on small
instances, and TLAPS proofs of what holds for every instance.

## 1. Inventory

What makes this code hard is the same everywhere:

* **Every call is awaited and almost no transaction spans two calls.** Between two database
  calls of a request any other request, event handler or nightly job may run. A failing call
  ends the request, and nothing that was written before is rolled back.
* **Events are not awaited.** `EventEmitter2.emit` starts a handler and returns; the handler
  outlives the request and may fail or be cut off by a restart with no trace.
* **Rows are deleted softly.** `DatabaseService.softDelete()` returns a client that writes
  `deletedAt` and hides deleted rows; the plain client sees them. Which of the two a line uses
  decides what it finds. An included row that is deleted reads as null.
* **`undefined` in a `where` does not filter.**

| Component | State | Operations | Interacts with | Correct when |
|---|---|---|---|---|
| Payment status of orders (`orders.service.ts`) | `payment_status`, `payment_status_date`, `date_paid` | PATCH /orders/:id | tasks, nightly jobs | status, dates and the reminder task agree |
| Tasks (`tasks.service.ts`) | Task, TaskAccountant, TaskSeller | create, update, status, remove, restore | orders, jobs | a task has both halves; an order has one reminder |
| Nightly jobs (`orders-cron.service.ts`) | none of their own: a listing in memory | checkPayments, checkOrders, also as commands | orders, tasks, clients | a reminder climbs one rung at a time and only when earned |
| Removal and restoration of orders | `deletedAt` of order, reviews, tasks, halves | DELETE, PATCH restore, `restore:orders` | events, tasks, jobs | an order lives and dies with what hangs on it |
| Clients (`clients.service.ts`) | Client, ClientInfo | create, update, remove, restore | orders through events | client and info live and die together |
| Companies (`companies.service.ts`) | Company | create, update, remove, restore | orders through events | a restored company has its orders back |
| Events (`events/`) | promises in flight | handlers for deletion, restoration and brand | all of the above | the handler reaches every row of the request |
| Reviews, totals, invoices | OrderReview, `total_price`, Invoice | create/remove a review, update the price, print an invoice | orders | the total is what the reviews cost |
| Users, alternate emails (`users.service.ts`, `alternate-emails.service.ts`) | User, AlternateEmail | create, update, remove, restore, upsert of emails | clients, orders | no client is left with a removed seller; an email names one user |
| Sellers (`sellers.service.ts`) | orders, clients, emails of a seller | transfer to one user, remove | users, clients, orders | what a transferred seller had belongs to the target |
| Brands (`brands.service.ts`, `clients.subscriber.ts`) | `brandId` of clients and orders, `logo` | create, update, remove; the handler of a client's update | clients, orders, images | the orders of a client have its brand |
| Images (`cloudinary.service.ts` and its callers) | an address in the row, a file in the store | replace, remove | orders, brands, profiles | the address names a file that exists |
| Authentication (`auth/`, the password commands) | password, reset code | login, change, reset, generate one or all | mail | the password last told to its owner works |
| Chat (`websocket-gateways/`, `chats/`) | sockets, presence cache, Conversation, Participant, Message | connect, disconnect, open a chat, send | users, clients | who is online gets the message |
| Prospects (`prospects/`, `scraper.service.ts`) | Prospect, session, template, position | search, move, reorder, rename, remove | users | positions in a column are distinct |
| Ratings (`ratings.service.ts`, two commands) | one rating per company and day | measure, fill the gaps, recompute | companies | a filled day copies the next measured one |
| Dashboard, lists and reports | none of their own | queries, some of them in several calls | orders, reviews, clients, sellers | two figures for one thing agree |
| CSV import (`csv-deprecated/`) | every table | import of one table from a file | all tables | an import is there as a whole, or as whole batches |
| Mail, validation and filters, seeders | none, or external | output, checks of shape | | not modelled, see section 7 |

The hazards of each part, with the line where they bite and the property that would catch
them, are in `PROJECT.json`. Where the code does nothing against a hazard, or only in part, a note
there says what the property excepts, or why there is none.

## 2. Plan

1. `PaymentReminders` with the abstract `ReminderLadder`, and its proofs. **Done.**
2. `ClientCascade`: removal and restoration across clients, companies, orders, reviews and
   tasks, and its proofs. **Done.**
3. `OrderTotals`: single reviews, `total_price`, unit costs and invoices, and its proofs.
   **Done.**
4. `Accounts` (users, their emails, transfers) and `ClientBrands` (events out of order), and
   their proofs. **Done.**
5. The queries over orders and clients: `ReportDates`, `OrderReports`, `ClientReports`. **Done.**
6. The services with a protocol of their own: `Credentials`, `Chat`, `ProspectBoard`,
   `DailyRatings`, `Images`, `CsvImport`. **Done.**
7. Composition of 1 and 2: reminders of an order while it is being removed. Left: what one
   reads of the other (is the task deleted, has the order a task) is an input of each today.
8. Proofs of what holds one request at a time: `PaymentReminders` with the refinement of
   `ReminderLadder`, `ClientCascade`, `OrderTotals`, `Accounts`. **Done.**
9. Proofs of `Images`, `Chat` and `Credentials`, and of the services that work on lists:
   `CsvImport`, `DailyRatings` and `ProspectBoard`. **Done.**
10. Proofs of the reports: sums over sets, and what is written between two queries. **Done.**

`PaymentReminders` and `ClientCascade` share the Task table. The first takes orders and
clients as fixed and models types, halves and statuses in full; the second takes the life of
rows in full and no status. Their composition is item 7.

## 3. Modules and the code

### PaymentReminders

Rows are records in functions `order`, `task`, `half`; `made` counts the rows of Task, whose
ids follow `createdAt`. `quiet` is the set of clients whose newest order is over two months
old; a date is `none`, `recent` or `due` (eight days and more), because only that is compared.
A request is a slot in `handler` with a program counter, one step per database call:

| Code | Actions |
|---|---|
| `OrdersService.update` and `updatePaymentStatus` | UpdateOrder, FindTask, then StampPaid and CompleteTask, or StampReminder and CreateReminder or RetypeReminder, then UpsertAccountant, UpsertSeller |
| `TasksService.create`, `update` | CreateTask, EditTask, UpsertOwnHalf, and the upserts |
| `TasksService.updateTaskStatus` | CheckStatus, SetStatus |
| `TasksService.remove` | CheckRemove, DeleteHalf, MarkHalf, DeleteTask |
| `checkPayments` | StartPayments (the listing), ReadTask, AdvanceTask, ResetTask, EndPayments |
| `checkOrders` | StartOrders, CheckClient, CreateFollowUp, EndOrders |
| the calendar | EightDaysPass, TwoMonthsPass |
| a rejected call, a restart | FailRequest, Restart |

`createdBy` and `taskType` of the create DTO are hidden from the API documentation
(`create-task.dto.ts`) and are taken as internal: users create tasks of their own role.

### ReminderLadder

The abstract specification: a reminder climbs SENT_INVOICE, PR1, PR2, UNPAID one rung at a
time, only when it was completed and the eight days are over, and loses its completion when it
climbs; everything else that changes its type is a user who records a status.
`PaymentReminders!Ladder` maps the tables to it and `ClimbsTheLadder` checks the refinement.

### ClientCascade

Every row has a state `none`, `live` or `deleted` (for the rows that exist from the start, a
Boolean). A slot in `request` holds a request **and** the event handler it started: `pc` is the
request's own next call, `cascade` the handler's (`list`, `run`, `done`), and `stage` says for
each order how far its removal or restoration is, because `Promise.all` runs all of them at
once. The slot is free when both are done.

| Code | Actions |
|---|---|
| `ClientsService.remove` | RemoveClient (read), DeleteInfo (mark and emit), DeleteClient |
| `ClientsService.restore`, `create` with a deleted email | RestoreClient (one nested update, and emit) |
| `CompaniesService.remove`, `restore` | RemoveCompany, RestoreCompany (and emit) |
| `ClientSubscriber`, `CompaniesSubscriber` | ListOrders, EndCascade |
| `OrdersService.create` | CreateOrder (client and company found), InsertOrder |
| `OrdersService.remove`, `restore`, `restore:orders` | RemoveOrder, RestoreOrder, RestoreAll, then DeleteReviews, RestoreRow, FindTasks, MarkHalves, MarkTasks, DeleteOrder |
| `checkOrders` for one order | FollowUp, CreateFollowUp |
| a rejected call, a restart | FailCall, FailListing, FailOrder, Restart |

`strays` and `interrupted` are history variables: no guard reads them. They record which orders
came to life after their client's removal began or had their removal cut off, and which
clients and orders a failure left half done.

### OrderTotals

One order, its reviews, its total and its invoices; orders share none of these. A slot in
`request` keeps what a request has read: `count`, the number of reviews, and `cost`, the unit
cost it will multiply it with. `AllReviews` is what the plain client returns and `LiveReviews`
what the soft-delete client does; each counting action uses the one its line uses.

| Code | Actions |
|---|---|
| `OrdersService.create` | CreateOrder (order and reviews), WriteTotal |
| `OrdersService.update` | UpdateOrder, CountForUpdate (deleted reviews too), WritePrice (cost and total) |
| `OrdersService.remove`, `restore` | RemoveOrder (the reviews), DeleteOrder; RestoreOrder (one nested update) |
| `OrderReviewsService.create` | AddReview, CountAll (deleted reviews too), WriteTotal |
| `OrderReviewsService.remove` | RemoveReview, CountLive (throws if no review is left), WriteTotal |
| `generatePdf`, `InvoicesService.create` | GeneratePdf, ReadOrder (deleted reviews too), InsertInvoice, NumberInvoice |
| a rejected call, a restart | FailRequest, Restart |

`charged` and `stale` are history variables: the unit costs the order has had, and whether a
request that changes the total was cut off, or the order restored, since the last total.

The properties are as strong as the code allows, not stronger. A total need not be the live
reviews times the cost: adding a review or updating the price counts deleted reviews, and
removing one does not. When additions overlap, the one that counted first may write last, and
the total is then below the live reviews. What no order of calls leads to is a total or an
invoice for reviews or at a cost that never were.

### ReportDates, OrderReports, ClientReports

What the lists, the dashboard and the reports ask the database is a set of operators over the
tables: a `where` is a set comprehension, the plain client sees `Rows`, the soft-delete client
`LiveRows`. `ReportDates` holds the four ways in which the code turns `startRange` and `endRange`
into a range of days (`DateRange`, `ListRange`, `ReportRange`, `DashboardRange`), which differ in
what they do with a missing end. A report that reads in several calls is a series of actions, and
users write in between; `touched` records whom they wrote.

| Code | Operators and actions |
|---|---|
| `date-range.ts` | Rejected, OpenStart, DateRange, ListRange, ReportRange, DashboardRange |
| `dashboard.service.ts` | AdminGraph, SellerGraph, Revenue, Commission, OrderPercentage, OrderInfo |
| `order-reports.service.ts` | ReportedIn, GraphOfPayments, GraphOfReviews; BaseReport, FindOrders, FindPaidOrders, Answer |
| `find-many-orders.helper.ts` | Listed, Meets, AllQuery, FindManyOrders, SearchOrdersForSeller, FindManyOrdersForSeller, Summary |
| the writes in between | CreateOrder, RecordPayment, RemoveOrder, RestoreOrder, AddReview, FinishReview, RemoveReview |
| `client-reports.service.ts` | ClientReport with CountClients, FindNewClients, FindClientsByRange, FindInactiveClients; SellerReport with FindActiveSellers, FindInactiveSellers |
| `find-many-clients.helper.ts` | BaseList, FindManyClients, SellerFindManyClients, FindAllClientsBySeller |

Sums of money and counts per day are sums over a function of the rows (`SumFunction`). A text column
is the set of keywords found in it, and no row holds another word. Columns that no
modelled call writes are constants (`OrderRow`, `ClientRow`).

### Accounts

Users with their status, alternate emails as rows, one client and one order. A request is a slot
in `job` with what it has read. A transfer starts one worker per email (`work`), all of them in
flight at once.

| Code | Actions |
|---|---|
| `UsersService.create` | FindForCreate, then InsertUser or RestoreUser, RestoreAliases |
| `UsersService.remove` | CheckClients, DeleteUser, MarkUser, DeleteAliases |
| `UsersService.restore` | RestoreUser, RestoreAliases |
| `SellersService.transferSellersData` | FindTarget, ReviveTarget, per email FindAlias, FindSeller, MoveOrders, MoveClients, MoveAliases, DeleteSeller, MarkSeller; EndTransfer |
| `ProfileService`, `AlternateEmailsService.upsert` | ReadProfile, ForceDelete, NextEmail, FindOther, CreateAlias |
| `UsersService.update` | UpdateUser |
| `ClientsService.create`, `update`, `updateClientSeller`, `remove`, `restore` | FindClientSeller, FindClient, InsertClient; WriteSeller; FindNewSeller, HandOver; DeleteCustomer, ReviveCustomer |
| `OrdersService.create`, `update` (whose order it is) | FindOrderSeller, FindOrderAlias, FindOrderClient, WriteMismatch; InsertUser, InsertClient or WriteSeller; InsertOrder, UpdateOrder |

What the model brought out: a transfer of a seller to itself deletes the seller with its data
still there; when the deletion went through and its mark failed, the status stays ACTIVE and a
later transfer to the seller does not revive it; a client that is restored may come back to a
removed seller; placing an order finds sellers by alternate emails that are deleted; creating a
user does not look at alternate emails; PATCH of a client takes any seller. A seller's own requests
take the seller from the token and never look at its row (`orders.service.ts:115`,
`clients.service.ts:48`): a removed seller whose token is still valid gets clients and orders
(`by` is the seller of the token, `NoUser` for an administrator; `OrderSeller`).

Four history variables mark what the code does not promise: `emptied` the sellers a transfer to
somebody else has deleted, `stray` whether the client came to its seller when nobody looked any
more, `late` whether a removed seller took the order itself, and `brought` the owners of alternate
emails that a restoration brought back (the mark moves with the emails, and goes when the list is
written anew).

### ClientBrands

The brand of a client, copied to its orders by a handler that an update of the client starts and
nobody awaits: UpdateClient, HandleUpdateClientOrderBrand (the listing), WriteOrder (one row of
`Promise.all`); BeginOrder and InsertOrder for an order that carries the client's brand,
RemoveBranded, RestoreBranded, and StopProcess. `carried` (brands on their way since nothing
was), `slept` (orders that were deleted while a handler listed) and `dropped` are history
variables. A second row of a client with the same email is not followed.

### Credentials

Passwords and reset codes are numbers, each drawn once (`Draw`); a hash is the number it is of.
StoreCode and MailCode are `forgot.service.ts`, FindByCode and WriteReset `reset.service.ts`,
ReadOld and WriteChange `changePassword`, GenerateOne, SendEmail and MailGiven the generated
password of one client, WriteGenerated and MailGenerated the two commands for everyone.
`FoundUsers` is whom `findFirst` may find at login: the owner of some alternate email that is the one
entered if there is any, and only else a user of that email; `ValidateUser` is what the login may
come out with, for the password is compared with that of the one user found. Users and clients may
share emails in any way (creating and updating a user look at no alternate email), and `OwnEmails`
are the emails that lead to one person: the property promises a login by those. A password that is
written when an account is created is left out. `told` is what an owner has been told, `latest` the last of it, and `withheld` what was generated and not
passed on.

### Chat

Sockets, the presence cache with one entry per person, conversations and their members, messages.
HandleConnection, RefuseConnection, HandleDisconnect and UpdateActiveStatus are the gateway;
NewChat, FindCommonConversation, CreateConversation, CreateParticipant (all at once) and EndChat
`ChatsService.create`; CreateMessage, ListOthers, SendMessage and EndPost
`MessagesService.create`. `sendMessage` is a socket event as well: RelayMessage lets any open socket
have any message sent to anybody, once or often, before the message exists or after. A copy says who
had it sent (`Origins`), and the property is about the copies of the service only: the gateway
promises nothing of the others. The code compares conversations by a column they do not have
(`_.intersectionBy` with `conversationId`), so whoever has any conversation has one in common
with everybody who has any. `mixed` holds who ever had two sockets at once, `excused` who came,
went or joined while a message was under way.

### Listings

What Prisma and the array methods do to rows, for the three services below: `Listing(S, key)` is a
set of rows in the ascending order of a key (`orderBy`, `Array.sort`), `Sifted(s, T)` the entries of
a list that are in a set (`Array.filter`). Both are defined by what they return and not by how it
is computed, so that it can be reasoned about: a listing is an ascending list of the set without
repetition, and the entries sifted are those at the places of the set, in their order.

### ProspectBoard

Cards in columns, with positions. A search is FindSession, Scrape, ReadLast, InsertCards (the
session with its prospects is one nested write); a move ReadColumn and MoveCard; a reordering
ReadBoard, ReadOriginals, then WritePosition or LoseWrite for each row of `Promise.all`, and
EndReorder; Rename and RemoveCard are one call. `Listed` is the list the reordering works with:
prospects of the column that the request overlooked come first, in reverse. A search whose first
column is empty computes no position and is refused when the session exists already. The answer of
the scraper is a list that may repeat a name: it is compared with the names stored and not with
itself, so two prospects of a session may have one name from the start (`doubled`).

### DailyRatings

The ratings of one company, in the order of their creation. AskForRating, CreateRating and MarkUrl
are `getOrCreateRatings`: a rating with stars, however old, is the answer, and nothing is
measured. StartFill, FillDay, EndFill and StopFill are the command that fills the days between two
ratings: it reads the list once, newest day first (`NewestFirst`), and what it will write is the
set of rows for the days in each `Gap` between two neighbours of the list, with the stars of the
newer one. StartFix and FixRating are the command that recomputes one day.
`closed` records the spans a run has finished.

### Images

The profile image of a user, the invoice image of an order and the logo of a brand: the address in
the row (`picture`) and the files in the store (`stored`). Each request reads the row, destroys,
clears, uploads and writes, in the order of its code (ReadRow, DestroyImage, Clear, UploadImage,
WriteUrl); for a brand nothing is cleared before the upload, and DropBrand leaves the address of
the logo it destroyed in the deleted row. FindCode is the creation of a brand. `dangling` and
`left` record what a failed call, or an overlap, made of a picture.

### CsvImport

One table per import: ParseFile (`Convert`, then `Converted` for the file), FilterRows (`Complete`,
`HasParent`), InsertBatch (everything at once, or batches for `Batched` tables), EndImport. The
updates of orders run after the answer (StartUpdates, UpdateSellerEmail): an unknown order rejects
a promise that nobody handles, and the process ends (`down`). A batched file of which a part was
imported cannot be sent again: its first ids are taken.

## 4. Runs

| Run | Question | Instance |
|---|---|---|
| `reminders_serial` | OneReminder, RecordsAgree, HalvesArePaired, ClimbsTheLadder: what users rely on when requests do not overlap, with one failure or restart anywhere | one order, one seller, all requests, all six statuses, 2 tasks |
| `reminders_races` | TypeOK, EarnedBeforeAdvance, UnpaidIsFinal, FollowUpsAreSpaced: what holds however two requests and both jobs overlap | one order, two clients (one without orders), 3 tasks |
| `reminders_live` | CompletedRemindersMove, QuietClientsAreFollowedUp under fairness | one order, one client, 5 tasks |
| `reminders_moved` | violation: DueRemindersAreMoved | 2 tasks, nothing overlaps |
| `reminders_reopened` | violation: ReopensOnlyUnrecorded | two requests and a job |
| `cascade_serial` | TypeOK, OrdersAreWhole, ClientsAreWhole, DeletionIsComplete, RestorationIsComplete: one request with its handler at a time, one failure anywhere | one client, two companies with an order each, one task, all requests |
| `cascade_races` | OrphansAreStrays, RemovalIsFollowed: two requests with their handlers | one client, company, order and task; all requests but the follow-up |
| `cascade_missed` | violation: DeletionIsComplete | creating an order and removing its client overlap |
| `totals_serial` | TotalFitsTheReviews, InvoicesCoverTheTotal: one request at a time, with two failures or restarts | 3 reviews, costs 0, 2, 3, one invoice, all requests |
| `totals_races` | TypeOK, NoPhantomCharge: two requests, one failure | 2 reviews, costs 2, 5, one invoice, all requests |
| `reports` | RevenueIsOneFigure, GraphsCoverTheReport, SearchesNarrowTheList, PaidOrdersWereSeen, NobodyIsCountedTwice, ClientSearchesNarrow: do figures that name the same thing agree, whatever the tables hold and whoever writes between two queries | two orders of two brands with three reviews; or two clients and two sellers |
| `services` | TransferredSellersAreEmpty, OnlyLateClientsAreStranded, AliasesAreDistinct, OrdersFollowTheirClient, TheLastPasswordToldWorks, OnlineMembersGetTheMessage, CardsAreApart, FilledDaysCopyTheNext, PicturesAreThere, ImportsAreWhole: what each service promises, one request at a time with a failure anywhere, or requests that overlap | see below |

Each property has a mutant: a definition of the model changed as a plausible bug would change
the code (defined next to the original and marked `a mutant`), under which the run finds the
property violated.

### Bounds

* `MaxTasks` bounds the rows of Task; a request starts only if there is room for what it may
  create (`Room`). Two rows are enough for a reminder and a follow-up that hides it, three for
  two reminders created by overlapping requests and a follow-up.
* `MaxInFlight` bounds how many handlers and jobs overlap; with 1 nothing does. Three is two
  requests and a job, the least with which a request can act between two others.
* `MaxFailures`: failures are independent, one is enough to stop at every point.
* `Recorded` and `Kinds` choose what users send in a run. `reminders_serial` and
  `cascade_serial` send everything.
* Each job is a single process: cron starts it once a night, and a day passes only when
  nothing is in flight. The same job run from the command line beside it is outside the model.
* In `ClientCascade`, `Requests` has one slot (serial) or two. An order or a task row is
  created once and the reviews of an order are one group. Orders do not interact except through their client,
  company and tasks, so two of them, in two companies, show each relation.
* In `OrderTotals` the costs are chosen so that different counts and costs have different
  products (2, 4, 5, 10), and 0 is one of them in the serial run. Two reviews are enough for
  one that is counted and one that is not; three let a removal leave live ones beside deleted
  ones. `MaxInvoices` bounds the rows of Invoice: a request that prints starts only if a row is
  left for it (`Issuing`).
* In the reports a row is in or out of each filter, so two orders or clients that differ in every
  column show each; three reviews put two on one order. A question may be asked of every table that
  the writes lead to. `Newest` and `LastDays` are 1, so that a row falls outside both.
* The services share no variable, and one run checks them all: `topic` chooses the service a
  behaviour is about and the others stay as they began. `alone`, `single`, `lone` and `apart`
  choose whether requests overlap; where a property is about requests one at a time, one of their
  calls may fail. The bounds of each:
  `Accounts` three users and emails; `MaxRequests` of three one at a time, `MaxTogether` of two
  that overlap (a transfer of up to two emails when alone, of one when another request runs beside
  it);
  `ClientBrands` three brands, two orders, three writes of the client, so that the oldest of three
  events may be handled last;
  `Credentials` two users, each with an alternate email, the first also with the second's email as
  one, and a client with the first one's email; three requests of which two overlap, five draws;
  `Chat` three sockets of two people, one of them without a token, two conversations, one message, sent by the
  service and relayed by any socket;
  `ProspectBoard` three cards in two columns, answers of up to two names (`MaxFound`), three requests
  of which two overlap;
  `DailyRatings` four days, all imports of three of them, two runs that fill, one that recomputes,
  one measurement;
  `Images` four requests of which two overlap, four uploads;
  `CsvImport` two imports of three files of two rows, overlapping or not, in batches of one row.
* Symmetry is used on the reviews and slots of `OrderTotals`, and on the handler slots of `reminders_races` and `reminders_reopened`, where
  only invariants and action properties are checked.

### Fairness

A database call returns or rejects, so a request, a handler and a job go on: weak fairness of
their steps. The jobs are started by cron every night and eight days pass whatever users do:
strong fairness of StartPayments, StartOrders and EightDaysPass, since their guards
(nothing in flight) may come and go. Nothing is assumed of users and of failures; in the run
of liveness of `PaymentReminders` no call fails, in that of `ClientCascade` one may.

## 5. Proofs

Eight modules hold theorems, each about every value of the constants that meets the assumption of
its module; "one at a time" is said by a hypothesis or by a variable, and in
each case one request may be cut off, or one call fail, at every step.

| Proofs | of | Assumed |
|---|---|---|
| `PaymentRemindersProofs` | `PaymentReminders`, `ReminderLadder` | `ConstantsOK`: the functions between tables are total, the bounds are natural numbers; where the theorem says so, `Serial`: `MaxInFlight` is 1 and there are finitely many slots |
| `ClientCascadeProofs` | `ClientCascade` | `CascadeConstantsOK`: as above; no set need be finite. Where the theorem says so, there is one slot, and clients and orders are distinct (they are rows of two tables, and `interrupted` holds both) |
| `OrderTotalsProofs` | `OrderTotals` | `TotalsConstantsOK`: finitely many reviews and slots, since it counts; one slot where the theorem says so |
| `AccountsProofs` | `Accounts` | `AccountsOK`: the first rows are rows of users, 0 is not one, and at first no two users own one live alternate email |
| `ServicesProofs` | `ClientBrands`, `Images`, `Chat`, `Credentials` | `ChatOK`: a socket has one person, "none" is no socket and the bounds are natural numbers; `CredentialsOK`: "nobody", the outcome of a refused login, is no person. Nothing is assumed of emails |
| `ListingsProofs` | `Listings`: lemmas on finite sets and on lists | nothing |
| `ListServicesProofs` | `CsvImport`, `DailyRatings`, `ProspectBoard` | `CsvOK`: files are lists of rows, a batch has at least one row, and a half that is there at first belongs to a task whose creator gives it one; `RatingsOK`: today is not day 0, the days imported are days up to today, and the run that recomputes is none of those that fill; `BoardOK`: finitely many cards and names, ids and columns are numbers, the first column is one of them, `MaxFound` is a natural number |
| `ReportsProofs` | `ReportDates`, `OrderReports`, `ClientReports` | `DatesOK`; `OrderReportsOK` and `ClientReportsOK`: finitely many orders, reviews, sellers and clients, rows that refer to rows, prices of any sign, and questions that `date-range.ts` does not reject |

Each inductive invariant was checked by TLC, as an invariant of the run of its component, before
it was first proved.

| Theorem | Argument |
|---|---|
| `TypesAreKept` | `TypeInv` adds what a request knows at each step: a step that writes a task has a task that exists, a step that writes a type has a Dunning status. |
| `AdvancesAreEarned` | `EarnedInv` adds that a completed half belongs to a task worked on since its last move: the job read a completion, and only its own write takes the task out of `worked`. |
| `UnpaidStaysUnpaid` | `AdvancesUnfinished`: the task the job is about to move is not UNPAID and the type it will write is the next of the type it read. Requests that record a status write Dunning types and are excepted. |
| `FollowUpsStaySpaced` | `SpacedInv` adds that a follow-up the job has decided on is still due: requests only add tasks of other types behind the newest. |
| `RemindersAreSingle`, `SerialRecordsAgree`, `SerialHalvesArePaired` | `SerialInv`: whatever is under way is alone (`Alone`); rows that are not made yet are blank (`Blank`), of the AUTO tasks of an order only the oldest may be a reminder or lack a half (`Foremost`); between requests and jobs dates, status and halves agree but for orders that were cut off (`Settled`); and while one is under way, what it has read is still so and what it has yet to write is what is missing (`RequestsKnow`, `JobKnows`). An order has one reminder because an update finds the oldest task and creates one only if there is none. |
| `ImplementsTheLadder` | The refinement. `LadderSteps` maps each action to a step of the ladder or a stutter: with `JobKnows` the only step that moves a type upwards does so for a completed reminder whose eight days are over, and with `RequestsKnow` every other change of a type is a status a user records. |
| `CascadeTypesAreKept` | `CascadeInv` adds to the types what a slot knows (`Steady`): only a removal of a client reaches its steps, and a handler that is not at work has no order left. |
| `NoOrderIsMissed` | `AllSafe` is inductive with `CascadeInv`: an order leaves what a slot will remove (`Unremoved`) only when it is deleted or becomes a stray; `Keeps` is proved for each action and `KeepsRemoval` turns it into the property. |
| `SerialOrdersAreWhole`, `SerialClientsAreWhole` | For one request slot. `AnyOrder` says what holds of an order at each stage of its removal or restoration even if an earlier one was cut off (the tasks found are still the ones to change; a restoration has the order and the reviews live already), `GoodOrder` what more holds if none was. A restoration that reaches its end makes an order whole from `AnyOrder` alone, which is why it may leave `interrupted`. `Knows` says that what the request has read is still so when it writes. |
| `SerialDeletionIsComplete`, `SerialRestorationIsComplete` | `Follows`: while the handler works, an order it must still change has a stage before it, or was cut off, or (restored) has a deleted company; only the request itself could bring another order to life. |
| `TotalTypesAreKept` | `TotalsInv` adds what a request that has counted holds (`RequestsInformed`: at most as many reviews as there are rows by now, a cost the order has had) and that a request that prints has a row left for its invoice (`RoomForInvoices`). |
| `NoReviewIsChargedTwice` | The last part of `TotalsInv`. Rows of reviews are never taken away and `charged` only grows, so a product once made stays one (`ProductsLast`), and a request writes the product of what it holds. |
| `SerialTotalsFit`, `SerialInvoicesCover` | For one request slot. `SerialInv` adds to `TotalsInv` what the request has counted: all reviews, or the live ones of a live order, and that it is still so (`StillSo`). Only a restoration comes between its steps; it needs a deleted order, keeps the number of rows, and is the reason why counting the live ones asks for a live order. `PricedReviews` is the lower bound, and excepts the request that has just added reviews. |
| `BrandsAreFollowed` | `BrandsInv`: what is on its way was carried (`OnTheirWay`), and an order that follows none of the carried brands still has an event waiting for it (`MendedOrAwaited`); the handler writes all orders there are when it lists. |
| `NoClientIsStranded` | `AccountsInv`: a live client that did not come too late has a seller whom nobody is about to delete (`KeptOrStray` with `Leaving`), which needs what each request and each worker of a transfer has found by its step (`JobOK`, `WorkOK`). A check or a move that finds the client elsewhere makes the seller leave; a client that is given or restored to one who leaves is `stray`. |
| `AliasesHaveOneOwner`, `TransfersEmptyTheSeller` | One request at a time. `AloneInv` has both properties as parts and adds what the one request under way knows by its step (`Knows`). An upsert has looked for another owner of the email, and nobody gets it meanwhile. For a transfer it is said of every worker (`WorkerKnows`), since they run side by side: with `moveClients` behind it a seller has no client, with `moveAliases` no alternate email, and no other worker gives it one, for all of them give to the target, who is not removed. The other requests must not find a removed seller: an administrator's order never does (`OrderKnows`), a seller's token may, and what is then written is `late` or `stray`; none writes to one otherwise (`Lasting`). |
| `PicturesStayThere` | `ImagesInv`: no two columns name one picture; what a request is about to destroy is nobody else's, and what it is about to name is stored and known to nobody else (`Destroying`, `Naming`). A live row that names a picture no longer stored has a request that will mend it (`Mends`), or one failed there (`dangling`). One request at a time, a stored picture without a row is the one about to be named. |
| `MessagesArrive` | `ChatInv`: the cache holds the open socket of everybody who was never connected twice (`Present`), so who is not excused was found at every step (`StillOnline`); a copy of the service belongs to a member, and a member who is not excused has one or is owed one by the request that is sending (`Copies`). |
| `ThePasswordToldWorks` | `CredentialsInv`: the stored password is told or withheld (`ToldOrWithheld`), for a write and what its owner knows of it are one step, or a mail that fails; one at a time it is the last one told, or one still to be mailed (`InOrder`). An email that is the owner's alone leads to one user (`OwnEmails`), whatever emails others share. |
| `ImportsStayWhole` | `CsvInv`: what is sent and what is left of an import make up the rows that were kept of its file, in their order; what is sent is in its table, a part that is sent ends with a batch, and the rows of halves were kept because their tasks are there (`ImportKnows`). Rows of tables are only added (`Grows`). |
| `FilledDaysCopy` | `RatingsInv`: a filled row has the stars of the first measured day behind it, and its own day was not measured (`Copies`); the same holds of the rows a run has yet to write, though its list is old, since a measurement is of today, behind every gap. A run leaves no day out: every day of its span has a row or is still to be written (`RunnerKnows`). |
| `CardsStayApart` | One request at a time. `BoardInv`: what the request has read of the board is still so (`HandKnows`): the last position of the column, or the rows. For a reordering it says where every card will be when all is written (`EndsAt`), and that these places are apart (`WritesKeepApart`); it rests on `ListedOnce`, that the list it works with names each card of the column once. The names of one answer are new to the session, so only those of one answer can be alike (`doubled`). A lost write of a reordering (`torn`) is what the property excepts. |
| `RevenueStaysOneFigure`, `GraphsAlwaysCover` | Sums. A sum over a finite set is f[x] and the sum of the rest for every x of it, not only for the one the fold takes first (`SumOfTheRest`), so the sums of the groups of a set add up to its sum (`SumByGroups`, `CountByGroups`): reviews grouped by order, by seller, by status or by day. The first holds of any tables, the second needs `TablesTyped`: a live row has one of the statuses that a graph shows. |
| `SearchesAlwaysNarrow`, `ClientSearchesAlwaysNarrow` | Of any tables, filter by filter. |
| `PaidOrdersAreSeen` | `ReportInv`: what a second read would find now was found by the first or was written since (`AtPaid`), and all of it falls on a day of the range, which is found first and is finite (`RangesAreInTheCalendar`, `DaysAreCounted`). |
| `NobodyIsEverCountedTwice` | `SurveyInv`: who was found in a group still belongs to it or was written (`FirstFound`, `SecondFound`), rows stay rows, and the total has room for all who were asked for and not written since (`Counted`). |

Facts about all finite sets are proved without a theorem that takes an operator: `SmallestSet` says
that a non-empty collection of finite sets has a smallest one, and a lemma that failed for some set
would fail for a smallest one. The sums of the reports are folds: a function that adds up f over the
subsets of a set is shown to exist (`TalliesExist`) and to be the fold (`SumIsATally`), and what holds
of the empty set and of one more element holds of the set (`OneMore`).

### Only model-checked

* Liveness under fairness: `CompletedRemindersMove`, `QuietClientsAreFollowedUp` and
  `RemovalIsFollowed`. They need fairness and `ENABLED`, which the provers do not have.

Larger instances of the services than the run's were checked once without an error: three imports,
four writes of a brand, and three runs that fill ratings beside two measurements.

## 6. Findings

* `reminders_moved`: a two-month follow-up of an order is an AUTO task too, and becomes the
  newest: `checkPayments` then never sees the completed reminder behind it, against the comment
  at `orders-cron.service.ts:161`.
* `reminders_reopened`: `checkPayments` decides on a listing from its start. A status recorded
  meanwhile is not seen and the settled task is set to ACTIVE, against the comment at
  `orders-cron.service.ts:166`.
* `cascade_missed`: an order created while its client is removed is inserted after the
  handler's listing and stays live, against the comment at `clients.subscriber.ts:54`.

## 7. What is not modelled

* Titles, notes, logs, mails other than those with passwords, and the pushes that follow a write: nothing reads them back.
* `completedAt` of the halves, the order and client data that no guard of these parts reads,
  and an order that moves to another client or company by PATCH.
* `POST` /tasks/restore of one task: it looks the deleted task up with the client that hides
  deleted rows and throws.
* The status of a review where totals are concerned, and a PATCH of an order without a unit cost (it leaves the total).
* The deletion handler of `CompaniesSubscriber`: its emit is commented out.
* What Prisma, PostgreSQL and EventEmitter2 do inside a call: a call is atomic and may reject.
* Of the reports: the names and addresses they carry, paging, sorting and the shape of answers.
* Of the chat: the news of who is online, reading and unread counts. Of the prospects: logs,
  reviewers, mails to prospects and the estimates of the scraper. Of the brands: the update of a
  name and a code (two creations at once may share a code). Of the images: the one sent with a new
  order. Of authentication: tokens and sessions,
  and the password written when an account is created. Of accounts: names, roles but for the choice
  between an administrator's request and a seller's own, and what a seller's token allows until it
  expires.
* How the scraper turns "x days ago" into a date (`scraper.service.ts:192`).
* Mail (templates and SMTP), validation and filters (the models enumerate valid requests), seeders
  and generated code: nothing there keeps state for a later call.
