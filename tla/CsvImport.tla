------------------------------ MODULE CsvImport ------------------------------
(***************************************************************************)
(* The import of one table from a file: rows are converted and filtered, by *)
(* themselves and by the parents found in the database, and inserted in one *)
(* transaction or in batches.  Ids come from the file.                      *)
(***************************************************************************)
EXTENDS Naturals, FiniteSets, Sequences, SequencesExt, Listings

CONSTANTS Files,              \* sequences of [id, parent, seller, named, status, by]
          AtFirst,            \* the tables before any import
          BatchSize,          \* 10000 in the code
          Importers, MaxImports

Tables == {"user", "alternateEmail", "brand", "client", "company", "order", "orderLog",
           "orderReview", "task", "taskAccountant", "taskSeller", "taskNote", "rating",
           "dailyRating"}

FileRow == [id : Nat, parent : Nat, seller : Nat, named : BOOLEAN,
            status : {"0", "1"}, by : {"0", "1", "2"}]

ASSUME CsvOK ==
    /\ BatchSize \in Nat \ {0}
    /\ Files \subseteq Seq(FileRow)
    /\ DOMAIN AtFirst = Tables
    \* at first, a half belongs to a task that its creator gives such a half
    /\ \A r \in AtFirst["taskAccountant"] : \E k \in AtFirst["task"] :
          k.id = r.parent /\ k.by \in {"AUTO", "ACCOUNTANT"}
    /\ \A r \in AtFirst["taskSeller"] : \E k \in AtFirst["task"] :
          k.id = r.parent /\ k.by \in {"AUTO", "SELLER"}

VARIABLES table,      \* rows of each table: [id, parent, deleted, by]
          mailOf,     \* ids of orders whose seller_email is the file's
          import, imports, snags,
          updates,    \* ids of orders that are updated after the answer
          down,       \* the process has ended
          answered    \* history: imports that are over: [table, rows, sent, success]
csvVars == <<table, mailOf, import, imports, snags, updates, down, answered>>

NoImport == [pc |-> "idle"]
Ids(t) == {r.id : r \in table[t]}

\* schema.prisma: the table a row's parent is in
ParentTable(t) ==
    CASE t \in {"alternateEmail", "client"} -> "user"
      [] t = "company" -> "client"
      [] t \in {"orderLog", "orderReview", "task"} -> "order"
      [] t \in {"taskAccountant", "taskSeller", "taskNote"} -> "task"
      [] t \in {"rating", "dailyRating", "order"} -> "company"
      [] OTHER -> "none"

\* convertField: status and is_archived "0" for deleted (an archived order has "1"); a review's
\* status is another thing
StatusOf(t, status) ==
    CASE t \in {"user", "client", "company", "taskAccountant", "taskSeller"} ->
            IF status = "0" THEN "DELETED" ELSE "ACTIVE"
      [] t = "order" -> IF status = "1" THEN "DELETED" ELSE "ACTIVE"
      [] OTHER -> "other"

\* convertField: createdBy of a task
CreatorOf(t, by) == IF t # "task" THEN "none"
                    ELSE CASE by = "0" -> "AUTO" [] by = "1" -> "ACCOUNTANT" [] by = "2" -> "SELLER"

\* a row of a task that names order 0 is a task without an order; deletedAt follows the status
Convert(t, r) ==
    [id |-> r.id, parent |-> r.parent, seller |-> r.seller, named |-> r.named,
     deleted |-> StatusOf(t, r.status) = "DELETED", by |-> CreatorOf(t, r.by)]
Converted(t, file) == [i \in DOMAIN file |-> Convert(t, file[i])]

\* a user without an email, a company without a name, a url or a client, a review without a name
Complete(t, r) ==
    /\ t \in {"user", "company", "orderReview"} => r.named
    /\ t = "company" => r.parent # 0

\* a mutant: the tasks of the other half are taken too
OwnerOfAny(t) == {"AUTO", "ACCOUNTANT", "SELLER"}

\* whose tasks have the half
CreatorsOf(t) == {"AUTO", IF t = "taskAccountant" THEN "ACCOUNTANT" ELSE "SELLER"}

\* filters on what the database has; alternate emails, clients, companies and notes have none
HasParent(t, r) ==
    CASE t \in {"orderLog", "orderReview"} -> r.parent \in Ids("order")
      [] t = "task" -> r.parent = 0 \/ r.parent \in Ids("order")
      [] t \in {"taskAccountant", "taskSeller"} ->
            \E k \in table["task"] : k.id = r.parent /\ k.by \in CreatorsOf(t)
      [] t \in {"rating", "dailyRating"} -> r.parent \in Ids("company")
      [] t = "order" -> r.parent \in Ids("company") /\ r.seller \in Ids("user")
      [] OTHER -> TRUE

Stored(r) == [id |-> r.id, parent |-> r.parent, deleted |-> r.deleted, by |-> r.by]
Batched(t) == t \in {"orderLog", "dailyRating"}

\* what the database takes: new ids, each once, with parents that are there
Accepted(t, rows) ==
    /\ \A i, j \in DOMAIN rows : i # j => rows[i].id # rows[j].id
    /\ \A i \in DOMAIN rows :
          /\ rows[i].id \notin Ids(t)
          /\ \/ ParentTable(t) = "none" \/ (rows[i].parent = 0 /\ t = "task")
             \/ rows[i].parent \in Ids(ParentTable(t))

NextBatch(i) ==
    LET rows == import[i].rows
    IN  IF Batched(import[i].table) THEN SubSeq(rows, 1, IF Len(rows) < BatchSize THEN Len(rows)
                                                         ELSE BatchSize)
        ELSE rows

----------------------------------------------------------------------------
Answer(i, success) ==
    /\ answered' = answered \cup {[table |-> import[i].table, rows |-> import[i].all,
                                   sent |-> import[i].sent, success |-> success]}
    /\ import' = [import EXCEPT ![i] = NoImport]

\* the file is read, converted and deleted before the database is asked
ParseFile(i, t, file) ==
    /\ import[i].pc = "idle" /\ ~down
    /\ imports < MaxImports /\ imports' = imports + 1
    /\ LET rows == Converted(t, file)
           kept == Sifted(rows, {r \in ToSet(rows) : Complete(t, r)})
       IN  import' = [import EXCEPT ![i] =
              [pc |-> "filter", table |-> t, sent |-> 0, all |-> <<>>, rows |-> kept]]
    /\ UNCHANGED <<table, mailOf, snags, updates, down, answered>>

FilterRows(i) ==
    /\ import[i].pc = "filter"
    /\ LET t == import[i].table
           rows == import[i].rows
           kept == Sifted(rows, {r \in ToSet(rows) : HasParent(t, r)})
       IN  import' = [import EXCEPT ![i].pc = IF t = "order" THEN "update" ELSE "insert",
                                    ![i].rows = kept, ![i].all = kept]
    /\ UNCHANGED <<table, mailOf, imports, snags, updates, down, answered>>

\* createMany in a transaction; clients and their infos are one
InsertBatch(i) ==
    /\ import[i].pc = "insert" /\ import[i].rows # <<>>
    /\ LET t == import[i].table
           batch == NextBatch(i)
       IN  IF Accepted(t, batch)
           THEN /\ table' = [table EXCEPT ![t] = @ \cup {Stored(batch[n]) : n \in DOMAIN batch}]
                /\ import' = [import EXCEPT ![i].sent = @ + Len(batch),
                                  ![i].rows = SubSeq(@, Len(batch) + 1, Len(@))]
                /\ UNCHANGED answered
           ELSE Answer(i, FALSE) /\ UNCHANGED table
    /\ UNCHANGED <<mailOf, imports, snags, updates, down>>

EndImport(i) ==
    /\ import[i].pc = "insert" /\ import[i].rows = <<>>
    /\ Answer(i, TRUE)
    /\ UNCHANGED <<table, mailOf, imports, snags, updates, down>>

\* orders are no longer inserted: forEach starts the updates, and the answer does not wait
StartUpdates(i) ==
    /\ import[i].pc = "update"
    /\ updates' = updates \cup {import[i].rows[n].id : n \in DOMAIN import[i].rows}
    /\ Answer(i, TRUE)
    /\ UNCHANGED <<table, mailOf, imports, snags, down>>

\* an order that is not there rejects a promise nobody handles: the process ends
UpdateSellerEmail(o) ==
    /\ IF o \in Ids("order")
       THEN /\ mailOf' = mailOf \cup {o} /\ updates' = updates \ {o}
            /\ UNCHANGED <<import, down>>
       ELSE /\ down' = TRUE /\ updates' = {}
            /\ import' = [i \in Importers |-> NoImport]
            /\ UNCHANGED mailOf
    /\ UNCHANGED <<table, imports, snags, answered>>

\* a call rejects, at the latest that of the last batch
FailImport(i) ==
    /\ import[i].pc \in {"filter", "insert"}
    /\ import[i].pc = "insert" => import[i].rows # <<>>
    /\ snags > 0 /\ snags' = snags - 1
    /\ Answer(i, FALSE)
    /\ UNCHANGED <<table, mailOf, imports, updates, down>>

CsvInit ==
    /\ table = AtFirst /\ mailOf = {}
    /\ import = [i \in Importers |-> NoImport]
    /\ imports = 0 /\ snags = 1 /\ updates = {} /\ down = FALSE /\ answered = {}

CsvNext ==
    \/ \E i \in Importers :
          \/ FilterRows(i) \/ InsertBatch(i) \/ EndImport(i) \/ StartUpdates(i) \/ FailImport(i)
          \/ \E t \in Tables, file \in Files : ParseFile(i, t, file)
    \/ \E o \in updates : UpdateSellerEmail(o)

CsvSpec == CsvInit /\ [][CsvNext]_csvVars

----------------------------------------------------------------------------
\* However imports overlap and fail: a success has left every row it kept, a failure the rows of
\* whole batches from the first one on, and none at all in a table that goes in one transaction;
\* a half belongs to a task that its creator gives such a half; and an order of a successful
\* import has the seller's email, waits for it, or lost it with the process.
ImportsAreWhole ==
    /\ \A a \in answered :
          LET there(n) == \E r \in table[a.table] : r = Stored(a.rows[n])
          IN  IF a.table = "order"
              THEN a.success => down \/ \A n \in DOMAIN a.rows : a.rows[n].id \in mailOf \cup updates
              ELSE /\ \A n \in 1 .. (IF a.success THEN Len(a.rows) ELSE a.sent) : there(n)
                   /\ ~a.success /\ a.sent > 0 => Batched(a.table) /\ a.sent % BatchSize = 0
    /\ \A t \in {"taskAccountant", "taskSeller"} : \A r \in table[t] :
          \E k \in table["task"] : k.id = r.parent
              /\ k.by \in {"AUTO", IF t = "taskSeller" THEN "SELLER" ELSE "ACCOUNTANT"}
=============================================================================
