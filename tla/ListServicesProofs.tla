-------------------------- MODULE ListServicesProofs --------------------------
(***************************************************************************)
(* Proofs about the services that work off lists, for every number of rows,*)
(* files, days and requests: the halves that an import of a CSV file adds, *)
(* the days that a run fills between two ratings, and the positions and the*)
(* names of the prospects on a board.                                      *)
(***************************************************************************)
EXTENDS CsvImport, DailyRatings, ProspectBoard, ListingsProofs, SequenceTheorems

(***************************************************************************)
(* CsvImport: what an import has kept, has sent and has yet to send.       *)
(***************************************************************************)
KeptRow == [id : Nat, parent : Nat, seller : Nat, named : BOOLEAN, deleted : BOOLEAN,
            by : {"none", "AUTO", "ACCOUNTANT", "SELLER"}]
ImportRow == [pc : {"filter", "insert", "update"}, table : Tables, sent : Nat,
              all : Seq(KeptRow), rows : Seq(KeptRow)]
HalfTables == {"taskAccountant", "taskSeller"}

CsvTyped ==
    /\ DOMAIN table = Tables
    /\ import \in [Importers -> {NoImport} \cup ImportRow]
    /\ answered \subseteq [table : Tables, rows : Seq(KeptRow), sent : Nat, success : BOOLEAN]

\* a half that was kept has its task
ImportKnows(q) ==
    /\ q.pc = "filter" => q.sent = 0
    /\ q.pc = "update" => q.table = "order" /\ q.rows = q.all
    /\ q.pc = "insert" =>
         /\ q.table # "order"
         /\ Len(q.all) = q.sent + Len(q.rows)
         /\ \A n \in 1 .. Len(q.rows) : q.rows[n] = q.all[q.sent + n]
         /\ \A n \in 1 .. q.sent : Stored(q.all[n]) \in table[q.table]
         /\ q.sent > 0 /\ q.rows # <<>> => Batched(q.table) /\ q.sent % BatchSize = 0
         /\ q.table \in HalfTables => \A n \in 1 .. Len(q.all) : HasParent(q.table, q.all[n])

\* the parts of ImportsAreWhole
IsWhole(a) ==
    IF a.table = "order"
    THEN a.success => down \/ \A n \in 1 .. Len(a.rows) : a.rows[n].id \in mailOf \cup updates
    ELSE /\ \A n \in 1 .. (IF a.success THEN Len(a.rows) ELSE a.sent) :
               Stored(a.rows[n]) \in table[a.table]
         /\ ~a.success /\ a.sent > 0 => Batched(a.table) /\ a.sent % BatchSize = 0

HasTask(t, r) == \E k \in table["task"] : k.id = r.parent /\ k.by \in CreatorsOf(t)

CsvInv ==
    /\ CsvTyped
    /\ \A i \in Importers : ImportKnows(import[i])
    /\ \A a \in answered : IsWhole(a)
    /\ \A t \in HalfTables : \A r \in table[t] : HasTask(t, r)

LEMMA InvIsEnough == CsvInv => ImportsAreWhole
<1> SUFFICES ASSUME CsvInv PROVE ImportsAreWhole
  OBVIOUS
<1>1. ASSUME NEW a \in answered
      PROVE  LET there(n) == \E r \in table[a.table] : r = Stored(a.rows[n])
             IN  IF a.table = "order"
                 THEN a.success => \/ down
                                   \/ \A n \in DOMAIN a.rows : a.rows[n].id \in mailOf \cup updates
                 ELSE /\ \A n \in 1 .. (IF a.success THEN Len(a.rows) ELSE a.sent) : there(n)
                      /\ ~a.success /\ a.sent > 0 =>
                            Batched(a.table) /\ a.sent % BatchSize = 0
  <2>1. IsWhole(a) /\ DOMAIN a.rows = 1 .. Len(a.rows)
    BY <1>1 DEF CsvInv, CsvTyped
  <2> QED
    BY <2>1 DEF IsWhole
<1>2. \A t \in {"taskAccountant", "taskSeller"} : \A r \in table[t] :
          \E k \in table["task"] : k.id = r.parent
              /\ k.by \in {"AUTO", IF t = "taskSeller" THEN "SELLER" ELSE "ACCOUNTANT"}
  BY DEF CsvInv, HalfTables, HasTask, CreatorsOf
<1> QED
  BY <1>1, <1>2 DEF ImportsAreWhole

\* Tables grow, and an order that waits for its email gets it or goes with the process.
Grows ==
    /\ DOMAIN table' = Tables
    /\ \A t \in Tables : table[t] \subseteq table'[t]
    /\ down => down'
    /\ down' \/ mailOf \cup updates \subseteq mailOf' \cup updates'

LEMMA StillKnows ==
    ASSUME CsvTyped, Grows, NEW q \in {NoImport} \cup ImportRow, ImportKnows(q)
    PROVE  ImportKnows(q)'
<1>1. q.pc = "insert" => q.table \in Tables /\ q.all \in Seq(KeptRow) /\ q.sent \in Nat
  BY DEF NoImport, ImportRow
<1>2. ASSUME NEW t \in HalfTables, NEW r, HasParent(t, r) PROVE HasParent(t, r)'
  <2>1. HasTask(t, r) => HasTask(t, r)'
    BY DEF HasTask, Grows, Tables, CreatorsOf
  <2> QED
    BY <1>2, <2>1 DEF HasParent, HasTask, HalfTables, CreatorsOf
<1>3. q.pc = "insert" => \A n \in 1 .. q.sent : Stored(q.all[n]) \in table'[q.table]
  BY <1>1 DEF ImportKnows, Grows
<1>4. q.pc = "insert" /\ q.table \in HalfTables =>
          \A n \in 1 .. Len(q.all) : HasParent(q.table, q.all[n])'
  BY <1>2 DEF ImportKnows
<1> QED
  BY <1>3, <1>4 DEF ImportKnows, Batched

LEMMA StillWhole ==
    ASSUME CsvTyped, Grows, NEW a \in answered, IsWhole(a)
    PROVE  IsWhole(a)'
<1>1. a.table \in Tables /\ table[a.table] \subseteq table'[a.table]
  BY DEF CsvTyped, Grows
<1>2. CASE a.table = "order"
  BY <1>2 DEF IsWhole, Grows
<1>3. CASE a.table # "order"
  BY <1>1, <1>3 DEF IsWhole, Batched
<1> QED
  BY <1>2, <1>3

LEMMA HalvesStay ==
    ASSUME CsvInv, Grows, NEW t \in HalfTables, NEW r \in table[t]
    PROVE  HasTask(t, r)'
BY DEF CsvInv, Grows, HasTask, Tables, CreatorsOf

\* An import goes on.
LEMMA GoingOn ==
    ASSUME CsvInv, Grows, NEW i \in Importers, NEW q \in {NoImport} \cup ImportRow,
           import' = [import EXCEPT ![i] = q], ImportKnows(q)'
    PROVE  /\ import' \in [Importers -> {NoImport} \cup ImportRow]
           /\ \A j \in Importers : ImportKnows(import[j])'
<1>1. CsvTyped /\ \A j \in Importers : ImportKnows(import[j])
  BY DEF CsvInv
<1>2. import' \in [Importers -> {NoImport} \cup ImportRow]
  BY <1>1 DEF CsvTyped
<1>3. ASSUME NEW j \in Importers PROVE ImportKnows(import[j])'
  <2>1. CASE j = i
    <3>1. import'[j] = q
      BY <1>1, <2>1 DEF CsvTyped
    <3> QED
      BY <3>1
  <2>2. CASE j # i
    <3>1. PICK p \in {NoImport} \cup ImportRow : p = import[j] /\ import'[j] = p /\ ImportKnows(p)
      BY <1>1, <2>2 DEF CsvTyped
    <3>2. ImportKnows(p)'
      BY <1>1, <3>1, StillKnows
    <3> QED
      BY <3>1, <3>2
  <2> QED
    BY <2>1, <2>2
<1> QED
  BY <1>2, <1>3
LEMMA ConvertedRows ==
    ASSUME NEW t \in Tables, NEW file \in Seq(FileRow)
    PROVE  Converted(t, file) \in Seq(KeptRow)
<1>1. ASSUME NEW r \in FileRow PROVE Convert(t, r) \in KeptRow
  <2>1. CreatorOf(t, r.by) \in {"none", "AUTO", "ACCOUNTANT", "SELLER"}
    BY DEF CreatorOf, FileRow
  <2>2. (StatusOf(t, r.status) = "DELETED") \in BOOLEAN
    OBVIOUS
  <2> QED
    BY <2>1, <2>2 DEF Convert, FileRow, KeptRow
<1>2. \A n \in 1 .. Len(file) : Convert(t, file[n]) \in KeptRow
  BY <1>1
<1> QED
  BY <1>2 DEF Converted

LEMMA CsvStart == CsvInit => CsvInv
<1> SUFFICES ASSUME CsvInit PROVE CsvInv
  OBVIOUS
<1>1. CsvTyped
  BY CsvOK DEF CsvInit, CsvTyped
<1>2. \A i \in Importers : ImportKnows(import[i])
  BY DEF CsvInit, NoImport, ImportKnows
<1>3. \A t \in HalfTables : \A r \in table[t] : HasTask(t, r)
  BY CsvOK DEF CsvInit, HalfTables, HasTask, CreatorsOf
<1> QED
  BY <1>1, <1>2, <1>3 DEF CsvInv, CsvInit

\* A step that changes one import, and no table and no answer.
LEMMA ImportStep ==
    ASSUME CsvInv, NEW i \in Importers, NEW q \in ImportRow, import' = [import EXCEPT ![i] = q],
           ImportKnows(q)', UNCHANGED <<table, mailOf, updates, down, answered>>
    PROVE  CsvInv'
<1>1. Grows
  BY DEF CsvInv, CsvTyped, Grows
<1>2. CsvTyped' /\ \A j \in Importers : ImportKnows(import[j])'
  BY <1>1, GoingOn DEF CsvInv, CsvTyped
<1>3. \A a \in answered : IsWhole(a)'
  BY <1>1, StillWhole DEF CsvInv
<1>4. \A t \in HalfTables : \A r \in table[t] : HasTask(t, r)'
  BY <1>1, HalvesStay
<1> QED
  BY <1>2, <1>3, <1>4 DEF CsvInv

\* An import that is answered, when its rows are whole.
LEMMA AnswerStep ==
    ASSUME CsvInv, NEW i \in Importers, import[i].pc # "idle", NEW success \in BOOLEAN,
           Answer(i, success), Grows, UNCHANGED table,
           NEW b, b = [table |-> import[i].table, rows |-> import[i].all,
                       sent |-> import[i].sent, success |-> success],
           IsWhole(b)'
    PROVE  CsvInv'
<1>1. import[i] \in ImportRow
  BY DEF CsvInv, CsvTyped, NoImport
<1>2. answered' = answered \cup {b} /\ import' = [import EXCEPT ![i] = NoImport]
  BY DEF Answer
<1>3. b \in [table : Tables, rows : Seq(KeptRow), sent : Nat, success : BOOLEAN]
  BY <1>1 DEF ImportRow
<1>4. ImportKnows(NoImport)'
  BY DEF ImportKnows, NoImport
<1>5. CsvTyped' /\ \A j \in Importers : ImportKnows(import[j])'
  BY <1>2, <1>3, <1>4, GoingOn DEF CsvInv, CsvTyped
<1>6. \A a \in answered : IsWhole(a)'
  BY StillWhole DEF CsvInv
<1>7. \A t \in HalfTables : \A r \in table'[t] : HasTask(t, r)'
  BY HalvesStay
<1> QED
  BY <1>2, <1>5, <1>6, <1>7 DEF CsvInv

LEMMA AtWork ==
    ASSUME CsvInv, NEW i \in Importers, import[i].pc # "idle"
    PROVE  import[i] \in ImportRow /\ ImportKnows(import[i])
BY DEF CsvInv, CsvTyped, NoImport
LEMMA ParsingAFile ==
    ASSUME CsvInv, NEW i \in Importers, NEW t \in Tables, NEW file \in Files, ParseFile(i, t, file)
    PROVE  CsvInv'
<1>1. Converted(t, file) \in Seq(KeptRow)
  BY CsvOK, ConvertedRows
<1>2. PICK rows \in Seq(KeptRow) :
         import' = [import EXCEPT ![i] = [pc |-> "filter", table |-> t, sent |-> 0, all |-> <<>>,
                                          rows |-> rows]]
  BY <1>1, SiftedProperties DEF ParseFile
<1>3. PICK q : q = [pc |-> "filter", table |-> t, sent |-> 0, all |-> <<>>, rows |-> rows]
  OBVIOUS
<1>4. q \in ImportRow /\ ImportKnows(q)'
  BY <1>3 DEF ImportRow, ImportKnows
<1> QED
  BY <1>2, <1>3, <1>4, ImportStep DEF ParseFile

LEMMA FilteringRows ==
    ASSUME CsvInv, NEW i \in Importers, FilterRows(i)
    PROVE  CsvInv'
<1>1. import[i] \in ImportRow /\ ImportKnows(import[i]) /\ import[i].pc = "filter"
  BY AtWork DEF FilterRows
<1>2. PICK t \in Tables, rows \in Seq(KeptRow) : t = import[i].table /\ rows = import[i].rows
  BY <1>1 DEF ImportRow
<1>3. PICK keep : keep = {r \in ToSet(rows) : HasParent(t, r)}
  OBVIOUS
<1>4. PICK kept : kept = Sifted(rows, keep)
  OBVIOUS
<1>5. kept \in Seq(KeptRow) /\ \A n \in 1 .. Len(kept) : kept[n] \in keep
  BY <1>4, SiftedProperties, ZenonT(60)
<1>6. PICK q : q = [import[i] EXCEPT !.pc = IF t = "order" THEN "update" ELSE "insert",
                                     !.rows = kept, !.all = kept]
  OBVIOUS
<1>7. /\ q \in ImportRow /\ q.table = t /\ q.rows = kept /\ q.all = kept /\ q.sent = 0
      /\ q.pc = IF t = "order" THEN "update" ELSE "insert"
  BY <1>1, <1>2, <1>5, <1>6 DEF ImportRow, ImportKnows
<1>8. UNCHANGED <<table, mailOf, updates, down, answered>>
  BY DEF FilterRows
<1>9. \A n \in 1 .. Len(kept) : HasParent(t, kept[n])'
  <2>1. \A n \in 1 .. Len(kept) : HasParent(t, kept[n])
    BY <1>3, <1>5
  <2> QED
    BY <1>8, <2>1 DEF HasParent, Ids
<1>10. ImportKnows(q)'
  BY <1>5, <1>7, <1>9 DEF ImportKnows
<1>11. import' = [import EXCEPT ![i] = q]
  <2>1. import' = [import EXCEPT ![i].pc = IF t = "order" THEN "update" ELSE "insert",
                                 ![i].rows = kept, ![i].all = kept]
    BY <1>2, <1>3, <1>4 DEF FilterRows
  <2> QED
    BY <1>6, <2>1
<1> QED
  BY <1>7, <1>8, <1>10, <1>11, ImportStep

LEMMA EndingAnImport ==
    ASSUME CsvInv, NEW i \in Importers, EndImport(i) \/ StartUpdates(i) \/ FailImport(i)
    PROVE  CsvInv'
<1>1. import[i] \in ImportRow /\ ImportKnows(import[i]) /\ import[i].pc # "idle"
  BY AtWork DEF EndImport, StartUpdates, FailImport
<1>2. PICK q \in ImportRow : q = import[i] /\ ImportKnows(q)
  BY <1>1
<1>3. Grows /\ UNCHANGED table
  <2>1. /\ UNCHANGED <<table, mailOf, down>>
        /\ updates \subseteq updates'
    BY DEF EndImport, StartUpdates, FailImport
  <2> QED
    BY <2>1 DEF CsvInv, CsvTyped, Grows
<1>4. CASE EndImport(i)
  <2>1. PICK b : b = [table |-> q.table, rows |-> q.all, sent |-> q.sent, success |-> TRUE]
    OBVIOUS
  <2>2. q.pc = "insert" /\ q.rows = <<>> /\ q.sent \in Nat /\ q.all \in Seq(KeptRow)
    BY <1>2, <1>4 DEF EndImport, ImportRow
  <2>3. IsWhole(b)'
    BY <1>2, <1>3, <2>1, <2>2 DEF IsWhole, ImportKnows
  <2> QED
    BY <1>1, <1>2, <1>3, <1>4, <2>1, <2>3, AnswerStep DEF EndImport
<1>5. CASE StartUpdates(i)
  <2>1. PICK b : b = [table |-> q.table, rows |-> q.all, sent |-> q.sent, success |-> TRUE]
    OBVIOUS
  <2>2. q.pc = "update" /\ q.all \in Seq(KeptRow) /\ q.rows = q.all /\ q.table = "order"
    BY <1>2, <1>5 DEF StartUpdates, ImportRow, ImportKnows
  <2>3. \A n \in 1 .. Len(q.all) : q.all[n].id \in updates'
    BY <1>2, <1>5, <2>2 DEF StartUpdates
  <2>4. IsWhole(b)'
    BY <2>1, <2>2, <2>3 DEF IsWhole
  <2> QED
    BY <1>1, <1>2, <1>3, <1>5, <2>1, <2>4, AnswerStep DEF StartUpdates
<1>6. CASE FailImport(i)
  <2>1. PICK b : b = [table |-> q.table, rows |-> q.all, sent |-> q.sent, success |-> FALSE]
    OBVIOUS
  <2>2. /\ q.pc \in {"filter", "insert"} /\ (q.pc = "insert" => q.rows # <<>>)
        /\ q.sent \in Nat /\ q.all \in Seq(KeptRow)
    BY <1>2, <1>6 DEF FailImport, ImportRow
  <2>3. IsWhole(b)'
    BY <1>2, <1>3, <2>1, <2>2 DEF IsWhole, ImportKnows, Batched
  <2> QED
    BY <1>1, <1>2, <1>3, <1>6, <2>1, <2>3, AnswerStep DEF FailImport
<1> QED
  BY <1>4, <1>5, <1>6
\* What NextBatch takes, and what is left.
LEMMA BatchProperties ==
    ASSUME NEW q \in ImportRow, q.rows # <<>>, NEW b,
           b = IF Batched(q.table)
               THEN SubSeq(q.rows, 1, IF Len(q.rows) < BatchSize THEN Len(q.rows) ELSE BatchSize)
               ELSE q.rows
    PROVE  /\ b \in Seq(KeptRow) /\ Len(b) \in 1 .. Len(q.rows)
           /\ \A n \in 1 .. Len(b) : b[n] = q.rows[n]
           /\ Len(b) = Len(q.rows) \/ (Batched(q.table) /\ Len(b) = BatchSize)
           /\ SubSeq(q.rows, Len(b) + 1, Len(q.rows)) \in Seq(KeptRow)
           /\ Len(SubSeq(q.rows, Len(b) + 1, Len(q.rows))) = Len(q.rows) - Len(b)
           /\ \A n \in 1 .. Len(q.rows) - Len(b) :
                 SubSeq(q.rows, Len(b) + 1, Len(q.rows))[n] = q.rows[Len(b) + n]
<1>1. PICK s \in Seq(KeptRow) : s = q.rows /\ s # <<>>
  BY DEF ImportRow
<1>2. Len(s) \in Nat /\ Len(s) # 0 /\ \A n \in 1 .. Len(s) : s[n] \in KeptRow
  BY <1>1
<1>3. PICK m \in 1 .. Len(s) : /\ (b = s /\ m = Len(s)) \/ b = SubSeq(s, 1, m)
                               /\ m = Len(s) \/ (Batched(q.table) /\ m = BatchSize)
  BY <1>1, <1>2, CsvOK
<1>4. b \in Seq(KeptRow) /\ Len(b) = m /\ \A n \in 1 .. m : b[n] = s[n]
  <2>1. CASE b = s /\ m = Len(s)
    BY <1>1, <2>1
  <2>2. CASE b = SubSeq(s, 1, m)
    <3>1. \A n \in 1 .. m : s[n] \in KeptRow
      BY <1>2
    <3>2. PICK one \in Int : one = 1
      OBVIOUS
    <3>3. /\ SubSeq(s, one, m) \in Seq(KeptRow)
          /\ Len(SubSeq(s, one, m)) = IF one <= m THEN m - one + 1 ELSE 0
          /\ \A n \in 1 .. m - one + 1 : SubSeq(s, one, m)[n] = s[one + n - 1]
      BY <3>1, <3>2, SubSeqProperties
    <3>4. b = SubSeq(s, one, m)
      BY <2>2, <3>2, Zenon
    <3>5. m \in Int /\ one <= m /\ m - one + 1 = m
      BY <1>2, <3>2
    <3>6. Len(b) = m
      BY <3>3, <3>4, <3>5, Zenon
    <3>7. ASSUME NEW n \in 1 .. m PROVE b[n] = s[n]
      <4>1. n \in 1 .. m - one + 1 /\ one + n - 1 = n
        BY <3>2, <3>5
      <4> QED
        BY <3>3, <3>4, <4>1, Zenon
    <3> QED
      BY <3>3, <3>4, <3>6, <3>7, Zenon
  <2> QED
    BY <1>3, <2>1, <2>2
<1>5. PICK rest : rest = SubSeq(s, m + 1, Len(s))
  OBVIOUS
<1>6. /\ rest \in Seq(KeptRow) /\ Len(rest) = Len(s) - m
      /\ \A n \in 1 .. Len(s) - m : rest[n] = s[m + n]
  <2>1. \A n \in m + 1 .. Len(s) : s[n] \in KeptRow
    BY <1>2
  <2>2. /\ rest \in Seq(KeptRow)
        /\ Len(rest) = IF m + 1 <= Len(s) THEN Len(s) - (m + 1) + 1 ELSE 0
        /\ \A n \in 1 .. Len(s) - (m + 1) + 1 : rest[n] = s[m + 1 + n - 1]
    BY <1>2, <1>5, <2>1, SubSeqProperties
  <2>3. PICK l \in Nat : l = Len(s)
    BY <1>2
  <2>4. m \in 1 .. l
    BY <2>3
  <2>5. /\ (IF m + 1 <= l THEN l - (m + 1) + 1 ELSE 0) = l - m
        /\ l - (m + 1) + 1 = l - m
    BY <2>4
  <2>6. \A n \in 1 .. l - m : m + 1 + n - 1 = m + n
    BY <2>4
  <2>7. Len(rest) = l - m
    BY <2>2, <2>3, <2>5, Zenon
  <2>8. ASSUME NEW n \in 1 .. l - m PROVE rest[n] = s[m + n]
    <3>1. rest[n] = s[m + 1 + n - 1]
      BY <2>2, <2>3, <2>5, Zenon
    <3> QED
      BY <2>6, <3>1, Zenon
  <2> QED
    BY <2>2, <2>3, <2>7, <2>8, Zenon
<1> QED
  BY <1>1, <1>3, <1>4, <1>5, <1>6

\* a multiple of the size, and one batch more
LEMMA Multiples ==
    ASSUME NEW x \in Nat, NEW B \in Nat \ {0}, NEW k \in Nat, x = B * k
    PROVE  x % B = 0
BY SMT

LEMMA ABatchMore ==
    ASSUME NEW x \in Nat, NEW B \in Nat \ {0}, x % B = 0
    PROVE  (x + B) % B = 0
<1>1. x = (B * (x \div B)) + (x % B) /\ x \div B \in Nat
  BY SMT
<1>2. PICK k \in Nat : k = x \div B
  BY <1>1
<1>3. x = B * k
  BY <1>1, <1>2
<1>4. B * k + B = B * (k + 1)
  BY SMT
<1>5. x + B \in Nat /\ k + 1 \in Nat
  BY SMT
<1>6. PICK y \in Nat : y = x + B
  BY <1>5
<1>7. PICK m \in Nat : m = k + 1
  BY <1>5
<1>8. y = B * m
  BY <1>3, <1>4, <1>6, <1>7
<1>9. y % B = 0
  BY <1>8, Multiples
<1> QED
  BY <1>6, <1>9

LEMMA InsertingABatch ==
    ASSUME CsvInv, NEW i \in Importers, InsertBatch(i)
    PROVE  CsvInv'
<1>1. PICK q \in ImportRow : q = import[i] /\ ImportKnows(q) /\ q.pc = "insert" /\ q.rows # <<>>
  BY AtWork DEF InsertBatch
<1>2. PICK t \in Tables : t = q.table /\ t # "order"
  BY <1>1 DEF ImportRow, ImportKnows
<1>3. PICK b : b = NextBatch(i)
  OBVIOUS
<1>4. b = IF Batched(t)
          THEN SubSeq(q.rows, 1, IF Len(q.rows) < BatchSize THEN Len(q.rows) ELSE BatchSize)
          ELSE q.rows
  BY <1>1, <1>2, <1>3 DEF NextBatch
<1>5. PICK rest : rest = SubSeq(q.rows, Len(b) + 1, Len(q.rows))
  OBVIOUS
<1>6. /\ b \in Seq(KeptRow) /\ Len(b) \in 1 .. Len(q.rows)
      /\ \A n \in 1 .. Len(b) : b[n] = q.rows[n]
      /\ Len(b) = Len(q.rows) \/ (Batched(t) /\ Len(b) = BatchSize)
      /\ rest \in Seq(KeptRow) /\ Len(rest) = Len(q.rows) - Len(b)
      /\ \A n \in 1 .. Len(q.rows) - Len(b) : rest[n] = q.rows[Len(b) + n]
  <2>1. q.rows # <<>> /\ q.table = t
    BY <1>1, <1>2
  <2>2. b = IF Batched(q.table)
            THEN SubSeq(q.rows, 1, IF Len(q.rows) < BatchSize THEN Len(q.rows) ELSE BatchSize)
            ELSE q.rows
    BY <1>4, <2>1
  <2> QED
    BY <1>5, <2>1, <2>2, BatchProperties, ZenonT(60)
<1>7. /\ q.sent \in Nat /\ q.all \in Seq(KeptRow) /\ q.rows \in Seq(KeptRow)
      /\ Len(q.all) = q.sent + Len(q.rows)
      /\ \A n \in 1 .. Len(q.rows) : q.rows[n] = q.all[q.sent + n]
      /\ \A n \in 1 .. q.sent : Stored(q.all[n]) \in table[t]
      /\ q.sent > 0 => Batched(t) /\ q.sent % BatchSize = 0
      /\ t \in HalfTables => \A n \in 1 .. Len(q.all) : HasParent(t, q.all[n])
  BY <1>1, <1>2 DEF ImportRow, ImportKnows
<1>8. UNCHANGED <<mailOf, updates, down>>
  BY DEF InsertBatch
<1>9. CASE Accepted(t, b)
  <2>1. /\ table' = [table EXCEPT ![t] = @ \cup {Stored(b[n]) : n \in DOMAIN b}]
        /\ import' = [import EXCEPT ![i].sent = @ + Len(b), ![i].rows = rest]
        /\ answered' = answered
    BY <1>1, <1>2, <1>3, <1>5, <1>9 DEF InsertBatch
  <2>2. PICK r : r = [q EXCEPT !.sent = q.sent + Len(b), !.rows = rest]
    OBVIOUS
  <2>3. import' = [import EXCEPT ![i] = r]
    BY <1>1, <2>1, <2>2
  <2>4. /\ r \in ImportRow /\ r.pc = "insert" /\ r.table = t /\ r.all = q.all
        /\ r.sent = q.sent + Len(b) /\ r.rows = rest
    <3>1. q.sent + Len(b) \in Nat
      BY <1>6, <1>7
    <3> QED
      BY <1>1, <1>2, <1>6, <2>2, <3>1 DEF ImportRow
  <2>5. /\ DOMAIN table = Tables
        /\ table'[t] = table[t] \cup {Stored(b[n]) : n \in 1 .. Len(b)}
        /\ \A u \in Tables \ {t} : table'[u] = table[u]
        /\ DOMAIN table' = Tables
    <3>1. DOMAIN table = Tables /\ DOMAIN b = 1 .. Len(b)
      BY <1>6 DEF CsvInv, CsvTyped
    <3> QED
      BY <2>1, <3>1
  <2>6. Grows
    BY <1>8, <2>5 DEF Grows
  <2>7. ImportKnows(r)'
    <3>0. Len(q.rows) \in Nat /\ Len(b) \in Nat /\ r.sent = q.sent + Len(b)
      BY <1>6, <1>7, <2>4
    <3>1. Len(q.all) = r.sent + Len(rest)
      BY <1>6, <1>7, <3>0
    <3>2. \A n \in 1 .. Len(rest) : rest[n] = q.all[r.sent + n]
      BY <1>6, <1>7, <2>4, SMTT(30)
    <3>3. ASSUME NEW n \in 1 .. r.sent PROVE Stored(q.all[n]) \in table'[t]
      <4>1. CASE n <= q.sent
        BY <1>7, <2>5, <4>1
      <4>2. CASE n > q.sent
        <5>1. PICK k \in 1 .. Len(b) : n = q.sent + k
          <6>1. n - q.sent \in 1 .. Len(b) /\ n = q.sent + (n - q.sent)
            BY <1>7, <3>0, <4>2
          <6> QED
            BY <6>1
        <5>2. q.all[n] = b[k]
          BY <1>6, <1>7, <3>0, <5>1
        <5> QED
          BY <2>5, <5>1, <5>2
      <4> QED
        BY <1>7, <4>1, <4>2
    <3>4. rest # <<>> => Batched(t) /\ r.sent % BatchSize = 0
      <4> SUFFICES ASSUME rest # <<>> PROVE Batched(t) /\ r.sent % BatchSize = 0
        OBVIOUS
      <4>1. Batched(t) /\ Len(b) = BatchSize
        BY <1>6
      <4>2. q.sent % BatchSize = 0
        BY <1>7, CsvOK
      <4>3. (q.sent + BatchSize) % BatchSize = 0
        BY <1>7, <4>2, CsvOK, ABatchMore
      <4> QED
        BY <2>4, <4>1, <4>3
    <3>5. t \in HalfTables => \A n \in 1 .. Len(q.all) : HasParent(t, q.all[n])'
      <4>1. t \in HalfTables => t # "task"
        BY DEF HalfTables
      <4>2. t \in HalfTables => table'["task"] = table["task"]
        BY <2>5, <4>1 DEF Tables
      <4> QED
        BY <1>7, <4>2 DEF HasParent, HalfTables
    <3> QED
      BY <1>2, <2>4, <3>1, <3>2, <3>3, <3>4, <3>5 DEF ImportKnows, Batched
  <2>8. CsvTyped' /\ \A j \in Importers : ImportKnows(import[j])'
    BY <2>1, <2>3, <2>4, <2>5, <2>6, <2>7, GoingOn DEF CsvInv, CsvTyped
  <2>9. \A a \in answered' : IsWhole(a)'
    BY <2>1, <2>6, StillWhole DEF CsvInv
  <2>10. ASSUME NEW u \in HalfTables, NEW r1 \in table'[u] PROVE HasTask(u, r1)'
    <3>1. CASE r1 \in table[u]
      BY <2>6, <3>1, HalvesStay
    <3>2. CASE r1 \notin table[u]
      <4>1. u = t
        BY <2>5, <2>10, <3>2 DEF HalfTables, Tables
      <4>2. PICK n \in 1 .. Len(b) : r1 = Stored(b[n])
        BY <2>5, <2>10, <3>2, <4>1
      <4>3. b[n] = q.all[q.sent + n] /\ q.sent + n \in 1 .. Len(q.all)
        BY <1>6, <1>7, <4>2, SMTT(30)
      <4>4. HasParent(t, b[n]) /\ r1.parent = b[n].parent
        BY <1>7, <4>1, <4>2, <4>3 DEF Stored
      <4>5. HasTask(t, r1)
        BY <4>1, <4>4 DEF HasParent, HasTask, HalfTables
      <4>6. table["task"] \subseteq table'["task"]
        BY <2>6 DEF Grows, Tables
      <4> QED
        BY <4>1, <4>5, <4>6 DEF HasTask, CreatorsOf
    <3> QED
      BY <3>1, <3>2
  <2> QED
    BY <2>8, <2>9, <2>10 DEF CsvInv
<1>10. CASE ~ Accepted(t, b)
  <2>1. Answer(i, FALSE) /\ UNCHANGED table
    BY <1>1, <1>2, <1>3, <1>10 DEF InsertBatch
  <2>2. Grows
    BY <1>8, <2>1 DEF Grows, CsvInv, CsvTyped
  <2>3. PICK a : a = [table |-> q.table, rows |-> q.all, sent |-> q.sent, success |-> FALSE]
    OBVIOUS
  <2>4. IsWhole(a)'
    BY <1>2, <1>7, <2>1, <2>3 DEF IsWhole, Batched
  <2> QED
    BY <1>1, <2>1, <2>2, <2>3, <2>4, AnswerStep
<1> QED
  BY <1>9, <1>10
LEMMA UpdatingAnOrder ==
    ASSUME CsvInv, NEW o \in updates, UpdateSellerEmail(o)
    PROVE  CsvInv'
<1>1. Grows
  BY DEF UpdateSellerEmail, Grows, CsvInv, CsvTyped
<1>2. import' = import \/ import' = [j \in Importers |-> NoImport]
  BY DEF UpdateSellerEmail
<1>3. ImportKnows(NoImport)'
  BY DEF ImportKnows, NoImport
<1>4. import' \in [Importers -> {NoImport} \cup ImportRow]
  BY <1>2 DEF CsvInv, CsvTyped
<1>5. ASSUME NEW j \in Importers PROVE ImportKnows(import[j])'
  <2>1. CASE import' = import
    <3>1. PICK q \in {NoImport} \cup ImportRow : q = import[j] /\ ImportKnows(q)
      BY DEF CsvInv, CsvTyped
    <3>2. ImportKnows(q)'
      BY <1>1, <3>1, StillKnows DEF CsvInv
    <3> QED
      BY <2>1, <3>1, <3>2
  <2>2. CASE import' = [i \in Importers |-> NoImport]
    <3>1. import'[j] = NoImport
      BY <2>2
    <3> QED
      BY <1>3, <3>1
  <2> QED
    BY <1>2, <2>1, <2>2
<1>6. answered' = answered /\ table' = table
  BY DEF UpdateSellerEmail
<1>7. \A a \in answered : IsWhole(a)'
  BY <1>1, StillWhole DEF CsvInv
<1>8. \A t \in HalfTables : \A r \in table[t] : HasTask(t, r)'
  BY <1>1, HalvesStay
<1> QED
  BY <1>1, <1>4, <1>5, <1>6, <1>7, <1>8 DEF CsvInv, CsvTyped, Grows

\* For all files and tables, any size of a batch and any imports at once that fail anywhere: what
\* csv.service.ts answered is there, and an import that failed left whole batches.
THEOREM ImportsStayWhole == CsvSpec => []ImportsAreWhole
<1>1. CsvInv /\ [CsvNext]_csvVars => CsvInv'
  <2> SUFFICES ASSUME CsvInv, [CsvNext]_csvVars PROVE CsvInv'
    OBVIOUS
  <2>1. CASE UNCHANGED csvVars
    <3>1. UNCHANGED <<table, mailOf, import, updates, down, answered>>
      BY <2>1 DEF csvVars
    <3>2. Grows
      BY <3>1 DEF Grows, CsvInv, CsvTyped
    <3>3. ASSUME NEW j \in Importers PROVE ImportKnows(import[j])'
      <4>1. PICK q \in {NoImport} \cup ImportRow : q = import[j] /\ ImportKnows(q)
        BY DEF CsvInv, CsvTyped
      <4>2. ImportKnows(q)'
        BY <3>2, <4>1, StillKnows DEF CsvInv
      <4> QED
        BY <3>1, <4>1, <4>2
    <3>4. \A a \in answered : IsWhole(a)'
      BY <3>2, StillWhole DEF CsvInv
    <3>5. \A t \in HalfTables : \A r \in table[t] : HasTask(t, r)'
      BY <3>2, HalvesStay
    <3> QED
      BY <3>1, <3>3, <3>4, <3>5 DEF CsvInv, CsvTyped
  <2>2. ASSUME NEW i \in Importers, FilterRows(i) \/ InsertBatch(i) \/ EndImport(i)
                                    \/ StartUpdates(i) \/ FailImport(i)
        PROVE  CsvInv'
    BY <2>2, FilteringRows, InsertingABatch, EndingAnImport
  <2>3. ASSUME NEW i \in Importers, NEW t \in Tables, NEW file \in Files, ParseFile(i, t, file)
        PROVE  CsvInv'
    BY <2>3, ParsingAFile
  <2>4. ASSUME NEW o \in updates, UpdateSellerEmail(o) PROVE CsvInv'
    BY <2>4, UpdatingAnOrder
  <2> QED
    BY <2>1, <2>2, <2>3, <2>4 DEF CsvNext
<1> QED
  BY CsvStart, <1>1, InvIsEnough, PTL DEF CsvSpec

-----------------------------------------------------------------------------
(***************************************************************************)
(* DailyRatings: what the rows of a day copy, and what a run has yet to do.*)
(***************************************************************************)
Days == 1 .. Today
RatedRow == [day : Days, stars : Stars \cup {NoStars}, right : BOOLEAN, measured : BOOLEAN]
RunnerRow == [pc : {"fill", "idle"}, todo : SUBSET RatedRow, span : (1 .. Today) \X (0 .. Today)]
Still == [pc |-> "idle"]

RatingsTyped ==
    /\ rated \in Seq(RatedRow)
    /\ DOMAIN runner = Runners \cup {"fix"}
    /\ \A r \in Runners : runner[r] \in {Still} \cup RunnerRow
    /\ closed \subseteq (1 .. Today) \X (0 .. Today)

\* a row has the stars of the first rating that was measured after its day, and its day has none
Copies(row) ==
    /\ ~row.measured
    /\ \A j \in 1 .. Len(rated) : rated[j].measured => rated[j].day # row.day
    /\ \E j \in 1 .. Len(rated) :
          /\ rated[j].measured /\ rated[j].day > row.day
          /\ rated[j].stars = row.stars
          /\ \A k \in 1 .. Len(rated) : rated[k].measured /\ rated[k].day > row.day =>
                rated[k].day >= rated[j].day

HasRow(d) == \E i \in 1 .. Len(rated) : rated[i].day = d

RunnerKnows(q) ==
    q.pc = "fill" =>
        /\ \A row \in q.todo : Copies(row)
        /\ \A d \in q.span[1] .. q.span[2] : HasRow(d) \/ \E row \in q.todo : row.day = d

RatingsInv ==
    /\ RatingsTyped
    /\ \A i \in 1 .. Len(rated) : rated[i].measured \/ Copies(rated[i])
    /\ \A r \in Runners : RunnerKnows(runner[r])
    /\ \A span \in closed : \A d \in span[1] .. span[2] : HasRow(d)

LEMMA ListsAreSequences ==
    ASSUME NEW S, NEW c \in Nat, NEW f \in [1 .. c -> S]
    PROVE  f \in Seq(S) /\ Len(f) = c
OBVIOUS

LEMMA OfDays ==
    /\ Today \in Nat /\ Today # 0 /\ ImportedDays \subseteq Days
    /\ IsFiniteSet(Days) /\ Days \subseteq Nat
<1>1. Today \in Nat \ {0} /\ ImportedDays \subseteq 1 .. Today
  BY RatingsOK
<1>2. IsFiniteSet(1 .. Today)
  BY <1>1, FS_Interval
<1> QED
  BY <1>1, <1>2 DEF Days

LEMMA RowTypes ==
    ASSUME NEW s \in Seq(RatedRow), NEW i \in 1 .. Len(s)
    PROVE  s[i] \in RatedRow /\ s[i].day \in Days
<1>1. s[i] \in RatedRow
  OBVIOUS
<1> QED
  BY <1>1 DEF RatedRow

LEMMA RatingsInvIsEnough == RatingsInv => FilledDaysCopyTheNext
<1> SUFFICES ASSUME RatingsInv PROVE FilledDaysCopyTheNext
  OBVIOUS
<1>1. Rows = 1 .. Len(rated)
  BY DEF RatingsInv, RatingsTyped, Rows
<1> QED
  BY <1>1 DEF RatingsInv, Copies, HasRow, FilledDaysCopyTheNext

LEMMA RatingsStart == RatingsInit => RatingsInv
<1> SUFFICES ASSUME RatingsInit PROVE RatingsInv
  OBVIOUS
<1>1. PICK imported \in [ImportedDays -> Stars \cup {NoStars, "no row"}] :
         LET dated == {d \in ImportedDays : imported[d] # "no row"}
             days == Listing(dated, Ascending(dated))
         IN  rated = [i \in 1 .. Cardinality(dated) |->
                         [day |-> days[i], stars |-> imported[days[i]],
                          right |-> FALSE, measured |-> TRUE]]
  BY DEF RatingsInit
<1>2. PICK dated : dated = {d \in ImportedDays : imported[d] # "no row"}
  OBVIOUS
<1>3. PICK days : days = Listing(dated, Ascending(dated))
  OBVIOUS
<1>4. PICK c : c = Cardinality(dated)
  OBVIOUS
<1>5. c \in Nat /\ days \in [1 .. c -> dated]
  <2>1. dated \in SUBSET Days
    BY <1>2, OfDays
  <2>2. IsFiniteSet(dated) /\ dated \in SUBSET Nat
    BY <2>1, OfDays, FS_Subset
  <2>3. InLine(Ascending(dated), dated)
    BY <2>2, AscendingOrders
  <2> QED
    BY <1>3, <1>4, <2>2, <2>3, ListingLists, FS_CardinalityType DEF IsListing
<1>6. rated = [i \in 1 .. c |-> [day |-> days[i], stars |-> imported[days[i]],
                                right |-> FALSE, measured |-> TRUE]]
  BY <1>1, <1>2, <1>3, <1>4
<1>7. \A i \in 1 .. c : rated[i] \in RatedRow /\ rated[i].measured
  <2>1. ASSUME NEW i \in 1 .. c
        PROVE  days[i] \in 1 .. Today /\ imported[days[i]] \in Stars \cup {NoStars}
    BY <1>2, <1>5, OfDays DEF Days
  <2> QED
    BY <1>6, <2>1 DEF RatedRow, Days
<1>8. rated \in Seq(RatedRow) /\ Len(rated) = c
  <2>1. rated \in [1 .. c -> RatedRow]
    BY <1>6, <1>7
  <2> QED
    BY <1>5, <2>1, ListsAreSequences
<1>9. RatingsTyped
  BY <1>8 DEF RatingsInit, RatingsTyped, Still
<1>10. \A r \in Runners : RunnerKnows(runner[r])
  BY DEF RatingsInit, RunnerKnows
<1> QED
  BY <1>7, <1>8, <1>9, <1>10 DEF RatingsInv, RatingsInit

(***************************************************************************)
(* Rows are added, and of what they say only "right" changes.              *)
(***************************************************************************)
RowsStay ==
    /\ rated' \in Seq(RatedRow) /\ Len(rated) \in Nat /\ Len(rated') \in Nat
    /\ Len(rated) <= Len(rated')
    /\ \A i \in 1 .. Len(rated) :
          /\ rated'[i].day = rated[i].day /\ rated'[i].stars = rated[i].stars
          /\ rated'[i].measured = rated[i].measured
    /\ \A i \in Len(rated) + 1 .. Len(rated') : rated'[i].measured => rated'[i].day = Today

LEMMA CopiesStay ==
    ASSUME RowsStay, RatingsTyped, NEW row, row.day \in Days, Copies(row)
    PROVE  Copies(row)'
<1>1. \A i \in 1 .. Len(rated') : rated'[i].day \in Days
  BY RowTypes DEF RowsStay
<1>2. PICK j \in 1 .. Len(rated) :
          /\ rated[j].measured /\ rated[j].day > row.day
          /\ rated[j].stars = row.stars
          /\ \A k \in 1 .. Len(rated) : rated[k].measured /\ rated[k].day > row.day =>
                rated[k].day >= rated[j].day
  BY DEF Copies
<1>3. rated'[j].day \in 1 .. Today /\ rated'[j].day > row.day /\ Today \in Nat
  BY <1>1, <1>2, OfDays DEF RowsStay, Days
<1>4. ASSUME NEW k \in 1 .. Len(rated'), rated'[k].measured
      PROVE  /\ rated'[k].day # row.day
             /\ rated'[k].day > row.day => rated'[k].day >= rated'[j].day
  <2>1. CASE k \in 1 .. Len(rated)
    BY <1>2, <1>4, <2>1 DEF RowsStay, Copies
  <2>2. CASE k \notin 1 .. Len(rated)
    <3>1. rated'[k].day = Today
      BY <1>4, <2>2 DEF RowsStay
    <3> QED
      BY <1>3, <3>1 DEF Days
  <2> QED
    BY <2>1, <2>2
<1>5. j \in 1 .. Len(rated') /\ rated'[j].measured /\ rated'[j].stars = row.stars
  BY <1>2 DEF RowsStay
<1>6. ~row.measured
  BY DEF Copies
<1> QED
  BY <1>3, <1>4, <1>5, <1>6 DEF Copies

LEMMA RowsAreThere ==
    ASSUME RowsStay, NEW d, HasRow(d)
    PROVE  HasRow(d)'
BY DEF RowsStay, HasRow

LEMMA RunnersStillKnow ==
    ASSUME RowsStay, RatingsTyped, NEW q \in {Still} \cup RunnerRow, RunnerKnows(q)
    PROVE  RunnerKnows(q)'
<1> SUFFICES ASSUME q.pc = "fill" PROVE RunnerKnows(q)'
  BY DEF RunnerKnows
<1>1. q.todo \subseteq RatedRow
  BY DEF Still, RunnerRow
<1>2. \A row \in q.todo : Copies(row)'
  BY <1>1, CopiesStay DEF RunnerKnows, RatedRow
<1>3. \A d \in q.span[1] .. q.span[2] : HasRow(d)' \/ \E row \in q.todo : row.day = d
  BY RowsAreThere DEF RunnerKnows
<1> QED
  BY <1>2, <1>3 DEF RunnerKnows

\* A step that writes ratings, and what one runner knows.
LEMMA RatingStep ==
    ASSUME RatingsInv, RowsStay,
           \A i \in Len(rated) + 1 .. Len(rated') : rated'[i].measured \/ Copies(rated[i])',
           DOMAIN runner' = DOMAIN runner,
           \A r \in Runners : \/ runner'[r] = runner[r]
                              \/ runner'[r] \in {Still} \cup RunnerRow /\ RunnerKnows(runner[r])',
           closed' \subseteq (1 .. Today) \X (0 .. Today),
           \A span \in closed' \ closed : \A d \in span[1] .. span[2] : HasRow(d)'
    PROVE  RatingsInv'
<1>0. RatingsTyped
  BY DEF RatingsInv
<1>1. RatingsTyped'
  BY DEF RatingsInv, RatingsTyped, RowsStay
<1>2. ASSUME NEW i \in 1 .. Len(rated') PROVE rated'[i].measured \/ Copies(rated[i])'
  <2>1. CASE i \in 1 .. Len(rated)
    <3>1. rated[i].measured \/ Copies(rated[i])
      BY <2>1 DEF RatingsInv
    <3>2. PICK row : row = rated[i]
      OBVIOUS
    <3>3. row.day \in Days
      BY <1>0, <2>1, <3>2, RowTypes DEF RatingsTyped
    <3>4. rated[i].measured \/ Copies(row)'
      BY <1>0, <3>1, <3>2, <3>3, CopiesStay
    <3>5. /\ rated'[i].day = row.day /\ rated'[i].stars = row.stars
          /\ rated'[i].measured = row.measured
      BY <2>1, <3>2 DEF RowsStay
    <3> QED
      BY <3>2, <3>4, <3>5 DEF Copies
  <2>2. CASE i \notin 1 .. Len(rated)
    <3>1. i \in Len(rated) + 1 .. Len(rated')
      BY <2>2 DEF RowsStay
    <3> QED
      BY <3>1
  <2> QED
    BY <2>1, <2>2
<1>3. ASSUME NEW r \in Runners PROVE RunnerKnows(runner[r])'
  <2>1. CASE runner'[r] = runner[r]
    <3>1. PICK q \in {Still} \cup RunnerRow : q = runner[r] /\ RunnerKnows(q)
      BY DEF RatingsInv, RatingsTyped
    <3>2. RunnerKnows(q)'
      BY <1>0, <3>1, RunnersStillKnow
    <3> QED
      BY <2>1, <3>1, <3>2
  <2> QED
    BY <2>1
<1>4. \A span \in closed' : \A d \in span[1] .. span[2] : HasRow(d)'
  BY RowsAreThere DEF RatingsInv
<1> QED
  BY <1>1, <1>2, <1>3, <1>4 DEF RatingsInv
LEMMA NothingWritten ==
    ASSUME RatingsTyped, rated' = rated
    PROVE  RowsStay
BY DEF RatingsTyped, RowsStay

LEMMA OneRowMore ==
    ASSUME RatingsTyped, NEW row \in RatedRow, rated' = Append(rated, row),
           row.measured => row.day = Today
    PROVE  /\ RowsStay /\ Len(rated') = Len(rated) + 1
           /\ \A i \in Len(rated) + 1 .. Len(rated') : rated'[i] = row
<1>1. rated \in Seq(RatedRow) /\ Len(rated) \in Nat
  BY DEF RatingsTyped
<1>2. rated' \in Seq(RatedRow) /\ Len(rated') = Len(rated) + 1
  BY <1>1
<1>3. \A i \in 1 .. Len(rated') : rated'[i] = IF i <= Len(rated) THEN rated[i] ELSE row
  BY <1>1, <1>2
<1> QED
  BY <1>1, <1>2, <1>3 DEF RowsStay

LEMMA Measuring ==
    ASSUME RatingsInv, NEW a \in asks, CreateRating(a)
    PROVE  RatingsInv'
<1>0. RatingsTyped
  BY DEF RatingsInv
<1>1. PICK s \in Stars :
         rated' = Append(rated, [day |-> Today, stars |-> s, right |-> TRUE, measured |-> TRUE])
  BY DEF CreateRating
<1>2. PICK row : row = [day |-> Today, stars |-> s, right |-> TRUE, measured |-> TRUE]
  OBVIOUS
<1>3. row \in RatedRow /\ row.measured /\ row.day = Today
  BY <1>2, OfDays DEF RatedRow, Days
<1>4. RowsStay /\ \A i \in Len(rated) + 1 .. Len(rated') : rated'[i] = row
  BY <1>0, <1>1, <1>2, <1>3, OneRowMore
<1>5. runner' = runner /\ closed' = closed
  BY DEF CreateRating
<1> QED
  BY <1>0, <1>3, <1>4, <1>5, RatingStep DEF RatingsTyped

LEMMA Fixing ==
    ASSUME RatingsInv, NEW i \in Rows, FixRating(i)
    PROVE  RatingsInv'
<1>0. RatingsTyped
  BY DEF RatingsInv
<1>1. rated' = rated \/ rated' = [rated EXCEPT ![i].right = TRUE]
  BY DEF FixRating
<1>2. RowsStay /\ Len(rated') = Len(rated)
  <2>1. CASE rated' = rated
    BY <1>0, <2>1, NothingWritten
  <2>2. CASE rated' = [rated EXCEPT ![i].right = TRUE]
    <3>1. i \in 1 .. Len(rated) /\ rated \in Seq(RatedRow) /\ Len(rated) \in Nat
      BY <1>0 DEF RatingsTyped, Rows
    <3>2. PICK row : row = [rated[i] EXCEPT !.right = TRUE]
      OBVIOUS
    <3>3. /\ row \in RatedRow /\ row.day = rated[i].day /\ row.stars = rated[i].stars
          /\ row.measured = rated[i].measured
      <4>1. rated[i] \in RatedRow
        BY <3>1
      <4> QED
        BY <3>2, <4>1 DEF RatedRow
    <3>4. rated' = [rated EXCEPT ![i] = row]
      BY <2>2, <3>2
    <3>5. rated' \in Seq(RatedRow) /\ Len(rated') = Len(rated)
      BY <3>1, <3>3, <3>4
    <3>6. \A k \in 1 .. Len(rated) : rated'[k] = IF k = i THEN row ELSE rated[k]
      BY <3>1, <3>4
    <3> QED
      BY <3>1, <3>3, <3>5, <3>6 DEF RowsStay
  <2> QED
    BY <1>1, <2>1, <2>2
<1>3. /\ DOMAIN runner' = DOMAIN runner /\ closed' = closed
      /\ \A r \in Runners : runner'[r] = runner[r]
  BY <1>0, RatingsOK DEF FixRating, RatingsTyped
<1>4. Len(rated) + 1 .. Len(rated') = {}
  BY <1>0, <1>2 DEF RatingsTyped
<1> QED
  BY <1>0, <1>2, <1>3, <1>4, RatingStep DEF RatingsTyped

\* Steps that write no rating, and leave the runs alone.
LEMMA Elsewhere ==
    ASSUME RatingsInv,
           \/ AskForRating \/ RemoveCompany \/ StartFix
           \/ \E a \in asks : MarkUrl(a) \/ FailAsk(a)
           \/ UNCHANGED ratingVars
    PROVE  RatingsInv'
<1>0. RatingsTyped
  BY DEF RatingsInv
<1>1. rated' = rated /\ closed' = closed
  BY DEF AskForRating, RemoveCompany, StartFix, MarkUrl, FailAsk, ratingVars
<1>2. DOMAIN runner' = DOMAIN runner /\ \A r \in Runners : runner'[r] = runner[r]
  BY <1>0, RatingsOK
     DEF RatingsTyped, AskForRating, RemoveCompany, StartFix, MarkUrl, FailAsk, ratingVars
<1>3. RowsStay /\ Len(rated) + 1 .. Len(rated') = {}
  BY <1>0, <1>1, NothingWritten DEF RatingsTyped
<1> QED
  BY <1>0, <1>1, <1>2, <1>3, RatingStep DEF RatingsTyped

(***************************************************************************)
(* The days between two ratings that follow each other.                    *)
(***************************************************************************)
LEMMA OnOneSide ==
    ASSUME NEW n \in Nat, NEW f \in [1 .. n -> Nat],
           \A m, k \in 1 .. n : m < k => f[m] >= f[k],
           NEW k \in 1 .. n - 1, NEW m \in 1 .. n
    PROVE  f[m] >= f[k] \/ f[m] <= f[k + 1]
<1>1. k \in 1 .. n /\ k + 1 \in 1 .. n
  OBVIOUS
<1>2. m < k \/ m = k \/ m = k + 1 \/ k + 1 < m
  OBVIOUS
<1>3. f[m] \in Nat /\ f[k] \in Nat /\ f[k + 1] \in Nat
  BY <1>1
<1>4. (m < k => f[m] >= f[k]) /\ (k + 1 < m => f[k + 1] >= f[m])
  BY <1>1
<1> QED
  BY <1>2, <1>3, <1>4

LEMMA FirstNumber ==
    ASSUME NEW S, S \subseteq Nat, IsFiniteSet(S), S # {}
    PROVE  \E x \in S : \A y \in S : x <= y
<1>1. InLine(Ascending(S), S)
  BY AscendingOrders
<1>2. PICK x \in S : \A y \in S \ {x} : <<x, y>> \in Ascending(S)
  BY <1>1, FirstElement
<1>3. ASSUME NEW y \in S PROVE x <= y
  <2>1. x = y \/ <<x, y>> \in Ascending(S)
    BY <1>2
  <2>2. <<x, y>> \in Ascending(S) => x < y
    BY DEF Ascending
  <2> QED
    BY <2>1, <2>2
<1> QED
  BY <1>3

LEMMA OnIt ==
    ASSUME NEW n \in Nat, n # 0, NEW f \in [1 .. n -> Nat],
           NEW d \in Nat, f[n] <= d, d <= f[1]
    PROVE  \/ \E m \in 1 .. n : f[m] = d
           \/ \E k \in 1 .. n - 1 : f[k + 1] < d /\ d < f[k]
<1> DEFINE late == {m \in 1 .. n : f[m] <= d}
<1>1. PICK m \in late : \A q \in late : m <= q
  <2>1. IsFiniteSet(1 .. n) /\ late \in SUBSET (1 .. n) /\ n \in late
    BY FS_Interval
  <2> HIDE DEF late
  <2>2. IsFiniteSet(late)
    BY <2>1, FS_Subset
  <2>3. late \in SUBSET Nat /\ late # {}
    BY <2>1
  <2> QED
    BY <2>2, <2>3, FirstNumber
<1>2. m \in 1 .. n /\ f[m] \in Nat /\ f[m] <= d
  OBVIOUS
<1>3. CASE f[m] = d
  BY <1>2, <1>3
<1>4. CASE f[m] # d
  <2>1. m # 1
    BY <1>2, <1>4
  <2>2. PICK k \in 1 .. n - 1 : m = k + 1
    BY <1>2, <2>1
  <2>3. k \in 1 .. n /\ k \notin late
    BY <1>1, <2>2
  <2>4. f[k] \in Nat /\ f[k] > d
    BY <2>3
  <2> QED
    BY <1>2, <1>4, <2>2, <2>4
<1> QED
  BY <1>3, <1>4

LEMMA NewestFirstLists ==
    ASSUME RatingsTyped
    PROVE  /\ Len(rated) \in Nat
           /\ \A i \in 1 .. Len(rated) : rated[i].day \in Nat
           /\ NewestFirst \in [1 .. Len(rated) -> 1 .. Len(rated)]
           /\ \A m, k \in 1 .. Len(rated) : m < k =>
                 rated[NewestFirst[m]].day >= rated[NewestFirst[k]].day
           /\ \A i \in 1 .. Len(rated) : \E m \in 1 .. Len(rated) : NewestFirst[m] = i
<1>1. Rows = 1 .. Len(rated) /\ Len(rated) \in Nat
  BY DEF RatingsTyped, Rows
<1>2. \A i \in 1 .. Len(rated) : rated[i].day \in Nat
  BY RowTypes, OfDays DEF RatingsTyped
<1>3. IsFiniteSet(Rows) /\ Cardinality(Rows) = Len(rated)
  BY <1>1, FS_Interval, SMTT(30)
<1>4. PICK before : before = {p \in Rows \X Rows : Newer(p[1], p[2])}
  OBVIOUS
<1>5. \A x, y \in Rows : <<x, y>> \in before <=> Newer(x, y)
  BY <1>4
<1>6. InLine(before, Rows)
  <2>1. \A x, y \in Rows : ~ (Newer(x, y) /\ Newer(y, x))
    BY <1>1, <1>2 DEF Newer
  <2>2. \A x, y \in Rows : x = y \/ Newer(x, y) \/ Newer(y, x)
    BY <1>1, <1>2 DEF Newer
  <2>3. \A x, y, z \in Rows : Newer(x, y) /\ Newer(y, z) => Newer(x, z)
    BY <1>1, <1>2 DEF Newer
  <2> QED
    BY <1>5, <2>1, <2>2, <2>3 DEF InLine
<1>7. PICK list : list = NewestFirst
  OBVIOUS
<1>8. list = Listing(Rows, before)
  BY <1>4, <1>7 DEF NewestFirst
<1>9. IsListing(list, Rows, before) /\ \A x \in Rows : \E m \in 1 .. Len(rated) : list[m] = x
  BY <1>3, <1>6, <1>8, ListingLists
<1>10. /\ list \in [1 .. Len(rated) -> 1 .. Len(rated)]
       /\ \A m, k \in 1 .. Len(rated) : m < k => <<list[m], list[k]>> \in before
  BY <1>1, <1>3, <1>9 DEF IsListing
<1>11. ASSUME NEW m \in 1 .. Len(rated), NEW k \in 1 .. Len(rated), m < k
       PROVE  rated[list[m]].day >= rated[list[k]].day
  <2>1. list[m] \in 1 .. Len(rated) /\ list[k] \in 1 .. Len(rated)
    BY <1>10
  <2>2. Newer(list[m], list[k])
    BY <1>1, <1>5, <1>10, <1>11, <2>1
  <2> QED
    BY <1>2, <2>1, <2>2 DEF Newer
<1> QED
  BY <1>1, <1>2, <1>7, <1>9, <1>10, <1>11

\* the list, and the days it has
ListIs(n, list, f) ==
    /\ n \in Nat /\ n = Len(rated) /\ list = NewestFirst
    /\ list \in [1 .. n -> 1 .. n] /\ f \in [1 .. n -> Nat]
    /\ \A m \in 1 .. n : rated[list[m]].day = f[m]
    /\ \A i \in 1 .. n : \E m \in 1 .. n : rated[i].day = f[m]
    /\ \A m, k \in 1 .. n : m < k => f[m] >= f[k]

LEMMA ListedDays ==
    ASSUME RatingsTyped
    PROVE  \E n, list, f : ListIs(n, list, f)
<1>1. PICK n, list : n = Len(rated) /\ list = NewestFirst
  OBVIOUS
<1>2. /\ n \in Nat /\ \A i \in 1 .. n : rated[i].day \in Nat
      /\ list \in [1 .. n -> 1 .. n]
      /\ \A m, k \in 1 .. n : m < k => rated[list[m]].day >= rated[list[k]].day
      /\ \A i \in 1 .. n : \E m \in 1 .. n : list[m] = i
  BY <1>1, NewestFirstLists
<1>3. PICK f : f = [m \in 1 .. n |-> rated[list[m]].day]
  OBVIOUS
<1>4. f \in [1 .. n -> Nat] /\ \A m \in 1 .. n : rated[list[m]].day = f[m]
  BY <1>2, <1>3
<1>5. \A m, k \in 1 .. n : m < k => f[m] >= f[k]
  BY <1>2, <1>4
<1>6. \A i \in 1 .. n : \E m \in 1 .. n : rated[i].day = f[m]
  BY <1>2, <1>4, ZenonT(60)
<1>7. ListIs(n, list, f)
  BY <1>1, <1>2, <1>4, <1>5, <1>6 DEF ListIs
<1> QED
  BY <1>7

\* A row that copies a row of a day or its copy copies what that one does, when no other is between.
LEMMA CopiesOfTheNext ==
    ASSUME RatingsInv, NEW i \in 1 .. Len(rated), NEW d \in Nat, NEW row,
           d < rated[i].day, \A j \in 1 .. Len(rated) : rated[j].day >= rated[i].day \/ rated[j].day < d,
           row.day = d, row.measured = FALSE, row.stars = rated[i].stars
    PROVE  Copies(row)
<1>0. RatingsTyped
  BY DEF RatingsInv
<1>1. PICK n, first : n = Len(rated) /\ first = rated[i]
  OBVIOUS
<1>2. \A j \in 1 .. n : rated[j].day \in Nat
  BY <1>0, <1>1, NewestFirstLists
<1>3. i \in 1 .. n /\ first.day \in Nat /\ d < first.day
  BY <1>1, <1>2
<1>4. \A j \in 1 .. n : rated[j].day >= first.day \/ rated[j].day < d
  BY <1>1
<1>5. \A j \in 1 .. n : rated[j].day # d
  BY <1>2, <1>3, <1>4
<1>6. \E j \in 1 .. n :
         /\ rated[j].measured /\ rated[j].day > d /\ rated[j].stars = first.stars
         /\ \A q \in 1 .. n : rated[q].measured /\ rated[q].day > d =>
               rated[q].day >= rated[j].day
  <2>1. CASE first.measured
    <3>1. \A q \in 1 .. n : rated[q].day > d => rated[q].day >= first.day
      BY <1>2, <1>3, <1>4
    <3> QED
      BY <1>1, <1>3, <2>1, <3>1
  <2>2. CASE ~first.measured
    <3>1. Copies(first)
      BY <1>1, <2>2 DEF RatingsInv
    <3>2. PICK j \in 1 .. n :
            /\ rated[j].measured /\ rated[j].day > first.day /\ rated[j].stars = first.stars
            /\ \A q \in 1 .. n : rated[q].measured /\ rated[q].day > first.day =>
                  rated[q].day >= rated[j].day
      BY <1>1, <3>1 DEF Copies
    <3>3. \A q \in 1 .. n : rated[q].measured => rated[q].day # first.day
      BY <1>1, <3>1 DEF Copies
    <3>4. ASSUME NEW q \in 1 .. n, rated[q].measured, rated[q].day > d
          PROVE  rated[q].day >= rated[j].day
      <4>1. rated[q].day \in Nat /\ rated[q].day >= first.day /\ rated[q].day # first.day
        BY <1>2, <1>3, <1>4, <3>3, <3>4
      <4>2. rated[q].day > first.day
        BY <1>3, <4>1
      <4> QED
        BY <3>2, <3>4, <4>2
    <3>5. rated[j].day \in Nat /\ rated[j].day > d
      BY <1>2, <1>3, <3>2
    <3> QED
      BY <3>2, <3>4, <3>5
  <2> QED
    BY <2>1, <2>2
<1> QED
  BY <1>1, <1>5, <1>6 DEF Copies

LEMMA GapRows ==
    ASSUME NEW newer \in RatedRow, NEW older \in RatedRow
    PROVE  \A row \in Gap(newer, older) :
              /\ row \in RatedRow /\ row.measured = FALSE /\ row.stars = newer.stars
              /\ row.day \in Nat /\ older.day < row.day /\ row.day < newer.day
<1>1. newer.day \in 1 .. Today /\ older.day \in 1 .. Today /\ Today \in Nat
  BY OfDays DEF RatedRow, Days
<1>2. ASSUME NEW row \in Gap(newer, older)
      PROVE  /\ row \in RatedRow /\ row.measured = FALSE /\ row.stars = newer.stars
             /\ row.day \in Nat /\ older.day < row.day /\ row.day < newer.day
  <2>1. PICK d \in older.day + 1 .. newer.day - 1 :
           row = [newer EXCEPT !.day = d, !.measured = FALSE]
    BY DEF Gap
  <2>2. d \in Days /\ d \in Nat /\ older.day < d /\ d < newer.day
    BY <1>1 DEF Days
  <2> QED
    BY <2>1, <2>2 DEF RatedRow
<1> QED
  BY <1>2

LEMMA GapDays ==
    ASSUME NEW newer \in RatedRow, NEW older \in RatedRow,
           NEW d \in Nat, older.day < d, d < newer.day
    PROVE  \E row \in Gap(newer, older) : row.day = d
<1>1. newer.day \in Nat /\ older.day \in Nat
  BY OfDays DEF RatedRow
<1>2. PICK row : row = [newer EXCEPT !.day = d, !.measured = FALSE]
  OBVIOUS
<1>3. d \in older.day + 1 .. newer.day - 1
  BY <1>1
<1>4. row \in Gap(newer, older)
  BY <1>2, <1>3 DEF Gap
<1>5. row.day = d
  BY <1>2 DEF RatedRow
<1> QED
  BY <1>4, <1>5

LEMMA FilledRowsCopy ==
    ASSUME RatingsInv, NEW row \in Filled(NewestFirst)
    PROVE  row \in RatedRow /\ Copies(row)
<1>0. RatingsTyped
  BY DEF RatingsInv
<1>1. PICK n, list, f : ListIs(n, list, f)
  BY <1>0, ListedDays
<1>2. /\ n \in Nat /\ n = Len(rated) /\ list = NewestFirst
      /\ list \in [1 .. n -> 1 .. n] /\ f \in [1 .. n -> Nat]
  BY <1>1 DEF ListIs
<1>3. PICK k \in 1 .. Len(rated) - 1 : row \in Gap(rated[list[k]], rated[list[k + 1]])
  <2>1. row \in Filled(list)
    BY <1>2
  <2> QED
    BY <2>1 DEF Filled
<1>4. k \in 1 .. n - 1 /\ k \in 1 .. n /\ k + 1 \in 1 .. n
  BY <1>2
<1>5. PICK i \in 1 .. n, o \in 1 .. n : i = list[k] /\ o = list[k + 1]
  BY <1>2, <1>4
<1>6. rated[i].day = f[k] /\ rated[o].day = f[k + 1]
  BY <1>1, <1>4, <1>5 DEF ListIs
<1>7. row \in Gap(rated[i], rated[o])
  BY <1>3, <1>5, Zenon
<1>8. rated[i] \in RatedRow /\ rated[o] \in RatedRow
  BY <1>0, <1>2, <1>5, RowTypes DEF RatingsTyped
<1>9. /\ row \in RatedRow /\ row.measured = FALSE /\ row.stars = rated[i].stars
      /\ row.day \in Nat /\ rated[o].day < row.day /\ row.day < rated[i].day
  BY <1>7, <1>8, GapRows
<1>10. PICK d : d = row.day /\ d \in Nat /\ f[k + 1] < d /\ d < f[k]
  BY <1>6, <1>9
<1>11. ASSUME NEW j \in 1 .. n PROVE rated[j].day >= rated[i].day \/ rated[j].day < d
  <2>1. PICK m \in 1 .. n : rated[j].day = f[m]
    BY <1>1 DEF ListIs
  <2>2. f[m] >= f[k] \/ f[m] <= f[k + 1]
    <3>1. \A p, q \in 1 .. n : p < q => f[p] >= f[q]
      BY <1>1 DEF ListIs
    <3> QED
      BY <1>2, <1>4, <3>1, OnOneSide
  <2>3. f[m] \in Nat /\ f[k + 1] \in Nat
    BY <1>2, <1>4
  <2>4. f[m] >= f[k] \/ f[m] < d
    BY <1>10, <2>2, <2>3
  <2> QED
    BY <1>6, <2>1, <2>4
<1>12. Copies(row)
  <2>1. i \in 1 .. Len(rated) /\ d < rated[i].day
    BY <1>2, <1>6, <1>10
  <2>2. \A j \in 1 .. Len(rated) : rated[j].day >= rated[i].day \/ rated[j].day < d
    BY <1>2, <1>11
  <2> QED
    BY <1>9, <1>10, <2>1, <2>2, CopiesOfTheNext
<1> QED
  BY <1>9, <1>12

LEMMA FilledDaysAreCovered ==
    ASSUME RatingsTyped, rated # <<>>,
           NEW d \in rated[NewestFirst[Len(rated)]].day .. rated[NewestFirst[1]].day
    PROVE  HasRow(d) \/ \E row \in Filled(NewestFirst) : row.day = d
<1>1. PICK n, list, f : ListIs(n, list, f)
  BY ListedDays
<1>2. /\ n \in Nat /\ n = Len(rated) /\ list = NewestFirst
      /\ list \in [1 .. n -> 1 .. n] /\ f \in [1 .. n -> Nat]
      /\ \A m \in 1 .. n : rated[list[m]].day = f[m]
  BY <1>1 DEF ListIs
<1>3. n # 0 /\ n \in 1 .. n /\ 1 \in 1 .. n
  BY <1>2 DEF RatingsTyped
<1>4. d \in Nat /\ f[n] <= d /\ d <= f[1]
  <2>1. d \in f[n] .. f[1]
    <3>1. d \in rated[list[n]].day .. rated[list[1]].day
      BY <1>2, Zenon
    <3> QED
      BY <1>2, <1>3, <3>1
  <2>2. f[n] \in Nat /\ f[1] \in Nat
    BY <1>2, <1>3
  <2> QED
    BY <2>1, <2>2
<1>5. CASE \E m \in 1 .. n : f[m] = d
  <2>1. PICK m \in 1 .. n : f[m] = d
    BY <1>5
  <2> QED
    BY <1>2, <2>1 DEF HasRow
<1>6. CASE \E k \in 1 .. n - 1 : f[k + 1] < d /\ d < f[k]
  <2>1. PICK k \in 1 .. n - 1 : f[k + 1] < d /\ d < f[k]
    BY <1>6
  <2>2. k \in 1 .. n /\ k + 1 \in 1 .. n /\ k \in 1 .. Len(rated) - 1
    BY <1>2
  <2>3. PICK i \in 1 .. n, o \in 1 .. n : i = list[k] /\ o = list[k + 1]
    BY <1>2, <2>2
  <2>4. rated[i].day = f[k] /\ rated[o].day = f[k + 1]
    BY <1>2, <2>2, <2>3
  <2>5. rated[i] \in RatedRow /\ rated[o] \in RatedRow
    BY <1>2, <2>3, RowTypes DEF RatingsTyped
  <2>6. PICK row \in Gap(rated[i], rated[o]) : row.day = d
    BY <1>4, <2>1, <2>4, <2>5, GapDays
  <2>7. row \in Gap(rated[list[k]], rated[list[k + 1]])
    BY <2>3, <2>6, Zenon
  <2>8. row \in Filled(list)
    BY <2>2, <2>7 DEF Filled
  <2> QED
    BY <1>2, <2>6, <2>8
<1> QED
  BY <1>2, <1>3, <1>4, <1>5, <1>6, OnIt

LEMMA Starting ==
    ASSUME RatingsInv, NEW r \in Runners, StartFill(r)
    PROVE  RatingsInv'
<1>0. RatingsTyped
  BY DEF RatingsInv
<1>1. rated' = rated /\ closed' = closed
  BY DEF StartFill
<1>2. RowsStay /\ Len(rated) + 1 .. Len(rated') = {}
  BY <1>0, <1>1, NothingWritten DEF RatingsTyped
<1>3. PICK list : list = NewestFirst
  OBVIOUS
<1>4. PICK q : q = [pc |-> "fill", todo |-> Filled(list),
                    span |-> IF rated = <<>> THEN <<1, 0>>
                             ELSE <<rated[list[Len(rated)]].day, rated[list[1]].day>>]
  OBVIOUS
<1>5. runner' = [runner EXCEPT ![r] = q]
  BY <1>3, <1>4 DEF StartFill
<1>6. DOMAIN runner' = DOMAIN runner /\ runner'[r] = q
      /\ \A p \in Runners : p # r => runner'[p] = runner[p]
  BY <1>0, <1>5 DEF RatingsTyped
<1>7. q \in RunnerRow
  <2>1. q.todo \in SUBSET RatedRow
    BY <1>3, <1>4, FilledRowsCopy
  <2>2. q.span \in (1 .. Today) \X (0 .. Today)
    <3>1. CASE rated = <<>>
      BY <1>4, <3>1, OfDays
    <3>2. CASE rated # <<>>
      <4>1. /\ Len(rated) \in 1 .. Len(rated) /\ 1 \in 1 .. Len(rated)
            /\ list \in [1 .. Len(rated) -> 1 .. Len(rated)]
        BY <1>0, <1>3, <3>2, NewestFirstLists, SMTT(30) DEF RatingsTyped
      <4>2. rated[list[Len(rated)]].day \in Days /\ rated[list[1]].day \in Days
        BY <1>0, <4>1, RowTypes DEF RatingsTyped
      <4>3. Days \subseteq 0 .. Today
        BY OfDays DEF Days
      <4> QED
        BY <1>4, <3>2, <4>2, <4>3 DEF Days
    <3> QED
      BY <3>1, <3>2
  <2>3. q.pc = "fill"
    BY <1>4
  <2> QED
    BY <1>4, <2>1, <2>2, <2>3 DEF RunnerRow
<1>8. RunnerKnows(q)
  <2>1. \A row \in q.todo : Copies(row)
    BY <1>3, <1>4, FilledRowsCopy
  <2>2. ASSUME NEW d \in q.span[1] .. q.span[2]
        PROVE  HasRow(d) \/ \E row \in q.todo : row.day = d
    <3>1. CASE rated = <<>>
      BY <1>4, <2>2, <3>1
    <3>2. CASE rated # <<>>
      <4>1. d \in rated[NewestFirst[Len(rated)]].day .. rated[NewestFirst[1]].day
        BY <1>3, <1>4, <2>2, <3>2
      <4> QED
        BY <1>0, <1>3, <1>4, <3>2, <4>1, FilledDaysAreCovered
    <3> QED
      BY <3>1, <3>2
  <2> QED
    BY <2>1, <2>2 DEF RunnerKnows
<1>9. RunnerKnows(q)'
  BY <1>0, <1>2, <1>7, <1>8, RunnersStillKnow
<1>10. ASSUME NEW p \in Runners
       PROVE  \/ runner'[p] = runner[p]
              \/ runner'[p] \in {Still} \cup RunnerRow /\ RunnerKnows(runner[p])'
  <2>1. CASE p # r
    BY <1>6, <2>1
  <2>2. CASE p = r
    <3>1. RunnerKnows(runner[p])'
      BY <1>6, <1>9, <2>2
    <3> QED
      BY <1>6, <1>7, <2>2, <3>1
  <2> QED
    BY <2>1, <2>2
<1> QED
  BY <1>0, <1>1, <1>2, <1>6, <1>10, RatingStep DEF RatingsTyped

\* A run that is under way.
LEMMA Running ==
    ASSUME RatingsInv, NEW r \in Runners, runner[r].pc = "fill"
    PROVE  \E q \in RunnerRow : q = runner[r] /\ q.pc = "fill" /\ RunnerKnows(q)
<1>1. runner[r] \in {Still} \cup RunnerRow /\ RunnerKnows(runner[r])
  BY DEF RatingsInv, RatingsTyped
<1>2. runner[r] # Still
  BY DEF Still
<1> QED
  BY <1>1, <1>2

LEMMA Filling ==
    ASSUME RatingsInv, NEW r \in Runners, FillDay(r)
    PROVE  RatingsInv'
<1>0. RatingsTyped /\ runner[r].pc = "fill"
  BY DEF RatingsInv, FillDay
<1>1. PICK q \in RunnerRow : q = runner[r] /\ q.pc = "fill" /\ RunnerKnows(q)
  BY <1>0, Running
<1>2. PICK row \in runner[r].todo :
         /\ rated' = Append(rated, row)
         /\ runner' = [runner EXCEPT ![r].todo = @ \ {row}]
  BY DEF FillDay
<1>3. PICK left : left = [q EXCEPT !.todo = q.todo \ {row}]
  OBVIOUS
<1>4. /\ left \in RunnerRow /\ left.pc = "fill" /\ left.todo = q.todo \ {row}
      /\ left.span = q.span
  BY <1>1, <1>3 DEF RunnerRow
<1>5. /\ DOMAIN runner' = DOMAIN runner /\ runner'[r] = left
      /\ \A p \in Runners : p # r => runner'[p] = runner[p]
  BY <1>0, <1>1, <1>2, <1>3 DEF RatingsTyped
<1>6. row \in q.todo /\ row \in RatedRow /\ row.day \in Days /\ Copies(row)
  BY <1>1, <1>2 DEF RunnerRow, RunnerKnows, RatedRow
<1>7. ~row.measured
  BY <1>6 DEF Copies
<1>8. /\ RowsStay /\ Len(rated') = Len(rated) + 1
      /\ \A i \in Len(rated) + 1 .. Len(rated') : rated'[i] = row
  BY <1>0, <1>2, <1>6, <1>7, OneRowMore
<1>9. Copies(row)'
  BY <1>0, <1>6, <1>8, CopiesStay
<1>10. RunnerKnows(q)'
  BY <1>0, <1>1, <1>8, RunnersStillKnow
<1>11. HasRow(row.day)'
  <2>1. Len(rated') \in 1 .. Len(rated') /\ Len(rated') \in Len(rated) + 1 .. Len(rated')
    BY <1>8 DEF RowsStay
  <2>2. rated'[Len(rated')] = row
    BY <1>8, <2>1
  <2> QED
    BY <2>1, <2>2 DEF HasRow
<1>12. RunnerKnows(left)'
  <2>1. \A other \in left.todo : Copies(other)'
    BY <1>1, <1>4, <1>10 DEF RunnerKnows
  <2>2. ASSUME NEW d \in left.span[1] .. left.span[2]
        PROVE  HasRow(d)' \/ \E other \in left.todo : other.day = d
    <3>1. HasRow(d)' \/ \E other \in q.todo : other.day = d
      BY <1>1, <1>4, <1>10 DEF RunnerKnows
    <3> QED
      BY <1>4, <1>11, <3>1
  <2> QED
    BY <2>1, <2>2 DEF RunnerKnows
<1>13. ASSUME NEW p \in Runners
       PROVE  \/ runner'[p] = runner[p]
              \/ runner'[p] \in {Still} \cup RunnerRow /\ RunnerKnows(runner[p])'
  <2>1. CASE p # r
    BY <1>5, <2>1
  <2>2. CASE p = r
    <3>1. RunnerKnows(runner[p])'
      BY <1>5, <1>12, <2>2
    <3> QED
      BY <1>4, <1>5, <2>2, <3>1
  <2> QED
    BY <2>1, <2>2
<1>14. \A i \in Len(rated) + 1 .. Len(rated') : Copies(rated[i])'
  <2>1. ASSUME NEW i \in Len(rated) + 1 .. Len(rated') PROVE Copies(rated[i])'
    <3>1. rated'[i] = row
      BY <1>8
    <3> QED
      BY <1>9, <3>1
  <2> QED
    BY <2>1
<1>15. closed' = closed
  BY DEF FillDay
<1> QED
  BY <1>0, <1>5, <1>8, <1>13, <1>14, <1>15, RatingStep DEF RatingsTyped

LEMMA Ending ==
    ASSUME RatingsInv, NEW r \in Runners, EndFill(r) \/ StopFill(r)
    PROVE  RatingsInv'
<1>0. RatingsTyped /\ runner[r].pc = "fill"
  BY DEF RatingsInv, EndFill, StopFill
<1>1. PICK q \in RunnerRow : q = runner[r] /\ q.pc = "fill" /\ RunnerKnows(q)
  BY <1>0, Running
<1>2. rated' = rated /\ runner' = [runner EXCEPT ![r].pc = "idle"]
  BY DEF EndFill, StopFill
<1>3. PICK over : over = [q EXCEPT !.pc = "idle"]
  OBVIOUS
<1>4. over \in RunnerRow /\ over.pc = "idle"
  BY <1>1, <1>3 DEF RunnerRow
<1>5. /\ DOMAIN runner' = DOMAIN runner /\ runner'[r] = over
      /\ \A p \in Runners : p # r => runner'[p] = runner[p]
  BY <1>0, <1>1, <1>2, <1>3 DEF RatingsTyped
<1>6. RowsStay /\ Len(rated) + 1 .. Len(rated') = {}
  BY <1>0, <1>2, NothingWritten DEF RatingsTyped
<1>7. ASSUME NEW p \in Runners
      PROVE  \/ runner'[p] = runner[p]
             \/ runner'[p] \in {Still} \cup RunnerRow /\ RunnerKnows(runner[p])'
  <2>1. CASE p # r
    BY <1>5, <2>1
  <2>2. CASE p = r
    BY <1>4, <1>5, <2>2 DEF RunnerKnows
  <2> QED
    BY <2>1, <2>2
<1>8. /\ closed' \subseteq (1 .. Today) \X (0 .. Today)
      /\ \A span \in closed' \ closed : \A d \in span[1] .. span[2] : HasRow(d)'
  <2>1. CASE EndFill(r)
    <3>1. closed' = closed \cup {q.span} /\ q.todo = {}
      BY <1>1, <2>1 DEF EndFill
    <3>2. q.span \in (1 .. Today) \X (0 .. Today)
      BY <1>1 DEF RunnerRow
    <3>3. \A d \in q.span[1] .. q.span[2] : HasRow(d)
      BY <1>1, <3>1 DEF RunnerKnows
    <3>4. \A d \in q.span[1] .. q.span[2] : HasRow(d)'
      BY <1>6, <3>3, RowsAreThere
    <3> QED
      BY <1>0, <3>1, <3>2, <3>4 DEF RatingsTyped
  <2>2. CASE StopFill(r)
    BY <1>0, <2>2 DEF StopFill, RatingsTyped
  <2> QED
    BY <2>1, <2>2
<1> QED
  BY <1>5, <1>6, <1>7, <1>8, RatingStep

\* However runs of the command overlap, stop and start again while ratings are measured and
\* recomputed, a filled day has the stars of the first measured day after it, and the days that a
\* finished run read have ratings.
THEOREM FilledDaysCopy == RatingsSpec => []FilledDaysCopyTheNext
<1>1. RatingsInv /\ [RatingsNext]_ratingVars => RatingsInv'
  <2> SUFFICES ASSUME RatingsInv, [RatingsNext]_ratingVars PROVE RatingsInv'
    OBVIOUS
  <2>1. CASE \/ AskForRating \/ RemoveCompany \/ StartFix
             \/ \E a \in asks : MarkUrl(a) \/ FailAsk(a)
             \/ UNCHANGED ratingVars
    BY <2>1, Elsewhere
  <2>2. ASSUME NEW a \in asks, CreateRating(a) PROVE RatingsInv'
    BY <2>2, Measuring
  <2>3. ASSUME NEW r \in Runners, StartFill(r) PROVE RatingsInv'
    BY <2>3, Starting
  <2>4. ASSUME NEW r \in Runners, FillDay(r) PROVE RatingsInv'
    BY <2>4, Filling
  <2>5. ASSUME NEW r \in Runners, EndFill(r) \/ StopFill(r) PROVE RatingsInv'
    BY <2>5, Ending
  <2>6. ASSUME NEW i \in Rows, FixRating(i) PROVE RatingsInv'
    BY <2>6, Fixing
  <2> QED
    BY <2>1, <2>2, <2>3, <2>4, <2>5, <2>6, Zenon DEF RatingsNext
<1> QED
  BY <1>1, RatingsStart, RatingsInvIsEnough, PTL DEF RatingsSpec

-----------------------------------------------------------------------------
(***************************************************************************)
(* ProspectBoard, one request at a time: what a request knows.             *)
(***************************************************************************)
CardRow == [life : {"none", "live", "deleted"}, session : Nat, column : Columns,
            position : Nat, name : Names \cup {"none"}]
PositionWrite == [card : Cards, position : Nat, moves : BOOLEAN]
BoardRead == {<<>>} \cup UNION {[S -> CardRow] : S \in SUBSET Cards}
HandRow == [pc : {"findSession", "scrape", "readLast", "insert", "readColumn", "moveCard", "rename",
                  "remove", "readBoard", "readOriginals", "write"},
            session : Nat, known : SUBSET (Names \cup {"none"}), names : Seq(Names), last : Nat,
            card : Cards \cup {0}, column : Columns, ids : Seq(Cards),
            board : BoardRead,
            todo : SUBSET PositionWrite]

\* of the cards alone
NamesAreApart ==
    \A c, d \in LiveCards :
        c # d /\ card[c].session = card[d].session /\ card[c].name = card[d].name
        => c \in renamed \/ d \in renamed \/ {c, d} \subseteq doubled

CardsInv ==
    /\ card \in [Cards -> CardRow] /\ sessions \in Nat
    /\ \A c \in LiveCards : card[c].session <= sessions
    /\ NamesAreApart

PositionsAreApart ==
    \A c, d \in LiveCards :
        c # d /\ card[c].column = card[d].column => card[c].position # card[d].position

\* nobody in column k is after n
UpTo(k, n) == \A c \in Column(k) : card[c].position <= n

\* where c is in the column of a reordering when all is written
EndsAt(a, c, n) ==
    \/ \E w \in a.todo : w.card = c /\ w.position = n
    \/ /\ card[c].column = a.column /\ card[c].position = n
       /\ \A w \in a.todo : w.card # c

WritesKeepApart(a) ==
    /\ \A w, v \in a.todo : w.card = v.card => w = v
    /\ \A w \in a.todo : ~w.moves => card[w.card].column = a.column
    /\ \A c, d \in LiveCards : c # d => \A n \in Nat : ~ (EndsAt(a, c, n) /\ EndsAt(a, d, n))
    /\ \A c, d \in LiveCards :
          c # d /\ card[c].column = card[d].column /\ card[c].column # a.column
          => card[c].position # card[d].position

\* none of the names is in session s
NewIn(names, s) == \A i \in 1 .. Len(names) : names[i] \notin NamesIn(s)

HandKnows(a) ==
    /\ a.pc = "scrape" => a.session <= sessions /\ a.known = NamesIn(a.session)
    /\ a.pc \in {"readLast", "insert"} =>
          a.session <= sessions /\ (a.session # 0 => NewIn(a.names, a.session))
    /\ a.pc = "insert" => UpTo(1, a.last)
    /\ a.pc \in {"readColumn", "moveCard", "rename", "remove"} => a.card \in Cards
    /\ a.pc = "moveCard" => UpTo(a.column, a.last)
    /\ a.pc \in {"readBoard", "readOriginals"} =>
          /\ a.ids \in Seq(LiveCards)
          /\ \A m, n \in 1 .. Len(a.ids) : a.ids[m] = a.ids[n] => m = n
    /\ a.pc = "readOriginals" => a.board = [c \in LiveCards |-> card[c]]
    /\ a.pc = "write" /\ ~torn => WritesKeepApart(a)

BoardInv ==
    lone =>
        /\ CardsInv
        /\ DOMAIN hand = Hands /\ \A h \in Hands : hand[h] \in {Rest} \cup HandRow
        /\ \A g, h \in Hands : hand[g] # Rest /\ hand[h] # Rest => g = h
        /\ \A h \in Hands : HandKnows(hand[h])
        /\ ~torn /\ (\A h \in Hands : hand[h].pc # "write") => PositionsAreApart
LEMMA OfTheBoard ==
    /\ Cards \subseteq Nat /\ 0 \notin Cards /\ IsFiniteSet(Cards) /\ IsFiniteSet(Names)
    /\ 1 \in Columns
BY BoardOK

LEMMA BoardInvIsEnough == BoardInv => CardsAreApart
<1> SUFFICES ASSUME BoardInv, lone, \A h \in Hands : hand[h].pc = "idle"
             PROVE  CardsAreApart
  BY DEF CardsAreApart
<1>1. NamesAreApart /\ (~torn => PositionsAreApart)
  BY DEF BoardInv, CardsInv
<1>2. ASSUME NEW c \in LiveCards, NEW d \in LiveCards, c # d
      PROVE  /\ ~torn /\ card[c].column = card[d].column => card[c].position # card[d].position
             /\ card[c].session = card[d].session /\ card[c].name = card[d].name =>
                   {c, d} \cap renamed # {} \/ {c, d} \subseteq doubled
  BY <1>1, <1>2 DEF NamesAreApart, PositionsAreApart
<1> QED
  BY <1>2 DEF CardsAreApart

LEMMA BoardStart == BoardInit => BoardInv
<1> SUFFICES ASSUME BoardInit PROVE BoardInv
  OBVIOUS
<1>1. \A c \in Cards : card[c] = NoCard
  BY DEF BoardInit
<1>2. LiveCards = {}
  BY <1>1 DEF LiveCards, NoCard
<1>3. card \in [Cards -> CardRow]
  BY OfTheBoard DEF BoardInit, NoCard, CardRow
<1>4. CardsInv
  BY <1>2, <1>3 DEF CardsInv, BoardInit, NamesAreApart
<1>5. \A h \in Hands : hand[h] = Rest /\ HandKnows(hand[h])
  BY DEF BoardInit, HandKnows, Rest
<1>6. PositionsAreApart
  BY <1>2 DEF PositionsAreApart
<1>7. DOMAIN hand = Hands
  BY DEF BoardInit
<1> QED
  BY <1>4, <1>5, <1>6, <1>7 DEF BoardInv

\* A step of the one request there is.
LEMMA BoardStep ==
    ASSUME NEW h \in Hands, DOMAIN hand = Hands, \A g \in Hands : g # h => hand[g] = Rest,
           NEW b \in {Rest} \cup HandRow, hand' = [hand EXCEPT ![h] = b],
           CardsInv', HandKnows(b)', b.pc # "write" /\ ~torn' => PositionsAreApart'
    PROVE  BoardInv'
<1>1. DOMAIN hand' = Hands /\ hand'[h] = b /\ \A g \in Hands : g # h => hand'[g] = Rest
  OBVIOUS
<1>2. \A g \in Hands : hand'[g] \in {Rest} \cup HandRow
  BY <1>1
<1>3. ASSUME NEW g \in Hands PROVE HandKnows(hand[g])'
  <2>1. CASE g = h
    BY <1>1, <2>1
  <2>2. CASE g # h
    BY <1>1, <2>2 DEF HandKnows, Rest
  <2> QED
    BY <2>1, <2>2
<1>4. ~torn' /\ (\A g \in Hands : hand'[g].pc # "write") => PositionsAreApart'
  BY <1>1
<1> QED
  BY <1>1, <1>2, <1>3, <1>4 DEF BoardInv

\* The request that takes a step, and that it is the only one.
LEMMA OneHand ==
    ASSUME BoardInv, lone, NEW h \in Hands, hand[h].pc # "idle"
    PROVE  /\ CardsInv /\ DOMAIN hand = Hands /\ \A g \in Hands : g # h => hand[g] = Rest
           /\ hand[h] \in HandRow /\ HandKnows(hand[h])
           /\ hand[h].pc # "write" /\ ~torn => PositionsAreApart
<1>1. hand[h] # Rest
  BY DEF Rest
<1>2. \A g \in Hands : g # h => hand[g] = Rest
  BY <1>1 DEF BoardInv
<1>3. hand[h].pc # "write" => \A g \in Hands : hand[g].pc # "write"
  BY <1>2 DEF Rest
<1> QED
  BY <1>1, <1>2, <1>3 DEF BoardInv

LEMMA NoHand ==
    ASSUME BoardInv, lone, \A g \in Hands : hand[g].pc = "idle"
    PROVE  /\ CardsInv /\ DOMAIN hand = Hands /\ \A g \in Hands : hand[g] = Rest
           /\ ~torn => PositionsAreApart
<1>1. ASSUME NEW g \in Hands PROVE hand[g] = Rest
  <2>1. hand[g] \notin HandRow
    BY DEF HandRow
  <2> QED
    BY <2>1 DEF BoardInv
<1>2. CardsInv /\ DOMAIN hand = Hands /\ (~torn => PositionsAreApart)
  BY DEF BoardInv
<1> QED
  BY <1>1, <1>2

\* Of what a step leaves alone.
LEMMA CardsStay ==
    ASSUME CardsInv, card' = card, sessions' = sessions, renamed' = renamed, doubled' = doubled
    PROVE  /\ CardsInv' /\ LiveCards' = LiveCards
           /\ PositionsAreApart => PositionsAreApart'
BY DEF CardsInv, LiveCards, NamesAreApart, PositionsAreApart

LEMMA RestKnows == HandKnows(Rest) /\ HandKnows(Rest)' /\ Rest.pc = "idle"
BY DEF HandKnows, Rest

\* A request ends without writing.
LEMMA Dropped ==
    ASSUME BoardInv, lone, NEW h \in Hands, hand[h].pc # "idle", hand[h].pc # "write" \/ torn',
           card' = card, sessions' = sessions, renamed' = renamed, doubled' = doubled, torn' = torn,
           hand' = [hand EXCEPT ![h] = Rest]
    PROVE  BoardInv'
<1>1. /\ CardsInv /\ DOMAIN hand = Hands /\ \A g \in Hands : g # h => hand[g] = Rest
      /\ hand[h].pc # "write" /\ ~torn => PositionsAreApart
  BY OneHand
<1>2. CardsInv' /\ (PositionsAreApart => PositionsAreApart')
  BY <1>1, CardsStay
<1> QED
  BY <1>1, <1>2, BoardStep, RestKnows

LEMMA Advanced ==
    ASSUME BoardInv, lone, NEW h \in Hands, hand[h].pc # "idle", hand[h].pc # "write",
           card' = card, sessions' = sessions, renamed' = renamed, doubled' = doubled, torn' = torn,
           NEW b \in HandRow, b.pc # "write", HandKnows(b), hand' = [hand EXCEPT ![h] = b]
    PROVE  BoardInv'
<1>1. /\ CardsInv /\ DOMAIN hand = Hands /\ \A g \in Hands : g # h => hand[g] = Rest
      /\ ~torn => PositionsAreApart
  BY OneHand
<1>2. CardsInv' /\ LiveCards' = LiveCards /\ (PositionsAreApart => PositionsAreApart')
  BY <1>1, CardsStay
<1>3. HandKnows(b)'
  <2>1. \A k : Column(k)' = Column(k) /\ NamesIn(k)' = NamesIn(k)
    BY <1>2 DEF Column, NamesIn
  <2>2. \A k, n : UpTo(k, n) => UpTo(k, n)'
    BY <2>1 DEF UpTo
  <2>3. \A k, n : NewIn(k, n) => NewIn(k, n)'
    BY <2>1 DEF NewIn
  <2> QED
    BY <1>2, <2>1, <2>2, <2>3 DEF HandKnows
<1> QED
  BY <1>1, <1>2, <1>3, BoardStep

LEMMA LastIs ==
    ASSUME CardsInv, NEW k
    PROVE  LastPosition(k) \in Nat /\ UpTo(k, LastPosition(k))
<1>1. CASE Column(k) = {}
  BY <1>1 DEF LastPosition, UpTo
<1>2. CASE Column(k) # {}
  <2>1. Column(k) \subseteq Cards /\ \A c \in Column(k) : card[c].position \in Nat
    BY DEF Column, LiveCards, CardsInv, CardRow
  <2>2. PICK here : here = Column(k)
    OBVIOUS
  <2>3. IsFiniteSet(here) /\ here # {}
    <3>1. here \in SUBSET Cards
      BY <2>1, <2>2
    <3> QED
      BY <1>2, <2>2, <3>1, OfTheBoard, FS_Subset
  <2> DEFINE After(c) == {d \in here : card[d].position > card[c].position}
             F == {After(c) : c \in here}
  <2>4. PICK T \in F : \A U \in F : U \subseteq T => U = T
    <3>1. F \subseteq SUBSET here /\ F # {}
      BY <2>3
    <3> HIDE DEF F
    <3> QED
      BY <2>3, <3>1, SmallestSet
  <2>5. PICK c \in here : T = After(c)
    OBVIOUS
  <2>6. ASSUME NEW d \in here, card[d].position > card[c].position PROVE FALSE
    <3>1. card[d].position \in Nat /\ card[c].position \in Nat
      BY <2>1, <2>2
    <3>2. After(d) \subseteq After(c)
      <4>1. ASSUME NEW e \in here, card[e].position > card[d].position
            PROVE  card[e].position > card[c].position
        BY <2>1, <2>2, <2>6, <3>1, <4>1
      <4> QED
        BY <4>1
    <3>3. d \in After(c) /\ d \notin After(d)
      BY <2>6, <3>1
    <3>4. After(d) \in F
      OBVIOUS
    <3> QED
      BY <2>4, <2>5, <3>2, <3>3, <3>4
  <2>7. \A d \in Column(k) : card[d].position <= card[c].position
    BY <2>1, <2>2, <2>6
  <2>8. card[c].position \in {card[d].position : d \in Column(k)}
    BY <2>2
  <2>9. /\ LastPosition(k) \in {card[d].position : d \in Column(k)}
        /\ \A d \in Column(k) : card[d].position <= LastPosition(k)
    BY <1>2, <2>7, <2>8 DEF LastPosition
  <2> QED
    BY <2>1, <2>9 DEF UpTo
<1> QED
  BY <1>1, <1>2

(***************************************************************************)
(* The steps of a request that only read.                                  *)
(***************************************************************************)
LEMMA Reading ==
    ASSUME BoardInv, lone, NEW h \in Hands,
           FindSession(h) \/ Scrape(h) \/ ReadLast(h) \/ ReadColumn(h) \/ ReadBoard(h)
    PROVE  BoardInv'
<1>0. hand[h].pc # "idle" /\ hand[h].pc # "write"
  BY DEF FindSession, Scrape, ReadLast, ReadColumn, ReadBoard
<1>1. card' = card /\ sessions' = sessions /\ renamed' = renamed /\ doubled' = doubled /\ torn' = torn
  BY DEF FindSession, Scrape, ReadLast, ReadColumn, ReadBoard, Traces
<1>2. PICK a \in HandRow : a = hand[h] /\ HandKnows(a)
  BY <1>0, OneHand
<1>3. CardsInv
  BY <1>0, OneHand
<1>4. CASE FindSession(h)
  <2>1. PICK s \in IF sessions = 0 THEN {0} ELSE 1 .. sessions :
          hand' = [hand EXCEPT ![h].pc = "scrape", ![h].session = s, ![h].known = NamesIn(s)]
    BY <1>4 DEF FindSession
  <2>2. PICK known : known = NamesIn(s)
    OBVIOUS
  <2>3. PICK b : b = [a EXCEPT !.pc = "scrape", !.session = s, !.known = known]
    OBVIOUS
  <2>4. s \in Nat /\ s <= sessions
    BY <1>3 DEF CardsInv
  <2>5. known \subseteq Names \cup {"none"}
    BY <1>3, <2>2 DEF NamesIn, LiveCards, CardsInv, CardRow
  <2>6. b \in HandRow /\ b.pc = "scrape" /\ b.session = s /\ b.known = known
    BY <2>3, <2>4, <2>5 DEF HandRow
  <2>7. hand' = [hand EXCEPT ![h] = b]
    BY <1>2, <2>1, <2>2, <2>3
  <2>8. HandKnows(b)
    BY <2>2, <2>4, <2>6 DEF HandKnows
  <2> QED
    BY <1>0, <1>1, <2>6, <2>7, <2>8, Advanced
<1>5. CASE Scrape(h)
  <2>1. PICK found \in SeqOf(Names, MaxFound) :
          LET new == Sifted(found, Names \ hand[h].known)
          IN  IF hand[h].session # 0 /\ new = <<>> THEN Drop(h)
              ELSE hand' = [hand EXCEPT ![h].pc = "readLast", ![h].names = new]
    BY <1>5 DEF Scrape
  <2>2. PICK new : new = Sifted(found, Names \ a.known)
    OBVIOUS
  <2>5. new \in Seq(Names) /\ \A i \in 1 .. Len(new) : new[i] \notin a.known
    <3>1. PICK m \in Nat : found \in [1 .. m -> Names]
      BY DEF SeqOf
    <3>2. found \in Seq(Names)
      BY <3>1
    <3>3. PICK keep : keep = Names \ a.known
      OBVIOUS
    <3>4. /\ Sifted(found, keep) \in Seq(Names)
          /\ \A i \in 1 .. Len(Sifted(found, keep)) :
                \E j \in 1 .. Len(found) : Sifted(found, keep)[i] = found[j] /\ found[j] \in keep
      BY <3>2, SiftedProperties
    <3> QED
      BY <2>2, <3>3, <3>4
  <2>3. CASE Drop(h)
    BY <1>0, <1>1, <2>3, Dropped DEF Drop
  <2>4. CASE hand' = [hand EXCEPT ![h].pc = "readLast", ![h].names = new]
    <3>1. PICK b : b = [a EXCEPT !.pc = "readLast", !.names = new]
      OBVIOUS
    <3>2. /\ b \in HandRow /\ b.pc = "readLast" /\ b.session = a.session
          /\ b.names = new
      BY <2>5, <3>1 DEF HandRow
    <3>3. hand' = [hand EXCEPT ![h] = b]
      BY <1>2, <2>4, <3>1
    <3>4. a.session <= sessions /\ a.known = NamesIn(a.session)
      BY <1>2, <1>5 DEF HandKnows, Scrape
    <3>5. NewIn(new, a.session)
      BY <2>5, <3>4 DEF NewIn
    <3>6. HandKnows(b)
      BY <3>2, <3>4, <3>5 DEF HandKnows
    <3> QED
      BY <1>0, <1>1, <3>2, <3>3, <3>6, Advanced
  <2> QED
    BY <1>2, <2>1, <2>2, <2>3, <2>4
<1>6. CASE ReadLast(h)
  <2>1. CASE Drop(h)
    BY <1>0, <1>1, <2>1, Dropped DEF Drop
  <2>2. CASE hand' = [hand EXCEPT ![h].pc = "insert", ![h].last = LastPosition(1)]
    <3>1. PICK n : n = LastPosition(1) /\ n \in Nat /\ UpTo(1, n)
      BY <1>3, LastIs
    <3>2. PICK b : b = [a EXCEPT !.pc = "insert", !.last = n]
      OBVIOUS
    <3>3. /\ b \in HandRow /\ b.pc = "insert" /\ b.session = a.session
          /\ b.names = a.names /\ b.last = n
      BY <3>1, <3>2 DEF HandRow
    <3>4. hand' = [hand EXCEPT ![h] = b]
      BY <1>2, <2>2, <3>1, <3>2
    <3>5. a.pc = "readLast"
      BY <1>2, <1>6 DEF ReadLast
    <3>6. HandKnows(b)
      BY <1>2, <3>1, <3>3, <3>5 DEF HandKnows
    <3> QED
      BY <1>0, <1>1, <3>3, <3>4, <3>6, Advanced
  <2> QED
    BY <1>6, <2>1, <2>2 DEF ReadLast
<1>7. CASE ReadColumn(h)
  <2>1. PICK n : n = LastPosition(a.column) /\ n \in Nat /\ UpTo(a.column, n)
    BY <1>3, LastIs
  <2>2. PICK b : b = [a EXCEPT !.pc = "moveCard", !.last = n]
    OBVIOUS
  <2>3. /\ b \in HandRow /\ b.pc = "moveCard" /\ b.card = a.card /\ b.column = a.column
        /\ b.last = n
    BY <2>1, <2>2 DEF HandRow
  <2>4. hand' = [hand EXCEPT ![h] = b]
    BY <1>2, <1>7, <2>1, <2>2 DEF ReadColumn
  <2>5. a.pc = "readColumn"
    BY <1>2, <1>7 DEF ReadColumn
  <2>6. HandKnows(b)
    BY <1>2, <2>1, <2>3, <2>5 DEF HandKnows
  <2> QED
    BY <1>0, <1>1, <2>3, <2>4, <2>6, Advanced
<1>8. CASE ReadBoard(h)
  <2>1. PICK now : now = [c \in LiveCards |-> card[c]]
    OBVIOUS
  <2>2. PICK b : b = [a EXCEPT !.pc = "readOriginals", !.board = now]
    OBVIOUS
  <2>3. now \in BoardRead
    <3>1. PICK live \in SUBSET Cards : live = LiveCards
      BY DEF LiveCards
    <3>2. now \in [live -> CardRow]
      BY <1>3, <2>1, <3>1 DEF CardsInv, LiveCards
    <3> QED
      BY <3>2 DEF BoardRead
  <2>4. b \in HandRow /\ b.pc = "readOriginals" /\ b.ids = a.ids /\ b.board = now
    BY <2>2, <2>3 DEF HandRow
  <2>5. hand' = [hand EXCEPT ![h] = b]
    BY <1>2, <1>8, <2>1, <2>2 DEF ReadBoard
  <2>6. a.pc = "readBoard"
    BY <1>2, <1>8 DEF ReadBoard
  <2>7. HandKnows(b)
    BY <1>2, <2>1, <2>4, <2>6 DEF HandKnows
  <2> QED
    BY <1>0, <1>1, <2>4, <2>5, <2>7, Advanced
<1> QED
  BY <1>4, <1>5, <1>6, <1>7, <1>8

(***************************************************************************)
(* The steps that write.                                                   *)
(***************************************************************************)
LEMMA Ended ==
    ASSUME BoardInv, lone, NEW h \in Hands, hand[h].pc # "idle",
           hand' = [hand EXCEPT ![h] = Rest], CardsInv', ~torn' => PositionsAreApart'
    PROVE  BoardInv'
<1>1. DOMAIN hand = Hands /\ \A g \in Hands : g # h => hand[g] = Rest
  BY OneHand
<1> QED
  BY <1>1, BoardStep, RestKnows

LEMMA OneCard ==
    ASSUME CardsInv, NEW c \in Cards, NEW row \in CardRow, card' = [card EXCEPT ![c] = row]
    PROVE  /\ card' \in [Cards -> CardRow]
           /\ \A d \in Cards : card'[d] = IF d = c THEN row ELSE card[d]
BY DEF CardsInv

LEMMA Naming ==
    ASSUME BoardInv, lone, NEW h \in Hands, Rename(h)
    PROVE  BoardInv'
<1>0. hand[h].pc = "rename"
  BY DEF Rename
<1>1. /\ CardsInv /\ hand[h] \in HandRow /\ HandKnows(hand[h]) /\ (~torn => PositionsAreApart)
  BY <1>0, OneHand
<1>2. PICK c \in Cards : c = hand[h].card
  BY <1>0, <1>1 DEF HandKnows
<1>3. PICK n \in Names : card' = [card EXCEPT ![c].name = n]
  BY <1>2 DEF Rename
<1>4. PICK row : row = [card[c] EXCEPT !.name = n]
  OBVIOUS
<1>5. /\ row \in CardRow /\ row.life = card[c].life /\ row.session = card[c].session
      /\ row.column = card[c].column /\ row.position = card[c].position
  <2>1. card[c] \in CardRow
    BY <1>1 DEF CardsInv
  <2> QED
    BY <1>4, <2>1 DEF CardRow
<1>6. /\ card' \in [Cards -> CardRow]
      /\ \A d \in Cards : card'[d] = IF d = c THEN row ELSE card[d]
  <2>1. card' = [card EXCEPT ![c] = row]
    BY <1>3, <1>4
  <2> QED
    BY <1>1, <1>5, <2>1, OneCard
<1>7. LiveCards' = LiveCards
  BY <1>5, <1>6 DEF LiveCards
<1>8. renamed' = renamed \cup {c} /\ doubled' = doubled /\ sessions' = sessions /\ torn' = torn
  BY <1>2 DEF Rename
<1>9. LiveCards \subseteq Cards
  BY DEF LiveCards
<1>10. NamesAreApart'
  <2>1. ASSUME NEW d \in LiveCards, NEW e \in LiveCards, d # e,
               card'[d].session = card'[e].session, card'[d].name = card'[e].name
        PROVE  d \in renamed' \/ e \in renamed' \/ {d, e} \subseteq doubled'
    <3>1. CASE d = c \/ e = c
      BY <1>8, <3>1
    <3>2. CASE d # c /\ e # c
      BY <1>1, <1>6, <1>8, <1>9, <2>1, <3>2 DEF CardsInv, NamesAreApart
    <3> QED
      BY <3>1, <3>2
  <2> QED
    BY <1>7, <2>1 DEF NamesAreApart
<1>11. CardsInv'
  BY <1>1, <1>5, <1>6, <1>7, <1>8, <1>9, <1>10 DEF CardsInv
<1>12. PositionsAreApart => PositionsAreApart'
  BY <1>5, <1>6, <1>7, <1>9 DEF PositionsAreApart
<1>13. hand' = [hand EXCEPT ![h] = Rest]
  BY DEF Rename, Drop
<1> QED
  BY <1>0, <1>1, <1>8, <1>11, <1>12, <1>13, Ended

LEMMA Removing ==
    ASSUME BoardInv, lone, NEW h \in Hands, RemoveCard(h)
    PROVE  BoardInv'
<1>0. hand[h].pc = "remove"
  BY DEF RemoveCard
<1>1. /\ CardsInv /\ hand[h] \in HandRow /\ HandKnows(hand[h]) /\ (~torn => PositionsAreApart)
  BY <1>0, OneHand
<1>2. PICK c \in Cards : c = hand[h].card
  BY <1>0, <1>1 DEF HandKnows
<1>3. /\ hand' = [hand EXCEPT ![h] = Rest]
      /\ sessions' = sessions /\ renamed' = renamed /\ doubled' = doubled /\ torn' = torn
  BY DEF RemoveCard, Drop, Traces
<1>4. CASE c \notin LiveCards
  <2>1. card' = card
    BY <1>2, <1>4 DEF RemoveCard
  <2> QED
    BY <1>0, <1>3, <2>1, Dropped
<1>5. CASE c \in LiveCards
  <2>1. card' = [card EXCEPT ![c].life = "deleted"]
    BY <1>2, <1>5 DEF RemoveCard
  <2>2. PICK row : row = [card[c] EXCEPT !.life = "deleted"]
    OBVIOUS
  <2>3. row \in CardRow /\ row.life = "deleted"
    <3>1. card[c] \in CardRow
      BY <1>1 DEF CardsInv
    <3> QED
      BY <2>2, <3>1 DEF CardRow
  <2>4. /\ card' \in [Cards -> CardRow]
        /\ \A d \in Cards : card'[d] = IF d = c THEN row ELSE card[d]
    <3>1. card' = [card EXCEPT ![c] = row]
      BY <2>1, <2>2
    <3> QED
      BY <1>1, <2>3, <3>1, OneCard
  <2>5. \A d \in LiveCards' : d \in LiveCards /\ card'[d] = card[d]
    BY <2>3, <2>4 DEF LiveCards
  <2>6. CardsInv' /\ (PositionsAreApart => PositionsAreApart')
    BY <1>1, <1>3, <2>4, <2>5 DEF CardsInv, NamesAreApart, PositionsAreApart
  <2> QED
    BY <1>0, <1>1, <1>3, <2>6, Ended
<1> QED
  BY <1>4, <1>5

LEMMA Moving ==
    ASSUME BoardInv, lone, NEW h \in Hands, MoveCard(h)
    PROVE  BoardInv'
<1>0. hand[h].pc = "moveCard"
  BY DEF MoveCard
<1>1. /\ CardsInv /\ hand[h] \in HandRow /\ HandKnows(hand[h]) /\ (~torn => PositionsAreApart)
  BY <1>0, OneHand
<1>2. PICK c \in Cards, k \in Columns, n \in Nat :
         c = hand[h].card /\ k = hand[h].column /\ n = hand[h].last /\ UpTo(k, n)
  BY <1>0, <1>1 DEF HandKnows, HandRow
<1>3. /\ hand' = [hand EXCEPT ![h] = Rest]
      /\ sessions' = sessions /\ renamed' = renamed /\ doubled' = doubled /\ torn' = torn
  BY DEF MoveCard, Drop, Traces
<1>4. PICK row : row = [card[c] EXCEPT !.column = k, !.position = n + 1]
  OBVIOUS
<1>5. /\ row \in CardRow /\ row.life = card[c].life /\ row.session = card[c].session
      /\ row.column = k /\ row.position = n + 1 /\ row.name = card[c].name
  <2>1. PICK old \in CardRow : old = card[c]
    BY <1>1 DEF CardsInv
  <2>2. row = [old EXCEPT !.column = k, !.position = n + 1] /\ n + 1 \in Nat
    BY <1>4, <2>1
  <2>3. /\ row \in CardRow /\ row.life = old.life /\ row.session = old.session
        /\ row.column = k /\ row.position = n + 1 /\ row.name = old.name
    BY <2>2 DEF CardRow
  <2> QED
    BY <2>1, <2>3
<1>6. /\ card' \in [Cards -> CardRow]
      /\ \A d \in Cards : card'[d] = IF d = c THEN row ELSE card[d]
  <2>1. card' = [card EXCEPT ![c].column = k, ![c].position = n + 1]
    BY <1>2 DEF MoveCard
  <2>2. card' = [card EXCEPT ![c] = row]
    BY <1>1, <1>4, <2>1 DEF CardsInv
  <2> QED
    BY <1>1, <1>5, <2>2, OneCard
<1>7. LiveCards' = LiveCards /\ LiveCards \subseteq Cards
  BY <1>5, <1>6 DEF LiveCards
<1>8. \A d \in Cards : /\ card'[d].session = card[d].session
                       /\ card'[d].name = card[d].name
  BY <1>5, <1>6
<1>9. CardsInv'
  BY <1>1, <1>3, <1>6, <1>7, <1>8 DEF CardsInv, NamesAreApart
<1>10. ASSUME PositionsAreApart PROVE PositionsAreApart'
  <2>1. ASSUME NEW d \in LiveCards, d # c, card[d].column = k
        PROVE  card[d].position # n + 1
    <3>1. card[d].position \in Nat /\ card[d].position <= n
      BY <1>1, <1>2, <1>7, <2>1 DEF UpTo, Column, CardsInv, CardRow
    <3> QED
      BY <3>1
  <2>2. ASSUME NEW d \in LiveCards, NEW e \in LiveCards, d # e, card'[d].column = card'[e].column
        PROVE  card'[d].position # card'[e].position
    <3>1. CASE d = c
      BY <1>5, <1>6, <1>7, <2>1, <2>2, <3>1
    <3>2. CASE e = c
      BY <1>5, <1>6, <1>7, <2>1, <2>2, <3>2
    <3>3. CASE d # c /\ e # c
      BY <1>6, <1>7, <1>10, <2>2, <3>3 DEF PositionsAreApart
    <3> QED
      BY <3>1, <3>2, <3>3
  <2> QED
    BY <1>7, <2>2 DEF PositionsAreApart
<1> QED
  BY <1>0, <1>1, <1>3, <1>9, <1>10, Ended

\* How many numbers of S are up to one of them tells them apart.
LEMMA Ranks ==
    ASSUME NEW S, IsFiniteSet(S), S \subseteq Nat
    PROVE  /\ \A x \in S : Cardinality({y \in S : y <= x}) \in Nat \ {0}
           /\ \A x, z \in S : Cardinality({y \in S : y <= x}) = Cardinality({y \in S : y <= z})
                              => x = z
<1> DEFINE R(x) == {y \in S : y <= x}
<1>1. ASSUME NEW x \in S PROVE IsFiniteSet(R(x)) /\ Cardinality(R(x)) \in Nat \ {0}
  <2>1. R(x) \in SUBSET S /\ x \in R(x)
    OBVIOUS
  <2> HIDE DEF R
  <2>2. IsFiniteSet(R(x))
    BY <2>1, FS_Subset
  <2> QED
    BY <2>1, <2>2, FS_CardinalityType, FS_EmptySet
<1>2. ASSUME NEW x \in S, NEW z \in S, x < z PROVE Cardinality(R(x)) # Cardinality(R(z))
  <2>1. R(x) \in SUBSET R(z) /\ z \in R(z) /\ z \notin R(x)
    <3>1. x \in Nat /\ z \in Nat
      OBVIOUS
    <3>2. ASSUME NEW y \in S, y <= x PROVE y <= z
      <4>1. y \in Nat
        OBVIOUS
      <4> QED
        BY <1>2, <3>1, <3>2, <4>1
    <3>3. R(x) \in SUBSET R(z)
      BY <3>2
    <3>4. z <= z /\ ~ (z <= x)
      BY <1>2, <3>1
    <3> QED
      BY <3>3, <3>4
  <2>2. IsFiniteSet(R(z))
    BY <1>1
  <2> HIDE DEF R
  <2>3. R(x) # R(z)
    BY <2>1
  <2> QED
    BY <2>1, <2>2, <2>3, FS_Subset
<1>3. ASSUME NEW x \in S, NEW z \in S, x # z PROVE Cardinality(R(x)) # Cardinality(R(z))
  <2>1. x < z \/ z < x
    BY <1>3
  <2> HIDE DEF R
  <2> QED
    BY <1>2, <2>1
<1> QED
  BY <1>1, <1>3

LEMMA Inserting ==
    ASSUME BoardInv, lone, NEW h \in Hands, InsertCards(h)
    PROVE  BoardInv'
<1>0. hand[h].pc = "insert"
  BY DEF InsertCards
<1>1. /\ CardsInv /\ hand[h] \in HandRow /\ HandKnows(hand[h]) /\ (~torn => PositionsAreApart)
  BY <1>0, OneHand
<1>2. PICK a \in HandRow : a = hand[h] /\ a.pc = "insert" /\ HandKnows(a)
  BY <1>0, <1>1
<1>3. PICK n \in Nat, new \in Seq(Names), old \in Nat :
         n = a.last /\ new = a.names /\ old = a.session
  BY DEF HandRow
<1>4. PICK s : s = IF old = 0 THEN sessions + 1 ELSE old
  OBVIOUS
<1>5. PICK free : free = {c \in Cards : card[c].life = "none"}
  OBVIOUS
<1>6. PICK len \in Nat : len = Len(new) /\ \A i \in 1 .. len : new[i] \in Names
  OBVIOUS
<1>7. /\ sessions' = IF s > sessions THEN s ELSE sessions
      /\ LET Nth(c) == Cardinality({d \in free : d <= c})
             added == {c \in free : Nth(c) <= Len(new)}
         IN  /\ card' = [c \in Cards |->
                   IF c \in added
                   THEN [life |-> "live", session |-> s, column |-> 1,
                         position |-> n + Nth(c), name |-> new[Nth(c)]]
                   ELSE card[c]]
             /\ doubled' = doubled \cup
                   {c \in added : \E d \in added \ {c} : new[Nth(c)] = new[Nth(d)]}
  BY <1>2, <1>3, <1>4, <1>5 DEF InsertCards
<1>8. PICK rank : rank = [c \in free |-> Cardinality({d \in free : d <= c})]
  OBVIOUS
<1>9. /\ free \subseteq Cards /\ rank \in [free -> Nat \ {0}]
      /\ \A c, d \in free : rank[c] = rank[d] => c = d
  <2>1. free \in SUBSET Cards /\ free \subseteq Nat
    BY <1>5, OfTheBoard
  <2>2. IsFiniteSet(free)
    BY <2>1, OfTheBoard, FS_Subset
  <2>3. \A c \in free : Cardinality({d \in free : d <= c}) \in Nat \ {0}
    BY <2>1, <2>2, Ranks
  <2>4. \A c, e \in free : Cardinality({d \in free : d <= c}) = Cardinality({d \in free : d <= e})
                           => c = e
    BY <2>1, <2>2, Ranks
  <2> QED
    BY <1>8, <2>1, <2>3, <2>4
<1>11. PICK fresh : fresh = {c \in free : rank[c] <= len}
  OBVIOUS
<1>10. fresh = {c \in free : Cardinality({d \in free : d <= c}) <= Len(new)}
  BY <1>6, <1>8, <1>11
<1>12. /\ \A c \in Cards : card'[c] = IF c \in fresh
                                      THEN [life |-> "live", session |-> s, column |-> 1,
                                            position |-> n + rank[c], name |-> new[rank[c]]]
                                      ELSE card[c]
       /\ doubled' = doubled \cup {c \in fresh : \E d \in fresh \ {c} : new[rank[c]] = new[rank[d]]}
  <2>1. \A c \in fresh : rank[c] = Cardinality({d \in free : d <= c})
    BY <1>8, <1>11
  <2>2. card' = [c \in Cards |->
                   IF c \in fresh
                   THEN [life |-> "live", session |-> s, column |-> 1,
                         position |-> n + Cardinality({d \in free : d <= c}),
                         name |-> new[Cardinality({d \in free : d <= c})]]
                   ELSE card[c]]
    BY <1>7, <1>10
  <2>3. doubled' = doubled \cup {c \in fresh : \E d \in fresh \ {c} :
                       new[Cardinality({e \in free : e <= c})] = new[Cardinality({e \in free : e <= d})]}
    BY <1>7, <1>10
  <2> QED
    BY <2>1, <2>2, <2>3
<1>13. sessions \in Nat /\ s \in Nat /\ old <= sessions /\ sessions' \in Nat
       /\ s <= sessions' /\ sessions <= sessions' /\ (old # 0 => s = old)
       /\ (old = 0 => s = sessions + 1)
  BY <1>1, <1>2, <1>3, <1>4, <1>7 DEF CardsInv, HandKnows
<1>14. /\ renamed' = renamed /\ torn' = torn /\ hand' = [hand EXCEPT ![h] = Rest]
  BY DEF InsertCards, Drop
<1>15. ASSUME NEW c \in fresh
       PROVE  /\ c \in Cards /\ c \notin LiveCards /\ card'[c] \in CardRow
              /\ card'[c].life = "live" /\ card'[c].session = s /\ card'[c].column = 1
              /\ rank[c] \in 1 .. len /\ card'[c].position = n + rank[c]
              /\ card'[c].name = new[rank[c]] /\ new[rank[c]] \in Names
  <2>1. c \in Cards /\ c \in free /\ rank[c] \in 1 .. len
    BY <1>6, <1>9, <1>11
  <2>2. c \notin LiveCards
    BY <1>5, <2>1 DEF LiveCards
  <2>3. new[rank[c]] \in Names
    BY <1>6, <2>1
  <2>4. card'[c] = [life |-> "live", session |-> s, column |-> 1,
                    position |-> n + rank[c], name |-> new[rank[c]]]
    BY <1>12, <2>1
  <2>5. n + rank[c] \in Nat /\ 1 \in Columns
    BY <2>1, OfTheBoard
  <2> QED
    BY <1>13, <2>1, <2>2, <2>3, <2>4, <2>5 DEF CardRow
<1>16. \A c \in Cards : c \notin fresh => card'[c] = card[c]
  BY <1>12
<1>17. LiveCards' = LiveCards \cup fresh /\ LiveCards \subseteq Cards /\ fresh \subseteq Cards
  BY <1>15, <1>16 DEF LiveCards
<1>18. card' \in [Cards -> CardRow]
  <2>1. \A c \in Cards : card'[c] \in CardRow
    BY <1>1, <1>15, <1>16 DEF CardsInv
  <2>2. DOMAIN card' = Cards /\ card' = [c \in Cards |-> card'[c]]
    BY <1>7
  <2> QED
    BY <2>1, <2>2
<1>19. ASSUME NEW c \in fresh, NEW d \in LiveCards, d # c
       PROVE  /\ card'[d] = card[d]
              /\ card'[c].session = card[d].session => card'[c].name # card[d].name
              /\ card'[c].column = card[d].column => card'[c].position # card[d].position
  <2>1. d \in Cards /\ d \notin fresh /\ card'[d] = card[d] /\ card[d] \in CardRow
    BY <1>1, <1>15, <1>16, <1>17, <1>19 DEF CardsInv
  <2>2. ASSUME card[d].session = s PROVE \A i \in 1 .. len : new[i] # card[d].name
    <3>1. card[d].session <= sessions
      BY <1>1 DEF CardsInv
    <3>2. old # 0 /\ s = old
      BY <1>13, <2>2, <3>1
    <3>3. NewIn(new, s)
      BY <1>2, <1>3, <3>2 DEF HandKnows
    <3>4. card[d].name \in NamesIn(s)
      BY <2>2 DEF NamesIn
    <3> QED
      BY <1>6, <3>3, <3>4 DEF NewIn
  <2>3. card[d].column = 1 => card[d].position <= n
    BY <1>2, <1>3 DEF HandKnows, UpTo, Column
  <2>4. card[d].position \in Nat
    BY <2>1 DEF CardRow
  <2> QED
    BY <1>15, <2>1, <2>2, <2>3, <2>4
<1>20. ASSUME NEW c \in fresh, NEW d \in fresh, d # c
       PROVE  /\ card'[c].name = card'[d].name => c \in doubled' /\ d \in doubled'
              /\ card'[c].position # card'[d].position
  <2>1. rank[c] # rank[d] /\ rank[c] \in 1 .. len /\ rank[d] \in 1 .. len
    BY <1>9, <1>11, <1>15, <1>20
  <2> QED
    BY <1>12, <1>15, <1>20, <2>1
<1>21. NamesAreApart'
  <2>1. ASSUME NEW c \in LiveCards', NEW d \in LiveCards', c # d,
               card'[c].session = card'[d].session, card'[c].name = card'[d].name
        PROVE  c \in renamed \/ d \in renamed \/ {c, d} \subseteq doubled'
    <3>1. CASE c \in fresh
      BY <1>17, <1>19, <1>20, <2>1, <3>1
    <3>2. CASE d \in fresh /\ c \notin fresh
      BY <1>17, <1>19, <2>1, <3>2
    <3>3. CASE c \notin fresh /\ d \notin fresh
      BY <1>1, <1>12, <1>16, <1>17, <2>1, <3>3 DEF CardsInv, NamesAreApart
    <3> QED
      BY <3>1, <3>2, <3>3
  <2> QED
    BY <1>14, <2>1 DEF NamesAreApart
<1>22. \A c \in LiveCards' : card'[c].session <= sessions'
  <2>1. ASSUME NEW c \in LiveCards' PROVE card'[c].session <= sessions'
    <3>1. CASE c \in fresh
      BY <1>13, <1>15, <3>1
    <3>2. CASE c \notin fresh
      <4>1. card'[c] = card[c] /\ card[c].session <= sessions /\ card[c].session \in Nat
        BY <1>1, <1>16, <1>17, <3>2 DEF CardsInv, CardRow
      <4> QED
        BY <1>13, <4>1
    <3> QED
      BY <3>1, <3>2
  <2> QED
    BY <2>1
<1>23. CardsInv'
  BY <1>13, <1>18, <1>21, <1>22 DEF CardsInv
<1>24. ASSUME PositionsAreApart PROVE PositionsAreApart'
  <2>1. ASSUME NEW c \in LiveCards', NEW d \in LiveCards', c # d, card'[c].column = card'[d].column
        PROVE  card'[c].position # card'[d].position
    <3>1. CASE c \in fresh
      BY <1>17, <1>19, <1>20, <2>1, <3>1
    <3>2. CASE d \in fresh /\ c \notin fresh
      BY <1>17, <1>19, <2>1, <3>2
    <3>3. CASE c \notin fresh /\ d \notin fresh
      BY <1>16, <1>17, <1>24, <2>1, <3>3 DEF PositionsAreApart
    <3> QED
      BY <3>1, <3>2, <3>3
  <2> QED
    BY <2>1 DEF PositionsAreApart
<1> QED
  BY <1>0, <1>1, <1>14, <1>23, <1>24, Ended

(***************************************************************************)
(* The reordering of a column.                                             *)
(***************************************************************************)
NoRepeats(f) == \A m, n \in 1 .. Len(f) : f[m] = f[n] => m = n

LEMMA Joined ==
    ASSUME NEW T, NEW f \in Seq(T), NEW g \in Seq(T), NoRepeats(f), NoRepeats(g),
           \A m \in 1 .. Len(f) : \A n \in 1 .. Len(g) : f[m] # g[n]
    PROVE  /\ f \o g \in Seq(T) /\ NoRepeats(f \o g)
           /\ \A m \in 1 .. Len(f) : \E i \in 1 .. Len(f \o g) : (f \o g)[i] = f[m]
           /\ \A n \in 1 .. Len(g) : \E i \in 1 .. Len(f \o g) : (f \o g)[i] = g[n]
<1>1. PICK k \in Nat, l \in Nat : k = Len(f) /\ l = Len(g)
  OBVIOUS
<1>2. PICK r : r = f \o g
  OBVIOUS
<1>3. /\ r \in Seq(T) /\ Len(r) = k + l
      /\ \A i \in 1 .. k + l : r[i] = IF i <= k THEN f[i] ELSE g[i - k]
  BY <1>1, <1>2
<1>4. \A m \in 1 .. k : m \in 1 .. k + l /\ r[m] = f[m]
  BY <1>3
<1>5. \A n \in 1 .. l : k + n \in 1 .. k + l /\ r[k + n] = g[n]
  BY <1>3
<1>6. \A i \in 1 .. k + l : \/ i \in 1 .. k /\ r[i] = f[i]
                            \/ i - k \in 1 .. l /\ r[i] = g[i - k]
  BY <1>3
<1>7. ASSUME NEW i \in 1 .. k + l, NEW j \in 1 .. k + l, r[i] = r[j] PROVE i = j
  <2>1. CASE i \in 1 .. k /\ j \in 1 .. k
    BY <1>1, <1>4, <1>7, <2>1 DEF NoRepeats
  <2>2. CASE i \in 1 .. k /\ j \notin 1 .. k
    BY <1>1, <1>4, <1>6, <1>7, <2>2
  <2>3. CASE i \notin 1 .. k /\ j \in 1 .. k
    BY <1>1, <1>4, <1>6, <1>7, <2>3
  <2>4. CASE i \notin 1 .. k /\ j \notin 1 .. k
    <3>1. i - k \in 1 .. l /\ j - k \in 1 .. l /\ g[i - k] = g[j - k]
      BY <1>6, <1>7, <2>4
    <3>2. i - k = j - k
      BY <1>1, <3>1 DEF NoRepeats
    <3> QED
      BY <3>2
  <2> QED
    BY <2>1, <2>2, <2>3, <2>4
<1> QED
  BY <1>1, <1>2, <1>3, <1>4, <1>5, <1>7, ZenonT(60) DEF NoRepeats

\* The later position is first, and of one position the lower number.
LEMMA FurtherFirst ==
    ASSUME NEW S, S \subseteq Nat, NEW at \in [S -> Nat]
    PROVE  InLine({p \in S \X S : at[p[1]] > at[p[2]] \/ (at[p[1]] = at[p[2]] /\ p[1] < p[2])}, S)
<1> DEFINE Before(x, y) == at[x] > at[y] \/ (at[x] = at[y] /\ x < y)
<1>1. PICK before : before = {p \in S \X S : Before(p[1], p[2])}
  OBVIOUS
<1>2. \A x, y \in S : <<x, y>> \in before <=> Before(x, y)
  BY <1>1
<1>3. \A x, y \in S : ~ (Before(x, y) /\ Before(y, x))
  OBVIOUS
<1>4. \A x, y \in S : x = y \/ Before(x, y) \/ Before(y, x)
  <2>1. ASSUME NEW x \in S, NEW y \in S PROVE x = y \/ Before(x, y) \/ Before(y, x)
    <3>1. x \in Nat /\ y \in Nat /\ at[x] \in Nat /\ at[y] \in Nat
      OBVIOUS
    <3> QED
      BY <3>1
  <2> QED
    BY <2>1
<1>5. \A x, y, z \in S : Before(x, y) /\ Before(y, z) => Before(x, z)
  <2>1. ASSUME NEW x \in S, NEW y \in S, NEW z \in S, Before(x, y), Before(y, z)
        PROVE  Before(x, z)
    <3>1. /\ x \in Nat /\ y \in Nat /\ z \in Nat
          /\ at[x] \in Nat /\ at[y] \in Nat /\ at[z] \in Nat
      OBVIOUS
    <3> QED
      BY <2>1, <3>1
  <2> QED
    BY <2>1
<1>6. InLine(before, S)
  <2> HIDE DEF Before
  <2> QED
    BY <1>2, <1>3, <1>4, <1>5 DEF InLine
<1> QED
  BY <1>1, <1>6

\* The list has no prospect twice, and has those of the column.
LEMMA ListedOnce ==
    ASSUME CardsInv, NEW h \in Hands, hand[h].board = [c \in LiveCards |-> card[c]],
           hand[h].ids \in Seq(LiveCards), NoRepeats(hand[h].ids)
    PROVE  /\ Listed(h) \in Seq(LiveCards) /\ NoRepeats(Listed(h))
           /\ \A c \in Column(hand[h].column) : \E i \in 1 .. Len(Listed(h)) : Listed(h)[i] = c
<1>1. PICK live \in SUBSET Cards : live = LiveCards
  BY DEF LiveCards
<1>2. live \subseteq Nat /\ IsFiniteSet(live)
  BY OfTheBoard, FS_Subset
<1>3. PICK ids \in Seq(live) : ids = hand[h].ids /\ NoRepeats(ids)
  BY <1>1
<1>4. PICK board : board = hand[h].board /\ DOMAIN board = live /\ \A c \in live : board[c] = card[c]
  BY <1>1
<1>5. PICK asked : asked = Sifted(ids, live)
  OBVIOUS
<1>6. /\ asked \in Seq(live) /\ NoRepeats(asked)
  <2>1. \A m, n \in 1 .. Len(ids) : ids[m] = ids[n] => m = n
    BY <1>3 DEF NoRepeats
  <2>2. /\ Sifted(ids, live) \in Seq(live)
        /\ \A m, n \in 1 .. Len(Sifted(ids, live)) :
              Sifted(ids, live)[m] = Sifted(ids, live)[n] => m = n
    BY <2>1, SiftedProperties
  <2> QED
    BY <1>5, <2>2 DEF NoRepeats
<1>7. PICK k : k = hand[h].column
  OBVIOUS
<1>8. PICK overlooked : overlooked = {c \in live : board[c].column = k} \ ToSet(asked)
  OBVIOUS
<1>9. PICK before : before = {p \in overlooked \X overlooked :
                                \/ board[p[1]].position > board[p[2]].position
                                \/ board[p[1]].position = board[p[2]].position /\ p[1] < p[2]}
  OBVIOUS
<1>10. PICK rest : rest = Listing(overlooked, before)
  OBVIOUS
<1>11. Listed(h) = asked \o rest
  BY <1>3, <1>4, <1>5, <1>7, <1>8, <1>9, <1>10 DEF Listed
<1>12. PICK at : at = [c \in overlooked |-> board[c].position]
  OBVIOUS
<1>13. overlooked \subseteq live /\ IsFiniteSet(overlooked)
  <2>1. overlooked \in SUBSET live
    BY <1>8
  <2> QED
    BY <1>2, <2>1, FS_Subset
<1>14. InLine(before, overlooked)
  <2>1. overlooked \subseteq Nat /\ at \in [overlooked -> Nat]
    BY <1>1, <1>2, <1>4, <1>12, <1>13 DEF CardsInv, CardRow
  <2>2. before = {p \in overlooked \X overlooked :
                    at[p[1]] > at[p[2]] \/ (at[p[1]] = at[p[2]] /\ p[1] < p[2])}
    BY <1>9, <1>12
  <2> QED
    BY <2>1, <2>2, FurtherFirst
<1>15. PICK n \in Nat : n = Cardinality(overlooked)
  BY <1>13, FS_CardinalityType
<1>16. /\ rest \in [1 .. n -> overlooked]
       /\ \A i, j \in 1 .. n : rest[i] = rest[j] => i = j
       /\ \A c \in overlooked : \E i \in 1 .. n : rest[i] = c
  BY <1>10, <1>13, <1>14, <1>15, ListingLists DEF IsListing
<1>17. rest \in Seq(live) /\ Len(rest) = n /\ NoRepeats(rest)
  <2>1. rest \in [1 .. n -> live]
    BY <1>13, <1>16
  <2>2. rest \in Seq(live) /\ Len(rest) = n
    BY <2>1
  <2> QED
    BY <1>16, <2>2 DEF NoRepeats
<1>18. \A i \in 1 .. Len(asked) : asked[i] \in ToSet(asked)
  BY <1>6 DEF ToSet
<1>19. \A i \in 1 .. Len(asked) : \A j \in 1 .. Len(rest) : asked[i] # rest[j]
  BY <1>8, <1>16, <1>17, <1>18
<1>20. PICK list : list = asked \o rest
  OBVIOUS
<1>21. /\ list \in Seq(live) /\ NoRepeats(list)
       /\ \A i \in 1 .. Len(asked) : \E j \in 1 .. Len(list) : list[j] = asked[i]
       /\ \A i \in 1 .. Len(rest) : \E j \in 1 .. Len(list) : list[j] = rest[i]
  <2>1. /\ asked \o rest \in Seq(live) /\ NoRepeats(asked \o rest)
        /\ \A i \in 1 .. Len(asked) : \E j \in 1 .. Len(asked \o rest) :
              (asked \o rest)[j] = asked[i]
        /\ \A i \in 1 .. Len(rest) : \E j \in 1 .. Len(asked \o rest) :
              (asked \o rest)[j] = rest[i]
    <3>1. asked \in Seq(live) /\ rest \in Seq(live) /\ NoRepeats(asked) /\ NoRepeats(rest)
      BY <1>6, <1>17
    <3> QED
      BY <1>19, <3>1, Joined
  <2> QED
    BY <1>20, <2>1
<1>22. ASSUME NEW c \in Column(k) PROVE \E j \in 1 .. Len(list) : list[j] = c
  <2>1. c \in live /\ board[c].column = k
    BY <1>1, <1>4 DEF Column
  <2>2. CASE c \in ToSet(asked)
    <3>1. \E i \in 1 .. Len(asked) : asked[i] = c
      BY <1>6, <2>2 DEF ToSet
    <3> QED
      BY <1>21, <3>1
  <2>3. CASE c \notin ToSet(asked)
    BY <1>8, <1>16, <1>17, <1>21, <2>1, <2>3, SMTT(30)
  <2> QED
    BY <2>2, <2>3
<1> QED
  BY <1>1, <1>7, <1>11, <1>20, <1>21, <1>22

LEMMA PlanningKeepsApart ==
    ASSUME CardsInv, PositionsAreApart,
           NEW list \in Seq(LiveCards), NoRepeats(list), NEW a,
           \A c \in Column(a.column) : \E i \in 1 .. Len(list) : list[i] = c,
           \A w \in a.todo : \E i \in 1 .. Len(list) :
              w.card = list[i] /\ w.position = i /\ (w.moves \/ card[list[i]].column = a.column),
           \A i \in 1 .. Len(list) :
              \/ \E w \in a.todo : w.card = list[i] /\ w.position = i
              \/ card[list[i]].column = a.column /\ card[list[i]].position = i,
           \A w, v \in a.todo : w.card = v.card /\ w.position = v.position => w = v
    PROVE  WritesKeepApart(a)
<1>1. \A i, j \in 1 .. Len(list) : list[i] = list[j] => i = j
  BY DEF NoRepeats
<1>2. \A w, v \in a.todo : w.card = v.card => w = v
  BY <1>1
<1>3. \A w \in a.todo : ~w.moves => card[w.card].column = a.column
  OBVIOUS
<1>4. ASSUME NEW c \in LiveCards, NEW n \in Nat, EndsAt(a, c, n)
      PROVE  n \in 1 .. Len(list) /\ list[n] = c
  <2>1. CASE \E w \in a.todo : w.card = c /\ w.position = n
    BY <2>1
  <2>2. CASE ~ \E w \in a.todo : w.card = c /\ w.position = n
    <3>1. /\ card[c].column = a.column /\ card[c].position = n
          /\ \A w \in a.todo : w.card # c
      BY <1>4, <2>2 DEF EndsAt
    <3>2. PICK i \in 1 .. Len(list) : list[i] = c
      BY <3>1 DEF Column
    <3> QED
      BY <3>1, <3>2
  <2> QED
    BY <2>1, <2>2
<1>5. \A c, d \in LiveCards : c # d => \A n \in Nat : ~ (EndsAt(a, c, n) /\ EndsAt(a, d, n))
  BY <1>4
<1>6. \A c, d \in LiveCards :
         c # d /\ card[c].column = card[d].column /\ card[c].column # a.column
         => card[c].position # card[d].position
  BY DEF PositionsAreApart
<1> QED
  BY <1>2, <1>3, <1>5, <1>6 DEF WritesKeepApart

LEMMA Planning ==
    ASSUME BoardInv, lone, NEW h \in Hands, ReadOriginals(h)
    PROVE  BoardInv'
<1>0. hand[h].pc = "readOriginals"
  BY DEF ReadOriginals
<1>1. /\ CardsInv /\ DOMAIN hand = Hands /\ (\A g \in Hands : g # h => hand[g] = Rest)
      /\ hand[h] \in HandRow /\ HandKnows(hand[h]) /\ (~torn => PositionsAreApart)
  BY <1>0, OneHand
<1>2. PICK a \in HandRow : a = hand[h] /\ a.pc = "readOriginals" /\ HandKnows(a)
  BY <1>0, <1>1
<1>3. PICK k \in Columns : k = a.column
  BY DEF HandRow
<1>4. /\ a.board = [c \in LiveCards |-> card[c]]
      /\ a.ids \in Seq(LiveCards) /\ NoRepeats(a.ids)
  BY <1>2 DEF HandKnows, NoRepeats
<1>5. PICK list : list = Listed(h)
  OBVIOUS
<1>6. /\ list \in Seq(LiveCards) /\ NoRepeats(list)
      /\ \A c \in Column(k) : \E i \in 1 .. Len(list) : list[i] = c
  BY <1>1, <1>2, <1>3, <1>4, <1>5, ListedOnce, SMTT(30)
<1>7. DOMAIN list = 1 .. Len(list) /\ LiveCards \subseteq Cards
      /\ \A i \in 1 .. Len(list) : list[i] \in LiveCards /\ list[i] \in Cards
  BY <1>6 DEF LiveCards
<1>8. PICK writes : writes = {i \in 1 .. Len(list) :
                        \/ card[list[i]].column # k
                        \/ i # card[list[i]].position /\ a.board[list[i]].position = card[list[i]].position}
  OBVIOUS
<1>9. PICK todo : todo = {[card |-> list[i], position |-> i,
                           moves |-> card[list[i]].column # k] : i \in writes}
  OBVIOUS
<1>10. hand' = [hand EXCEPT ![h].pc = "write", ![h].board = <<>>, ![h].todo = todo]
  BY <1>2, <1>3, <1>5, <1>7, <1>8, <1>9 DEF ReadOriginals
<1>11. card' = card /\ sessions' = sessions /\ renamed' = renamed /\ doubled' = doubled /\ torn' = torn
  BY DEF ReadOriginals, Traces
<1>12. PICK b : b = [a EXCEPT !.pc = "write", !.board = <<>>, !.todo = todo]
  OBVIOUS
<1>13. todo \subseteq PositionWrite
  <2>1. ASSUME NEW w \in todo PROVE w \in PositionWrite
    <3>1. PICK i \in writes : w = [card |-> list[i], position |-> i,
                                  moves |-> card[list[i]].column # k]
      BY <1>9
    <3>2. PICK moves \in BOOLEAN : moves = (card[list[i]].column # k)
      OBVIOUS
    <3>3. i \in Nat /\ list[i] \in Cards
      BY <1>7, <1>8
    <3>4. w = [card |-> list[i], position |-> i, moves |-> moves]
      BY <3>1, <3>2, Zenon
    <3> QED
      BY <3>2, <3>3, <3>4 DEF PositionWrite
  <2> QED
    BY <2>1
<1>14. <<>> \in BoardRead
  BY DEF BoardRead
<1>15. b \in HandRow /\ b.pc = "write" /\ b.column = k /\ b.todo = todo
  BY <1>3, <1>12, <1>13, <1>14 DEF HandRow
<1>16. hand' = [hand EXCEPT ![h] = b]
  BY <1>1, <1>2, <1>10, <1>12
<1>17. ASSUME ~torn PROVE WritesKeepApart(b)
  <2>1. \A w \in todo : \E i \in 1 .. Len(list) :
            w.card = list[i] /\ w.position = i /\ (w.moves \/ card[list[i]].column = k)
    <3>1. ASSUME NEW w \in todo
          PROVE  \E i \in 1 .. Len(list) :
                    w.card = list[i] /\ w.position = i /\ (w.moves \/ card[list[i]].column = k)
      <4>1. PICK i \in writes : w = [card |-> list[i], position |-> i,
                                    moves |-> card[list[i]].column # k]
        BY <1>9
      <4>2. i \in 1 .. Len(list) /\ w.card = list[i] /\ w.position = i
        BY <1>8, <4>1
      <4>3. w.moves \/ card[list[i]].column = k
        BY <4>1
      <4> QED
        BY <4>2, <4>3
    <3> QED
      BY <3>1
  <2>2. ASSUME NEW i \in 1 .. Len(list)
        PROVE  \/ \E w \in todo : w.card = list[i] /\ w.position = i
               \/ card[list[i]].column = k /\ card[list[i]].position = i
    <3>1. a.board[list[i]].position = card[list[i]].position
      BY <1>4, <1>7
    <3>2. CASE i \in writes
      <4>1. PICK w : w = [card |-> list[i], position |-> i, moves |-> card[list[i]].column # k]
        OBVIOUS
      <4>2. w \in todo
        BY <1>9, <3>2, <4>1
      <4>3. w.card = list[i] /\ w.position = i
        BY <4>1
      <4> QED
        BY <4>2, <4>3
    <3>3. CASE i \notin writes
      BY <1>8, <3>1, <3>3
    <3> QED
      BY <3>2, <3>3
  <2>3. \A w, v \in todo : w.card = v.card /\ w.position = v.position => w = v
    BY <1>9
  <2> QED
    BY <1>1, <1>6, <1>15, <1>17, <2>1, <2>2, <2>3, PlanningKeepsApart
<1>18. HandKnows(b)'
  <2>1. WritesKeepApart(b) => WritesKeepApart(b)'
    BY <1>11 DEF WritesKeepApart, EndsAt, LiveCards
  <2> QED
    BY <1>11, <1>15, <1>17, <2>1 DEF HandKnows
<1>19. CardsInv'
  BY <1>1, <1>11, CardsStay
<1> QED
  BY <1>1, <1>15, <1>16, <1>18, <1>19, BoardStep

LEMMA Writing ==
    ASSUME BoardInv, lone, NEW h \in Hands, hand[h].pc = "write",
           NEW w \in hand[h].todo, WritePosition(h, w) \/ LoseWrite(h, w)
    PROVE  BoardInv'
<1>1. /\ CardsInv /\ DOMAIN hand = Hands /\ (\A g \in Hands : g # h => hand[g] = Rest)
      /\ hand[h] \in HandRow /\ HandKnows(hand[h])
  BY OneHand
<1>2. PICK a \in HandRow : a = hand[h] /\ a.pc = "write" /\ HandKnows(a)
  BY <1>1
<1>3. PICK b : b = [a EXCEPT !.todo = a.todo \ {w}]
  OBVIOUS
<1>4. b \in HandRow /\ b.pc = "write" /\ b.column = a.column /\ b.todo = a.todo \ {w}
  BY <1>2, <1>3 DEF HandRow
<1>5. hand' = [hand EXCEPT ![h] = b]
  BY <1>1, <1>2, <1>3 DEF WritePosition, LoseWrite
<1>6. CASE LoseWrite(h, w)
  <2>1. card' = card /\ sessions' = sessions /\ renamed' = renamed /\ doubled' = doubled /\ torn' = TRUE
    BY <1>6 DEF LoseWrite
  <2>2. CardsInv'
    BY <1>1, <2>1, CardsStay
  <2>3. HandKnows(b)'
    BY <1>4, <2>1 DEF HandKnows
  <2> QED
    BY <1>1, <1>4, <1>5, <2>2, <2>3, BoardStep
<1>7. CASE WritePosition(h, w)
  <2>1. /\ w \in PositionWrite /\ w.card \in Cards /\ w.position \in Nat /\ a.column \in Columns
    BY <1>2 DEF HandRow, PositionWrite
  <2>2. PICK c \in Cards, n \in Nat, k \in Columns : c = w.card /\ n = w.position /\ k = a.column
    BY <2>1
  <2>3. PICK old \in CardRow : old = card[c]
    BY <1>1 DEF CardsInv
  <2>4. PICK row : row = [old EXCEPT !.position = n, !.column = IF w.moves THEN k ELSE old.column]
    OBVIOUS
  <2>5. /\ row \in CardRow /\ row.life = old.life /\ row.session = old.session
        /\ row.name = old.name /\ row.position = n
        /\ row.column = IF w.moves THEN k ELSE old.column
    BY <2>4 DEF CardRow
  <2>6. /\ card' \in [Cards -> CardRow]
        /\ \A d \in Cards : card'[d] = IF d = c THEN row ELSE card[d]
    <3>1. card' = [card EXCEPT ![c].position = n, ![c].column = IF w.moves THEN k ELSE @]
      BY <1>2, <1>7, <2>2 DEF WritePosition
    <3>2. card' = [card EXCEPT ![c] = row]
      BY <1>1, <2>3, <2>4, <3>1 DEF CardsInv, CardRow
    <3> QED
      BY <1>1, <2>5, <3>2, OneCard
  <2>7. sessions' = sessions /\ renamed' = renamed /\ doubled' = doubled /\ torn' = torn
    BY <1>7 DEF WritePosition, Traces
  <2>8. LiveCards' = LiveCards /\ LiveCards \subseteq Cards
    BY <2>3, <2>5, <2>6 DEF LiveCards
  <2>9. CardsInv'
    <3>1. \A d \in Cards : card'[d].session = card[d].session /\ card'[d].name = card[d].name
      BY <2>3, <2>5, <2>6
    <3> QED
      BY <1>1, <2>6, <2>7, <2>8, <3>1 DEF CardsInv, NamesAreApart
  <2>10. ASSUME ~torn PROVE WritesKeepApart(b)'
    <3>1. WritesKeepApart(a)
      BY <1>2, <2>10 DEF HandKnows
    <3>2. /\ \A v, u \in a.todo : v.card = u.card => v = u
          /\ \A v \in a.todo : ~v.moves => card[v.card].column = k
      BY <2>2, <3>1 DEF WritesKeepApart
    <3>3. w \in a.todo
      BY <1>2
    <3>4. row.column = k
      BY <2>2, <2>3, <2>5, <3>2, <3>3
    <3>5. \A v \in a.todo \ {w} : v.card # c
      BY <2>2, <3>2, <3>3
    <3>6. ASSUME NEW v \in b.todo, ~v.moves PROVE card'[v.card].column = b.column
      <4>1. v \in a.todo /\ v.card # c /\ v.card \in Cards
        BY <1>2, <1>4, <3>5, <3>6 DEF HandRow, PositionWrite
      <4> QED
        BY <1>4, <2>2, <2>6, <3>2, <3>6, <4>1
    <3>7. ASSUME NEW d \in LiveCards, NEW p \in Nat, EndsAt(b, d, p)' PROVE EndsAt(a, d, p)
      <4>1. CASE \E v \in b.todo : v.card = d /\ v.position = p
        BY <1>4, <4>1 DEF EndsAt
      <4>2. CASE /\ card'[d].column = b.column /\ card'[d].position = p
                 /\ \A v \in b.todo : v.card # d
        <5>1. CASE d = c
          <6>1. p = n
            BY <2>5, <2>6, <4>2, <5>1
          <6> QED
            BY <2>2, <3>3, <5>1, <6>1 DEF EndsAt
        <5>2. CASE d # c
          <6>1. card'[d] = card[d] /\ \A v \in a.todo : v.card # d
            BY <1>4, <2>2, <2>6, <2>8, <4>2, <5>2
          <6> QED
            BY <1>4, <4>2, <6>1 DEF EndsAt
        <5> QED
          BY <5>1, <5>2
      <4> QED
        BY <3>7, <4>1, <4>2 DEF EndsAt
    <3>8. ASSUME NEW d \in LiveCards, NEW e \in LiveCards, d # e,
                 card'[d].column = card'[e].column, card'[d].column # b.column
          PROVE  card'[d].position # card'[e].position
      <4>1. d # c /\ e # c
        BY <1>4, <2>2, <2>6, <3>4, <3>8
      <4>2. card'[d] = card[d] /\ card'[e] = card[e]
        BY <2>6, <2>8, <4>1
      <4> QED
        BY <1>4, <3>1, <3>8, <4>2 DEF WritesKeepApart
    <3>9. \A d, e \in LiveCards : d # e => \A p \in Nat : ~ (EndsAt(a, d, p) /\ EndsAt(a, e, p))
      BY <3>1 DEF WritesKeepApart
    <3>10. \A d, e \in LiveCards' : d # e =>
              \A p \in Nat : ~ (EndsAt(b, d, p)' /\ EndsAt(b, e, p)')
      BY <2>8, <3>7, <3>9
    <3>11. \A v, u \in b.todo : v.card = u.card => v = u
      BY <1>4, <3>2
    <3> QED
      BY <2>8, <3>6, <3>8, <3>10, <3>11 DEF WritesKeepApart
  <2>11. HandKnows(b)'
    BY <1>4, <2>7, <2>10 DEF HandKnows
  <2> QED
    BY <1>1, <1>4, <1>5, <2>9, <2>11, BoardStep
<1> QED
  BY <1>6, <1>7

LEMMA Reordered ==
    ASSUME BoardInv, lone, NEW h \in Hands, EndReorder(h)
    PROVE  BoardInv'
<1>1. /\ hand[h].pc = "write" /\ hand[h].todo = {} /\ hand' = [hand EXCEPT ![h] = Rest]
      /\ card' = card /\ sessions' = sessions /\ renamed' = renamed /\ doubled' = doubled /\ torn' = torn
  BY DEF EndReorder, Drop, Traces
<1>2. CardsInv /\ HandKnows(hand[h])
  BY <1>1, OneHand
<1>3. ASSUME ~torn PROVE PositionsAreApart
  <2>1. PICK a : a = hand[h] /\ a.todo = {} /\ WritesKeepApart(a)
    BY <1>1, <1>2, <1>3 DEF HandKnows
  <2>2. ASSUME NEW c \in LiveCards, NEW d \in LiveCards, c # d, card[c].column = card[d].column
        PROVE  card[c].position # card[d].position
    <3>1. CASE card[c].column = a.column
      <4>1. EndsAt(a, c, card[c].position) /\ EndsAt(a, d, card[d].position)
        BY <2>1, <2>2, <3>1 DEF EndsAt
      <4>2. card[c].position \in Nat
        BY <1>2 DEF CardsInv, LiveCards, CardRow
      <4> QED
        BY <2>1, <2>2, <4>1, <4>2 DEF WritesKeepApart
    <3>2. CASE card[c].column # a.column
      BY <2>1, <2>2, <3>2 DEF WritesKeepApart
    <3> QED
      BY <3>1, <3>2
  <2> QED
    BY <2>2 DEF PositionsAreApart
<1>4. CardsInv' /\ (PositionsAreApart => PositionsAreApart')
  BY <1>1, <1>2, CardsStay
<1> QED
  BY <1>1, <1>3, <1>4, Ended

(***************************************************************************)
(* The requests.                                                           *)
(***************************************************************************)
LEMMA AskingsKnow ==
    ASSUME CardsInv, NEW a \in Askings
    PROVE  a \in HandRow /\ a.pc # "write" /\ HandKnows(a)
<1>0. /\ LiveCards \subseteq Cards /\ 1 \in Columns /\ <<>> \in BoardRead /\ <<>> \in Seq(Cards)
      /\ <<>> \in Seq(Names)
      /\ {} \in SUBSET PositionWrite
  BY OfTheBoard DEF LiveCards, BoardRead
<1>1. CASE a = Asking("findSession")
  BY <1>0, <1>1 DEF Asking, HandRow, HandKnows
<1>2. ASSUME NEW pc \in {"rename", "remove"}, NEW c \in LiveCards,
             a = AskingOf(pc, c)
      PROVE  a \in HandRow /\ a.pc # "write" /\ HandKnows(a)
  BY <1>0, <1>2 DEF Asking, AskingOf, HandRow, HandKnows
<1>3. ASSUME NEW c \in LiveCards, NEW k \in Columns,
             a = AskingToMove(c, k)
      PROVE  a \in HandRow /\ a.pc # "write" /\ HandKnows(a)
  BY <1>0, <1>3 DEF Asking, AskingToMove, HandRow, HandKnows
<1>4. ASSUME NEW S \in SUBSET LiveCards, NEW s \in SetToSeqs(S), NEW k \in Columns,
             a = AskingToReorder(s, k)
      PROVE  a \in HandRow /\ a.pc # "write" /\ HandKnows(a)
  <2>1. IsFiniteSet(S)
    <3>1. S \in SUBSET Cards
      BY <1>0
    <3> QED
      BY <3>1, OfTheBoard, FS_Subset
  <2>2. PICK n \in Nat : n = Cardinality(S)
    BY <2>1, FS_CardinalityType
  <2>3. s \in [1 .. n -> S] /\ \A i, j \in 1 .. n : s[i] = s[j] => i = j
    BY <2>2 DEF SetToSeqs
  <2>4. s \in Seq(Cards) /\ s \in Seq(LiveCards) /\ Len(s) = n
    <3>1. s \in [1 .. n -> Cards] /\ s \in [1 .. n -> LiveCards]
      BY <1>0, <2>3
    <3> QED
      BY <3>1
  <2>5. a \in HandRow /\ a.pc = "readBoard" /\ a.ids = s
    BY <1>0, <1>4, <2>4 DEF Asking, AskingToReorder, HandRow
  <2> QED
    BY <2>3, <2>4, <2>5 DEF HandKnows
<1>5. CASE a \in {AskingOf(pc, c) : pc \in {"rename", "remove"}, c \in LiveCards}
  <2>1. PICK pc \in {"rename", "remove"}, c \in LiveCards : a = AskingOf(pc, c)
    BY <1>5
  <2> QED
    BY <1>2, <2>1
<1>6. CASE a \in {AskingToMove(c, k) :
                     c \in LiveCards, k \in Columns}
  <2>1. PICK c \in LiveCards, k \in Columns :
           a = AskingToMove(c, k)
    BY <1>6
  <2> QED
    BY <1>3, <2>1
<1>7. CASE a \in {AskingToReorder(s, k) :
                     s \in UNION {SetToSeqs(S) : S \in SUBSET LiveCards}, k \in Columns}
  <2>1. PICK s \in UNION {SetToSeqs(S) : S \in SUBSET LiveCards}, k \in Columns :
           a = AskingToReorder(s, k)
    BY <1>7
  <2>2. PICK S \in SUBSET LiveCards : s \in SetToSeqs(S)
    OBVIOUS
  <2> QED
    BY <1>4, <2>1, <2>2
<1> QED
  BY <1>1, <1>5, <1>6, <1>7 DEF Askings

LEMMA Beginning ==
    ASSUME BoardInv, lone, NEW h \in Hands, BeginOp(h)
    PROVE  BoardInv'
<1>1. \A g \in Hands : hand[g].pc = "idle"
  BY DEF BeginOp
<1>2. /\ CardsInv /\ DOMAIN hand = Hands /\ (\A g \in Hands : hand[g] = Rest)
      /\ (~torn => PositionsAreApart)
  BY <1>1, NoHand
<1>3. PICK a \in Askings : hand' = [hand EXCEPT ![h] = a]
  BY DEF BeginOp
<1>4. card' = card /\ sessions' = sessions /\ renamed' = renamed /\ doubled' = doubled /\ torn' = torn
  BY DEF BeginOp, Traces
<1>5. CardsInv' /\ (PositionsAreApart => PositionsAreApart')
  BY <1>2, <1>4, CardsStay
<1>6. a \in HandRow /\ a.pc # "write" /\ HandKnows(a)'
  <2>1. a \in HandRow /\ a.pc # "write" /\ HandKnows(a)
    BY <1>2, AskingsKnow
  <2>2. LiveCards' = LiveCards
    BY <1>4 DEF LiveCards
  <2>3. \A k : Column(k)' = Column(k) /\ NamesIn(k)' = NamesIn(k)
    BY <1>4, <2>2 DEF Column, NamesIn
  <2>4. \A k, n : UpTo(k, n) => UpTo(k, n)'
    BY <1>4, <2>3 DEF UpTo
  <2>5. \A k, n : NewIn(k, n) => NewIn(k, n)'
    BY <2>3 DEF NewIn
  <2> QED
    BY <1>4, <2>1, <2>2, <2>3, <2>4, <2>5 DEF HandKnows
<1> QED
  BY <1>2, <1>3, <1>4, <1>5, <1>6, BoardStep

LEMMA Failing ==
    ASSUME BoardInv, lone, NEW h \in Hands, FailOp(h)
    PROVE  BoardInv'
<1>1. /\ hand[h].pc # "idle" /\ hand[h].pc # "write" /\ hand' = [hand EXCEPT ![h] = Rest]
      /\ card' = card /\ sessions' = sessions /\ renamed' = renamed /\ doubled' = doubled /\ torn' = torn
  BY DEF FailOp, Drop, Traces
<1> QED
  BY <1>1, Dropped

\* One request at a time, whatever was searched, moved, reordered, renamed and removed before and
\* whatever call failed: between requests two prospects of a column have two positions, unless a
\* reordering was torn, and two of a session have two names, unless one was renamed by hand or
\* one answer of the scraper had their name twice.
THEOREM CardsStayApart == BoardSpec => []CardsAreApart
<1>1. BoardInv /\ [BoardNext]_boardVars => BoardInv'
  <2> SUFFICES ASSUME BoardInv, [BoardNext]_boardVars PROVE BoardInv'
    OBVIOUS
  <2>1. lone' = lone
    BY ZenonT(60) DEF boardVars, Tallies, BoardNext, BeginOp, FailOp, FindSession, Scrape, ReadLast, InsertCards,
           ReadColumn, MoveCard, Rename, RemoveCard, ReadBoard, ReadOriginals, EndReorder,
           WritePosition, LoseWrite
  <2>2. CASE ~lone
    BY <2>1, <2>2 DEF BoardInv
  <2>3. CASE lone /\ UNCHANGED boardVars
    <3>1. /\ card' = card /\ sessions' = sessions /\ hand' = hand
          /\ renamed' = renamed /\ doubled' = doubled /\ torn' = torn
      BY <2>3 DEF boardVars
    <3>2. CardsInv' /\ LiveCards' = LiveCards /\ (PositionsAreApart => PositionsAreApart')
      BY <2>3, <3>1, CardsStay DEF BoardInv
    <3>3. \A a : HandKnows(a) => HandKnows(a)'
      BY <3>1 DEF HandKnows, UpTo, Column, NewIn, NamesIn, LiveCards, WritesKeepApart, EndsAt
    <3> QED
      BY <2>3, <3>1, <3>2, <3>3 DEF BoardInv
  <2>4. ASSUME lone, NEW h \in Hands, BeginOp(h) \/ FailOp(h) PROVE BoardInv'
    BY <2>4, Beginning, Failing
  <2>5. ASSUME lone, NEW h \in Hands,
               FindSession(h) \/ Scrape(h) \/ ReadLast(h) \/ ReadColumn(h) \/ ReadBoard(h)
        PROVE  BoardInv'
    BY <2>5, Reading
  <2>6. ASSUME lone, NEW h \in Hands, InsertCards(h) \/ MoveCard(h) \/ Rename(h) \/ RemoveCard(h)
        PROVE  BoardInv'
    BY <2>6, Inserting, Moving, Naming, Removing
  <2>7. ASSUME lone, NEW h \in Hands, ReadOriginals(h) \/ EndReorder(h) PROVE BoardInv'
    BY <2>7, Planning, Reordered
  <2>8. ASSUME lone, NEW h \in Hands,
               NEW w \in IF hand[h].pc = "write" THEN hand[h].todo ELSE {},
               WritePosition(h, w) \/ LoseWrite(h, w)
        PROVE  BoardInv'
    <3>1. hand[h].pc = "write" /\ w \in hand[h].todo
      BY <2>8
    <3> QED
      BY <2>8, <3>1, Writing
  <2> QED
    BY <2>2, <2>3, <2>4, <2>5, <2>6, <2>7, <2>8, Zenon DEF BoardNext
<1> QED
  BY <1>1, BoardStart, BoardInvIsEnough, PTL DEF BoardSpec
=============================================================================
