----------------------------- MODULE ServicesProofs -----------------------------
(***************************************************************************)
(* Proofs about four of the services with a protocol of their own, for     *)
(* every set of requests, people, sockets, brands and rows: the pictures   *)
(* in the image store, the messages of the chat, the passwords and the     *)
(* brands that the orders have of their client.                            *)
(***************************************************************************)
EXTENDS Images, Chat, Credentials, ClientBrands, FiniteSetTheorems, TLAPS

(***************************************************************************)
(* Images: the types, and what a request knows of the picture it read and  *)
(* of the one it has stored.                                               *)
(***************************************************************************)
ErrandSteps == {"read", "findCode", "destroy", "clear", "store", "write", "drop"}
Uploads == 1 .. uploaded

ErrandRow == [pc : ErrandSteps, op : {"store", "clear", "drop", "create"}, who : Pictured,
              seen : Nat, new : Nat]

ImagesTyped ==
    /\ uploaded \in Nat
    /\ picture \in [Pictured -> 0 .. uploaded]
    /\ stored \subseteq Uploads
    /\ errand \in [Clerks -> {Unused} \cup ErrandRow]
    /\ dangling \subseteq Pictured
    /\ brandLife \in {"none", "live", "deleted"}

\* only the creation of a brand looks its code up, and it reads no row
Meant(r) ==
    /\ r.pc # "idle" /\ r.op = "create" => r.who = "brand"
    /\ r.pc \in {"read", "destroy", "clear"} => r.op # "create"
    /\ r.pc = "findCode" => r.op = "create" /\ r.who = "brand" /\ r.new = 0

\* no two columns name one picture
NamedOnce == \A v, w \in Pictured : picture[v] = picture[w] => picture[v] = 0 \/ v = w

\* what a request is about to destroy was, or still is, the picture of its row
Destroying ==
    \A k \in Clerks : errand[k].pc = "destroy" =>
        /\ errand[k].seen \in Uploads
        /\ \A w \in Pictured : picture[w] = errand[k].seen => w = Who(k)

\* what a request is about to name is stored, and nobody else knows it
Fresh(n) ==
    /\ n \in stored
    /\ \A w \in Pictured : picture[w] # n
    /\ \A l \in Clerks : errand[l].pc = "destroy" => errand[l].seen # n

Naming ==
    \A k \in Clerks : errand[k].pc = "write" =>
        /\ errand[k].new = 0 \/ Fresh(errand[k].new)
        /\ \A l \in Clerks : errand[l].pc = "write" /\ errand[l].new = errand[k].new
               => errand[k].new = 0 \/ l = k

\* a request that destroyed a picture has not come to the call that mends its column
Mends(k, w) ==
    /\ errand[k].pc # "idle" /\ Who(k) = w /\ errand[k].seen # 0
    /\ errand[k].pc = "clear" \/ (w = "brand" /\ errand[k].pc \in {"store", "write", "drop"})

NamesStored(w) ==
    \/ picture[w] = 0 \/ picture[w] \in stored
    \/ w \in dangling
    \/ w = "brand" /\ brandLife # "live"
    \/ \E k \in Clerks : Mends(k, w)

\* One request at a time: no stored picture is lost, for the one the request will name.
Changing == {"clear", "store", "write", "drop"}

NothingLost ==
    apart =>
        /\ \A k, l \in Clerks : errand[k].pc # "idle" /\ errand[l].pc # "idle" => k = l
        /\ stored \subseteq left \cup {picture[w] : w \in Pictured}
                            \cup {errand[k].new : k \in {l \in Clerks : errand[l].pc = "write"}}
        /\ brandLife = "none" => picture["brand"] = 0
        /\ \A k \in Clerks :
             /\ errand[k].pc \in Changing => picture[Who(k)] \notin stored
             /\ errand[k].pc \in Changing \cup {"destroy"} /\ Who(k) = "brand"
                    /\ errand[k].op # "create" => brandLife # "none"
             /\ errand[k].pc # "idle" /\ errand[k].op = "create" => brandLife = "none"
             /\ errand[k].pc = "destroy" => errand[k].seen = picture[Who(k)]

ImagesInv ==
    /\ ImagesTyped /\ (\A k \in Clerks : Meant(errand[k])) /\ NamedOnce /\ Destroying /\ Naming
    /\ \A w \in Pictured : NamesStored(w)
    /\ NothingLost

----------------------------------------------------------------------------
LEMMA OneErrand ==
    ASSUME ImagesTyped, NEW k \in Clerks, NEW r \in {Unused} \cup ErrandRow,
           errand' = [errand EXCEPT ![k] = r]
    PROVE  /\ errand' \in [Clerks -> {Unused} \cup ErrandRow]
           /\ errand'[k] = r
           /\ \A l \in Clerks : l # k => errand'[l] = errand[l]
BY DEF ImagesTyped

LEMMA AtWorkRow ==
    ASSUME ImagesTyped, NEW k \in Clerks, errand[k].pc # "idle"
    PROVE  errand[k] \in ErrandRow
BY DEF ImagesTyped, Unused

LEMMA RowMoves ==
    ASSUME ImagesTyped, NEW k \in Clerks, errand[k].pc # "idle", NEW pc \in ErrandSteps,
           Advance(k, pc)
    PROVE  \E r \in ErrandRow :
             /\ errand' = [errand EXCEPT ![k] = r] /\ r.pc = pc /\ r.op = errand[k].op
             /\ r.who = Who(k) /\ r.seen = errand[k].seen /\ r.new = errand[k].new
<1> PICK e, r : e = errand[k] /\ r = [e EXCEPT !.pc = pc]
  OBVIOUS
<1>1. e \in ErrandRow
  BY AtWorkRow
<1>2. /\ r \in ErrandRow /\ r.pc = pc /\ r.op = e.op /\ r.who = e.who
      /\ r.seen = e.seen /\ r.new = e.new
  BY <1>1 DEF ErrandRow
<1>3. errand' = [errand EXCEPT ![k] = r]
  BY DEF Advance, ImagesTyped
<1> QED
  BY <1>2, <1>3 DEF Who

\* A request that reads, begins or ends: the columns, the store and the brand stay.
LEMMA ErrandAlone ==
    ASSUME ImagesInv, NEW k \in Clerks, NEW r \in {Unused} \cup ErrandRow,
           errand' = [errand EXCEPT ![k] = r],
           UNCHANGED <<picture, stored, uploaded, brandLife>>,
           dangling' \subseteq Pictured, dangling \subseteq dangling',
           r.pc = "destroy" => r.seen \in Uploads /\ picture[r.who] = r.seen /\ r.who \in Pictured,
           r.pc = "write" => r.new = 0, Meant(r),
           \A w \in Pictured : Mends(k, w) => Mends(k, w)' \/ w \in dangling',
           NothingLost'
    PROVE  ImagesInv'
<1>1. /\ errand' \in [Clerks -> {Unused} \cup ErrandRow]
      /\ errand'[k] = r
      /\ \A l \in Clerks : l # k => errand'[l] = errand[l]
  BY OneErrand DEF ImagesInv
<1>2. ImagesTyped' /\ NamedOnce' /\ \A l \in Clerks : Meant(errand[l])'
  BY <1>1 DEF ImagesInv, ImagesTyped, NamedOnce, Uploads
<1>3. Destroying'
  BY <1>1 DEF ImagesInv, Destroying, NamedOnce, Uploads, Who
<1>4. Naming'
  <2>1. \A n : Fresh(n) => Fresh(n)'
    BY <1>1 DEF Fresh
  <2> QED
    BY <1>1, <2>1 DEF ImagesInv, Naming
<1>5. ASSUME NEW w \in Pictured PROVE NamesStored(w)'
  <2>1. \A l \in Clerks : Mends(l, w) => Mends(l, w)' \/ w \in dangling'
    BY <1>1 DEF Mends, Who
  <2> QED
    BY <2>1 DEF ImagesInv, NamesStored
<1> QED
  BY <1>2, <1>3, <1>4, <1>5 DEF ImagesInv

\* One request at a time: when it does not touch the columns, the store and the brand.
LEMMA NothingLostAlone ==
    ASSUME ImagesInv, NEW k \in Clerks, errand[k].pc # "idle",
           NEW r \in {Unused} \cup ErrandRow, errand' = [errand EXCEPT ![k] = r],
           UNCHANGED <<picture, stored, brandLife, apart>>, left \subseteq left',
           errand[k].pc # "write" \/ errand[k].new \in left',
           r.pc # "idle" => r.who = Who(k) /\ r.op = errand[k].op,
           apart => /\ r.pc \in Changing => picture[r.who] \notin stored
                    /\ r.pc \in Changing \cup {"destroy"} /\ r.who = "brand" /\ r.op # "create"
                         => brandLife # "none"
                    /\ r.pc = "destroy" => r.seen = picture[r.who]
    PROVE  NothingLost'
<1>1. /\ errand' \in [Clerks -> {Unused} \cup ErrandRow]
      /\ errand'[k] = r
      /\ \A l \in Clerks : l # k => errand'[l] = errand[l]
  BY OneErrand DEF ImagesInv
<1> SUFFICES ASSUME apart PROVE NothingLost'
  BY DEF NothingLost
<1>2. \A l \in Clerks : l # k => errand'[l].pc = "idle" /\ errand[l].pc = "idle"
  BY <1>1 DEF ImagesInv, NothingLost
<1>3. stored \subseteq left' \cup {picture[w] : w \in Pictured}
  <2>1. \A l \in Clerks : errand[l].pc = "write" => l = k
    BY <1>2
  <2> QED
    BY <2>1 DEF ImagesInv, NothingLost
<1>4. brandLife' = "none" => picture'["brand"] = 0
  BY DEF ImagesInv, NothingLost
<1>5. ASSUME NEW l \in Clerks
      PROVE  /\ errand'[l].pc \in Changing => picture'[Who(l)'] \notin stored'
             /\ errand'[l].pc \in Changing \cup {"destroy"} /\ Who(l)' = "brand"
                    /\ errand'[l].op # "create" => brandLife' # "none"
             /\ errand'[l].pc # "idle" /\ errand'[l].op = "create" => brandLife' = "none"
             /\ errand'[l].pc = "destroy" => errand'[l].seen = picture'[Who(l)']
  BY <1>1, <1>2 DEF ImagesInv, NothingLost, Who, Changing
<1> QED
  BY <1>2, <1>3, <1>4, <1>5 DEF NothingLost

LEMMA UnusedIsIdle == Unused.pc = "idle" /\ Meant(Unused)
BY DEF Unused, Meant

LEMMA ReadRowStep ==
    ASSUME ImagesInv, NEW k \in Clerks, ReadRow(k)
    PROVE  ImagesInv'
<1> PICK p, e : p = picture[Who(k)] /\ e = errand[k]
  OBVIOUS
<1>1. /\ e \in ErrandRow /\ e.pc = "read" /\ p \in 0 .. uploaded /\ uploaded \in Nat
      /\ UNCHANGED <<picture, brandLife, stored, uploaded, apart, dangling, left>>
  <2>1. e.pc = "read" /\ UNCHANGED <<picture, brandLife, stored, uploaded, apart, dangling, left>>
    BY DEF ReadRow, Limits
  <2>2. e \in ErrandRow
    BY <2>1, AtWorkRow DEF ImagesInv
  <2> QED
    BY <2>1, <2>2 DEF ImagesInv, ImagesTyped, ErrandRow, Who
<1>2. CASE Over(k)
  <2>1. errand' = [errand EXCEPT ![k] = Unused]
    BY <1>2 DEF Over
  <2>2. NothingLost'
    BY <1>1, <2>1, UnusedIsIdle, NothingLostAlone DEF Changing
  <2>3. \A w \in Pictured : ~ Mends(k, w)
    BY <1>1 DEF Mends
  <2> QED
    BY <1>1, <2>1, <2>2, <2>3, UnusedIsIdle, ErrandAlone DEF ImagesInv, ImagesTyped
<1>3. CASE ~ Over(k)
  <2> PICK pc : pc = (IF p # 0 THEN "destroy" ELSE e.op)
    OBVIOUS
  <2>1. /\ errand' = [errand EXCEPT ![k].seen = p, ![k].pc = pc]
        /\ Who(k) = "brand" => brandLife = "live" /\ (e.op = "clear" => p # 0)
    BY <1>3 DEF ReadRow
  <2>2. /\ e.op # "create" /\ pc \in {"destroy", "store", "clear", "drop"} /\ p \in Nat
        /\ pc = "destroy" => p # 0
    BY <1>1 DEF ImagesInv, Meant, ErrandRow, ErrandSteps
  <2>a. errand[k].pc # "idle" /\ errand[k].op # "create" /\ ImagesTyped
    BY <1>1, <2>2 DEF ImagesInv
  <2>3. PICK r \in ErrandRow :
          /\ errand' = [errand EXCEPT ![k] = r] /\ r.pc = pc /\ r.op = e.op
          /\ r.who = Who(k) /\ r.seen = p /\ Meant(r)
    <3> PICK r : r = [e EXCEPT !.seen = p, !.pc = pc]
      OBVIOUS
    <3>1. r \in ErrandRow /\ r.pc = pc /\ r.op = e.op /\ r.who = e.who /\ r.seen = p
      BY <1>1, <2>2 DEF ErrandRow, ErrandSteps
    <3>2. errand' = [errand EXCEPT ![k] = r]
      BY <2>1, <2>a DEF ImagesTyped
    <3> QED
      BY <2>2, <3>1, <3>2 DEF Who, Meant
  <2>4. \A w \in Pictured : ~ Mends(k, w)
    BY <1>1 DEF Mends
  <2>5. pc # "write" /\ pc # "idle" /\ Who(k) \in Pictured
        /\ (pc = "destroy" => p \in Uploads)
    BY <1>1, <2>2 DEF Who, ErrandRow, Uploads
  <2>6. pc \in Changing => picture[Who(k)] \notin stored
    <3>1. 0 \notin stored
      BY DEF ImagesInv, ImagesTyped, Uploads
    <3> QED
      BY <2>2, <3>1 DEF Changing
  <2>7. NothingLost'
    <3>1. /\ errand[k].pc # "idle" /\ errand[k].pc # "write" /\ left \subseteq left'
          /\ r.op = errand[k].op /\ r.who = Who(k)
      BY <1>1, <2>3
    <3>2. apart => /\ r.pc \in Changing => picture[r.who] \notin stored
                   /\ r.pc \in Changing \cup {"destroy"} /\ r.who = "brand" /\ r.op # "create"
                        => brandLife # "none"
                   /\ r.pc = "destroy" => r.seen = picture[r.who]
      BY <2>1, <2>3, <2>6
    <3> QED
      BY <1>1, <2>3, <3>1, <3>2, NothingLostAlone
  <2>8. r.pc = "destroy" => r.seen \in Uploads /\ picture[r.who] = r.seen /\ r.who \in Pictured
    BY <2>3, <2>5
  <2>9. dangling' \subseteq Pictured /\ dangling \subseteq dangling' /\ r.pc # "write"
    BY <1>1, <2>3, <2>5 DEF ImagesInv, ImagesTyped
  <2> QED
    BY <1>1, <2>1, <2>3, <2>4, <2>7, <2>8, <2>9, ErrandAlone
<1> QED
  BY <1>2, <1>3

\* The same for a request that ends.
LEMMA EndsAlone ==
    ASSUME ImagesInv, NEW k \in Clerks, errand[k].pc # "idle", Over(k),
           UNCHANGED <<picture, stored, uploaded, brandLife, apart>>,
           dangling \subseteq dangling', dangling' \subseteq Pictured, left \subseteq left',
           errand[k].pc # "write" \/ errand[k].new \in left',
           \A w \in Pictured : Mends(k, w) => w \in dangling'
    PROVE  ImagesInv'
<1>1. errand' = [errand EXCEPT ![k] = Unused]
  BY DEF Over
<1>2. NothingLost'
  BY <1>1, UnusedIsIdle, NothingLostAlone DEF Changing
<1> QED
  BY <1>1, <1>2, UnusedIsIdle, ErrandAlone

LEMMA FindCodeStep ==
    ASSUME ImagesInv, NEW k \in Clerks, FindCode(k)
    PROVE  ImagesInv'
<1>1. /\ errand[k].pc = "findCode" /\ errand[k].op = "create" /\ Who(k) = "brand"
      /\ errand[k].new = 0 /\ ImagesTyped
      /\ UNCHANGED <<picture, brandLife, stored, uploaded, apart, dangling, left>>
  BY DEF FindCode, Limits, ImagesInv, Meant, Who
<1>2. (\A w \in Pictured : ~ Mends(k, w)) /\ dangling \subseteq Pictured
  BY <1>1 DEF Mends, ImagesTyped
<1>3. CASE Over(k)
  BY <1>1, <1>2, <1>3, EndsAlone
<1>4. ASSUME NEW pc \in {"store", "write"}, Advance(k, pc) PROVE ImagesInv'
  <2>1. pc \in ErrandSteps /\ errand[k].pc # "idle"
    BY <1>1 DEF ErrandSteps
  <2>2. PICK r \in ErrandRow :
          /\ errand' = [errand EXCEPT ![k] = r] /\ r.pc = pc /\ r.op = errand[k].op
          /\ r.who = Who(k) /\ r.seen = errand[k].seen /\ r.new = errand[k].new
    BY <1>1, <1>4, <2>1, RowMoves
  <2>3. Meant(r)
    BY <1>1, <1>4, <2>2 DEF Meant
  <2>4. apart => picture["brand"] \notin stored
    <3>1. 0 \notin stored
      BY <1>1 DEF ImagesTyped, Uploads
    <3>2. apart => brandLife = "none" /\ picture["brand"] = 0
      BY <1>1 DEF ImagesInv, NothingLost
    <3> QED
      BY <3>1, <3>2
  <2>5. NothingLost'
    <3>1. /\ errand[k].pc # "idle" /\ errand[k].pc # "write" /\ left \subseteq left'
          /\ r.op = errand[k].op /\ r.who = Who(k)
      BY <1>1, <2>2
    <3>2. apart => /\ r.pc \in Changing => picture[r.who] \notin stored
                   /\ r.pc \in Changing \cup {"destroy"} /\ r.who = "brand" /\ r.op # "create"
                        => brandLife # "none"
                   /\ r.pc = "destroy" => r.seen = picture[r.who]
      BY <1>1, <1>4, <2>2, <2>4
    <3> QED
      BY <1>1, <2>2, <3>1, <3>2, NothingLostAlone
  <2>6. r.pc # "destroy" /\ r.new = 0
    BY <1>1, <1>4, <2>2
  <2> QED
    BY <1>1, <1>2, <2>2, <2>3, <2>5, <2>6, ErrandAlone
<1> QED
  BY <1>3, <1>4 DEF FindCode

LEMMA FailErrandStep ==
    ASSUME ImagesInv, NEW k \in Clerks, FailErrand(k)
    PROVE  ImagesInv'
<1>1. /\ errand[k].pc # "idle" /\ Over(k)
      /\ UNCHANGED <<picture, stored, uploaded, brandLife, apart>>
  BY DEF FailErrand
<1>2. /\ left \subseteq left' /\ dangling \subseteq dangling'
      /\ errand[k].pc # "write" \/ errand[k].new \in left'
  BY DEF FailErrand
<1>3. dangling' \subseteq Pictured
  <2>1. Who(k) \in Pictured
    BY <1>1, AtWorkRow DEF ImagesInv, ErrandRow, Who
  <2> QED
    BY <2>1 DEF FailErrand, ImagesInv, ImagesTyped
<1>4. \A w \in Pictured : Mends(k, w) => w \in dangling'
  BY DEF Mends, FailErrand
<1> QED
  BY <1>1, <1>2, <1>3, <1>4, EndsAlone

LEMMA BeginErrandStep ==
    ASSUME ImagesInv, NEW k \in Clerks, BeginErrand(k)
    PROVE  ImagesInv'
<1> PICK r : r \in Errands /\ errand' = [errand EXCEPT ![k] = r]
  BY DEF BeginErrand
<1>1. /\ errand[k].pc = "idle"
      /\ UNCHANGED <<picture, brandLife, stored, uploaded, apart, dangling, left>>
  BY DEF BeginErrand
<1>2. /\ r \in ErrandRow /\ r.pc \in {"read", "findCode"} /\ Meant(r)
      /\ r.op = "create" => brandLife = "none"
  BY DEF Errands, Errand, ErrandRow, ErrandSteps, Pictured, Meant
<1>3. NothingLost'
  <2>1. /\ errand'[k] = r
        /\ \A l \in Clerks : l # k => errand'[l] = errand[l]
    BY <1>2, OneErrand DEF ImagesInv
  <2> SUFFICES ASSUME apart PROVE NothingLost'
    BY <1>1 DEF NothingLost
  <2>2. \A l \in Clerks : errand[l].pc = "idle"
    BY DEF BeginErrand
  <2>3. stored \subseteq left \cup {picture[w] : w \in Pictured}
    BY <2>2 DEF ImagesInv, NothingLost
  <2>4. brandLife = "none" => picture["brand"] = 0
    BY DEF ImagesInv, NothingLost
  <2> QED
    BY <1>1, <1>2, <2>1, <2>2, <2>3, <2>4 DEF NothingLost, Changing
<1>4. (\A w \in Pictured : ~ Mends(k, w)) /\ dangling \subseteq Pictured
  BY <1>1 DEF Mends, ImagesInv, ImagesTyped
<1> QED
  BY <1>1, <1>2, <1>3, <1>4, ErrandAlone

----------------------------------------------------------------------------
\* What is destroyed is the picture of the request's own row, and its column is still to be mended.
LEMMA DestroyImageStep ==
    ASSUME ImagesInv, NEW k \in Clerks, DestroyImage(k)
    PROVE  ImagesInv'
<1>1. /\ errand[k].pc = "destroy" /\ ImagesTyped /\ Meant(errand[k])
      /\ UNCHANGED <<picture, brandLife, uploaded, apart, dangling, left>>
  BY DEF DestroyImage, Limits, ImagesInv
<1>2. errand[k] \in ErrandRow
  BY <1>1, AtWorkRow
<1>3. /\ AfterDestroy(k) \in ErrandSteps /\ AfterDestroy(k) \in {"clear", "store", "drop"}
      /\ Who(k) # "brand" => AfterDestroy(k) = "clear"
      /\ errand[k].op # "create"
  BY <1>1, <1>2 DEF AfterDestroy, Meant, ErrandRow, ErrandSteps, Who
<1>4. PICK r \in ErrandRow :
        /\ errand' = [errand EXCEPT ![k] = r] /\ r.pc = AfterDestroy(k) /\ r.op = errand[k].op
        /\ r.who = Who(k) /\ r.seen = errand[k].seen /\ r.new = errand[k].new
  <2>1. Advance(k, AfterDestroy(k)) /\ errand[k].pc # "idle"
    BY <1>1 DEF DestroyImage
  <2> QED
    BY <1>1, <1>3, <2>1, RowMoves
<1>5. /\ errand' \in [Clerks -> {Unused} \cup ErrandRow]
      /\ errand'[k] = r
      /\ \A l \in Clerks : l # k => errand'[l] = errand[l]
  BY <1>1, <1>4, OneErrand
<1>6. Meant(r) /\ r.pc \notin {"destroy", "write", "idle"}
  BY <1>3, <1>4 DEF Meant
<1>7. /\ stored' = stored \ {errand[k].seen} /\ errand[k].seen \in Uploads
      /\ \A w \in Pictured : picture[w] = errand[k].seen => w = Who(k)
  BY <1>1 DEF DestroyImage, ImagesInv, Destroying
<1>8. ImagesTyped' /\ NamedOnce' /\ \A l \in Clerks : Meant(errand[l])'
  BY <1>1, <1>5, <1>6, <1>7 DEF ImagesInv, ImagesTyped, NamedOnce, Uploads
<1>9. Destroying'
  BY <1>1, <1>5, <1>6 DEF ImagesInv, Destroying, Uploads, Who
<1>10. Naming'
  <2>1. \A n : Fresh(n) => Fresh(n)'
    BY <1>1, <1>5, <1>6, <1>7 DEF Fresh
  <2> QED
    BY <1>5, <1>6, <2>1 DEF ImagesInv, Naming
<1>11. ASSUME NEW w \in Pictured PROVE NamesStored(w)'
  <2>1. ASSUME w # Who(k) PROVE NamesStored(w)'
    <3>1. picture[w] \in stored => picture[w] \in stored'
      BY <1>7, <2>1
    <3>2. \A l \in Clerks : Mends(l, w) => Mends(l, w)'
      BY <1>5, <2>1 DEF Mends, Who
    <3> QED
      BY <1>1, <3>1, <3>2 DEF ImagesInv, NamesStored
  <2>2. ASSUME w = Who(k) PROVE Mends(k, w)'
    <3>1. errand[k].seen # 0
      BY <1>7 DEF Uploads
    <3> QED
      BY <1>3, <1>4, <1>5, <1>6, <2>2, <3>1 DEF Mends, Who
  <2> QED
    BY <2>1, <2>2 DEF NamesStored
<1>12. NothingLost'
  <2> SUFFICES ASSUME apart PROVE NothingLost'
    BY <1>1 DEF NothingLost
  <2>1. \A l \in Clerks : l # k => errand[l].pc = "idle" /\ errand'[l].pc = "idle"
    BY <1>1, <1>5 DEF ImagesInv, NothingLost
  <2>2. stored' \subseteq left \cup {picture[w] : w \in Pictured}
    <3>1. \A l \in Clerks : errand[l].pc # "write"
      BY <1>1, <2>1
    <3> QED
      BY <1>7, <3>1 DEF ImagesInv, NothingLost
  <2>3. /\ picture[Who(k)] \notin stored'
        /\ Who(k) = "brand" => brandLife # "none"
        /\ brandLife = "none" => picture["brand"] = 0
    BY <1>1, <1>3, <1>7 DEF ImagesInv, NothingLost
  <2>4. ASSUME NEW l \in Clerks
        PROVE  /\ errand'[l].pc \in Changing => picture'[Who(l)'] \notin stored'
               /\ errand'[l].pc \in Changing \cup {"destroy"} /\ Who(l)' = "brand"
                      /\ errand'[l].op # "create" => brandLife' # "none"
               /\ errand'[l].pc # "idle" /\ errand'[l].op = "create" => brandLife' = "none"
               /\ errand'[l].pc = "destroy" => errand'[l].seen = picture'[Who(l)']
    <3>1. CASE l = k
      BY <1>1, <1>3, <1>4, <1>5, <1>6, <2>3, <3>1 DEF Who
    <3>2. CASE l # k
      BY <2>1, <3>2 DEF Changing
    <3> QED
      BY <3>1, <3>2
  <2> QED
    BY <1>1, <1>7, <2>1, <2>2, <2>3, <2>4 DEF NothingLost
<1> QED
  BY <1>8, <1>9, <1>10, <1>11, <1>12 DEF ImagesInv

LEMMA UploadImageStep ==
    ASSUME ImagesInv, NEW k \in Clerks, UploadImage(k)
    PROVE  ImagesInv'
<1> PICK n : n = uploaded + 1
  OBVIOUS
<1>1. /\ errand[k].pc = "store" /\ ImagesTyped /\ Meant(errand[k])
      /\ UNCHANGED <<picture, brandLife, apart, dangling, left>>
      /\ uploaded' = n /\ stored' = stored \cup {n} /\ uploaded \in Nat /\ n \in Nat
  BY DEF UploadImage, Limits, ImagesInv, ImagesTyped
<1>2. PICK r \in ErrandRow :
        /\ errand' = [errand EXCEPT ![k] = r] /\ r.pc = "write" /\ r.op = errand[k].op
        /\ r.who = Who(k) /\ r.seen = errand[k].seen /\ r.new = n /\ Meant(r)
  <2> PICK e, r : e = errand[k] /\ r = [e EXCEPT !.pc = "write", !.new = n]
    OBVIOUS
  <2>1. e \in ErrandRow
    BY <1>1, AtWorkRow
  <2>2. /\ r \in ErrandRow /\ r.pc = "write" /\ r.op = e.op /\ r.who = e.who
        /\ r.seen = e.seen /\ r.new = n
    BY <1>1, <2>1 DEF ErrandRow, ErrandSteps
  <2>3. errand' = [errand EXCEPT ![k] = r]
    BY <1>1 DEF UploadImage, ImagesTyped
  <2>4. Meant(r)
    BY <1>1, <2>2 DEF Meant
  <2> QED
    BY <2>2, <2>3, <2>4 DEF Who
<1>3. /\ errand' \in [Clerks -> {Unused} \cup ErrandRow]
      /\ errand'[k] = r
      /\ \A l \in Clerks : l # k => errand'[l] = errand[l]
  BY <1>1, <1>2, OneErrand
<1>4. /\ \A m \in Uploads : m \in Uploads' /\ m # n
      /\ n \in Uploads' /\ n # 0 /\ n \notin stored
      /\ \A w \in Pictured : picture[w] # n /\ picture[w] \in 0 .. uploaded'
  BY <1>1 DEF ImagesTyped, Uploads
<1>5. ImagesTyped' /\ NamedOnce' /\ \A l \in Clerks : Meant(errand[l])'
  <2>1. picture' \in [Pictured -> 0 .. uploaded'] /\ stored' \subseteq Uploads'
    BY <1>1, <1>4 DEF ImagesTyped
  <2> QED
    BY <1>1, <1>2, <1>3, <2>1 DEF ImagesInv, ImagesTyped, NamedOnce
<1>6. Destroying'
  BY <1>1, <1>2, <1>3, <1>4 DEF ImagesInv, Destroying, Who
<1>7. Naming'
  <2>1. \A m : Fresh(m) => Fresh(m)' /\ m # n
    BY <1>1, <1>2, <1>3, <1>4 DEF Fresh
  <2>2. Fresh(n)'
    BY <1>1, <1>2, <1>3, <1>4 DEF Fresh, ImagesInv, Destroying
  <2>3. \A l \in Clerks : l # k /\ errand[l].pc = "write" =>
            errand[l].new # n /\ (errand[l].new = 0 \/ Fresh(errand[l].new)')
    BY <1>3, <1>4, <2>1 DEF ImagesInv, Naming
  <2> QED
    BY <1>2, <1>3, <2>2, <2>3 DEF ImagesInv, Naming
<1>8. ASSUME NEW w \in Pictured PROVE NamesStored(w)'
  <2>1. \A l \in Clerks : Mends(l, w) => Mends(l, w)'
    BY <1>1, <1>2, <1>3 DEF Mends, Who
  <2> QED
    BY <1>1, <2>1 DEF ImagesInv, NamesStored
<1>9. NothingLost'
  <2> SUFFICES ASSUME apart PROVE NothingLost'
    BY <1>1 DEF NothingLost
  <2>1. \A l \in Clerks : l # k => errand[l].pc = "idle" /\ errand'[l].pc = "idle"
    BY <1>1, <1>3 DEF ImagesInv, NothingLost
  <2>2. stored' \subseteq left \cup {picture[w] : w \in Pictured} \cup {n}
    <3>1. \A l \in Clerks : errand[l].pc # "write"
      BY <1>1, <2>1
    <3> QED
      BY <1>1, <3>1 DEF ImagesInv, NothingLost
  <2>3. n \in {errand'[l].new : l \in {l \in Clerks : errand'[l].pc = "write"}}
    BY <1>2, <1>3
  <2>4. /\ picture[Who(k)] \notin stored'
        /\ Who(k) = "brand" /\ errand[k].op # "create" => brandLife # "none"
        /\ errand[k].op = "create" => brandLife = "none"
        /\ brandLife = "none" => picture["brand"] = 0
    <3>1. Who(k) \in Pictured
      BY <1>1, AtWorkRow DEF ErrandRow, Who
    <3> QED
      BY <1>1, <1>4, <3>1 DEF ImagesInv, NothingLost, Changing
  <2>5. ASSUME NEW l \in Clerks
        PROVE  /\ errand'[l].pc \in Changing => picture'[Who(l)'] \notin stored'
               /\ errand'[l].pc \in Changing \cup {"destroy"} /\ Who(l)' = "brand"
                      /\ errand'[l].op # "create" => brandLife' # "none"
               /\ errand'[l].pc # "idle" /\ errand'[l].op = "create" => brandLife' = "none"
               /\ errand'[l].pc = "destroy" => errand'[l].seen = picture'[Who(l)']
    <3>1. CASE l = k
      BY <1>1, <1>2, <1>3, <2>4, <3>1 DEF Who
    <3>2. CASE l # k
      BY <2>1, <3>2 DEF Changing
    <3> QED
      BY <3>1, <3>2
  <2> QED
    BY <1>1, <2>1, <2>2, <2>3, <2>4, <2>5 DEF NothingLost
<1> QED
  BY <1>5, <1>6, <1>7, <1>8, <1>9 DEF ImagesInv

\* The columns that are still to be mended after k's write: the one k wrote names nothing, or
\* what k has stored.
LEMMA PutStores ==
    ASSUME ImagesInv, NEW k \in Clerks, errand[k].pc # "idle", NEW n \in 0 .. uploaded, Put(k, n),
           NEW r \in {Unused} \cup ErrandRow, errand' = [errand EXCEPT ![k] = r],
           r.pc \notin {"destroy", "write"}, Meant(r),
           UNCHANGED <<stored, uploaded>>, n = 0 \/ Fresh(n),
           n = 0 \/ \A l \in Clerks : l # k /\ errand[l].pc = "write" => errand[l].new # n,
           brandLife' \in {"none", "live", "deleted"},
           Who(k) # "brand" => brandLife' = brandLife,
           NothingLost'
    PROVE  ImagesInv'
<1>1. /\ errand' \in [Clerks -> {Unused} \cup ErrandRow]
      /\ errand'[k] = r
      /\ \A l \in Clerks : l # k => errand'[l] = errand[l]
  BY OneErrand DEF ImagesInv
<1>2. Who(k) \in Pictured
  BY AtWorkRow DEF ImagesInv, ErrandRow, Who
<1>3. /\ picture' \in [Pictured -> 0 .. uploaded]
      /\ picture'[Who(k)] = n
      /\ \A w \in Pictured : w # Who(k) => picture'[w] = picture[w]
      /\ dangling' = dangling \ {Who(k)}
  BY <1>2 DEF Put, ImagesInv, ImagesTyped
<1>4. ImagesTyped' /\ \A l \in Clerks : Meant(errand[l])'
  BY <1>1, <1>3 DEF ImagesInv, ImagesTyped, Uploads
<1>5. NamedOnce'
  <2>1. \A w \in Pictured : n = 0 \/ picture[w] # n
    BY DEF Fresh
  <2> QED
    BY <1>3, <2>1 DEF ImagesInv, NamedOnce
<1>6. Destroying'
  <2>1. ASSUME NEW l \in Clerks, l # k, errand[l].pc = "destroy"
        PROVE  errand[l].seen # n /\ errand[l].seen \in Uploads
    <3>1. errand[l].seen \in Uploads
      BY <2>1 DEF ImagesInv, Destroying
    <3> QED
      BY <2>1, <3>1 DEF Fresh, Uploads
  <2> QED
    BY <1>1, <1>3, <2>1 DEF ImagesInv, Destroying, Uploads, Who
<1>7. Naming'
  <2>1. ASSUME NEW l \in Clerks, l # k, errand[l].pc = "write", errand[l].new # 0
        PROVE  Fresh(errand[l].new)'
    <3>1. Fresh(errand[l].new) /\ errand[l].new # n
      BY <2>1 DEF ImagesInv, Naming
    <3> QED
      BY <1>1, <1>3, <2>1, <3>1 DEF Fresh
  <2> QED
    BY <1>1, <2>1 DEF ImagesInv, Naming
<1>8. ASSUME NEW w \in Pictured PROVE NamesStored(w)'
  <2>1. ASSUME w = Who(k) PROVE picture'[w] = 0 \/ picture'[w] \in stored'
    BY <1>3, <2>1 DEF Fresh
  <2>2. ASSUME w # Who(k) PROVE NamesStored(w)'
    <3>1. \A l \in Clerks : Mends(l, w) => Mends(l, w)'
      BY <1>1, <2>2 DEF Mends, Who
    <3>2. w = "brand" => brandLife' = brandLife
      BY <2>2
    <3> QED
      BY <1>3, <2>2, <3>1, <3>2 DEF ImagesInv, NamesStored
  <2> QED
    BY <2>1, <2>2 DEF NamesStored
<1> QED
  BY <1>4, <1>5, <1>6, <1>7, <1>8 DEF ImagesInv

LEMMA ClearStep ==
    ASSUME ImagesInv, NEW k \in Clerks, Clear(k)
    PROVE  ImagesInv'
<1>1. /\ errand[k].pc = "clear" /\ ImagesTyped /\ Meant(errand[k]) /\ Put(k, 0)
      /\ UNCHANGED <<brandLife, stored, uploaded, apart, left>>
  BY DEF Clear, Limits, ImagesInv
<1>2. errand[k].op # "create" /\ Who(k) \in Pictured
  BY <1>1, AtWorkRow DEF Meant, ErrandRow, Who
<1>3. PICK r \in {Unused} \cup ErrandRow :
        /\ errand' = [errand EXCEPT ![k] = r] /\ r.pc \in {"idle", "store"} /\ Meant(r)
        /\ r.pc = "store" => r.op = errand[k].op /\ r.who = Who(k)
  <2>1. CASE Over(k)
    BY <2>1, UnusedIsIdle DEF Over
  <2>2. CASE Advance(k, "store")
    <3>1. "store" \in ErrandSteps /\ errand[k].pc # "idle"
      BY <1>1 DEF ErrandSteps
    <3>2. PICK r \in ErrandRow :
            /\ errand' = [errand EXCEPT ![k] = r] /\ r.pc = "store" /\ r.op = errand[k].op
            /\ r.who = Who(k) /\ r.seen = errand[k].seen /\ r.new = errand[k].new
      BY <1>1, <2>2, <3>1, RowMoves
    <3>3. Meant(r)
      BY <1>2, <3>2 DEF Meant
    <3> QED
      BY <3>2, <3>3
  <2> QED
    BY <2>1, <2>2 DEF Clear
<1>4. /\ errand'[k] = r
      /\ \A l \in Clerks : l # k => errand'[l] = errand[l]
  BY <1>1, <1>3, OneErrand
<1>5. /\ picture'[Who(k)] = 0
      /\ \A w \in Pictured : w # Who(k) => picture'[w] = picture[w]
      /\ 0 \notin stored
  BY <1>1, <1>2 DEF Put, ImagesTyped, Uploads
<1>6. NothingLost'
  <2> SUFFICES ASSUME apart PROVE NothingLost'
    BY <1>1 DEF NothingLost
  <2>1. \A l \in Clerks : l # k => errand[l].pc = "idle" /\ errand'[l].pc = "idle"
    BY <1>1, <1>4 DEF ImagesInv, NothingLost
  <2>2. picture[Who(k)] \notin stored /\ (Who(k) = "brand" => brandLife # "none")
    BY <1>1, <1>2 DEF ImagesInv, NothingLost, Changing
  <2>3. stored \subseteq left \cup {picture'[w] : w \in Pictured}
    <3>1. \A l \in Clerks : errand[l].pc # "write"
      BY <1>1, <2>1
    <3>2. stored \subseteq left \cup {picture[w] : w \in Pictured}
      BY <3>1 DEF ImagesInv, NothingLost
    <3> QED
      BY <1>5, <2>2, <3>2
  <2>4. brandLife = "none" => picture'["brand"] = 0
    BY <1>5, <2>2 DEF ImagesInv, NothingLost, Pictured
  <2>5. ASSUME NEW l \in Clerks
        PROVE  /\ errand'[l].pc \in Changing => picture'[Who(l)'] \notin stored'
               /\ errand'[l].pc \in Changing \cup {"destroy"} /\ Who(l)' = "brand"
                      /\ errand'[l].op # "create" => brandLife' # "none"
               /\ errand'[l].pc # "idle" /\ errand'[l].op = "create" => brandLife' = "none"
               /\ errand'[l].pc = "destroy" => errand'[l].seen = picture'[Who(l)']
    <3>1. CASE l = k
      BY <1>1, <1>2, <1>3, <1>4, <1>5, <2>2, <3>1 DEF Who, Changing
    <3>2. CASE l # k
      BY <2>1, <3>2 DEF Changing
    <3> QED
      BY <3>1, <3>2
  <2> QED
    BY <1>1, <2>1, <2>3, <2>4, <2>5 DEF NothingLost
<1>7. 0 \in 0 .. uploaded /\ brandLife \in {"none", "live", "deleted"}
  BY <1>1 DEF ImagesTyped
<1> QED
  BY <1>1, <1>3, <1>6, <1>7, PutStores

LEMMA WriteUrlStep ==
    ASSUME ImagesInv, NEW k \in Clerks, WriteUrl(k)
    PROVE  ImagesInv'
<1> PICK n : n = errand[k].new
  OBVIOUS
<1>1. /\ errand[k].pc = "write" /\ ImagesTyped /\ Meant(errand[k]) /\ Put(k, n)
      /\ errand' = [errand EXCEPT ![k] = Unused]
      /\ brandLife' = IF errand[k].op = "create" THEN "live" ELSE brandLife
      /\ UNCHANGED <<stored, uploaded, apart, left>>
  BY DEF WriteUrl, Limits, ImagesInv, Over
<1>2. /\ Who(k) \in Pictured
      /\ errand[k].op = "create" => Who(k) = "brand"
  BY <1>1, AtWorkRow DEF Meant, ErrandRow, Who
<1>3. /\ n = 0 \/ Fresh(n)
      /\ n = 0 \/ \A l \in Clerks : l # k /\ errand[l].pc = "write" => errand[l].new # n
  BY <1>1 DEF ImagesInv, Naming
<1>4. n \in 0 .. uploaded
  <2>1. uploaded \in Nat /\ stored \subseteq 1 .. uploaded
    BY <1>1 DEF ImagesTyped, Uploads
  <2>2. n = 0 \/ n \in stored
    BY <1>3 DEF Fresh
  <2>3. 0 \in 0 .. uploaded /\ \A m \in stored : m \in 0 .. uploaded
    BY <2>1
  <2> QED
    BY <2>2, <2>3
<1>5. /\ errand'[k] = Unused
      /\ \A l \in Clerks : l # k => errand'[l] = errand[l]
  BY <1>1, OneErrand
<1>6. /\ picture'[Who(k)] = n
      /\ \A w \in Pictured : w # Who(k) => picture'[w] = picture[w]
  BY <1>1, <1>2 DEF Put, ImagesTyped
<1>7. NothingLost'
  <2> SUFFICES ASSUME apart PROVE NothingLost'
    BY <1>1 DEF NothingLost
  <2>1. \A l \in Clerks : l # k => errand[l].pc = "idle"
    BY <1>1 DEF ImagesInv, NothingLost
  <2>2. \A l \in Clerks : errand'[l].pc = "idle"
    BY <1>5, <2>1, UnusedIsIdle
  <2>3. picture[Who(k)] \notin stored
    BY <1>1, <1>2 DEF ImagesInv, NothingLost, Changing
  <2>4. stored \subseteq left \cup {picture'[w] : w \in Pictured}
    <3>1. stored \subseteq left \cup {picture[w] : w \in Pictured} \cup {n}
      BY <1>1, <2>1 DEF ImagesInv, NothingLost
    <3> QED
      BY <1>2, <1>6, <2>3, <3>1
  <2>5. brandLife' = "none" => picture'["brand"] = 0
    <3>1. Who(k) = "brand" => brandLife' # "none"
      BY <1>1, <1>2 DEF ImagesInv, NothingLost, Changing
    <3> QED
      BY <1>1, <1>6, <3>1 DEF ImagesInv, NothingLost, Pictured
  <2> QED
    BY <1>1, <2>2, <2>4, <2>5 DEF NothingLost, Changing
<1>8. /\ brandLife' \in {"none", "live", "deleted"}
      /\ Who(k) # "brand" => brandLife' = brandLife
  BY <1>1, <1>2 DEF ImagesTyped
<1> QED
  BY <1>1, <1>3, <1>4, <1>7, <1>8, UnusedIsIdle, PutStores

LEMMA DropBrandStep ==
    ASSUME ImagesInv, NEW k \in Clerks, DropBrand(k)
    PROVE  ImagesInv'
<1>1. /\ errand[k].pc = "drop" /\ ImagesTyped
      /\ errand' = [errand EXCEPT ![k] = Unused]
      /\ brandLife' = "deleted"
      /\ UNCHANGED <<picture, stored, uploaded, apart, dangling, left>>
  BY DEF DropBrand, Limits, ImagesInv, Over
<1>2. /\ errand' \in [Clerks -> {Unused} \cup ErrandRow]
      /\ errand'[k] = Unused
      /\ \A l \in Clerks : l # k => errand'[l] = errand[l]
  BY <1>1, OneErrand
<1>3. ImagesTyped' /\ NamedOnce' /\ \A l \in Clerks : Meant(errand[l])'
  BY <1>1, <1>2, UnusedIsIdle DEF ImagesInv, ImagesTyped, NamedOnce, Uploads
<1>4. Destroying'
  BY <1>1, <1>2, UnusedIsIdle DEF ImagesInv, Destroying, Uploads, Who
<1>5. Naming'
  <2>1. \A n : Fresh(n) => Fresh(n)'
    BY <1>1, <1>2, UnusedIsIdle DEF Fresh
  <2> QED
    BY <1>2, <2>1, UnusedIsIdle DEF ImagesInv, Naming
<1>6. ASSUME NEW w \in Pictured PROVE NamesStored(w)'
  <2>1. w # "brand" => \A l \in Clerks : Mends(l, w) => Mends(l, w)'
    BY <1>1, <1>2 DEF Mends, Who
  <2> QED
    BY <1>1, <2>1 DEF ImagesInv, NamesStored
<1>7. NothingLost'
  <2> SUFFICES ASSUME apart PROVE NothingLost'
    BY <1>1 DEF NothingLost
  <2>1. \A l \in Clerks : l # k => errand[l].pc = "idle"
    BY <1>1 DEF ImagesInv, NothingLost
  <2>2. \A l \in Clerks : errand'[l].pc = "idle"
    BY <1>2, <2>1, UnusedIsIdle
  <2>3. stored \subseteq left \cup {picture[w] : w \in Pictured}
    <3>1. \A l \in Clerks : errand[l].pc # "write"
      BY <1>1, <2>1
    <3> QED
      BY <3>1 DEF ImagesInv, NothingLost
  <2> QED
    BY <1>1, <2>2, <2>3 DEF NothingLost, Changing
<1> QED
  BY <1>3, <1>4, <1>5, <1>6, <1>7 DEF ImagesInv

LEMMA ImagesStart == ImagesInit => ImagesInv
<1> SUFFICES ASSUME ImagesInit PROVE ImagesInv
  OBVIOUS
<1>1. \A k \in Clerks : errand[k] = Unused
  BY DEF ImagesInit
<1>2. ImagesTyped /\ \A k \in Clerks : Meant(errand[k])
  BY <1>1, UnusedIsIdle DEF ImagesInit, ImagesTyped
<1>3. NamedOnce /\ \A w \in Pictured : NamesStored(w)
  BY DEF ImagesInit, NamedOnce, NamesStored
<1>4. Destroying /\ Naming
  BY <1>1, UnusedIsIdle DEF Destroying, Naming
<1>5. NothingLost
  BY <1>1, UnusedIsIdle DEF ImagesInit, NothingLost, Changing, Pictured
<1> QED
  BY <1>2, <1>3, <1>4, <1>5 DEF ImagesInv

\* When nothing is in flight, a picture a live row names is in the store, however the requests
\* overlapped and wherever one of them failed, but for the columns a failed call left; and one
\* request at a time loses no picture.
THEOREM PicturesStayThere == ImagesSpec => []PicturesAreThere
<1>1. ImagesInv /\ [ImagesNext]_imageVars => ImagesInv'
  <2> SUFFICES ASSUME ImagesInv, [ImagesNext]_imageVars PROVE ImagesInv'
    OBVIOUS
  <2>1. CASE UNCHANGED imageVars
    BY <2>1 DEF ImagesInv, imageVars, ImagesTyped, NamedOnce, Destroying, Naming, Fresh,
                NamesStored, Mends, NothingLost, Uploads, Who
  <2>2. CASE ImagesNext
    BY <2>2, BeginErrandStep, FailErrandStep, ReadRowStep, FindCodeStep, DestroyImageStep,
       ClearStep, UploadImageStep, WriteUrlStep, DropBrandStep DEF ImagesNext
  <2> QED
    BY <2>1, <2>2
<1>2. ImagesInv => PicturesAreThere
  <2> SUFFICES ASSUME ImagesInv, \A k \in Clerks : errand[k].pc = "idle"
               PROVE  /\ \A w \in Pictured \ dangling :
                            \/ picture[w] = 0 \/ picture[w] \in stored
                            \/ w = "brand" /\ brandLife # "live"
                      /\ apart => stored \subseteq left \cup {picture[w] : w \in Pictured}
    BY DEF PicturesAreThere
  <2>1. \A w \in Pictured : NamesStored(w)
    BY DEF ImagesInv
  <2> QED
    BY <2>1 DEF ImagesInv, NamesStored, Mends, NothingLost
<1> QED
  BY ImagesStart, <1>1, <1>2, PTL DEF ImagesSpec

----------------------------------------------------------------------------
(***************************************************************************)
(* Chat: the types; one entry of the cache for the one open socket of a    *)
(* person who was never connected twice; and what is still owed to the     *)
(* members of a conversation while a message is on its way.                *)
(***************************************************************************)
MessageRow == [id : 1 .. MaxMessages, chat : Chats, from : Talkers]
PostRow == [id : 1 .. MaxMessages, chat : Chats, from : Talkers,
            pc : {"list", "send"}, to : SUBSET Talkers]
ChatRow == [id : Chats, from : Writers, all : SUBSET (Talkers \cup Writers),
            left : SUBSET (Talkers \cup Writers),
            pc : {"common", "create", "conflict", "participants", "done"}]

CopyRow == [id : Nat, by : Origins]
Copy(i) == [id |-> i, by |-> "service"]

PresenceTyped ==
    /\ link \in [Sockets -> {"new", "open", "closed"}]
    /\ cache \in [Talkers -> [socket : Sockets \cup {"none"}, isActive : BOOLEAN]]
    /\ mixed \subseteq Talkers

TalkTyped ==
    /\ members \in [Chats -> SUBSET Talkers]
    /\ chats \subseteq ChatRow
    /\ messages \subseteq MessageRow /\ IsFiniteSet(messages)
    /\ posts \subseteq PostRow
    /\ got \in [Sockets -> SUBSET CopyRow]
    /\ excused \in [1 .. MaxMessages -> SUBSET Talkers]

\* the cache knows the open socket of a person who was never connected twice
Present ==
    /\ \A p \in Talkers : cache[p].socket \in Sockets => OwnerOf[cache[p].socket] = p
    /\ \A s \in Sockets : link[s] = "open" /\ OwnerOf[s] \notin mixed
            => cache[OwnerOf[s]].socket = s

\* ids count the messages, and a message is sent by one request
Numbered ==
    /\ \A m \in messages : m.id <= Cardinality(messages)
    /\ \A m, n \in messages : m.id = n.id => m = n
    /\ \A a, b \in posts : a.id = b.id => a = b
    /\ \A a \in posts : \E m \in messages : m.id = a.id /\ m.chat = a.chat /\ m.from = a.from
    /\ \A s \in Sockets : \A k \in got[s] : k.by = "service" => \E m \in messages : m.id = k.id

\* whoever is not excused from a message that is on its way has been online all the while
StillOnline == \A a \in posts : \A p \in Talkers \ excused[a.id] : Online(p)

Has(m, p) == \E s \in Sockets : OwnerOf[s] = p /\ Copy(m) \in got[s]
Owed(m, p) == \E a \in posts : a.id = m /\ (a.pc = "list" \/ p \in a.to)

\* a copy of the service is for a member, and a member who is not excused has one or is owed one
Copies ==
    /\ \A a \in posts : a.to \subseteq members[a.chat] \ {a.from}
    /\ \A m \in messages : \A p \in Talkers :
          /\ Has(m.id, p) => p \in members[m.chat] \ {m.from}
          /\ p \in members[m.chat] \ (excused[m.id] \cup {m.from}) => Has(m.id, p) \/ Owed(m.id, p)

ChatInv == PresenceTyped /\ TalkTyped /\ Present /\ Numbered /\ StillOnline /\ Copies

----------------------------------------------------------------------------
\* A connection that comes, goes or is set active: the talk stays, and excuses only grow.
LEMMA TalkStays ==
    ASSUME TalkTyped, Numbered, Copies, UNCHANGED talkVars,
           excused' \in [1 .. MaxMessages -> SUBSET Talkers],
           \A m \in 1 .. MaxMessages : excused[m] \subseteq excused'[m]
    PROVE  TalkTyped' /\ Numbered' /\ Copies'
<1>1. UNCHANGED <<members, chats, messages, posts, got>>
  BY DEF talkVars
<1>2. TalkTyped' /\ Numbered'
  BY <1>1 DEF TalkTyped, Numbered
<1>3. Copies'
  <2>1. \A m \in messages : m.id \in 1 .. MaxMessages
    BY DEF TalkTyped, MessageRow
  <2> QED
    BY <1>1, <2>1 DEF Copies, Has, Owed
<1> QED
  BY <1>2, <1>3

LEMMA ExcuseGrows ==
    ASSUME TalkTyped, NEW p \in Talkers, Excuse(p)
    PROVE  /\ excused' \in [1 .. MaxMessages -> SUBSET Talkers]
           /\ \A m \in 1 .. MaxMessages : excused[m] \subseteq excused'[m]
           /\ \A a \in posts : p \in excused'[a.id]
<1>1. excused' = [m \in 1 .. MaxMessages |->
                     IF \E a \in posts : a.id = m THEN excused[m] \cup {p} ELSE excused[m]]
  BY DEF Excuse, TalkTyped
<1>2. \A m \in 1 .. MaxMessages :
         (IF \E a \in posts : a.id = m THEN excused[m] \cup {p} ELSE excused[m]) \in SUBSET Talkers
  BY DEF TalkTyped
<1>4. \A a \in posts : a.id \in 1 .. MaxMessages
  BY DEF TalkTyped, PostRow
<1>5. excused' \in [1 .. MaxMessages -> SUBSET Talkers]
  BY <1>1, <1>2
<1>6. \A m \in 1 .. MaxMessages : excused[m] \subseteq excused'[m]
  BY <1>1
<1>7. \A a \in posts : p \in excused'[a.id]
  BY <1>1, <1>4
<1> QED
  BY <1>5, <1>6, <1>7

\* Somebody else's connection does not touch q.
LEMMA OthersStayOnline ==
    ASSUME PresenceTyped, Present, NEW s \in Sockets, NEW q \in Talkers, q # OwnerOf[s], Online(q),
           cache'[q] = cache[q], \A t \in Sockets : t # s => link'[t] = link[t],
           q \in mixed' => q \in mixed
    PROVE  Online(q)'
<1>1. PICK t \in Sockets : t = cache[q].socket /\ link[t] = "open"
  BY DEF Online, Reached
<1>2. t # s
  BY <1>1 DEF Present
<1>3. t \in Reached(q)'
  BY <1>1, <1>2 DEF Reached
<1> QED
  BY <1>3 DEF Online

LEMMA HandleConnectionStep ==
    ASSUME ChatInv, NEW s \in Sockets, HandleConnection(s)
    PROVE  ChatInv'
<1> PICK p : p = OwnerOf[s]
  OBVIOUS
<1>1. /\ p \in Talkers /\ link[s] = "new" /\ Excuse(p) /\ UNCHANGED talkVars
      /\ link' = [link EXCEPT ![s] = "open"]
      /\ cache' = [cache EXCEPT ![p] = [socket |-> s, isActive |-> TRUE]]
      /\ mixed' = IF OpenSockets(p) = {} THEN mixed ELSE mixed \cup {p}
  BY ChatOK DEF HandleConnection, SetActiveStatus
<1>2. /\ link'[s] = "open" /\ \A t \in Sockets : t # s => link'[t] = link[t]
      /\ cache'[p].socket = s /\ \A q \in Talkers : q # p => cache'[q] = cache[q]
  BY <1>1 DEF ChatInv, PresenceTyped
<1>3. PresenceTyped'
  BY <1>1 DEF ChatInv, PresenceTyped
<1>4. Present'
  <2>1. \A q \in Talkers : cache'[q].socket \in Sockets => OwnerOf[cache'[q].socket] = q
    BY <1>2 DEF ChatInv, Present
  <2>2. ASSUME NEW t \in Sockets, link'[t] = "open", OwnerOf[t] \notin mixed'
        PROVE  cache'[OwnerOf[t]].socket = t
    <3>1. CASE t = s
      BY <1>2, <3>1
    <3>2. CASE t # s
      <4>1. link[t] = "open" /\ OwnerOf[t] \notin mixed /\ OwnerOf[t] \in Talkers
        BY <1>1, <1>2, <2>2, <3>2, ChatOK
      <4>2. OwnerOf[t] # p
        BY <1>1, <2>2, <4>1 DEF OpenSockets
      <4> QED
        BY <1>2, <4>1, <4>2 DEF ChatInv, Present
    <3> QED
      BY <3>1, <3>2
  <2> QED
    BY <2>1, <2>2 DEF Present
<1>5. /\ excused' \in [1 .. MaxMessages -> SUBSET Talkers]
      /\ \A m \in 1 .. MaxMessages : excused[m] \subseteq excused'[m]
      /\ \A a \in posts : p \in excused'[a.id]
  BY <1>1, ExcuseGrows DEF ChatInv
<1>6. TalkTyped' /\ Numbered' /\ Copies'
  BY <1>1, <1>5, TalkStays DEF ChatInv
<1>7. StillOnline'
  <2> SUFFICES ASSUME NEW a \in posts, NEW q \in Talkers, q \notin excused'[a.id]
               PROVE  Online(q)'
    BY <1>1 DEF StillOnline, talkVars
  <2>1. q # p /\ Online(q)
    <3>1. a.id \in 1 .. MaxMessages
      BY DEF ChatInv, TalkTyped, PostRow
    <3> QED
      BY <1>5, <3>1 DEF ChatInv, StillOnline
  <2> QED
    BY <1>1, <1>2, <2>1, OthersStayOnline DEF ChatInv
<1> QED
  BY <1>3, <1>4, <1>6, <1>7 DEF ChatInv

LEMMA HandleDisconnectStep ==
    ASSUME ChatInv, NEW s \in Sockets, HandleDisconnect(s)
    PROVE  ChatInv'
<1> PICK p : p = OwnerOf[s]
  OBVIOUS
<1>1. /\ p \in Talkers /\ link[s] = "open" /\ Excuse(p) /\ UNCHANGED talkVars
      /\ link' = [link EXCEPT ![s] = "closed"]
      /\ cache' = [cache EXCEPT ![p] = [socket |-> s, isActive |-> FALSE]]
      /\ mixed' = mixed
  BY ChatOK DEF HandleDisconnect, SetActiveStatus
<1>2. /\ link'[s] = "closed" /\ \A t \in Sockets : t # s => link'[t] = link[t]
      /\ cache'[p].socket = s /\ \A q \in Talkers : q # p => cache'[q] = cache[q]
  BY <1>1 DEF ChatInv, PresenceTyped
<1>3. PresenceTyped'
  BY <1>1 DEF ChatInv, PresenceTyped
<1>4. Present'
  <2>1. \A q \in Talkers : cache'[q].socket \in Sockets => OwnerOf[cache'[q].socket] = q
    BY <1>2 DEF ChatInv, Present
  <2>2. ASSUME NEW t \in Sockets, link'[t] = "open", OwnerOf[t] \notin mixed'
        PROVE  cache'[OwnerOf[t]].socket = t
    <3>1. t # s /\ link[t] = "open" /\ OwnerOf[t] \notin mixed /\ OwnerOf[t] \in Talkers
      BY <1>1, <1>2, <2>2, ChatOK
    <3>2. cache[OwnerOf[t]].socket = t
      BY <3>1 DEF ChatInv, Present
    <3>3. OwnerOf[t] = p => cache[p].socket = s
      BY <1>1, <3>1 DEF ChatInv, Present
    <3> QED
      BY <1>2, <3>1, <3>2, <3>3
  <2> QED
    BY <2>1, <2>2 DEF Present
<1>5. /\ excused' \in [1 .. MaxMessages -> SUBSET Talkers]
      /\ \A m \in 1 .. MaxMessages : excused[m] \subseteq excused'[m]
      /\ \A a \in posts : p \in excused'[a.id]
  BY <1>1, ExcuseGrows DEF ChatInv
<1>6. TalkTyped' /\ Numbered' /\ Copies'
  BY <1>1, <1>5, TalkStays DEF ChatInv
<1>7. StillOnline'
  <2> SUFFICES ASSUME NEW a \in posts, NEW q \in Talkers, q \notin excused'[a.id]
               PROVE  Online(q)'
    BY <1>1 DEF StillOnline, talkVars
  <2>1. q # p /\ Online(q)
    <3>1. a.id \in 1 .. MaxMessages
      BY DEF ChatInv, TalkTyped, PostRow
    <3> QED
      BY <1>5, <3>1 DEF ChatInv, StillOnline
  <2> QED
    BY <1>1, <1>2, <2>1, OthersStayOnline DEF ChatInv
<1> QED
  BY <1>3, <1>4, <1>6, <1>7 DEF ChatInv

LEMMA RefuseConnectionStep ==
    ASSUME ChatInv, NEW s \in Sockets, RefuseConnection(s)
    PROVE  ChatInv'
<1>1. /\ link[s] = "new" /\ UNCHANGED <<cache, mixed, talkVars, excused>>
      /\ link' = [link EXCEPT ![s] = "closed"]
  BY DEF RefuseConnection
<1>2. \A t \in Sockets : link'[t] = "open" <=> link[t] = "open"
  BY <1>1 DEF ChatInv, PresenceTyped
<1>3. PresenceTyped' /\ Present'
  BY <1>1, <1>2 DEF ChatInv, PresenceTyped, Present
<1>4. TalkTyped' /\ Numbered' /\ Copies'
  BY <1>1, TalkStays DEF ChatInv, TalkTyped
<1>5. StillOnline'
  <2>1. \A p \in Talkers : Online(p) => Online(p)'
    BY <1>1, <1>2 DEF Online, Reached
  <2> QED
    BY <1>1, <2>1 DEF ChatInv, StillOnline, talkVars
<1> QED
  BY <1>3, <1>4, <1>5 DEF ChatInv

LEMMA UpdateActiveStatusStep ==
    ASSUME ChatInv, NEW s \in Sockets, NEW b \in BOOLEAN, UpdateActiveStatus(s, b)
    PROVE  ChatInv'
<1> PICK p : p = OwnerOf[s]
  OBVIOUS
<1>1. /\ p \in Talkers /\ link[s] = "open" /\ UNCHANGED <<link, mixed, talkVars, excused>>
      /\ cache' = [cache EXCEPT ![p] = [socket |-> s, isActive |-> b]]
  BY ChatOK DEF UpdateActiveStatus, SetActiveStatus
<1>2. cache'[p].socket = s /\ \A q \in Talkers : q # p => cache'[q] = cache[q]
  BY <1>1 DEF ChatInv, PresenceTyped
<1>3. p \notin mixed => cache[p].socket = s
  BY <1>1 DEF ChatInv, Present
<1>4. PresenceTyped'
  BY <1>1 DEF ChatInv, PresenceTyped
<1>5. Present'
  BY <1>1, <1>2, <1>3, ChatOK DEF ChatInv, Present
<1>6. TalkTyped' /\ Numbered' /\ Copies'
  BY <1>1, TalkStays DEF ChatInv, TalkTyped
<1>7. StillOnline'
  <2>1. \A q \in Talkers : Online(q) => Online(q)'
    BY <1>1, <1>2, <1>3 DEF Online, Reached
  <2> QED
    BY <1>1, <2>1 DEF ChatInv, StillOnline, talkVars
<1> QED
  BY <1>4, <1>5, <1>6, <1>7 DEF ChatInv

----------------------------------------------------------------------------
\* Conversations and messages: nobody comes or goes.
LEMMA PresenceStays ==
    ASSUME PresenceTyped, Present, UNCHANGED presenceVars
    PROVE  PresenceTyped' /\ Present' /\ \A p : Online(p) = Online(p)' /\ Reached(p)' = Reached(p)
BY DEF presenceVars, PresenceTyped, Present, Online, Reached

LEMMA OnlyChats ==
    ASSUME ChatInv, UNCHANGED <<presenceVars, members, messages, posts, got, excused>>,
           chats' \subseteq ChatRow
    PROVE  ChatInv'
<1>1. PresenceTyped' /\ Present' /\ \A p : Online(p) = Online(p)'
  BY PresenceStays DEF ChatInv
<1>2. TalkTyped' /\ Numbered'
  BY DEF ChatInv, TalkTyped, Numbered
<1>3. StillOnline'
  BY <1>1 DEF ChatInv, StillOnline
<1>4. Copies'
  BY DEF ChatInv, Copies, Has, Owed
<1> QED
  BY <1>1, <1>2, <1>3, <1>4 DEF ChatInv

LEMMA NewChatStep ==
    ASSUME ChatInv, NEW c \in Chats, NEW from \in Writers, NEW R \in SUBSET (Talkers \ {from}),
           NewChat(c, from, R)
    PROVE  ChatInv'
<1>1. chats' \subseteq ChatRow
  <2> PICK k : k = [id |-> c, from |-> from, all |-> R \cup {from}, left |-> {},
                    pc |-> IF Cardinality(R) <= 1 THEN "common" ELSE "create"]
    OBVIOUS
  <2>1. k \in ChatRow
    BY DEF ChatRow
  <2> QED
    BY <2>1 DEF NewChat, ChatInv, TalkTyped
<1> QED
  BY <1>1, OnlyChats DEF NewChat

LEMMA ConversationStep ==
    ASSUME ChatInv, NEW k \in chats,
           FindCommonConversation(k) \/ CreateConversation(k) \/ EndChat(k)
    PROVE  ChatInv'
<1>1. k \in ChatRow
  BY DEF ChatInv, TalkTyped
<1>2. \A pc \in {"create", "conflict", "done"} : [k EXCEPT !.pc = pc] \in ChatRow
  BY <1>1 DEF ChatRow
<1>3. [k EXCEPT !.pc = "participants", !.left = k.all] \in ChatRow
  BY <1>1 DEF ChatRow
<1>4. chats' \subseteq ChatRow
  <2>1. CASE FindCommonConversation(k)
    <3>1. PICK pc \in {"create", "conflict", "done"} :
            chats' = (chats \ {k}) \cup {[k EXCEPT !.pc = pc]}
      BY <2>1 DEF FindCommonConversation, GoTo
    <3> QED
      BY <1>2, <3>1 DEF ChatInv, TalkTyped
  <2>2. CASE CreateConversation(k)
    BY <1>3, <2>2 DEF CreateConversation, ChatInv, TalkTyped
  <2>3. CASE EndChat(k)
    BY <1>2, <2>3 DEF EndChat, GoTo, ChatInv, TalkTyped
  <2> QED
    BY <2>1, <2>2, <2>3
<1> QED
  BY <1>4, OnlyChats DEF FindCommonConversation, CreateConversation, EndChat

\* A member who joins is excused from the messages the conversation has.
LEMMA CreateParticipantStep ==
    ASSUME ChatInv, NEW k \in chats, NEW p \in Talkers, CreateParticipant(k, p)
    PROVE  ChatInv'
<1>1. k \in ChatRow /\ k.id \in Chats
  BY DEF ChatInv, TalkTyped, ChatRow
<1>2. UNCHANGED <<presenceVars, messages, posts, got>>
  BY DEF CreateParticipant
<1>3. /\ members' \in [Chats -> SUBSET Talkers]
      /\ \A c \in Chats : members[c] \subseteq members'[c]
      /\ \A c \in Chats : \A q \in members'[c] : q \in members[c] \/ (q = p /\ c = k.id)
  <2>1. members' = [members EXCEPT ![k.id] = members[k.id] \cup {p}]
    BY DEF CreateParticipant
  <2> QED
    BY <1>1, <2>1 DEF ChatInv, TalkTyped
<1>4. chats' \subseteq ChatRow
  <2>1. [k EXCEPT !.left = k.left \ {p}] \in ChatRow
    BY <1>1 DEF ChatRow
  <2> QED
    BY <2>1 DEF CreateParticipant, ChatInv, TalkTyped
<1>5. /\ excused' \in [1 .. MaxMessages -> SUBSET Talkers]
      /\ \A m \in 1 .. MaxMessages : excused[m] \subseteq excused'[m]
      /\ \A x \in messages : x.chat = k.id => p \in excused'[x.id]
  <2>1. excused' = [m \in 1 .. MaxMessages |->
                      IF \E x \in messages : x.id = m /\ x.chat = k.id
                      THEN excused[m] \cup {p} ELSE excused[m]]
    BY DEF CreateParticipant, ChatInv, TalkTyped
  <2>2. \A m \in 1 .. MaxMessages :
           (IF \E x \in messages : x.id = m /\ x.chat = k.id
            THEN excused[m] \cup {p} ELSE excused[m]) \in SUBSET Talkers
    BY DEF ChatInv, TalkTyped
  <2>3. \A m \in messages : m.id \in 1 .. MaxMessages
    BY DEF ChatInv, TalkTyped, MessageRow
  <2>4. \A m \in 1 .. MaxMessages : excused[m] \subseteq excused'[m]
    BY <2>1
  <2>5. \A x \in messages : x.chat = k.id => p \in excused'[x.id]
    BY <2>1, <2>3
  <2> QED
    BY <2>1, <2>2, <2>4, <2>5
<1>6. PresenceTyped' /\ Present' /\ \A q : Online(q) = Online(q)'
  BY <1>2, PresenceStays DEF ChatInv
<1>7. TalkTyped' /\ Numbered'
  BY <1>2, <1>3, <1>4, <1>5 DEF ChatInv, TalkTyped, Numbered
<1>8. StillOnline'
  <2>1. \A a \in posts : a.id \in 1 .. MaxMessages
    BY DEF ChatInv, TalkTyped, PostRow
  <2> QED
    BY <1>2, <1>5, <1>6, <2>1 DEF ChatInv, StillOnline
<1>9. Copies'
  <2>1. /\ \A a \in posts : a.chat \in Chats
        /\ \A m \in messages : m.chat \in Chats /\ m.id \in 1 .. MaxMessages
    BY DEF ChatInv, TalkTyped, PostRow, MessageRow
  <2>2. \A a \in posts : a.to \subseteq members'[a.chat] \ {a.from}
    BY <1>3, <2>1 DEF ChatInv, Copies
  <2>3. ASSUME NEW m \in messages, NEW q \in Talkers
        PROVE  /\ Has(m.id, q) => q \in members'[m.chat] \ {m.from}
               /\ q \in members'[m.chat] \ (excused'[m.id] \cup {m.from})
                      => Has(m.id, q) \/ Owed(m.id, q)
    BY <1>3, <1>5, <2>1 DEF ChatInv, Copies
  <2> QED
    BY <1>2, <2>2, <2>3 DEF Copies, Has, Owed
<1> QED
  BY <1>6, <1>7, <1>8, <1>9 DEF ChatInv

\* A new message: its one request owes everybody who is in the conversation a copy.
LEMMA CreateMessageStep ==
    ASSUME ChatInv, NEW c \in Chats, NEW p \in Talkers, CreateMessage(c, p)
    PROVE  ChatInv'
<1> PICK n, x, a : /\ n = Cardinality(messages) + 1
                   /\ x = [id |-> n, chat |-> c, from |-> p]
                   /\ a = [id |-> n, chat |-> c, from |-> p, pc |-> "list", to |-> {}]
  OBVIOUS
<1>1. /\ p \in members[c] /\ n <= MaxMessages
      /\ messages' = messages \cup {x} /\ posts' = posts \cup {a}
      /\ excused' = [excused EXCEPT ![n] = {q \in Talkers : ~Online(q)}]
      /\ UNCHANGED <<presenceVars, members, chats, got>>
  BY DEF CreateMessage
<1>2. n \in 1 .. MaxMessages /\ \A m \in messages : m.id < n /\ m.id \in 1 .. MaxMessages
  <2>1. Cardinality(messages) \in Nat
    BY FS_CardinalityType DEF ChatInv, TalkTyped
  <2>2. \A m \in messages : m.id <= Cardinality(messages) /\ m.id \in 1 .. MaxMessages
    BY DEF ChatInv, Numbered, TalkTyped, MessageRow
  <2> QED
    BY <1>1, <2>1, <2>2, ChatOK
<1>3. /\ x \in MessageRow /\ x.id = n /\ x.chat = c /\ x.from = p
      /\ a \in PostRow /\ a.id = n /\ a.chat = c /\ a.from = p /\ a.pc = "list" /\ a.to = {}
  BY <1>2 DEF MessageRow, PostRow
<1>4. x \notin messages /\ IsFiniteSet(messages') /\ Cardinality(messages') = n
  <2>1. x \notin messages
    BY <1>2, <1>3
  <2> QED
    BY <1>1, <2>1, FS_AddElement DEF ChatInv, TalkTyped
<1>5. /\ excused' \in [1 .. MaxMessages -> SUBSET Talkers]
      /\ excused'[n] = {q \in Talkers : ~Online(q)}
      /\ \A m \in messages : excused'[m.id] = excused[m.id]
  <2>1. {q \in Talkers : ~Online(q)} \in SUBSET Talkers
    OBVIOUS
  <2> QED
    BY <1>1, <1>2, <2>1 DEF ChatInv, TalkTyped
<1>6. /\ \A b \in posts : \E m \in messages : m.id = b.id /\ m.chat = b.chat /\ m.from = b.from
      /\ \A b \in posts : b.id # n /\ excused'[b.id] = excused[b.id]
  BY <1>2, <1>5 DEF ChatInv, Numbered
<1>7. PresenceTyped' /\ Present' /\ \A q : Online(q) = Online(q)'
  BY <1>1, PresenceStays DEF ChatInv
<1>8. TalkTyped'
  BY <1>1, <1>3, <1>4, <1>5 DEF ChatInv, TalkTyped
<1>9. Numbered'
  <2>1. \A m \in messages' : m.id <= Cardinality(messages')
    BY <1>1, <1>2, <1>3, <1>4
  <2>2. \A l, m \in messages' : l.id = m.id => l = m
    BY <1>1, <1>2, <1>3 DEF ChatInv, Numbered
  <2>3. \A b, d \in posts' : b.id = d.id => b = d
    <3>1. posts' = posts \cup {a} /\ a.id = n /\ \A b \in posts : b.id # n
      BY <1>1, <1>3, <1>6
    <3>2. \A b, d \in posts : b.id = d.id => b = d
      BY DEF ChatInv, Numbered
    <3> QED
      BY <3>1, <3>2, SMTT(30)
  <2>4. \A b \in posts' : \E m \in messages' : m.id = b.id /\ m.chat = b.chat /\ m.from = b.from
    BY <1>1, <1>3, <1>6
  <2>5. \A s \in Sockets : \A k \in got'[s] : k.by = "service" => \E m \in messages' : m.id = k.id
    BY <1>1 DEF ChatInv, Numbered
  <2> QED
    BY <2>1, <2>2, <2>3, <2>4, <2>5 DEF Numbered
<1>10. StillOnline'
  BY <1>1, <1>3, <1>5, <1>6, <1>7 DEF ChatInv, StillOnline
<1>11. Copies'
  <2>1. \A b \in posts' : b.to \subseteq members[b.chat] \ {b.from}
    BY <1>1, <1>3 DEF ChatInv, Copies
  <2>2. \A m, q : /\ Has(m, q)' = Has(m, q)
                  /\ Owed(m, q) => Owed(m, q)'
    BY <1>1 DEF Has, Owed
  <2>3. \A q : ~ Has(n, q) /\ Owed(n, q)'
    <3>1. \A s \in Sockets : Copy(n) \notin got[s]
      BY <1>2 DEF ChatInv, Numbered, Copy
    <3> QED
      BY <1>1, <1>3, <3>1 DEF Has, Owed
  <2>4. ASSUME NEW m \in messages', NEW q \in Talkers
        PROVE  /\ Has(m.id, q)' => q \in members[m.chat] \ {m.from}
               /\ q \in members[m.chat] \ (excused'[m.id] \cup {m.from})
                      => Has(m.id, q)' \/ Owed(m.id, q)'
    <3>1. CASE m = x
      BY <1>3, <2>2, <2>3, <3>1
    <3>2. CASE m \in messages
      BY <1>5, <2>2, <3>2 DEF ChatInv, Copies
    <3> QED
      BY <1>1, <3>1, <3>2
  <2> QED
    BY <1>1, <2>1, <2>4 DEF Copies
<1> QED
  BY <1>7, <1>8, <1>9, <1>10, <1>11 DEF ChatInv

\* The request of a message goes on: a stays for the row post, the copies and what is owed but it
\* are as before.
LEMMA PostMoves ==
    ASSUME ChatInv, NEW post \in posts, NEW a \in PostRow,
           a.id = post.id, a.chat = post.chat, a.from = post.from,
           posts' = (posts \ {post}) \cup {a},
           UNCHANGED <<presenceVars, members, chats, messages, excused>>,
           a.to \subseteq members[a.chat] \ {a.from},
           got' \in [Sockets -> SUBSET CopyRow],
           \A s \in Sockets : got[s] \subseteq got'[s],
           \A s \in Sockets : \A k \in got'[s] \ got[s] :
               /\ k = Copy(post.id) /\ OwnerOf[s] \in members[post.chat] \ {post.from},
           \A q \in members[post.chat] \ (excused[post.id] \cup {post.from}) :
               (post.pc = "list" \/ q \in post.to) => a.pc = "list" \/ q \in a.to \/ Has(post.id, q)'
    PROVE  ChatInv'
<1>1. PresenceTyped' /\ Present' /\ \A q : Online(q) = Online(q)'
  BY PresenceStays DEF ChatInv
<1>2. TalkTyped'
  BY DEF ChatInv, TalkTyped
<1>3. PICK x \in messages : x.id = post.id /\ x.chat = post.chat /\ x.from = post.from
  BY DEF ChatInv, Numbered
<1>4. Numbered'
  <2>1. \A b, d \in posts' : b.id = d.id => b = d
    BY DEF ChatInv, Numbered
  <2>2. \A b \in posts' : \E m \in messages : m.id = b.id /\ m.chat = b.chat /\ m.from = b.from
    BY <1>3 DEF ChatInv, Numbered
  <2>3. \A s \in Sockets : \A k \in got'[s] : k.by = "service" => \E m \in messages : m.id = k.id
    BY <1>3 DEF ChatInv, Numbered, Copy
  <2> QED
    BY <2>1, <2>2, <2>3 DEF ChatInv, Numbered
<1>5. StillOnline'
  BY <1>1 DEF ChatInv, StillOnline
<1>6. Copies'
  <2>1. \A b \in posts' : b.to \subseteq members[b.chat] \ {b.from}
    BY DEF ChatInv, Copies
  <2>2. ASSUME NEW m \in messages, NEW q \in Talkers, Has(m.id, q)'
        PROVE  q \in members[m.chat] \ {m.from}
    <3>1. CASE Has(m.id, q)
      BY <3>1 DEF ChatInv, Copies
    <3>2. CASE ~ Has(m.id, q)
      <4>1. PICK s \in Sockets : OwnerOf[s] = q /\ Copy(m.id) \in got'[s] \ got[s]
        BY <2>2, <3>2 DEF Has
      <4>2. Copy(m.id) = Copy(post.id) /\ q \in members[post.chat] \ {post.from}
        BY <4>1
      <4>3. m = x
        BY <1>3, <4>2 DEF ChatInv, Numbered, Copy
      <4> QED
        BY <1>3, <4>2, <4>3
    <3> QED
      BY <3>1, <3>2
  <2>3. ASSUME NEW m \in messages, NEW q \in Talkers,
               q \in members[m.chat] \ (excused[m.id] \cup {m.from})
        PROVE  Has(m.id, q)' \/ Owed(m.id, q)'
    <3>1. CASE Has(m.id, q)
      BY <3>1 DEF Has
    <3>2. CASE ~ Has(m.id, q)
      <4>1. PICK b \in posts : b.id = m.id /\ (b.pc = "list" \/ q \in b.to)
        BY <2>3, <3>2 DEF ChatInv, Copies, Owed
      <4>2. CASE b # post
        BY <4>1, <4>2 DEF Owed
      <4>3. CASE b = post
        <5>1. m = x
          BY <1>3, <4>1, <4>3 DEF ChatInv, Numbered
        <5>2. a.pc = "list" \/ q \in a.to \/ Has(post.id, q)'
          BY <1>3, <2>3, <4>1, <4>3, <5>1
        <5> QED
          BY <1>3, <5>1, <5>2 DEF Owed
      <4> QED
        BY <4>2, <4>3
    <3> QED
      BY <3>1, <3>2
  <2> QED
    BY <2>1, <2>2, <2>3 DEF Copies
<1> QED
  BY <1>1, <1>2, <1>4, <1>5, <1>6 DEF ChatInv

LEMMA ListOthersStep ==
    ASSUME ChatInv, NEW post \in posts, ListOthers(post)
    PROVE  ChatInv'
<1> PICK all, a : /\ all = members[post.chat] \ {post.from}
                  /\ a = [post EXCEPT !.pc = "send", !.to = all]
  OBVIOUS
<1>1. post \in PostRow /\ all \in SUBSET Talkers
  BY DEF ChatInv, TalkTyped, PostRow
<1>2. /\ a \in PostRow /\ a.id = post.id /\ a.chat = post.chat /\ a.from = post.from /\ a.to = all
  BY <1>1 DEF PostRow
<1>3. /\ posts' = (posts \ {post}) \cup {a}
      /\ UNCHANGED <<presenceVars, members, chats, messages, excused, got>>
  BY DEF ListOthers
<1>4. got' \in [Sockets -> SUBSET CopyRow]
  BY <1>3 DEF ChatInv, TalkTyped
<1> QED
  BY <1>2, <1>3, <1>4, PostMoves

LEMMA SendMessageStep ==
    ASSUME ChatInv, NEW post \in posts, NEW p \in Talkers, SendMessage(post, p)
    PROVE  ChatInv'
<1> PICK rest, a : rest = post.to \ {p} /\ a = [post EXCEPT !.to = rest]
  OBVIOUS
<1>1. /\ post \in PostRow /\ post.pc = "send" /\ p \in post.to /\ rest \in SUBSET Talkers
      /\ post.id \in Nat
  BY DEF SendMessage, ChatInv, TalkTyped, PostRow
<1>2. /\ a \in PostRow /\ a.id = post.id /\ a.chat = post.chat /\ a.from = post.from /\ a.to = rest
  BY <1>1 DEF PostRow
<1>3. /\ posts' = (posts \ {post}) \cup {a}
      /\ got' = [s \in Sockets |-> IF s \in Reached(p) THEN got[s] \cup {Copy(post.id)} ELSE got[s]]
      /\ UNCHANGED <<presenceVars, members, chats, messages, excused>>
  BY DEF SendMessage, Deliver, Copy
<1>4. got' \in [Sockets -> SUBSET CopyRow]
  <2>1. Copy(post.id) \in CopyRow
    BY <1>1 DEF Copy, CopyRow, Origins
  <2>2. \A s \in Sockets :
           (IF s \in Reached(p) THEN got[s] \cup {Copy(post.id)} ELSE got[s]) \in SUBSET CopyRow
    BY <2>1 DEF ChatInv, TalkTyped
  <2> QED
    BY <1>3, <2>2
<1>5. \A s \in Reached(p) : s \in Sockets /\ OwnerOf[s] = p
  BY DEF Reached, ChatInv, Present
<1>6. post.to \subseteq members[post.chat] \ {post.from}
  BY DEF ChatInv, Copies
<1>7. /\ \A s \in Sockets : got[s] \subseteq got'[s]
      /\ \A s \in Sockets : \A k \in got'[s] \ got[s] :
             k = Copy(post.id) /\ OwnerOf[s] \in members[post.chat] \ {post.from}
  BY <1>1, <1>3, <1>5, <1>6
<1>8. p \notin excused[post.id] => Has(post.id, p)'
  <2>1. p \notin excused[post.id] => Reached(p) # {}
    BY DEF ChatInv, StillOnline, Online
  <2> QED
    BY <1>3, <1>5, <2>1 DEF Has
<1>9. \A q \in members[post.chat] \ (excused[post.id] \cup {post.from}) :
         (post.pc = "list" \/ q \in post.to) => a.pc = "list" \/ q \in a.to \/ Has(post.id, q)'
  BY <1>1, <1>2, <1>8
<1>10. a.to \subseteq members[a.chat] \ {a.from}
  BY <1>2, <1>6
<1> QED
  BY <1>2, <1>3, <1>4, <1>7, <1>9, <1>10, PostMoves

\* what a socket relays is no copy of the service
LEMMA RelayMessageStep ==
    ASSUME ChatInv, NEW s \in Sockets, NEW n \in 1 .. MaxMessages, NEW p \in Talkers,
           RelayMessage(s, n, p)
    PROVE  ChatInv'
<1> PICK x : x = [id |-> n, by |-> "socket"]
  OBVIOUS
<1>1. /\ got' = [t \in Sockets |-> IF t \in Reached(p) THEN got[t] \cup {x} ELSE got[t]]
      /\ UNCHANGED <<presenceVars, members, chats, messages, posts, excused>>
  BY DEF RelayMessage, Deliver
<1>2. x \in CopyRow /\ x.by # "service" /\ \A i : x # Copy(i)
  BY ChatOK DEF CopyRow, Origins, Copy
<1>3. PresenceTyped' /\ Present' /\ \A q : Online(q) = Online(q)'
  BY <1>1, PresenceStays DEF ChatInv
<1>4. TalkTyped'
  <2>1. \A t \in Sockets : (IF t \in Reached(p) THEN got[t] \cup {x} ELSE got[t]) \in SUBSET CopyRow
    BY <1>2 DEF ChatInv, TalkTyped
  <2>2. got' \in [Sockets -> SUBSET CopyRow]
    BY <1>1, <2>1
  <2> QED
    BY <1>1, <2>2 DEF ChatInv, TalkTyped
<1>5. Numbered'
  <2>1. \A t \in Sockets : \A k \in got'[t] : k.by = "service" => k \in got[t]
    BY <1>1, <1>2
  <2> QED
    BY <1>1, <2>1 DEF ChatInv, Numbered
<1>6. StillOnline'
  BY <1>1, <1>3 DEF ChatInv, StillOnline
<1>7. \A m, q : Has(m, q)' = Has(m, q) /\ Owed(m, q)' = Owed(m, q)
  BY <1>1, <1>2 DEF Has, Owed
<1> QED
  BY <1>1, <1>3, <1>4, <1>5, <1>6, <1>7 DEF ChatInv, Copies

LEMMA EndPostStep ==
    ASSUME ChatInv, NEW post \in posts, EndPost(post)
    PROVE  ChatInv'
<1>1. /\ post.pc = "send" /\ post.to = {} /\ posts' = posts \ {post}
      /\ UNCHANGED <<presenceVars, members, chats, messages, got, excused>>
  BY DEF EndPost
<1>2. PresenceTyped' /\ Present' /\ \A q : Online(q) = Online(q)'
  BY <1>1, PresenceStays DEF ChatInv
<1>3. TalkTyped' /\ Numbered' /\ StillOnline'
  BY <1>1, <1>2 DEF ChatInv, TalkTyped, Numbered, StillOnline
<1>4. Copies'
  <2>1. \A m, q : Owed(m, q) => Owed(m, q)'
    BY <1>1 DEF Owed
  <2>2. \A m, q : Has(m, q)' = Has(m, q)
    BY <1>1 DEF Has
  <2> QED
    BY <1>1, <2>1, <2>2 DEF ChatInv, Copies
<1> QED
  BY <1>2, <1>3, <1>4 DEF ChatInv

LEMMA ChatStart == ChatInit => ChatInv
<1> SUFFICES ASSUME ChatInit PROVE ChatInv
  OBVIOUS
<1>1. PresenceTyped
  BY DEF ChatInit, PresenceTyped, Nobody
<1>2. TalkTyped
  BY FS_EmptySet DEF ChatInit, TalkTyped
<1>3. Present
  BY ChatOK DEF ChatInit, Present, Nobody
<1>4. Numbered /\ StillOnline /\ Copies
  BY DEF ChatInit, Numbered, StillOnline, Copies
<1> QED
  BY <1>1, <1>2, <1>3, <1>4 DEF ChatInv

\* Once a message is on its way no more, it is with every other member of its conversation who
\* was online all the while, and the service has sent it to nobody outside the conversation,
\* however people come, go and join and whatever their sockets relay meanwhile.
THEOREM MessagesArrive == ChatSpec => []OnlineMembersGetTheMessage
<1>1. ChatInv /\ [ChatNext]_chatVars => ChatInv'
  <2> SUFFICES ASSUME ChatInv, [ChatNext]_chatVars PROVE ChatInv'
    OBVIOUS
  <2>1. CASE UNCHANGED chatVars
    BY <2>1, OnlyChats DEF chatVars, presenceVars, ChatInv, TalkTyped
  <2>2. CASE ChatNext
    <3>1. ASSUME NEW s \in Sockets,
                 \/ HandleConnection(s) \/ RefuseConnection(s) \/ HandleDisconnect(s)
                 \/ \E b \in BOOLEAN : UpdateActiveStatus(s, b)
                 \/ \E m \in 1 .. MaxMessages, p \in Talkers : RelayMessage(s, m, p)
          PROVE  ChatInv'
      BY <3>1, HandleConnectionStep, RefuseConnectionStep, HandleDisconnectStep,
         UpdateActiveStatusStep, RelayMessageStep
    <3>2. ASSUME NEW c \in Chats,
                 \/ \E p \in Talkers : CreateMessage(c, p)
                 \/ \E p \in Writers : \E R \in SUBSET (Talkers \ {p}) : NewChat(c, p, R)
          PROVE  ChatInv'
      BY <3>2, CreateMessageStep, NewChatStep
    <3>3. ASSUME NEW k \in chats,
                 \/ FindCommonConversation(k) \/ CreateConversation(k) \/ EndChat(k)
                 \/ \E p \in Talkers : CreateParticipant(k, p)
          PROVE  ChatInv'
      BY <3>3, ConversationStep, CreateParticipantStep
    <3>4. ASSUME NEW post \in posts,
                 ListOthers(post) \/ EndPost(post) \/ \E p \in Talkers : SendMessage(post, p)
          PROVE  ChatInv'
      BY <3>4, ListOthersStep, EndPostStep, SendMessageStep
    <3> QED
      BY <2>2, <3>1, <3>2, <3>3, <3>4 DEF ChatNext
  <2> QED
    BY <2>1, <2>2
<1>2. ChatInv => OnlineMembersGetTheMessage
  <2> SUFFICES ASSUME ChatInv, NEW m \in messages, \A a \in posts : a.id # m.id, NEW p \in Talkers
               PROVE  /\ p \in members[m.chat] \ (excused[m.id] \cup {m.from}) => Has(m.id, p)
                      /\ Has(m.id, p) => p \in members[m.chat] \ {m.from}
    BY DEF OnlineMembersGetTheMessage, Has, Copy
  <2> QED
    BY DEF ChatInv, Copies, Owed
<1> QED
  BY ChatStart, <1>1, <1>2, PTL DEF ChatSpec

----------------------------------------------------------------------------
(***************************************************************************)
(* Credentials: the password in force was told or is withheld; one request *)
(* at a time, it is the last one told, or was drawn after it.              *)
(***************************************************************************)
ActSteps == {"forgot", "mailCode", "reset", "writeReset", "change", "writeChange", "generate",
             "send", "mailGiven", "command", "mailGenerated"}
Mailing == {"mailGiven", "mailGenerated"}
Drawn == 0 .. draws

ActRow == [pc : ActSteps, who : Persons, code : Nat, todo : SUBSET Persons]

CredentialsTyped ==
    /\ draws \in Nat
    /\ secret \in [Persons -> Drawn]
    /\ latest \in [Persons -> Drawn]
    /\ told \in [Persons -> SUBSET Drawn]
    /\ withheld \in [Persons -> SUBSET Drawn]
    /\ act \in [Acts -> {Resting} \cup ActRow]

\* what is about to be mailed was drawn
MailsDrawn == \A i \in Acts : act[i].pc \in Mailing => act[i].code \in Drawn

ToldOrWithheld == \A p \in Persons : secret[p] \in told[p] \cup withheld[p]

\* one request at a time, what is about to be mailed is in force
InOrder ==
    single =>
        /\ \A i, k \in Acts : act[i].pc # "idle" /\ act[k].pc # "idle" => i = k
        /\ \A i \in Acts : act[i].pc \in Mailing => act[i].code = secret[act[i].who]
        /\ \A p \in Persons : secret[p] = latest[p] \/ secret[p] \in withheld[p] \ told[p]

CredentialsInv == CredentialsTyped /\ MailsDrawn /\ ToldOrWithheld /\ InOrder

LEMMA OneAct ==
    ASSUME CredentialsTyped, NEW i \in Acts, NEW r \in {Resting} \cup ActRow,
           act' = [act EXCEPT ![i] = r]
    PROVE  /\ act' \in [Acts -> {Resting} \cup ActRow]
           /\ act'[i] = r
           /\ \A k \in Acts : k # i => act'[k] = act[k]
BY DEF CredentialsTyped

LEMMA RestingIsIdle == Resting.pc = "idle"
BY DEF Resting

LEMMA AtWorkAct ==
    ASSUME CredentialsTyped, NEW i \in Acts, act[i].pc # "idle"
    PROVE  act[i] \in ActRow
BY DEF CredentialsTyped, Resting

LEMMA ActGoesOn ==
    ASSUME CredentialsTyped, NEW i \in Acts, act[i].pc # "idle", NEW pc \in ActSteps, GoOn(i, pc)
    PROVE  \E r \in ActRow : act' = [act EXCEPT ![i] = r] /\ r.pc = pc
<1> PICK a, r : a = act[i] /\ r = [a EXCEPT !.pc = pc]
  OBVIOUS
<1>1. a \in ActRow
  BY AtWorkAct
<1>2. r \in ActRow /\ r.pc = pc
  BY <1>1 DEF ActRow
<1>3. act' = [act EXCEPT ![i] = r]
  BY DEF GoOn, CredentialsTyped
<1> QED
  BY <1>2, <1>3

\* A step that reads, draws a code, begins or ends: the passwords stay.
LEMMA PasswordsStay ==
    ASSUME CredentialsInv, NEW i \in Acts, NEW r \in {Resting} \cup ActRow,
           act' = [act EXCEPT ![i] = r],
           act[i].pc # "idle" \/ (single => \A k \in Acts : act[k].pc = "idle"),
           UNCHANGED <<secret, told, latest, withheld, single>>,
           draws' \in Nat, draws <= draws',
           r.pc \in Mailing => r.code \in Drawn /\ r.code = secret[r.who]
    PROVE  CredentialsInv'
<1>1. /\ act' \in [Acts -> {Resting} \cup ActRow]
      /\ act'[i] = r
      /\ \A k \in Acts : k # i => act'[k] = act[k]
  BY OneAct DEF CredentialsInv
<1>2. draws \in Nat /\ \A n \in Drawn : n \in Drawn'
  BY DEF CredentialsInv, CredentialsTyped, Drawn
<1>3. CredentialsTyped'
  BY <1>1, <1>2 DEF CredentialsInv, CredentialsTyped
<1>4. MailsDrawn'
  BY <1>1, <1>2 DEF CredentialsInv, MailsDrawn
<1>5. ToldOrWithheld'
  BY DEF CredentialsInv, ToldOrWithheld
<1>6. InOrder'
  <2> SUFFICES ASSUME single PROVE InOrder'
    BY DEF InOrder
  <2>1. \A k \in Acts : k # i => act[k].pc = "idle" /\ act'[k].pc = "idle"
    BY <1>1 DEF CredentialsInv, InOrder
  <2>2. \A p \in Persons : secret[p] = latest[p] \/ secret[p] \in withheld[p] \ told[p]
    BY DEF CredentialsInv, InOrder
  <2> QED
    BY <1>1, <2>1, <2>2 DEF InOrder, Mailing
<1> QED
  BY <1>3, <1>4, <1>5, <1>6 DEF CredentialsInv

\* A step that writes a new password n of p: it is told, or it is withheld and may be mailed.
LEMMA PasswordWritten ==
    ASSUME CredentialsInv, NEW i \in Acts, act[i].pc # "idle", NEW r \in {Resting} \cup ActRow,
           act' = [act EXCEPT ![i] = r], UNCHANGED single,
           NEW p \in Persons, Draw, secret' = [secret EXCEPT ![p] = draws'],
           \/ Tell(p, draws') /\ UNCHANGED withheld
           \/ withheld' = [withheld EXCEPT ![p] = @ \cup {draws'}] /\ UNCHANGED News,
           r.pc \in Mailing => r.code = draws' /\ r.who = p
    PROVE  CredentialsInv'
<1> PICK n : n = draws'
  OBVIOUS
<1>1. /\ act' \in [Acts -> {Resting} \cup ActRow]
      /\ act'[i] = r
      /\ \A k \in Acts : k # i => act'[k] = act[k]
  BY OneAct DEF CredentialsInv
<1>2. /\ n \in Nat /\ n \in Drawn' /\ n \notin Drawn
      /\ \A m \in Drawn : m \in Drawn'
  BY DEF CredentialsInv, CredentialsTyped, Drawn, Draw
<1>3. /\ secret'[p] = n
      /\ \A q \in Persons : q # p => /\ secret'[q] = secret[q] /\ told'[q] = told[q]
                                     /\ latest'[q] = latest[q] /\ withheld'[q] = withheld[q]
      /\ \/ told'[p] = told[p] \cup {n} /\ latest'[p] = n /\ withheld'[p] = withheld[p]
         \/ withheld'[p] = withheld[p] \cup {n} /\ told'[p] = told[p] /\ latest'[p] = latest[p]
  BY DEF CredentialsInv, CredentialsTyped, Tell, News
<1>4. CredentialsTyped'
  <2>1. secret' \in [Persons -> Drawn']
    BY <1>2 DEF CredentialsInv, CredentialsTyped
  <2>2. latest' \in [Persons -> Drawn'] /\ told' \in [Persons -> SUBSET Drawn']
    BY <1>2 DEF CredentialsInv, CredentialsTyped, Tell, News
  <2>3. withheld' \in [Persons -> SUBSET Drawn']
    BY <1>2 DEF CredentialsInv, CredentialsTyped
  <2> QED
    BY <1>1, <1>2, <2>1, <2>2, <2>3 DEF CredentialsTyped
<1>5. MailsDrawn'
  BY <1>1, <1>2 DEF CredentialsInv, MailsDrawn
<1>6. ToldOrWithheld'
  BY <1>3 DEF CredentialsInv, ToldOrWithheld
<1>7. InOrder'
  <2> SUFFICES ASSUME single PROVE InOrder'
    BY DEF InOrder
  <2>1. \A k \in Acts : k # i => act'[k].pc = "idle"
    BY <1>1 DEF CredentialsInv, InOrder
  <2>2. n \notin told[p]
    BY <1>2 DEF CredentialsInv, CredentialsTyped
  <2>3. \A q \in Persons : secret'[q] = latest'[q] \/ secret'[q] \in withheld'[q] \ told'[q]
    BY <1>3, <2>2 DEF CredentialsInv, InOrder
  <2> QED
    BY <1>1, <1>3, <2>1, <2>3 DEF InOrder, Mailing
<1> QED
  BY <1>4, <1>5, <1>6, <1>7 DEF CredentialsInv

\* A mail: one request at a time, it is the password in force that is told.
LEMMA PasswordMailed ==
    ASSUME CredentialsInv, NEW i \in Acts, act[i].pc \in Mailing,
           NEW r \in {Resting} \cup ActRow, act' = [act EXCEPT ![i] = r], r.pc \notin Mailing,
           Tell(act[i].who, act[i].code), UNCHANGED <<secret, draws, withheld, single>>
    PROVE  CredentialsInv'
<1> PICK p, n : p = act[i].who /\ n = act[i].code
  OBVIOUS
<1>1. /\ act' \in [Acts -> {Resting} \cup ActRow]
      /\ act'[i] = r
      /\ \A k \in Acts : k # i => act'[k] = act[k]
  BY OneAct DEF CredentialsInv
<1>2. p \in Persons /\ n \in Drawn /\ Drawn' = Drawn
  BY AtWorkAct DEF CredentialsInv, ActRow, MailsDrawn, Drawn, Mailing
<1>3. /\ told'[p] = told[p] \cup {n} /\ latest'[p] = n
      /\ \A q \in Persons : q # p => told'[q] = told[q] /\ latest'[q] = latest[q]
  BY <1>2 DEF CredentialsInv, CredentialsTyped, Tell
<1>4. CredentialsTyped'
  BY <1>1, <1>2 DEF CredentialsInv, CredentialsTyped, Tell
<1>5. MailsDrawn'
  BY <1>1, <1>2 DEF CredentialsInv, MailsDrawn
<1>6. ToldOrWithheld'
  BY <1>3 DEF CredentialsInv, ToldOrWithheld
<1>7. InOrder'
  <2> SUFFICES ASSUME single PROVE InOrder'
    BY DEF InOrder
  <2>1. \A k \in Acts : k # i => act'[k].pc = "idle"
    BY <1>1 DEF CredentialsInv, InOrder, Mailing
  <2>2. n = secret[p]
    BY DEF CredentialsInv, InOrder
  <2>3. \A q \in Persons : secret[q] = latest'[q] \/ secret[q] \in withheld[q] \ told'[q]
    BY <1>3, <2>2 DEF CredentialsInv, InOrder
  <2> QED
    BY <1>1, <2>1, <2>3 DEF InOrder, Mailing
<1> QED
  BY <1>4, <1>5, <1>6, <1>7 DEF CredentialsInv

----------------------------------------------------------------------------
LEMMA CredentialsReading ==
    ASSUME CredentialsInv, NEW i \in Acts,
           MailCode(i) \/ FindByCode(i) \/ ReadOld(i) \/ Fault(i)
    PROVE  CredentialsInv'
<1>1. act[i].pc # "idle" /\ UNCHANGED <<secret, told, latest, withheld, single, draws>>
  BY DEF MailCode, FindByCode, ReadOld, Fault, News, Counters
<1>2. CASE Done(i)
  <2>1. /\ act' = [act EXCEPT ![i] = Resting] /\ Resting.pc \notin Mailing
        /\ draws \in Nat /\ draws <= draws
    BY <1>2, RestingIsIdle DEF Done, CredentialsInv, CredentialsTyped, Mailing
  <2> QED
    BY <1>1, <2>1, PasswordsStay
<1>3. ASSUME NEW pc \in ActSteps \ Mailing, GoOn(i, pc) PROVE CredentialsInv'
  <2>1. PICK r \in ActRow : act' = [act EXCEPT ![i] = r] /\ r.pc = pc
    BY <1>1, <1>3, ActGoesOn DEF CredentialsInv
  <2>2. draws \in Nat /\ draws <= draws
    BY DEF CredentialsInv, CredentialsTyped
  <2> QED
    BY <1>1, <2>1, <2>2, PasswordsStay
<1>4. {"reset", "writeReset", "writeChange", "command"} \subseteq ActSteps \ Mailing
  BY DEF ActSteps, Mailing
<1>5. Done(i) \/ \E pc \in ActSteps \ Mailing : GoOn(i, pc)
  BY <1>4 DEF MailCode, FindByCode, ReadOld, Fault
<1> QED
  BY <1>2, <1>3, <1>5

LEMMA StoreCodeStep ==
    ASSUME CredentialsInv, NEW i \in Acts, StoreCode(i)
    PROVE  CredentialsInv'
<1> PICK a, n, r : a = act[i] /\ n = draws' /\ r = [a EXCEPT !.pc = "mailCode", !.code = n]
  OBVIOUS
<1>1. /\ a.pc = "forgot" /\ UNCHANGED <<secret, told, latest, withheld, single>>
      /\ n \in Nat /\ draws <= n
  BY DEF StoreCode, Draw, News, Counters, CredentialsInv, CredentialsTyped
<1>2. a \in ActRow
  BY <1>1, AtWorkAct DEF CredentialsInv
<1>3. r \in ActRow /\ r.pc = "mailCode"
  BY <1>1, <1>2 DEF ActRow, ActSteps
<1>4. act' = [act EXCEPT ![i] = r]
  BY DEF StoreCode, CredentialsInv, CredentialsTyped
<1> QED
  BY <1>1, <1>3, <1>4, PasswordsStay DEF Mailing

LEMMA SendEmailStep ==
    ASSUME CredentialsInv, NEW i \in Acts, SendEmail(i)
    PROVE  CredentialsInv'
<1>1. /\ act[i].pc = "send" /\ UNCHANGED <<secret, told, latest, withheld, single, draws>>
      /\ act[i] \in ActRow /\ act[i].who \in Persons /\ draws \in Nat /\ draws <= draws
  BY AtWorkAct DEF SendEmail, News, Counters, CredentialsInv, CredentialsTyped, ActRow
<1>2. CASE Done(i)
  BY <1>1, <1>2, RestingIsIdle, PasswordsStay DEF Done, Mailing
<1>3. ASSUME NEW n \in withheld[act[i].who], secret[act[i].who] = n,
             act' = [act EXCEPT ![i].pc = "mailGiven", ![i].code = n]
      PROVE  CredentialsInv'
  <2> PICK a, r : a = act[i] /\ r = [a EXCEPT !.pc = "mailGiven", !.code = n]
    OBVIOUS
  <2>1. n \in Drawn /\ n \in Nat
    BY <1>1 DEF CredentialsInv, CredentialsTyped, Drawn
  <2>2. r \in ActRow /\ r.pc = "mailGiven" /\ r.code = n /\ r.who = a.who
    BY <1>1, <2>1 DEF ActRow, ActSteps
  <2>3. act' = [act EXCEPT ![i] = r]
    BY <1>3 DEF CredentialsInv, CredentialsTyped
  <2>4. r.code \in Drawn /\ r.code = secret[r.who]
    BY <1>3, <2>1, <2>2
  <2> QED
    BY <1>1, <2>2, <2>3, <2>4, PasswordsStay
<1> QED
  BY <1>2, <1>3 DEF SendEmail

LEMMA WritingPasswords ==
    ASSUME CredentialsInv, NEW i \in Acts, WriteReset(i) \/ WriteChange(i) \/ GenerateOne(i)
    PROVE  CredentialsInv'
<1> PICK p : p = act[i].who
  OBVIOUS
<1>1. /\ act[i].pc # "idle" /\ Draw /\ UNCHANGED single
      /\ secret' = [secret EXCEPT ![p] = draws'] /\ act' = [act EXCEPT ![i] = Resting]
      /\ \/ Tell(p, draws') /\ UNCHANGED withheld
         \/ withheld' = [withheld EXCEPT ![p] = @ \cup {draws'}] /\ UNCHANGED News
  BY DEF WriteReset, WriteChange, GenerateOne, Counters, Done
<1>2. p \in Persons
  BY <1>1, AtWorkAct DEF CredentialsInv, ActRow
<1> QED
  BY <1>1, <1>2, RestingIsIdle, PasswordWritten DEF Mailing

LEMMA WriteGeneratedStep ==
    ASSUME CredentialsInv, NEW i \in Acts, WriteGenerated(i)
    PROVE  CredentialsInv'
<1>1. act[i].pc = "command" /\ act[i] \in ActRow
  BY AtWorkAct DEF WriteGenerated, CredentialsInv
<1>2. CASE act[i].todo = {}
  <2>1. /\ act' = [act EXCEPT ![i] = Resting]
        /\ UNCHANGED <<secret, told, latest, withheld, single, draws>>
        /\ draws \in Nat /\ draws <= draws
    BY <1>2 DEF WriteGenerated, Done, News, Counters, CredentialsInv, CredentialsTyped
  <2> QED
    BY <1>1, <2>1, RestingIsIdle, PasswordsStay DEF Mailing
<1>3. ASSUME NEW p \in act[i].todo, Draw, secret' = [secret EXCEPT ![p] = draws'],
             withheld' = [withheld EXCEPT ![p] = @ \cup {draws'}], UNCHANGED News,
             UNCHANGED single, NEW pc \in {"command", "mailGenerated"},
             act' = [act EXCEPT ![i].todo = @ \ {p}, ![i].who = p, ![i].code = draws', ![i].pc = pc]
      PROVE  CredentialsInv'
  <2> PICK a, n, S, r : /\ a = act[i] /\ n = draws' /\ S = a.todo \ {p}
                        /\ r = [a EXCEPT !.todo = S, !.who = p, !.code = n, !.pc = pc]
    OBVIOUS
  <2>1. p \in Persons /\ S \in SUBSET Persons /\ n \in Nat
    BY <1>1, <1>3 DEF ActRow, Draw, CredentialsInv, CredentialsTyped
  <2>2. r \in ActRow /\ r.pc = pc /\ r.code = n /\ r.who = p
    BY <1>1, <2>1 DEF ActRow, ActSteps
  <2>3. act' = [act EXCEPT ![i] = r]
    BY <1>3 DEF CredentialsInv, CredentialsTyped
  <2>4. act[i].pc # "idle"
    BY <1>1
  <2>5. r.pc \in Mailing => r.code = draws' /\ r.who = p
    BY <2>2
  <2> QED
    BY <1>3, <2>1, <2>2, <2>3, <2>4, <2>5, PasswordWritten, ZenonT(60)
<1> QED
  <2>1. CASE act[i].todo # {}
    <3>1. UNCHANGED News /\ UNCHANGED single
      BY DEF WriteGenerated, Counters
    <3>2. PICK p \in act[i].todo :
             /\ Draw /\ secret' = [secret EXCEPT ![p] = draws']
             /\ withheld' = [withheld EXCEPT ![p] = @ \cup {draws'}]
             /\ act' = [act EXCEPT ![i].todo = @ \ {p}, ![i].who = p, ![i].code = draws',
                                   ![i].pc = IF p \in Staff \ Mailable THEN "command"
                                             ELSE "mailGenerated"]
      BY <2>1 DEF WriteGenerated
    <3> PICK pc \in {"command", "mailGenerated"} :
            pc = IF p \in Staff \ Mailable THEN "command" ELSE "mailGenerated"
      OBVIOUS
    <3> QED
      BY <1>3, <3>1, <3>2
  <2> QED
    BY <1>2, <2>1

LEMMA MailingPasswords ==
    ASSUME CredentialsInv, NEW i \in Acts, MailGiven(i) \/ MailGenerated(i)
    PROVE  CredentialsInv'
<1>1. /\ act[i].pc \in Mailing /\ act[i].pc # "idle" /\ Tell(act[i].who, act[i].code)
      /\ UNCHANGED <<secret, draws, withheld, single>>
  BY DEF MailGiven, MailGenerated, Counters, Mailing
<1>2. CASE Done(i)
  BY <1>1, <1>2, RestingIsIdle, PasswordMailed DEF Done, Mailing
<1>3. CASE GoOn(i, "command")
  <2>1. "command" \in ActSteps
    BY DEF ActSteps
  <2>2. PICK r \in ActRow : act' = [act EXCEPT ![i] = r] /\ r.pc = "command"
    BY <1>1, <1>3, <2>1, ActGoesOn DEF CredentialsInv
  <2> QED
    BY <1>1, <2>2, PasswordMailed DEF Mailing
<1> QED
  BY <1>2, <1>3 DEF MailGiven, MailGenerated

LEMMA BeginActStep ==
    ASSUME CredentialsInv, NEW i \in Acts, BeginAct(i)
    PROVE  CredentialsInv'
<1>1. PICK r \in NewActs : act' = [act EXCEPT ![i] = r]
  BY DEF BeginAct
<1>2. r \in ActRow /\ r.pc \notin Mailing
  BY DEF NewActs, ActRow, ActSteps, Mailing, Persons
<1>3. /\ UNCHANGED <<secret, told, latest, withheld, single, draws>>
      /\ single => \A k \in Acts : act[k].pc = "idle"
      /\ draws \in Nat /\ draws <= draws
  BY DEF BeginAct, News, CredentialsInv, CredentialsTyped
<1> QED
  BY <1>1, <1>2, <1>3, PasswordsStay

LEMMA CredentialsStart == CredentialsInit => CredentialsInv
<1> SUFFICES ASSUME CredentialsInit PROVE CredentialsInv
  OBVIOUS
<1>1. CredentialsTyped
  BY DEF CredentialsInit, CredentialsTyped, Drawn
<1>2. \A i \in Acts : act[i].pc = "idle"
  BY RestingIsIdle DEF CredentialsInit
<1> QED
  BY <1>1, <1>2 DEF CredentialsInit, CredentialsInv, MailsDrawn, ToldOrWithheld, InOrder, Mailing

\* When nothing is in flight, the password in force was told to its owner or is withheld; one
\* request at a time it is the last one told, and it works with every email that is the owner's
\* alone, whatever emails and alternate emails the users and the clients have.
THEOREM ThePasswordToldWorks == CredentialsSpec => []TheLastPasswordToldWorks
<1>1. CredentialsInv /\ [CredentialsNext]_credentialVars => CredentialsInv'
  <2> SUFFICES ASSUME CredentialsInv, [CredentialsNext]_credentialVars PROVE CredentialsInv'
    OBVIOUS
  <2>1. CASE UNCHANGED credentialVars
    BY <2>1 DEF credentialVars, CredentialsInv, CredentialsTyped, MailsDrawn, ToldOrWithheld,
                InOrder, Drawn
  <2>2. CASE CredentialsNext
    BY <2>2, BeginActStep, CredentialsReading, StoreCodeStep, SendEmailStep, WritingPasswords,
       WriteGeneratedStep, MailingPasswords DEF CredentialsNext
  <2> QED
    BY <2>1, <2>2
<1>2. CredentialsInv => TheLastPasswordToldWorks
  <2> SUFFICES ASSUME CredentialsInv, NEW p \in Persons,
                      ~(secret[p] \in withheld[p] /\ ~Knows(p, secret[p]))
               PROVE  IF single
                      THEN \A email \in OwnEmails(p) :
                              {p} = IF p \in Staff THEN ValidateUser(email, latest[p])
                                    ELSE ValidateClient(email, latest[p])
                      ELSE Knows(p, secret[p])
    BY DEF TheLastPasswordToldWorks
  <2>1. Knows(p, secret[p])
    BY DEF Knows, CredentialsInv, ToldOrWithheld
  <2>2. ASSUME single, NEW email \in OwnEmails(p)
        PROVE  {p} = IF p \in Staff THEN ValidateUser(email, latest[p])
                     ELSE ValidateClient(email, latest[p])
    <3>1. latest[p] = secret[p]
      BY <2>1, <2>2 DEF Knows, CredentialsInv, InOrder
    <3>2. Validated({p}, latest[p]) = {p}
      BY <3>1 DEF Validated
    <3>3. CASE p \in Staff
      <4>1. /\ email = EmailOf[p] \/ email \in AliasesOf[p]
            /\ \A q \in Staff \ {p} :
                  email \notin AliasesOf[q] /\ (email \in AliasesOf[p] \/ email # EmailOf[q])
        BY <2>2, <3>3 DEF OwnEmails
      <4>2. FoundUsers(email) = {p}
        <5>1. CASE email \in AliasesOf[p]
          BY <3>3, <4>1, <5>1 DEF FoundUsers
        <5>2. CASE email \notin AliasesOf[p]
          BY <3>3, <4>1, <5>2 DEF FoundUsers
        <5> QED
          BY <5>1, <5>2
      <4> QED
        BY <3>2, <3>3, <4>2 DEF ValidateUser
    <3>4. CASE p \notin Staff
      <4>1. FoundClients(email) = {p}
        BY <2>2, <3>4 DEF OwnEmails, FoundClients, Persons
      <4> QED
        BY <3>2, <3>4, <4>1 DEF ValidateClient
    <3> QED
      BY <3>3, <3>4
  <2> QED
    BY <2>1, <2>2
<1> QED
  BY CredentialsStart, <1>1, <1>2, PTL DEF CredentialsSpec

-----------------------------------------------------------------------------
(***************************************************************************)
(* ClientBrands: no handler and no request leaves an order with a brand    *)
(* that nobody gave its client since the last quiet moment.                *)
(***************************************************************************)
OrderRow == [life : {"none", "live", "deleted"}, brand : Brands]

BrandTypes ==
    /\ brandId \in Brands
    /\ branded \in [BrandedOrders -> OrderRow]
    /\ events \subseteq [id : Nat, brand : Brands]
    /\ writing \subseteq [order : BrandedOrders, brand : Brands]
    /\ writes \in Nat /\ dropped \in BOOLEAN
    /\ carried \subseteq Brands /\ slept \subseteq BrandedOrders

\* what a handler or a request is about to write was carried by an update
OnTheirWay ==
    /\ \A ev \in events : ev.brand \in carried
    /\ \A w \in writing : w.brand \in carried

Follows(o) == branded[o].life = "none" \/ branded[o].brand \in carried

\* while an event waits its handler has still to mend the orders
MendedOrAwaited == dropped \/ events # {} \/ \A o \in BrandedOrders \ slept : Follows(o)

BrandsInv == BrandTypes /\ OnTheirWay /\ MendedOrAwaited

----------------------------------------------------------------------------
\* An update of the client, by itself or by an order's request, keeps what it carries.
LEMMA EmitCarries ==
    ASSUME BrandsInv, NEW b \in Brands, Emit(b)
    PROVE  /\ b \in carried' /\ carried' \subseteq Brands
           /\ writes' \in Nat /\ brandId' \in Brands
           /\ events' \subseteq [id : Nat, brand : Brands] /\ events' # {}
           /\ \A ev \in events' : ev.brand \in carried'
           /\ \A w \in writing : w.brand \in carried'
<1>1. b \in carried' /\ carried' \subseteq Brands /\ (~Quiet => carried \subseteq carried')
  BY DEF Emit, Carry, BrandsInv, BrandTypes
<1>2. /\ writes' \in Nat /\ brandId' \in Brands
      /\ events' = events \cup {[id |-> writes, brand |-> b]}
      /\ events' \subseteq [id : Nat, brand : Brands]
  BY DEF Emit, BrandsInv, BrandTypes
<1>3. \A ev \in events : ev.brand \in carried'
  BY <1>1 DEF Quiet, BrandsInv, OnTheirWay
<1>4. \A w \in writing : w.brand \in carried'
  BY <1>1 DEF Quiet, BrandsInv, OnTheirWay
<1>5. events' # {} /\ \A ev \in events' : ev.brand \in carried'
  <2>1. \A ev \in events' : ev \in events \/ ev.brand = b
    BY <1>2
  <2> QED
    BY <1>1, <1>2, <1>3, <2>1
<1> QED
  BY <1>1, <1>2, <1>4, <1>5

LEMMA BrandsInvInit == ClientBrandsInit => BrandsInv
<1> SUFFICES ASSUME ClientBrandsInit PROVE BrandsInv
  OBVIOUS
<1>1. branded \in [BrandedOrders -> OrderRow]
  BY DEF ClientBrandsInit, OrderRow
<1>2. \A o \in BrandedOrders : Follows(o)
  BY DEF ClientBrandsInit, Follows
<1>3. BrandTypes
  BY <1>1 DEF ClientBrandsInit, BrandTypes
<1> QED
  BY <1>2, <1>3 DEF ClientBrandsInit, BrandsInv, OnTheirWay, MendedOrAwaited

LEMMA BrandsInvNext == BrandsInv /\ [ClientBrandsNext]_brandVars => BrandsInv'
<1> SUFFICES ASSUME BrandsInv, [ClientBrandsNext]_brandVars PROVE BrandsInv'
  OBVIOUS
<1>1. ASSUME NEW b \in Brands, UpdateClient(b) PROVE BrandsInv'
  <2>1. Emit(b) /\ UNCHANGED <<branded, writing, dropped, slept>>
    BY <1>1 DEF UpdateClient
  <2> QED
    BY <2>1, EmitCarries DEF BrandsInv, BrandTypes, OnTheirWay, MendedOrAwaited
<1>2. ASSUME NEW ev \in events, HandleUpdateClientOrderBrand(ev) PROVE BrandsInv'
  <2>1. ev.brand \in Brands /\ ev.brand \in carried
    BY DEF BrandsInv, BrandTypes, OnTheirWay
  <2>2. branded' \in [BrandedOrders -> OrderRow]
    BY <1>2, <2>1 DEF HandleUpdateClientOrderBrand, BrandsInv, BrandTypes, OrderRow
  <2>3. \A o \in BrandedOrders \ slept' : Follows(o)'
    <3> SUFFICES ASSUME NEW o \in BrandedOrders, o \notin slept' PROVE Follows(o)'
      OBVIOUS
    <3>1. branded[o].life \in {"none", "live"}
      BY <1>2 DEF HandleUpdateClientOrderBrand, BrandsInv, BrandTypes, OrderRow
    <3>2. CASE branded[o].life = "none"
      BY <1>2, <3>2 DEF HandleUpdateClientOrderBrand, LiveBranded, Follows
    <3>3. CASE branded[o].life = "live"
      <4>1. branded'[o] = [branded[o] EXCEPT !.brand = ev.brand]
        BY <1>2, <3>3 DEF HandleUpdateClientOrderBrand, LiveBranded
      <4>2. branded'[o].brand = ev.brand
        BY <4>1 DEF BrandsInv, BrandTypes, OrderRow
      <4> QED
        BY <1>2, <2>1, <4>2 DEF HandleUpdateClientOrderBrand, Follows
    <3> QED
      BY <3>1, <3>2, <3>3
  <2> QED
    BY <1>2, <2>2, <2>3
    DEF HandleUpdateClientOrderBrand, BrandsInv, BrandTypes, OnTheirWay, MendedOrAwaited
<1>3. ASSUME NEW w \in writing, WriteOrder(w) PROVE BrandsInv'
  <2>1. w.order \in BrandedOrders /\ w.brand \in Brands /\ w.brand \in carried
    BY DEF BrandsInv, BrandTypes, OnTheirWay
  <2>2. branded[w.order].life \in {"none", "live", "deleted"}
    BY <2>1 DEF BrandsInv, BrandTypes, OrderRow
  <2>3. branded' \in [BrandedOrders -> OrderRow]
    BY <1>3, <2>1, <2>2 DEF WriteOrder, BrandsInv, BrandTypes, OrderRow
  <2>4. branded'[w.order].brand = w.brand /\ \A o \in BrandedOrders : o # w.order => branded'[o] = branded[o]
    BY <1>3, <2>1 DEF WriteOrder, BrandsInv, BrandTypes
  <2>5. MendedOrAwaited'
    BY <1>3, <2>1, <2>4 DEF WriteOrder, BrandsInv, MendedOrAwaited, Follows
  <2> QED
    BY <1>3, <2>3, <2>5 DEF WriteOrder, BrandsInv, BrandTypes, OnTheirWay
<1>4. ASSUME NEW o \in BrandedOrders, BeginOrder(o) PROVE BrandsInv'
  <2>1. PICK b \in Brands : Emit(b) /\ writing' = writing \cup {[order |-> o, brand |-> b]}
    BY <1>4 DEF BeginOrder, BrandsInv, BrandTypes
  <2>2. /\ writing' \subseteq [order : BrandedOrders, brand : Brands]
        /\ \A w \in writing' : w.brand \in carried'
    BY <2>1, EmitCarries DEF BrandsInv, BrandTypes
  <2> QED
    BY <1>4, <2>1, <2>2, EmitCarries
    DEF BeginOrder, BrandsInv, BrandTypes, OnTheirWay, MendedOrAwaited
<1>5. ASSUME NEW o \in BrandedOrders, RemoveBranded(o) \/ RestoreBranded(o) PROVE BrandsInv'
  <2>1. PICK l \in {"live", "deleted"} : branded' = [branded EXCEPT ![o].life = l]
    BY <1>5 DEF RemoveBranded, RestoreBranded
  <2>2. branded[o].life # "none"
    BY <1>5 DEF RemoveBranded, RestoreBranded
  <2>3. UNCHANGED <<brandId, events, writing, writes, dropped, carried, slept>>
    BY <1>5 DEF RemoveBranded, RestoreBranded
  <2>4. branded' \in [BrandedOrders -> OrderRow]
    BY <2>1 DEF BrandsInv, BrandTypes, OrderRow
  <2>5. \A p \in BrandedOrders : Follows(p) => Follows(p)'
    BY <2>1, <2>2, <2>3 DEF Follows, BrandsInv, BrandTypes, OrderRow
  <2> QED
    BY <2>3, <2>4, <2>5 DEF BrandsInv, BrandTypes, OnTheirWay, MendedOrAwaited
<1>6. ASSUME StopProcess PROVE BrandsInv'
  BY <1>6 DEF StopProcess, BrandsInv, BrandTypes, OnTheirWay, MendedOrAwaited
<1>7. CASE UNCHANGED brandVars
  BY <1>7 DEF brandVars, BrandsInv, BrandTypes, OnTheirWay, MendedOrAwaited, Follows
<1> QED
  BY <1>1, <1>2, <1>3, <1>4, <1>5, <1>6, <1>7 DEF ClientBrandsNext

LEMMA InvGivesOrdersFollow == BrandsInv => OrdersFollowTheirClient
BY DEF BrandsInv, MendedOrAwaited, Follows, OrdersFollowTheirClient, Quiet, LiveBranded

\* For every set of brands and orders and however many updates overlap: when no event and no
\* request of client.subscriber.ts and orders.service.ts is under way and none was cut off, a live
\* order that slept through no handler has a brand of the last burst of updates.
THEOREM BrandsAreFollowed == ClientBrandsSpec => []OrdersFollowTheirClient
<1>1. ClientBrandsSpec => []BrandsInv
  BY BrandsInvInit, BrandsInvNext, PTL DEF ClientBrandsSpec
<1> QED
  BY <1>1, InvGivesOrdersFollow, PTL
=============================================================================
