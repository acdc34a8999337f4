----------------------------- MODULE ProspectBoard -----------------------------
(***************************************************************************)
(* Prospects on a board of columns (templates).  A search scrapes names and *)
(* puts the new ones at the end of the first column; users move, reorder,   *)
(* rename and remove prospects.  Every database call is an action.          *)
(***************************************************************************)
EXTENDS Naturals, FiniteSets, Sequences, SequencesExt, Listings

CONSTANTS Cards, Names, Columns,   \* rows to come, names found, ids of templates
          MaxFound,                \* bound on the length of the scraper's answer
          Hands, MaxOps            \* requests at once, and a bound on them

ASSUME BoardOK == /\ Cards \subseteq Nat \ {0} /\ IsFiniteSet(Cards) /\ IsFiniteSet(Names)
                  /\ Columns \subseteq Nat /\ 1 \in Columns /\ MaxFound \in Nat

VARIABLES card,      \* rows of prospects: [life, session, column, position, name]
          sessions,  \* how many sessions there are for the one keyword and city
          hand, ops, mishaps,
          lone,      \* one request at a time
          torn,      \* history: a call of a reordering was rejected, the others went on
          renamed,   \* history: prospects that were given a name by hand
          doubled    \* history: prospects whose name was more than once in the answer they are of
boardVars == <<card, sessions, hand, ops, mishaps, lone, torn, renamed, doubled>>

NoCard == [life |-> "none", session |-> 0, column |-> 1, position |-> 0, name |-> "none"]
Rest == [pc |-> "idle"]

LiveCards == {c \in Cards : card[c].life = "live"}
Column(k) == {c \in LiveCards : card[c].column = k}
NamesIn(s) == {card[c].name : c \in {d \in LiveCards : card[d].session = s}}

Pass(h, pc) == hand' = [hand EXCEPT ![h].pc = pc]
Drop(h) == hand' = [hand EXCEPT ![h] = Rest]
Tallies == <<ops, mishaps, lone>>
Traces == <<torn, renamed, doubled>>

\* a mutant: the number of prospects in the column
CountPosition(k) == Cardinality(Column(k))

\* prospects.service.ts findLastPosition; 0 where it is undefined
LastPosition(k) ==
    IF Column(k) = {} THEN 0
    ELSE CHOOSE n \in {card[c].position : c \in Column(k)} :
            \A c \in Column(k) : card[c].position <= n

----------------------------------------------------------------------------
\* scraper.service.ts search, prospect-session.service.ts create and update

FindSession(h) ==
    /\ hand[h].pc = "findSession"
    /\ \E s \in IF sessions = 0 THEN {0} ELSE 1 .. sessions :
          hand' = [hand EXCEPT ![h].pc = "scrape", ![h].session = s, ![h].known = NamesIn(s)]
    /\ UNCHANGED <<card, sessions, Tallies, Traces>>

\* the scraper's answer: names are compared with those stored and not with each other
Scrape(h) ==
    /\ hand[h].pc = "scrape"
    /\ \E found \in SeqOf(Names, MaxFound) :
          LET new == Sifted(found, Names \ hand[h].known)
          IN  IF hand[h].session # 0 /\ new = <<>> THEN Drop(h)
              ELSE hand' = [hand EXCEPT ![h].pc = "readLast", ![h].names = new]
    /\ UNCHANGED <<card, sessions, Tallies, Traces>>

\* a new session starts an empty column at 0; in an update undefined becomes NaN, which is refused
ReadLast(h) ==
    /\ hand[h].pc = "readLast"
    /\ IF hand[h].session # 0 /\ Column(1) = {} THEN Drop(h)
       ELSE hand' = [hand EXCEPT ![h].pc = "insert", ![h].last = LastPosition(1)]
    /\ UNCHANGED <<card, sessions, Tallies, Traces>>

\* the session and its prospects are one call; the new ones are numbered on from the last
InsertCards(h) ==
    /\ hand[h].pc = "insert"
    /\ LET s == IF hand[h].session = 0 THEN sessions + 1 ELSE hand[h].session
           free == {c \in Cards : card[c].life = "none"}
           new == hand[h].names
           Nth(c) == Cardinality({d \in free : d <= c})
           added == {c \in free : Nth(c) <= Len(new)}
       IN  /\ Cardinality(free) >= Len(new)
           /\ sessions' = IF s > sessions THEN s ELSE sessions
           /\ card' = [c \in Cards |->
                 IF c \in added
                 THEN [life |-> "live", session |-> s, column |-> 1,
                       position |-> hand[h].last + Nth(c), name |-> new[Nth(c)]]
                 ELSE card[c]]
           /\ doubled' = doubled \cup {c \in added : \E d \in added \ {c} : new[Nth(c)] = new[Nth(d)]}
    /\ Drop(h)
    /\ UNCHANGED <<Tallies, torn, renamed>>

----------------------------------------------------------------------------
\* prospects.service.ts update and remove

\* the position of the move, read before the row is written
ReadColumn(h) ==
    /\ hand[h].pc = "readColumn"
    /\ hand' = [hand EXCEPT ![h].pc = "moveCard", ![h].last = LastPosition(hand[h].column)]
    /\ UNCHANGED <<card, sessions, Tallies, Traces>>

\* a removed prospect too
MoveCard(h) ==
    /\ hand[h].pc = "moveCard"
    /\ card' = [card EXCEPT ![hand[h].card].column = hand[h].column,
                            ![hand[h].card].position = hand[h].last + 1]
    /\ Drop(h)
    /\ UNCHANGED <<sessions, Tallies, Traces>>

Rename(h) ==
    /\ hand[h].pc = "rename"
    /\ \E n \in Names : card' = [card EXCEPT ![hand[h].card].name = n]
    /\ renamed' = renamed \cup {hand[h].card}
    /\ Drop(h)
    /\ UNCHANGED <<sessions, Tallies, torn, doubled>>

RemoveCard(h) ==
    /\ hand[h].pc = "remove"
    /\ card' = IF hand[h].card \in LiveCards THEN [card EXCEPT ![hand[h].card].life = "deleted"]
               ELSE card
    /\ Drop(h)
    /\ UNCHANGED <<sessions, Tallies, Traces>>

----------------------------------------------------------------------------
\* prospect-templates.service.ts updateProspectsPosition

ReadBoard(h) ==
    /\ hand[h].pc = "readBoard"
    /\ hand' = [hand EXCEPT ![h].pc = "readOriginals",
                            ![h].board = [c \in LiveCards |-> card[c]]]
    /\ UNCHANGED <<card, sessions, Tallies, Traces>>

\* the prospects asked for, then those of the column nobody mentioned, the last one first
Listed(h) ==
    LET board == hand[h].board
        asked == Sifted(hand[h].ids, DOMAIN board)
        overlooked == {c \in DOMAIN board : board[c].column = hand[h].column} \ ToSet(asked)
        After(c, d) == \/ board[c].position > board[d].position
                       \/ board[c].position = board[d].position /\ c < d
    IN  asked \o Listing(overlooked, {p \in overlooked \X overlooked : After(p[1], p[2])})

\* the plain client: originals are rows of the column, removed or not
ReadOriginals(h) ==
    /\ hand[h].pc = "readOriginals"
    /\ LET list == Listed(h)
           board == hand[h].board
           Foreign(c) == card[c].column # hand[h].column
           writes == {i \in DOMAIN list :
                        \/ Foreign(list[i])
                        \/ /\ i # card[list[i]].position
                           /\ board[list[i]].position = card[list[i]].position}
       IN  hand' = [hand EXCEPT ![h].pc = "write", ![h].board = <<>>,
                        ![h].todo = {[card |-> list[i], position |-> i,
                                      moves |-> Foreign(list[i])] : i \in writes}]
    /\ UNCHANGED <<card, sessions, Tallies, Traces>>

\* all at once, in any order; only a foreign prospect gets the column
WritePosition(h, w) ==
    /\ hand[h].pc = "write" /\ w \in hand[h].todo
    /\ card' = [card EXCEPT ![w.card].position = w.position,
                            ![w.card].column = IF w.moves THEN hand[h].column ELSE @]
    /\ hand' = [hand EXCEPT ![h].todo = @ \ {w}]
    /\ UNCHANGED <<sessions, Tallies, Traces>>

LoseWrite(h, w) ==
    /\ hand[h].pc = "write" /\ w \in hand[h].todo
    /\ mishaps > 0 /\ mishaps' = mishaps - 1
    /\ hand' = [hand EXCEPT ![h].todo = @ \ {w}]
    /\ torn' = TRUE
    /\ UNCHANGED <<card, sessions, ops, lone, renamed, doubled>>

EndReorder(h) ==
    /\ hand[h].pc = "write" /\ hand[h].todo = {}
    /\ Drop(h)
    /\ UNCHANGED <<card, sessions, Tallies, Traces>>

----------------------------------------------------------------------------
Asking(pc) == [pc |-> pc, session |-> 0, known |-> {}, names |-> <<>>, last |-> 0, card |-> 0,
               column |-> 1, ids |-> <<>>, board |-> <<>>, todo |-> {}]

AskingOf(pc, c) == [Asking(pc) EXCEPT !.card = c]
AskingToMove(c, k) == [Asking("readColumn") EXCEPT !.card = c, !.column = k]
AskingToReorder(s, k) == [Asking("readBoard") EXCEPT !.ids = s, !.column = k]

Askings ==
    {Asking("findSession")}
  \cup {AskingOf(pc, c) : pc \in {"rename", "remove"}, c \in LiveCards}
  \cup {AskingToMove(c, k) : c \in LiveCards, k \in Columns}
  \cup {AskingToReorder(s, k) : s \in UNION {SetToSeqs(S) : S \in SUBSET LiveCards}, k \in Columns}

BeginOp(h) ==
    /\ hand[h].pc = "idle" /\ ops < MaxOps /\ ops' = ops + 1
    /\ \A g \in Hands : g < h => hand[g].pc # "idle"
    /\ lone => \A g \in Hands : hand[g].pc = "idle"
    /\ \E a \in Askings : hand' = [hand EXCEPT ![h] = a]
    /\ UNCHANGED <<card, sessions, mishaps, lone, Traces>>

\* a call to the database or the scraper rejects, and with it the request
FailOp(h) ==
    /\ hand[h].pc \notin {"idle", "write"}
    /\ mishaps > 0 /\ mishaps' = mishaps - 1
    /\ Drop(h)
    /\ UNCHANGED <<card, sessions, ops, lone, Traces>>

BoardInit ==
    /\ card = [c \in Cards |-> NoCard]
    /\ sessions = 0 /\ ops = 0 /\ mishaps = 1 /\ lone \in BOOLEAN
    /\ hand = [h \in Hands |-> Rest]
    /\ torn = FALSE /\ renamed = {} /\ doubled = {}

BoardNext ==
    \E h \in Hands :
        \/ BeginOp(h) \/ FailOp(h)
        \/ FindSession(h) \/ Scrape(h) \/ ReadLast(h) \/ InsertCards(h)
        \/ ReadColumn(h) \/ MoveCard(h) \/ Rename(h) \/ RemoveCard(h)
        \/ ReadBoard(h) \/ ReadOriginals(h) \/ EndReorder(h)
        \/ \E w \in IF hand[h].pc = "write" THEN hand[h].todo ELSE {} :
              WritePosition(h, w) \/ LoseWrite(h, w)

BoardSpec == BoardInit /\ [][BoardNext]_boardVars

----------------------------------------------------------------------------
\* One request at a time, and between requests: whatever was searched, moved, reordered and
\* removed before, and whatever call failed, two prospects of a column have two positions, unless
\* a reordering was torn, and two of a session have two names, unless one was renamed by hand or
\* their name came twice in one answer of the scraper; a later answer does not bring it again.
CardsAreApart ==
    lone /\ (\A h \in Hands : hand[h].pc = "idle") =>
        \A c, d \in LiveCards : c # d =>
            /\ ~torn /\ card[c].column = card[d].column => card[c].position # card[d].position
            /\ card[c].session = card[d].session /\ card[c].name = card[d].name =>
                  {c, d} \cap renamed # {} \/ {c, d} \subseteq doubled
=============================================================================
