----------------------------- MODULE DailyRatings -----------------------------
(***************************************************************************)
(* The daily ratings of one company.  A request measures one when there is  *)
(* none with stars; two commands rewrite them: one fills the days between   *)
(* two ratings, one recomputes the rating from the stars.                   *)
(***************************************************************************)
EXTENDS Naturals, FiniteSets, Sequences, Listings

CONSTANTS Today, Stars,      \* days are 1 .. Today; what the scraper may answer
          ImportedDays,      \* days that may have a rating at first
          WrongDays,         \* days whose ratings are recomputed
          Runners,           \* processes that fill at once
          MaxAsks, MaxFills  \* bounds on the requests and the runs

ASSUME RatingsOK == /\ Today \in Nat \ {0} /\ ImportedDays \subseteq 1 .. Today
                    /\ "fix" \notin Runners

NoStars == "none"

VARIABLES rated,      \* rows, in the order of their creation: [day, stars, right, measured]
          listed,     \* the company is live
          valid,      \* valid_url of the company
          asks,       \* requests: one for each that measures
          runner, fills, stops,
          closed      \* history: pairs of days between which a run has filled
ratingVars == <<rated, listed, valid, asks, runner, fills, stops, closed>>

Rows == DOMAIN rated
\* newest first; of one day, the later row first: it has the later time
Newer(i, j) == rated[i].day > rated[j].day \/ (rated[i].day = rated[j].day /\ i > j)
NewestFirst == Listing(Rows, {p \in Rows \X Rows : Newer(p[1], p[2])})

----------------------------------------------------------------------------
\* ratings.service.ts getOrCreateRatings

\* a rating with stars, of whatever day, is the answer
AskForRating ==
    /\ listed /\ Cardinality(asks) < MaxAsks
    /\ rated # <<>> => rated[NewestFirst[1]].stars = NoStars
    /\ asks' = asks \cup {[id |-> Cardinality(asks) + 1, pc |-> "create"]}
    /\ UNCHANGED <<rated, listed, valid, runner, fills, stops, closed>>

\* stars that are missing make the number of bad reviews NaN, which is refused
CreateRating(a) ==
    /\ a.pc = "create"
    /\ \E s \in Stars :
          /\ rated' = Append(rated, [day |-> Today, stars |-> s, right |-> TRUE, measured |-> TRUE])
          /\ asks' = (asks \ {a}) \cup {[a EXCEPT !.pc = "mark"]}
    /\ UNCHANGED <<listed, valid, runner, fills, stops, closed>>

MarkUrl(a) ==
    /\ a.pc = "mark"
    /\ valid' = TRUE
    /\ asks' = (asks \ {a}) \cup {[a EXCEPT !.pc = "done"]}
    /\ UNCHANGED <<rated, listed, runner, fills, stops, closed>>

FailAsk(a) ==
    /\ a.pc # "done" /\ stops > 0 /\ stops' = stops - 1
    /\ asks' = (asks \ {a}) \cup {[a EXCEPT !.pc = "done"]}
    /\ UNCHANGED <<rated, listed, valid, runner, fills, closed>>

RemoveCompany ==
    /\ listed /\ listed' = FALSE
    /\ UNCHANGED <<rated, valid, asks, runner, fills, stops, closed>>

----------------------------------------------------------------------------
\* fill-gap-daily-ratings.command.ts

\* a mutant: the days get the values of the rating before them
FilledFromOlder(list) ==
    UNION {{[rated[list[k + 1]] EXCEPT !.day = d, !.measured = FALSE] :
                d \in rated[list[k + 1]].day + 1 .. rated[list[k]].day - 1} :
           k \in 1 .. Len(rated) - 1}

\* the days between two ratings, with the values of the newer one
Gap(newer, older) ==
    {[newer EXCEPT !.day = d, !.measured = FALSE] : d \in older.day + 1 .. newer.day - 1}

Filled(list) ==
    UNION {Gap(rated[list[k]], rated[list[k + 1]]) : k \in 1 .. Len(rated) - 1}

\* the list is read once; the oldest and the newest day are remembered for when the run is over
StartFill(r) ==
    /\ runner[r].pc = "idle" /\ listed
    /\ fills < MaxFills /\ fills' = fills + 1
    /\ LET list == NewestFirst
       IN  runner' = [runner EXCEPT ![r] =
              [pc |-> "fill", todo |-> Filled(list),
               span |-> IF rated = <<>> THEN <<1, 0>>
                        ELSE <<rated[list[Len(rated)]].day, rated[list[1]].day>>]]
    /\ UNCHANGED <<rated, listed, valid, asks, stops, closed>>

\* from the newest day to the oldest
FillDay(r) ==
    /\ runner[r].pc = "fill"
    /\ \E row \in runner[r].todo :
          /\ \A other \in runner[r].todo : other.day <= row.day
          /\ rated' = Append(rated, row)
          /\ runner' = [runner EXCEPT ![r].todo = @ \ {row}]
    /\ UNCHANGED <<listed, valid, asks, fills, stops, closed>>

EndFill(r) ==
    /\ runner[r].pc = "fill" /\ runner[r].todo = {}
    /\ closed' = closed \cup {runner[r].span}
    /\ runner' = [runner EXCEPT ![r].pc = "idle"]
    /\ UNCHANGED <<rated, listed, valid, asks, fills, stops>>

\* a call rejects or the process ends
StopFill(r) ==
    /\ runner[r].pc = "fill"
    /\ stops > 0 /\ stops' = stops - 1
    /\ runner' = [runner EXCEPT ![r].pc = "idle"]
    /\ UNCHANGED <<rated, listed, valid, asks, fills, closed>>

----------------------------------------------------------------------------
\* update-ratings.command.ts: whatever company; a row that fails is logged and left alone

StartFix ==
    /\ runner["fix"].pc = "idle"
    /\ runner' = [runner EXCEPT !["fix"] =
                    [pc |-> "fix", todo |-> {i \in Rows : rated[i].day \in WrongDays},
                     span |-> <<1, 0>>]]
    /\ UNCHANGED <<rated, listed, valid, asks, fills, stops, closed>>

FixRating(i) ==
    /\ runner["fix"].pc = "fix" /\ i \in runner["fix"].todo
    /\ \/ rated' = [rated EXCEPT ![i].right = TRUE]
       \/ UNCHANGED rated
    /\ runner' = [runner EXCEPT !["fix"].todo = @ \ {i}]
    /\ UNCHANGED <<listed, valid, asks, fills, stops, closed>>

----------------------------------------------------------------------------
\* imported ratings of some days, some without stars
RatingsInit ==
    /\ \E imported \in [ImportedDays -> Stars \cup {NoStars, "no row"}] :
          LET dated == {d \in ImportedDays : imported[d] # "no row"}
              days == Listing(dated, Ascending(dated))
          IN  rated = [i \in 1 .. Cardinality(dated) |->
                          [day |-> days[i], stars |-> imported[days[i]],
                           right |-> FALSE, measured |-> TRUE]]
    /\ listed = TRUE /\ valid = FALSE /\ asks = {}
    /\ runner = [r \in Runners \cup {"fix"} |-> [pc |-> "idle"]]
    /\ fills = 0 /\ stops = 1 /\ closed = {}

RatingsNext ==
    \/ AskForRating \/ RemoveCompany \/ StartFix
    \/ \E a \in asks : CreateRating(a) \/ MarkUrl(a) \/ FailAsk(a)
    \/ \E r \in Runners : StartFill(r) \/ FillDay(r) \/ EndFill(r) \/ StopFill(r)
    \/ \E i \in Rows : FixRating(i)

RatingsSpec == RatingsInit /\ [][RatingsNext]_ratingVars

----------------------------------------------------------------------------
\* However runs overlap, stop and start again while ratings are measured and recomputed: a day
\* that was filled has the stars of a rating that was measured on the first day after it that has
\* one, and when a run is over every day of the span it read has a rating.
FilledDaysCopyTheNext ==
    /\ \A i \in Rows : ~rated[i].measured =>
          \E j \in Rows :
              /\ rated[j].measured /\ rated[j].day > rated[i].day
              /\ rated[j].stars = rated[i].stars
              /\ \A k \in Rows : rated[k].measured /\ rated[k].day > rated[i].day =>
                    rated[k].day >= rated[j].day
    /\ \A span \in closed : \A d \in span[1] .. span[2] :
          \E i \in Rows : rated[i].day = d
=============================================================================
