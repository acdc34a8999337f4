----------------------------- MODULE ReportDates -----------------------------
(***************************************************************************)
(* The ranges of days that the lists and the reports ask the database for.  *)
(* A date is a day: every range starts at the first and ends at the last    *)
(* millisecond of a day.                                                    *)
(***************************************************************************)
EXTENDS Integers, FiniteSetsExt

CONSTANTS Today,      \* days are numbered 0 .. Today
          LastDays,   \* the default range of the reports, 30 in the code
          NotGiven    \* an argument the request leaves out

Days == 0 .. Today

ASSUME DatesOK == Today \in Nat /\ LastDays \in Nat /\ NotGiven \notin Int

RangeArgs == [from : Days \cup {NotGiven}, to : Days \cup {NotGiven}]

\* date-range.ts answers 400 to a range that ends before it starts
Rejected(a) ==
    /\ a.from # NotGiven
    /\ a.from > (IF a.to = NotGiven THEN Today ELSE a.to)

\* rows: the days of the rows among which an open range looks for its start
OpenStart(rows) == IF rows = {} THEN Today ELSE Min(rows)

DateRange(a, rows) ==
    (IF a.from = NotGiven THEN OpenStart(rows) ELSE a.from)
        .. (IF a.to = NotGiven THEN Today ELSE a.to)

\* the lists: no range at all if neither end is given
ListRange(a, rows) ==
    IF a.from = NotGiven /\ a.to = NotGiven THEN Days ELSE DateRange(a, rows)

LastRange == (Today - LastDays) .. Today

\* orders/reports, clients/reports: the last days only if both ends are missing
ReportRange(a, rows) ==
    IF a.from = NotGiven /\ a.to = NotGiven THEN LastRange ELSE DateRange(a, rows)

\* dashboard and sellers: the last days if one end is missing
DashboardRange(a) ==
    IF a.from = NotGiven \/ a.to = NotGiven THEN LastRange ELSE a.from .. a.to
=============================================================================
