-------------------------------- MODULE TimeShift --------------------------------
(***************************************************************************)
(* The intervals that bondster-bco-import searches for statements          *)
(* (support/timeshift/utils.go): the time from a token's cursor to now,    *)
(* sliced by months. The Bondster client asks for the months from the one  *)
(* an interval starts in to the one it ends in.                            *)
(*                                                                         *)
(* Time is a number; a day has Day of them, its first one is midnight, and *)
(* month m begins at midnight of its first day, Begin[m].                  *)
(***************************************************************************)
EXTENDS Integers, Sequences

CONSTANTS
  Months,   \* the calendar has the months 1..Months + 1
  Begin,    \* [1..Months + 1 -> when the month begins]
  Day

ASSUME MonthsAssumption == Months \in Nat \ {0}
ASSUME DayAssumption == Day \in Nat \ {0}
ASSUME BeginAssumption ==
  /\ Begin \in [1..(Months + 1) -> Nat]
  /\ \A m, n \in 1..(Months + 1) : m < n => Begin[m] + Day <= Begin[n]

VARIABLES
  startDate, endDate,  \* the arguments
  current,             \* the month SliceByMonths has come to
  timeline,            \* the intervals
  loop                 \* "done" when PartitionInterval has set the two ends

shiftVars == <<startDate, endDate, current, timeline, loop>>

Times == Begin[1]..(Begin[Months + 1] - 1)

\* Type invariant.
ShiftTypeOK ==
  /\ startDate \in Times /\ endDate \in Times
  /\ current \in 1..(Months + 1)
  /\ timeline \in Seq([start: Times, end: Times])
  /\ loop \in {"slice", "done"}

\* From the first of the month that startDate is in.
ShiftInit ==
  /\ startDate \in Times /\ endDate \in Times
  /\ current \in 1..Months
  /\ Begin[current] <= startDate /\ startDate < Begin[current + 1]
  /\ timeline = <<>>
  /\ loop = "slice"

\* Mutant of LastDay: the first day of the next month.
LastDayNext(m) == Begin[m + 1]

\* AddDate(0, 1, 0) and AddDate(0, 0, -1): midnight of the last day of the month.
LastDay(m) == Begin[m + 1] - Day

\* current.Before(endDate)
Before(m, time) == Begin[m] < time

SliceMonth ==
  /\ loop = "slice" /\ Before(current, endDate)
  /\ timeline' = Append(timeline, [start |-> Begin[current], end |-> LastDay(current)])
  /\ current' = current + 1
  /\ UNCHANGED <<startDate, endDate, loop>>

\* The last interval ends at endDate, the first one starts at startDate.
WithEnds(line) ==
  [i \in DOMAIN line |->
     [start |-> IF i = 1 THEN startDate ELSE line[i].start,
      end |-> IF i = Len(line) THEN endDate ELSE line[i].end]]

PartitionInterval ==
  /\ loop = "slice" /\ ~Before(current, endDate)
  /\ timeline' = WithEnds(timeline)
  /\ loop' = "done"
  /\ UNCHANGED <<startDate, endDate, current>>

ShiftNext == SliceMonth \/ PartitionInterval

ShiftSpec == ShiftInit /\ [][ShiftNext]_shiftVars

-----------------------------------------------------------------------------
(* What holds *)

\* Month m is among those the client asks for on behalf of interval i: the
\* interval ends in it or later, and starts in it or earlier.
Searches(i, m) == Begin[m] <= timeline[i].end /\ timeline[i].start < Begin[m + 1]

\* Every month that has a moment between the cursor and now is searched.
EveryMonthSearched ==
  loop = "done" /\ startDate < endDate =>
    \A m \in 1..Months :
      startDate < Begin[m + 1] /\ Begin[m] <= endDate
        => \E i \in DOMAIN timeline : Searches(i, m)

\* No month is asked for on behalf of two intervals, so that no page of the search is
\* asked for twice (utils.go 36-43).
NoMonthTwice ==
  \A i, j \in DOMAIN timeline, m \in 1..Months :
    Searches(i, m) /\ Searches(j, m) => i = j

\* Months are neither left out nor repeated, be the cursor and now on the first,
\* the last or any other day of a month (utils.go 24-46, workflow.go 333).
MonthsSearchedOnce == EveryMonthSearched /\ NoMonthTwice
=============================================================================
