----------------------------- MODULE TimeChecks -----------------------------
(***************************************************************************)
(* The checks ToursService makes on the list of times an admin submits, as *)
(* the code makes them: sort by start date, compare neighbours.  The list  *)
(* is built one time after the other, so that its states are the inputs.   *)
(***************************************************************************)
EXTENDS FiniteSets, Functions, TimeRanges

CONSTANTS Dates,       \* the calendar, a set of integers
          MaxTimes     \* bound on the length of a list

ASSUME DatesAssumption == Dates \subseteq Nat /\ MaxTimes \in Nat

VARIABLE times         \* the submitted list

Time == [startDate: Dates, endDate: Dates, status: {"open", "cancelled"}]

-----------------------------------------------------------------------------
ValidRanges(list) == \A i \in DOMAIN list : list[i].startDate <= list[i].endDate

\* The order that sorting by start date leaves the positions of a list in:
\* those of the same day stay as they came.
Before(list, i, j) ==
  \/ list[i].startDate < list[j].startDate
  \/ list[i].startDate = list[j].startDate /\ i < j

IsSorting(order, list) ==
  \A i, j \in DOMAIN order : i < j => Before(list, order[i], order[j])

\* The times kept of a list, sorted by start date.
SortedByStart(list, kept) ==
  LET order == CHOOSE p \in Bijection(1..Cardinality(kept), kept) :
                 IsSorting(p, list)
  IN  [i \in DOMAIN order |-> list[order[i]]]

\* A plausible bug: a time may start the day the one before ends.
NeighboursOverlap_SameDay(list, kept) ==
  LET sorted == SortedByStart(list, kept)
  IN  \E i \in 2..Len(sorted) : sorted[i].startDate < sorted[i - 1].endDate

NeighboursOverlap(list, kept) == NeighboursTouch(SortedByStart(list, kept))

\* A plausible bug: the times are compared in the order they were submitted.
ValidateNewTimes_Unsorted(list) ==
  /\ ValidRanges(list)
  /\ \A i \in 2..Len(list) : list[i].startDate > list[i - 1].endDate

ValidateNewTimes(list) ==
  ValidRanges(list) /\ ~NeighboursOverlap(list, DOMAIN list)

NotCancelled(list) == {i \in DOMAIN list : list[i].status # "cancelled"}

ValidateEditedTimes(list) ==
  ValidRanges(list) /\ ~NeighboursOverlap(list, NotCancelled(list))

-----------------------------------------------------------------------------
Init == times = << >>

AddTime ==
  /\ Len(times) < MaxTimes
  /\ \E time \in Time : times' = Append(times, time)

Next == AddTime

Spec == Init /\ [][Next]_times

-----------------------------------------------------------------------------
(* Properties *)

\* Comparing neighbours decides overlap.  The check of an edit accepts a list
\* exactly if its ranges are valid and no two times of it that will run
\* overlap, in whatever order they come; the check of a new tour, whose times
\* are all opened whatever they say, exactly if no two of them overlap.
ChecksFindOverlaps ==
  LET opened == [i \in DOMAIN times |-> [times[i] EXCEPT !.status = "open"]]
  IN  /\ ValidateEditedTimes(times) <=> NoOverlaps(times, DOMAIN times)
      /\ ValidateNewTimes(times) <=> NoOverlaps(opened, DOMAIN opened)
=============================================================================
