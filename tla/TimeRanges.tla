----------------------------- MODULE TimeRanges -----------------------------
(* What it means that the departure times of a tour do not overlap. *)
EXTENDS Integers, Sequences

\* Both ends of a range are in it.
Overlap(x, y) == x.startDate <= y.endDate /\ y.startDate <= x.endDate

\* In a list sorted by start date, a time starts no later than the one before
\* it ends.
NeighboursTouch(sorted) ==
  \E i \in 2..Len(sorted) : sorted[i].startDate <= sorted[i - 1].endDate

\* No two times of a table overlap, cancelled ones left out.  The code sorts
\* and compares neighbours: TimeChecks says that this is the same.
NoOverlaps(times, kept) ==
  /\ \A x \in kept : times[x].startDate <= times[x].endDate
  /\ \A x, y \in {t \in kept : times[t].status # "cancelled"} :
       x # y => ~Overlap(times[x], times[y])
=============================================================================
