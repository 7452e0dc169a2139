----------------------------- MODULE MCSchedules -----------------------------
(* Small instances of Schedules for TLC. *)
EXTENDS Schedules, TLC

CONSTANTS tourA, t1, t2, t3

Times(start, end, capacity, status) ==
  [startDate |-> start, endDate |-> end, price |-> 10,
   maxCapacity |-> capacity, status |-> status]

\* Departures of the last two days, open or cancelled.
MCInitialTourTime ==
  [tour: {tourA}, startDate: {2}, endDate: {2}, price: {10},
   maxCapacity: {1}, status: {"open", "cancelled"}, deleted: {FALSE}]

\* t1 resubmitted as it is, moved twice, closed or cancelled; a time of the
\* last day added, alone or for t1.
MCForms ==
  LET Resubmit(start, end, status) ==
        [times |-> t1 :> Times(start, end, 1, status), new |-> {},
         deleted |-> {}]
      Add(deleted) ==
        [times |-> << >>, new |-> {Times(3, 3, 1, "open")},
         deleted |-> deleted]
  IN  {Resubmit(2, 2, "open"), Resubmit(2, 3, "open"), Resubmit(3, 3, "open"),
       Resubmit(2, 2, "closed"), Resubmit(2, 2, "cancelled"),
       Add({}), Add({t1})}

MCNewTours == {{Times(2, 2, 1, "open"), Times(3, 3, 1, "open")}}

\* The forms name t1 only.
MCSymmetry == Permutations(Edit) \cup Permutations({t2, t3})
=============================================================================
