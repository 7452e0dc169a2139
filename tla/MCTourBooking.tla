---------------------------- MODULE MCTourBooking ----------------------------
(* Small instances of TourBooking for TLC. *)
EXTENDS TourBooking, TLC

CONSTANTS tourA, t1

MCInitialTourTime ==
  [tour: {tourA}, startDate: {2}, endDate: {2}, price: {10},
   maxCapacity: {2}, status: {"open"}, deleted: {FALSE}]

Times(price, capacity, status) ==
  [startDate |-> 2, endDate |-> 2, price |-> price,
   maxCapacity |-> capacity, status |-> status]

\* t1 closed, cancelled, made smaller or cheaper, reopened as it was, or
\* deleted when a new time replaces it.
MCForms ==
  LET Body(price, capacity, status) ==
        [times |-> t1 :> Times(price, capacity, status), new |-> {},
         deleted |-> {}]
  IN {Body(10, 2, "open"), Body(10, 2, "closed"),
      Body(10, 2, "cancelled"), Body(10, 1, "open"), Body(5, 2, "open"),
      [times |-> << >>, new |-> {Times(10, 2, "open")}, deleted |-> {t1}]}

\* For liveness: t1 cancelled.
MCOneForm ==
  {[times |-> t1 :> Times(10, 2, "cancelled"), new |-> {}, deleted |-> {}]}

MCSymmetry == Permutations(BookingId) \cup Permutations(Request)
                \cup Permutations(Edit) \cup Permutations(User)
=============================================================================
