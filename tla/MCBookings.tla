----------------------------- MODULE MCBookings -----------------------------
(* Small instances of Bookings for TLC. *)
EXTENDS Bookings, TLC

\* An open departure that starts on the last day, and one closed by hand.
MCInitialTourTime ==
  [tour: Tour, startDate: {MaxDay}, endDate: {MaxDay}, price: Price,
   maxCapacity: {MaxCapacity}, status: {"open", "closed"}, deleted: {FALSE}]

MCSymmetry == Permutations(BookingId) \cup Permutations(Request)
                \cup Permutations(User)
=============================================================================
