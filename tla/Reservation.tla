----------------------------- MODULE Reservation -----------------------------
(***************************************************************************)
(* What the booking service promises, each request in one atomic step: a   *)
(* reservation checks the departure, the user's other bookings and the     *)
(* capacity at the very moment it is recorded.  Bookings left in           *)
(* overwritten (see Decide) are the one exception: the checks may miss     *)
(* them.                                                                   *)
(***************************************************************************)
EXTENDS TourStore

VARIABLE overwritten

resVars == <<tourTimes, bookings, overwritten>>

Init ==
  /\ tourTimes \in UNION {[T -> InitialTourTime] : T \in SUBSET TourTimeId}
  /\ bookings = [b \in {} |-> b]
  /\ overwritten = {}

Reserve(u, t, n) ==
  /\ Live(t)
  /\ tourTimes[t].status = "open"
  /\ ActiveBookings(u, t, overwritten) = {}
  /\ ReservedSlots(t, overwritten) + n <= tourTimes[t].maxCapacity
  /\ \E b \in BookingId \ (DOMAIN bookings) :
       InsertBooking(b, [user |-> u, tourTime |-> t, slots |-> n,
                         status |-> "pending",
                         totalPrice |-> tourTimes[t].price * n])
  /\ UNCHANGED <<tourTimes, overwritten>>

Cancel(b) ==
  /\ bookings[b].status = "pending"
  /\ SetBookingStatus(b, "cancelled")
  /\ UNCHANGED <<tourTimes, overwritten>>

\* An admin's decision may come late and replace a cancellation or another
\* decision.
Decide(b, d) ==
  /\ SetBookingStatus(b, d)
  /\ overwritten' = IF ~Active(b) /\ d \in ActiveStatus
                    THEN overwritten \cup {b} ELSE overwritten
  /\ UNCHANGED tourTimes

Close(T) ==
  /\ \A t \in T : Live(t) /\ tourTimes[t].status = "open"
  /\ tourTimes' = [t \in DOMAIN tourTimes |->
                     IF t \in T
                     THEN [tourTimes[t] EXCEPT !.status = "closed"]
                     ELSE tourTimes[t]]
  /\ UNCHANGED <<bookings, overwritten>>

Next ==
  \/ \E u \in User, t \in TourTimeId, n \in Slots : Reserve(u, t, n)
  \/ \E b \in DOMAIN bookings : Cancel(b)
  \/ \E b \in DOMAIN bookings, d \in Decision : Decide(b, d)
  \/ \E T \in SUBSET DOMAIN tourTimes : Close(T)

Spec == Init /\ [][Next]_resVars
=============================================================================
