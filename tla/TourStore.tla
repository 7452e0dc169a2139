------------------------------ MODULE TourStore ------------------------------
(***************************************************************************)
(* The PostgreSQL tables the booking and the schedule services share, the  *)
(* row locks on tour_times, and the business date.  Every service module   *)
(* EXTENDS this one; each of its actions is one committed SQL statement or *)
(* one transaction commit.                                                 *)
(***************************************************************************)
EXTENDS Integers, FiniteSets

CONSTANTS Tour,             \* tours
          TourTimeId,       \* primary keys of tour_times
          BookingId,        \* primary keys of bookings: bounds the table
          User,
          Request,          \* HTTP requests in progress at the same time
          NoRequest,        \* "no transaction holds this row"
          Price,            \* prices of a slot
          MaxSlots,         \* bound on number_of_slots of one booking
          MaxCapacity,      \* bound on max_capacity of a departure
          MaxDay,           \* last business date
          InitialTourTime   \* rows of tour_times a run may start with

Day == 1..MaxDay
Slots == 1..MaxSlots

TourTimeStatus == {"open", "closed", "cancelled"}
BookingStatus == {"pending", "approved", "rejected", "cancelled"}
Decision == {"approved", "rejected"}
ActiveStatus == {"pending", "approved"}

\* The state of a request that has not arrived, or was answered.
Idle == [step |-> "idle"]

TourTime == [tour: Tour, startDate: Day, endDate: Day, price: Price,
             maxCapacity: 1..MaxCapacity, status: TourTimeStatus,
             deleted: BOOLEAN]
Booking == [user: User, tourTime: TourTimeId, slots: Slots,
            status: BookingStatus, totalPrice: Nat]

ASSUME StoreAssumption ==
  /\ IsFiniteSet(BookingId)
  /\ MaxSlots \in Nat /\ MaxCapacity \in Nat /\ MaxDay \in Nat \ {0}
  /\ Price \subseteq Nat
  /\ InitialTourTime \subseteq TourTime
  /\ NoRequest \notin Request

VARIABLES tourTimes,   \* rows of tour_times, by primary key
          bookings,    \* rows of bookings, by primary key
          rowLock,     \* who holds the FOR UPDATE lock of a tour_times row
          today        \* the business date in the Asia/Bangkok time zone

storeVars == <<tourTimes, bookings, rowLock, today>>

StoreTypeOK ==
  /\ DOMAIN tourTimes \subseteq TourTimeId
  /\ tourTimes \in [DOMAIN tourTimes -> TourTime]
  /\ DOMAIN bookings \subseteq BookingId
  /\ bookings \in [DOMAIN bookings -> Booking]
  /\ rowLock \in [TourTimeId -> Request \cup {NoRequest}]
  /\ today \in Day

StoreInit ==
  /\ tourTimes \in UNION {[T -> InitialTourTime] : T \in SUBSET TourTimeId}
  /\ bookings = [b \in {} |-> b]
  /\ rowLock = [t \in TourTimeId |-> NoRequest]
  /\ today = 1

-----------------------------------------------------------------------------
(* Queries *)

\* The repository filters soft-deleted rows out of every SELECT.
Live(t) == t \in DOMAIN tourTimes /\ ~tourTimes[t].deleted

Active(b) == bookings[b].status \in ActiveStatus

\* The booked seats of departure t, bookings of ignored left out.  A seat is
\* a pair of a booking and a number up to its slots, so that the number of
\* seats is SUM(number_of_slots) over the active bookings of the departure.
Seats(t, ignored) ==
  {seat \in (DOMAIN bookings) \X Slots :
     /\ seat[1] \notin ignored
     /\ bookings[seat[1]].tourTime = t
     /\ Active(seat[1])
     /\ seat[2] <= bookings[seat[1]].slots}

ReservedSlots(t, ignored) == Cardinality(Seats(t, ignored))

\* The active bookings of a user on a departure.
ActiveBookings(u, t, ignored) ==
  {b \in (DOMAIN bookings) \ ignored :
     bookings[b].user = u /\ bookings[b].tourTime = t /\ Active(b)}

InsertBooking(b, row) ==
  bookings' = [x \in DOMAIN bookings \cup {b} |->
                 IF x = b THEN row ELSE bookings[x]]

SetBookingStatus(b, status) ==
  bookings' = [bookings EXCEPT ![b].status = status]

-----------------------------------------------------------------------------
(* The clock and the daily job *)

Tick ==
  /\ today < MaxDay
  /\ today' = today + 1
  /\ UNCHANGED <<tourTimes, bookings, rowLock>>

Started(t) == tourTimes[t].startDate <= today

\* The rows the UPDATE of the daily job selects.
ToClose == {t \in DOMAIN tourTimes :
              tourTimes[t].status = "open" /\ Started(t) /\ Live(t)}

\* ToursService.closeStartedTourTimes: one UPDATE.  It waits for the row
\* locks of the rows it changes, then changes them all.
CloseStartedTourTimes ==
  /\ ToClose # {}
  /\ \A t \in ToClose : rowLock[t] = NoRequest
  /\ tourTimes' = [t \in DOMAIN tourTimes |->
                     IF t \in ToClose
                     THEN [tourTimes[t] EXCEPT !.status = "closed"]
                     ELSE tourTimes[t]]
  /\ UNCHANGED <<bookings, rowLock, today>>
=============================================================================
