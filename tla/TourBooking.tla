----------------------------- MODULE TourBooking -----------------------------
(***************************************************************************)
(* BookingsService, ToursService and ReviewsService on the same tables:    *)
(* users book, cancel and review while admins edit and delete the          *)
(* departures and tours.                                                   *)
(***************************************************************************)
EXTENDS Bookings, Schedules

CONSTANT Reviewer

VARIABLES reviews, rev,   \* of Reviews
          crossed         \* history: departures booked after an edit that changes
                          \* them had counted their bookings

systemVars == <<vars, adminVars, reviews, rev, crossed>>

R == INSTANCE Reviews

SystemInit == Init /\ ScheduleInit /\ R!Init /\ crossed = {}

\* The departures a request in progress found without a booking.
CountedUnbooked ==
  UNION {MustBeUnbooked(edit[e].form, edit[e].found) :
           e \in {x \in Edit : edit[x].step \in {"reload", "save"}}}

NewlyBooked == {bookings'[b].tourTime : b \in DOMAIN bookings' \ DOMAIN bookings}

\* What a step of Bookings does to the rest: it may book what an edit counted.
RestOfBooking ==
  /\ crossed' = crossed \cup (NewlyBooked \cap CountedUnbooked)
  /\ UNCHANGED <<tours, retired, edit, raced, reviews, rev>>

\* The reviews of a tour are deleted with it, ON DELETE CASCADE.
RestOfEdit ==
  /\ reviews' = {review \in reviews : review[2] \in tours'}
  /\ UNCHANGED <<req, mailJobs, overwritten, failures, rev, crossed>>

RestOfReview ==
  UNCHANGED <<req, mailJobs, overwritten, failures, retired, edit, raced, crossed>>

BookingStep == Next /\ RestOfBooking

ScheduleStep == EditStep /\ RestOfEdit

ReviewStep == R!Next /\ RestOfReview

SystemNext == BookingStep \/ ScheduleStep \/ ReviewStep

SystemSpec == SystemInit /\ [][SystemNext]_systemVars

\* The fairness of both services: the database answers, and grants a row lock
\* in the order of the waiters.
SystemFairSpec ==
  /\ SystemSpec
  /\ \A r \in Request : WF_systemVars(Proceed(r) /\ RestOfBooking)
                          /\ SF_systemVars(Lock(r) /\ RestOfBooking)
  /\ \A e \in Edit : SF_systemVars(Continue(e) /\ RestOfEdit)

-----------------------------------------------------------------------------
(* Properties *)

SystemTypeOK ==
  /\ TypeOK
  /\ ScheduleTypeOK
  /\ R!TypeOK
  /\ crossed \subseteq TourTimeId

\* A tour or time with booking history is never removed from its table, even
\* when it is booked after the delete counted its bookings.
HistoryIsKept ==
  \A b \in DOMAIN bookings : bookings[b].tourTime \in DOMAIN tourTimes

\* What users booked stays what they booked: the departure runs, has room for
\* them and costs what they pay, unless it was booked after an edit had
\* counted its bookings, or two edits of its tour overlapped.
BookedTermsAreKept ==
  \A b \in DOMAIN bookings :
    LET t == bookings[b].tourTime IN
      t \notin crossed /\ tourTimes[t].tour \notin raced =>
        /\ Live(t)
        /\ tourTimes[t].status # "cancelled"
        /\ bookings[b].totalPrice = tourTimes[t].price * bookings[b].slots
        /\ ReservedSlots(t, overwritten) <= tourTimes[t].maxCapacity

\* Who reviewed a tour had a booking decided on a departure of it that is over,
\* whatever was decided, edited and deleted in between, unless the departure
\* was moved after it was booked, as in BookedTermsAreKept.
ReviewsAreEarned ==
  \A review \in reviews : \E b \in DOMAIN bookings :
    LET t == bookings[b].tourTime IN
      /\ bookings[b].user = review[1]
      /\ bookings[b].status \in Decision
      /\ tourTimes[t].tour = review[2]
      /\ t \in crossed \/ review[2] \in raced \/ tourTimes[t].endDate < today

\* No lock is kept and no waiter starves: bookings and edits that wait for each
\* other's rows are all answered.
AllAnswered ==
  /\ \A r \in Request : req[r] # Idle ~> req[r] = Idle
  /\ \A e \in Edit : edit[e] # Idle ~> edit[e] = Idle

\* docs/tour-schedules.md: "cancelled" is "only allowed when the time has no
\* bookings".  A booking between the count and the save breaks it.
CancelledHasNoBookings ==
  \A b \in DOMAIN bookings :
    tourTimes[bookings[b].tourTime].status # "cancelled"
=============================================================================
