--------------------------- MODULE TourBookingProofs ---------------------------
(***************************************************************************)
(* Theorems about TourBooking: what BookingsProofs and SchedulesProofs say *)
(* of each service alone still holds when both work on the same tables,    *)
(* and so do the promises neither can make alone.                          *)
(***************************************************************************)
EXTENDS TourBooking, BookingsProofs, SchedulesProofs

-----------------------------------------------------------------------------
(* The services keep what they keep alone *)

LEMMA ChecksHold ==
  /\ Init => ChecksInv
  /\ ChecksInv /\ Next => ChecksInv'
<1>1. Init => LockedRowIsCurrent /\ ChecksStillHold
  BY DEF Init, StoreInit, LockedRowIsCurrent, ChecksStillHold, InTransaction,
         TransactionSteps, Idle
<1> QED
  BY <1>1, InitTyped, StepTyped, StepKeepsLock, StepKeepsChecks DEF ChecksInv

\* The inductive invariants of the services, that of Bookings but for what an
\* admin breaks on purpose by making a departure smaller.
Services ==
  /\ ChecksInv
  /\ ScheduleInv
  /\ R!TypeOK
  /\ crossed \subseteq TourTimeId

\* The steps of Bookings but for the clock and the daily job.
RequestStep ==
  /\ Next /\ RestOfBooking
  /\ UNCHANGED <<tourTimes, today>>

\* The clock and the daily job.
DailyStep ==
  /\ Next /\ RestOfBooking
  /\ ScheduleBackground
  /\ UNCHANGED <<bookings, rowLock, req, mailJobs, overwritten, failures>>

\* The steps of admins.
AdminStep ==
  /\ EditStep /\ RestOfEdit
  /\ UNCHANGED <<bookings, rowLock, today>>

\* The steps of the users who review.
ReviewerStep ==
  /\ R!Next
  /\ UNCHANGED <<tourTimes, bookings, rowLock, today, req, mailJobs,
                 overwritten, failures, tours, retired, edit, raced, crossed>>

LEMMA Steps ==
  ASSUME [SystemNext]_systemVars
  PROVE  \/ RequestStep \/ DailyStep \/ AdminStep \/ ReviewerStep
         \/ UNCHANGED systemVars
<1>1. CASE BookingStep
  BY <1>1, RequestsKeepRows
     DEF BookingStep, RequestStep, DailyStep, Background, ScheduleBackground,
         RestOfBooking, adminVars, Tick, CloseStartedTourTimes
<1>2. CASE ScheduleStep
  BY <1>2, EditKeepsBookings DEF ScheduleStep, AdminStep
<1>3. CASE ReviewStep
  BY <1>3 DEF ReviewStep, RestOfReview, ReviewerStep, R!Next,
     R!FindTour, R!Continue, R!FindCompletedTour, R!SaveReview,
     R!FailReview, R!storeVars
<1> QED
  BY <1>1, <1>2, <1>3 DEF SystemNext

LEMMA ReviewsTyped ==
  ASSUME R!TypeOK, R!Next, UNCHANGED tours
  PROVE  R!TypeOK'
<1> USE DEF R!TypeOK, R!Idle, R!ReviewState
<1>1. ASSUME NEW v \in Reviewer, R!End(v), reviews' \subseteq reviews
      PROVE  R!TypeOK'
  BY <1>1 DEF R!End
<1>2. ASSUME NEW v \in Reviewer, NEW u \in User, NEW tour \in Tour,
             R!FindTour(v, u, tour)
      PROVE  R!TypeOK'
  BY <1>2 DEF R!FindTour
<1>3. ASSUME NEW v \in Reviewer, R!FindCompletedTour(v)
      PROVE  R!TypeOK'
  <2>1. rev[v] \in R!ReviewState
    BY <1>3 DEF R!FindCompletedTour
  <2> QED
    BY <1>1, <1>3, <2>1 DEF R!FindCompletedTour
<1>4. ASSUME NEW v \in Reviewer, R!SaveReview(v)
      PROVE  R!TypeOK'
  <2>1. rev[v] \in R!ReviewState
    BY <1>4 DEF R!SaveReview
  <2> QED
    BY <1>4, <2>1 DEF R!SaveReview, R!End
<1>5. ASSUME NEW v \in Reviewer, R!FailReview(v)
      PROVE  R!TypeOK'
  BY <1>1, <1>5 DEF R!FailReview
<1> QED
  BY <1>2, <1>3, <1>4, <1>5 DEF R!Next, R!Continue

LEMMA ServicesKept ==
  ASSUME Services, [SystemNext]_systemVars
  PROVE  Services'
<1>t. ScheduleTypeOK /\ StoreTypeOK
  BY DEF Services, ScheduleInv, ScheduleTypeOK
<1>2. CASE RequestStep
  <2>1. ChecksInv'
    BY <1>2, ChecksHold DEF RequestStep, Services
  <2>2. StoreTypeOK'
    BY <2>1 DEF ChecksInv, TypeOK
  <2>3. ScheduleInv'
    BY <1>2, <2>2, OthersKeepInv DEF RequestStep, RestOfBooking, Services
  <2>4. crossed' \subseteq TourTimeId
    BY <1>2, <2>2 DEF RequestStep, RestOfBooking, NewlyBooked, Services,
       StoreTypeOK, Booking
  <2>5. R!TypeOK'
    BY <1>2 DEF RequestStep, RestOfBooking, Services, R!TypeOK
  <2> QED
    BY <2>1, <2>3, <2>4, <2>5 DEF Services
<1>3. CASE DailyStep
  <2>1. ChecksInv'
    BY <1>3, ChecksHold DEF DailyStep, Services
  <2>2. ScheduleInv'
    BY <1>3, StepInv DEF DailyStep, ScheduleNext, Services
  <2>3. crossed' \subseteq TourTimeId
    BY <1>3 DEF DailyStep, RestOfBooking, NewlyBooked, Services
  <2>4. R!TypeOK'
    BY <1>3 DEF DailyStep, RestOfBooking, Services, R!TypeOK
  <2> QED
    BY <2>1, <2>2, <2>3, <2>4 DEF Services
<1>4. CASE AdminStep
  <2>1. ScheduleInv'
    BY <1>4, StepInv DEF AdminStep, ScheduleNext, Services
  <2>2. StoreTypeOK'
    BY <2>1 DEF ScheduleInv, ScheduleTypeOK
  <2>3. ChecksInv'
    BY <1>4, <2>2, ChecksKept, EditRespectsRows
       DEF AdminStep, RestOfEdit, Services
  <2>4. R!TypeOK'
    BY <1>4 DEF AdminStep, RestOfEdit, Services, R!TypeOK
  <2> QED
    BY <1>4, <2>1, <2>3, <2>4 DEF Services, AdminStep, RestOfEdit
<1>5. CASE ReviewerStep \/ UNCHANGED systemVars
  <2>1. UNCHANGED <<tourTimes, bookings, rowLock, today, req, mailJobs,
                    overwritten, failures, tours, retired, edit, raced,
                    crossed>>
    BY <1>5 DEF ReviewerStep, systemVars, vars, adminVars
  <2>2. StoreTypeOK'
    BY <1>t, <2>1 DEF StoreTypeOK
  <2>3. ScheduleInv'
    BY <2>1, <2>2, OthersKeepInv DEF Services
  <2>4. ChecksInv'
    BY <2>1, <2>2, ChecksKept DEF Services
  <2>5. R!TypeOK'
    BY <1>5, <2>1, ReviewsTyped
         DEF ReviewerStep, systemVars, vars, adminVars, Services, R!TypeOK
  <2> QED
    BY <2>1, <2>3, <2>4, <2>5 DEF Services
<1> QED
  BY <1>2, <1>3, <1>4, <1>5, Steps

-----------------------------------------------------------------------------
(* What neither service keeps alone *)

\* An edit in progress that has to find a departure without a booking has, or
\* the departure was booked after the edit had counted.
EditsHaveCounted ==
  \A e \in Edit : Counted(e) =>
    \A t \in MustBeUnbooked(edit[e].form, edit[e].found) :
      HasBookings(t) => t \in crossed

LEMMA BookingsStay ==
  ASSUME Services, [SystemNext]_systemVars
  PROVE  \A b \in DOMAIN bookings :
           /\ b \in DOMAIN bookings'
           /\ bookings'[b].user = bookings[b].user
           /\ bookings'[b].tourTime = bookings[b].tourTime
           /\ bookings'[b].slots = bookings[b].slots
           /\ bookings'[b].totalPrice = bookings[b].totalPrice
           /\ bookings[b].status \in Decision =>
                bookings'[b].status \in Decision
<1>1. CASE RequestStep \/ DailyStep
  BY <1>1, BookingEffect
     DEF RequestStep, DailyStep, Services
<1>2. CASE UNCHANGED bookings
  BY <1>2
<1> QED
  BY <1>1, <1>2, Steps DEF AdminStep, ReviewerStep, systemVars, vars, adminVars

\* A new booking is of a departure that is open and has room, at its price; an
\* edit that has counted its bookings is noted.
LEMMA NewBookings ==
  ASSUME Services, [SystemNext]_systemVars,
         NEW b \in (DOMAIN bookings') \ (DOMAIN bookings)
  PROVE  /\ UNCHANGED <<tourTimes, today, edit, raced>>
         /\ \E t \in DOMAIN tourTimes :
              /\ bookings'[b].tourTime = t
              /\ Live(t) /\ tourTimes[t].status = "open"
              /\ bookings'[b].totalPrice
                   = tourTimes[t].price * bookings'[b].slots
              /\ ReservedSlots(t, overwritten)' <= tourTimes[t].maxCapacity
              /\ \A e \in Edit :
                   /\ Counted(e)
                   /\ t \in MustBeUnbooked(edit[e].form, edit[e].found)
                   => t \in crossed'
<1>1. Next /\ RestOfBooking
  BY Steps DEF RequestStep, DailyStep, AdminStep, ReviewerStep, systemVars,
               vars, adminVars
<1>2. PICK t \in DOMAIN tourTimes :
        /\ UNCHANGED <<tourTimes, today>>
        /\ bookings'[b].tourTime = t
        /\ Live(t) /\ tourTimes[t].status = "open"
        /\ bookings'[b].totalPrice = tourTimes[t].price * bookings'[b].slots
        /\ ReservedSlots(t, overwritten)' <= tourTimes[t].maxCapacity
  BY <1>1, BookingEffect DEF Services
<1>3. ASSUME NEW e \in Edit, Counted(e),
             t \in MustBeUnbooked(edit[e].form, edit[e].found)
      PROVE  t \in crossed'
  BY <1>1, <1>2, <1>3
     DEF RestOfBooking, NewlyBooked, CountedUnbooked, Counted
<1>4. UNCHANGED <<edit, raced>>
  BY <1>1 DEF RestOfBooking
<1> QED
  BY <1>2, <1>3, <1>4

\* The departure of a booking stays, and so do its terms.
LEMMA BookedRowStays ==
  ASSUME Services, HistoryIsKept, EditsHaveCounted, [SystemNext]_systemVars,
         NEW b \in DOMAIN bookings
  PROVE  LET t == bookings[b].tourTime IN
         /\ t \in DOMAIN tourTimes /\ t \in DOMAIN tourTimes'
         /\ tourTimes'[t].tour = tourTimes[t].tour
         /\ \/ t \in crossed \/ tourTimes[t].tour \in raced'
            \/ SameTerms(tourTimes[t], tourTimes'[t])
<1> DEFINE t == bookings[b].tourTime
<1>1. t \in DOMAIN tourTimes /\ HasBookings(t)
  BY DEF HistoryIsKept, HasBookings
<1>2. CASE UNCHANGED tourTimes
  BY <1>1, <1>2 DEF SameTerms, ScheduleChanged
<1>3. CASE AdminStep \/ DailyStep
  <2>1. ScheduleNext
    BY <1>3 DEF AdminStep, DailyStep, ScheduleNext
  <2>2. t \in DOMAIN tourTimes'
    <3>1. CASE AdminStep
      BY <1>1, <3>1, EditRespectsRows DEF AdminStep
    <3>2. CASE DailyStep
      BY <1>1, <3>2
           DEF DailyStep, ScheduleBackground, Tick, CloseStartedTourTimes
    <3> QED
      BY <1>3, <3>1, <3>2
  <2> QED
    BY <1>1, <2>1, <2>2, TermsChange DEF Services, EditsHaveCounted
<1> QED
  BY <1>2, <1>3, Steps
       DEF RequestStep, ReviewerStep, systemVars, vars, adminVars

LEMMA HistoriesGrow ==
  ASSUME Services, [SystemNext]_systemVars
  PROVE  /\ crossed \subseteq crossed' /\ raced \subseteq raced'
         /\ today \in Int /\ today' \in Int /\ today <= today'
<1>1. today \in Int
  BY DEF Services, ScheduleInv, ScheduleTypeOK, StoreTypeOK, Day
<1>2. CASE AdminStep \/ DailyStep
  <2>1. ScheduleNext
    BY <1>2 DEF AdminStep, DailyStep, ScheduleNext
  <2> QED
    BY <1>2, <2>1, TermsChange, TodayGrows
       DEF Services, ScheduleInv, AdminStep, DailyStep, RestOfEdit,
           RestOfBooking
<1>3. CASE UNCHANGED <<today, raced>> /\ crossed \subseteq crossed'
  BY <1>1, <1>3
<1> QED
  BY <1>2, <1>3, Steps
       DEF RequestStep, ReviewerStep, systemVars, vars, adminVars, RestOfBooking

LEMMA HistoryKept ==
  ASSUME Services, HistoryIsKept, EditsHaveCounted, [SystemNext]_systemVars
  PROVE  HistoryIsKept'
<1> SUFFICES ASSUME NEW b \in DOMAIN bookings'
             PROVE  bookings'[b].tourTime \in DOMAIN tourTimes'
  BY DEF HistoryIsKept
<1>1. CASE b \in DOMAIN bookings
  BY <1>1, BookingsStay, BookedRowStays
<1>2. CASE b \notin DOMAIN bookings
  BY <1>2, NewBookings DEF Live
<1> QED
  BY <1>1, <1>2

LEMMA CountsKept ==
  ASSUME Services, EditsHaveCounted, [SystemNext]_systemVars
  PROVE  EditsHaveCounted'
<1> SUFFICES ASSUME NEW e \in Edit, Counted(e)',
                    NEW t \in MustBeUnbooked(edit'[e].form, edit'[e].found),
                    NEW b \in DOMAIN bookings', bookings'[b].tourTime = t
             PROVE  t \in crossed'
  BY DEF EditsHaveCounted, HasBookings
<1>1. CASE b \notin DOMAIN bookings
  BY <1>1, NewBookings DEF Counted
<1>2. CASE b \in DOMAIN bookings
  <2>1. HasBookings(t)
    BY <1>2, BookingsStay DEF HasBookings
  <2>2. CASE edit'[e] = edit[e]
    BY <2>1, <2>2, HistoriesGrow DEF EditsHaveCounted, Counted
  <2>3. CASE AdminStep
    <3>1. [ScheduleNext]_scheduleVars
      BY <2>3 DEF AdminStep, ScheduleNext
    <3>2. /\ edit'[e].form = edit[e].form /\ edit'[e].found = edit[e].found
          /\ \/ Counted(e)
             \/ \A x \in MustBeUnbooked(edit[e].form, edit[e].found) :
                  ~HasBookings(x)
      BY <3>1, CountOrigin DEF Services, ScheduleInv
    <3> QED
      BY <2>1, <3>2, HistoriesGrow DEF EditsHaveCounted
  <2> QED
    BY <2>2, <2>3, Steps
         DEF RequestStep, DailyStep, ReviewerStep, systemVars, vars, adminVars,
       RestOfBooking
<1> QED
  BY <1>1, <1>2

LEMMA TermsKept ==
  ASSUME Services, HistoryIsKept, EditsHaveCounted, BookedTermsAreKept,
         [SystemNext]_systemVars
  PROVE  BookedTermsAreKept'
<1> SUFFICES ASSUME NEW b \in DOMAIN bookings', NEW t,
                    t = bookings'[b].tourTime, t \notin crossed',
                    tourTimes'[t].tour \notin raced'
             PROVE  /\ Live(t)'
                    /\ tourTimes'[t].status # "cancelled"
                    /\ bookings'[b].totalPrice
                         = tourTimes'[t].price * bookings'[b].slots
                    /\ ReservedSlots(t, overwritten)'
                         <= tourTimes'[t].maxCapacity
  BY DEF BookedTermsAreKept
<1>1. CASE b \notin DOMAIN bookings
  BY <1>1, NewBookings DEF Live
<1>2. CASE b \in DOMAIN bookings
  <2>1. /\ t = bookings[b].tourTime
        /\ bookings'[b].slots = bookings[b].slots
        /\ bookings'[b].totalPrice = bookings[b].totalPrice
    BY <1>2, BookingsStay
  <2>2. /\ t \in DOMAIN tourTimes /\ t \in DOMAIN tourTimes'
        /\ SameTerms(tourTimes[t], tourTimes'[t])
        /\ t \notin crossed /\ tourTimes[t].tour \notin raced
    BY <1>2, <2>1, BookedRowStays, HistoriesGrow
  <2>3. /\ Live(t)
        /\ tourTimes[t].status # "cancelled"
        /\ bookings[b].totalPrice = tourTimes[t].price * bookings[b].slots
        /\ ReservedSlots(t, overwritten) <= tourTimes[t].maxCapacity
    BY <1>2, <2>1, <2>2 DEF BookedTermsAreKept
  <2>4. /\ tourTimes'[t].maxCapacity = tourTimes[t].maxCapacity
        /\ tourTimes'[t].price = tourTimes[t].price
        /\ tourTimes'[t].deleted = tourTimes[t].deleted
        /\ tourTimes'[t].status # "cancelled"
    BY <2>2, <2>3 DEF SameTerms, ScheduleChanged
  <2>5. ReservedSlots(t, overwritten)' <= tourTimes[t].maxCapacity
    <3>1. CASE RequestStep \/ DailyStep
      <4>1. tourTimes[t].maxCapacity \in Nat
        BY <2>2, StoreAssumption
             DEF Services, ScheduleInv, ScheduleTypeOK, StoreTypeOK, TourTime
      <4> QED
        BY <2>2, <2>3, <3>1, <4>1, SlotsFit
           DEF Services, RequestStep, DailyStep
    <3>2. CASE UNCHANGED <<bookings, overwritten>>
      BY <2>3, <3>2 DEF ReservedSlots, Seats, Active
    <3> QED
      BY <3>1, <3>2, Steps
           DEF AdminStep, RestOfEdit, ReviewerStep, systemVars, vars, adminVars
  <2> QED
    BY <2>1, <2>2, <2>3, <2>4, <2>5 DEF Live
<1> QED
  BY <1>1, <1>2

-----------------------------------------------------------------------------
(* Reviews *)

\* What a user needs to review a tour, and what stays of it.
Earned(user, tour) ==
  \E b \in DOMAIN bookings :
    LET t == bookings[b].tourTime IN
      /\ bookings[b].user = user
      /\ bookings[b].status \in Decision
      /\ tourTimes[t].tour = tour
      /\ t \in crossed \/ tour \in raced \/ tourTimes[t].endDate < today

\* A request found the booking before it inserts the review.
ReviewersHaveEarned ==
  \A v \in Reviewer :
    rev[v].step = "insert" => Earned(rev[v].user, rev[v].tour)

LEMMA EarnedStays ==
  ASSUME Services, HistoryIsKept, EditsHaveCounted, [SystemNext]_systemVars,
         NEW user, NEW tour, Earned(user, tour)
  PROVE  Earned(user, tour)'
<1>1. PICK b \in DOMAIN bookings :
        LET t == bookings[b].tourTime IN
          /\ bookings[b].user = user
          /\ bookings[b].status \in Decision
          /\ tourTimes[t].tour = tour
          /\ t \in crossed \/ tour \in raced \/ tourTimes[t].endDate < today
  BY DEF Earned
<1> DEFINE t == bookings[b].tourTime
<1>2. /\ b \in DOMAIN bookings'
      /\ bookings'[b].user = user
      /\ bookings'[b].status \in Decision
      /\ bookings'[b].tourTime = t
  BY <1>1, BookingsStay
<1>3. /\ t \in DOMAIN tourTimes /\ tourTimes'[t].tour = tour
      /\ t \in crossed' \/ tour \in raced' \/ tourTimes'[t].endDate < today'
  <2>1. /\ t \in DOMAIN tourTimes /\ tourTimes'[t].tour = tour
        /\ \/ t \in crossed \/ tour \in raced'
           \/ tourTimes'[t].endDate = tourTimes[t].endDate
    BY <1>1, BookedRowStays DEF SameTerms, ScheduleChanged
  <2>2. tourTimes[t].endDate \in Int
    BY <2>1 DEF Services, ScheduleInv, ScheduleTypeOK, StoreTypeOK, TourTime,
                Day
  <2> HIDE DEF t
  <2> QED
    BY <1>1, <2>1, <2>2, HistoriesGrow DEF t
<1> QED
  BY <1>2, <1>3 DEF Earned, Decision

LEMMA ReviewersKept ==
  ASSUME Services, HistoryIsKept, EditsHaveCounted, ReviewersHaveEarned,
         [SystemNext]_systemVars
  PROVE  ReviewersHaveEarned'
<1> SUFFICES ASSUME NEW v \in Reviewer, rev'[v].step = "insert",
                    NEW user, NEW tour, user = rev'[v].user, tour = rev'[v].tour
             PROVE  Earned(user, tour)'
  BY DEF ReviewersHaveEarned, Earned
<1>1. CASE rev'[v] = rev[v]
  BY <1>1, EarnedStays DEF ReviewersHaveEarned
<1>2. CASE R!FindCompletedTour(v)
  <2>1. rev[v] \in R!ReviewState
    BY <1>2 DEF R!FindCompletedTour, R!Idle, Services, R!TypeOK
  <2>2. /\ R!HasCompletedTour(rev[v].user, rev[v].tour)
        /\ user = rev[v].user /\ tour = rev[v].tour
    BY <1>2, <2>1 DEF R!FindCompletedTour, R!ReviewState, R!End,
       R!Idle, Services, R!TypeOK
  <2>3. Earned(user, tour)
    BY <2>2 DEF R!HasCompletedTour, Earned, Decision
  <2> QED
    BY <2>3, EarnedStays
<1>3. ASSUME NEW w \in Reviewer, R!End(w)
      PROVE  rev'[v] = rev[v]
  BY <1>3 DEF R!End, R!Idle, Services, R!TypeOK
<1> QED
  BY <1>1, <1>2, <1>3, Steps
     DEF RequestStep, DailyStep, AdminStep, ReviewerStep, RestOfBooking,
         RestOfEdit, systemVars, R!Next, R!Continue, R!FindTour,
         R!FindCompletedTour, R!SaveReview, R!FailReview, R!Idle,
         Services, R!TypeOK

LEMMA ReviewsKept ==
  ASSUME Services, HistoryIsKept, EditsHaveCounted, ReviewersHaveEarned,
         ReviewsAreEarned, [SystemNext]_systemVars
  PROVE  ReviewsAreEarned'
<1> SUFFICES ASSUME NEW review \in reviews', NEW user, NEW tour,
                    user = review[1], tour = review[2]
             PROVE  Earned(user, tour)'
  BY DEF ReviewsAreEarned, Earned
<1>1. CASE review \in reviews
  <2>1. Earned(user, tour)
    BY <1>1 DEF ReviewsAreEarned, Earned
  <2> QED
    BY <2>1, EarnedStays
<1>2. ASSUME NEW v \in Reviewer, R!SaveReview(v), review \notin reviews
      PROVE  Earned(user, tour)'
  BY <1>2, EarnedStays DEF R!SaveReview, ReviewersHaveEarned
<1> QED
  BY <1>1, <1>2, Steps DEF RequestStep, DailyStep, AdminStep, ReviewerStep,
     RestOfBooking, RestOfEdit, systemVars, R!Next, R!Continue,
     R!FindTour, R!FindCompletedTour, R!FailReview

-----------------------------------------------------------------------------
(* What admins and reviewers cannot disturb *)

LEMMA UsersKept ==
  ASSUME Services, OneActiveBooking, DecisionHasMail,
         [SystemNext]_systemVars
  PROVE  OneActiveBooking' /\ DecisionHasMail'
<1>1. CASE RequestStep \/ DailyStep
  <2>1. ChecksInv /\ TypeOK /\ Next
    BY <1>1 DEF Services, ChecksInv, RequestStep, DailyStep
  <2>2. TypeOK'
    BY <2>1, StepTyped
  <2> QED
    BY <2>1, <2>2, StepKeepsOneBooking, StepKeepsMail
<1>2. CASE UNCHANGED <<bookings, req, mailJobs, overwritten, failures>>
  BY <1>2 DEF OneActiveBooking, ActiveBookings, Active, DecisionHasMail
<1> QED
  BY <1>1, <1>2, Steps
     DEF AdminStep, RestOfEdit, ReviewerStep, systemVars, vars, adminVars

\* The steps of bookings and schedules are those the services take alone, and
\* the other steps change no row.
LEMMA RowsStay ==
  ASSUME Services, [SystemNext]_systemVars
  PROVE  CancelsPending /\ CancelledRowsStay /\ StartedRowsStay
<1>t. ScheduleTypeOK /\ StoreTypeOK /\ TypeOK /\ ScheduleInv
  BY DEF Services, ScheduleInv, ScheduleTypeOK, ChecksInv
<1>1. CancelsPending
  <2>1. CASE UNCHANGED bookings
    BY <2>1 DEF CancelsPending
  <2>2. CASE RequestStep
    BY <1>t, <2>2, StepCancelsPending DEF RequestStep
  <2> QED
    BY <2>1, <2>2, Steps DEF AdminStep, DailyStep, ReviewerStep, systemVars,
       vars, adminVars
<1>2. CancelledRowsStay /\ StartedRowsStay
  <2>1. CASE UNCHANGED tourTimes
    BY <2>1 DEF CancelledRowsStay, StartedRowsStay, SameSchedule,
       ScheduleChanged
  <2>2. CASE AdminStep \/ DailyStep
    <3>1. ScheduleNext
      BY <2>2 DEF AdminStep, DailyStep, ScheduleNext
    <3> QED
      BY <1>t, <3>1, StepKeepsCancelled, StepKeepsStarted
  <2> QED
    BY <2>1, <2>2, Steps DEF RequestStep, ReviewerStep, systemVars, vars,
       adminVars
<1> QED
  BY <1>1, <1>2

-----------------------------------------------------------------------------
(* Theorems *)

SystemInv ==
  /\ Services
  /\ OneActiveBooking
  /\ DecisionHasMail
  /\ HistoryIsKept
  /\ EditsHaveCounted
  /\ BookedTermsAreKept
  /\ ReviewersHaveEarned
  /\ ReviewsAreEarned

LEMMA SystemInitInv == SystemInit => SystemInv
<1> SUFFICES ASSUME SystemInit PROVE SystemInv
  OBVIOUS
<1>1. ChecksInv /\ ScheduleInv
  BY ChecksHold, InitInv DEF SystemInit
<1>2. R!TypeOK /\ crossed \subseteq TourTimeId
  BY DEF SystemInit, R!Init, R!TypeOK
<1>3. bookings = [b \in {} |-> b] /\ reviews = {}
  BY DEF SystemInit, Init, StoreInit, R!Init
<1>4. /\ \A e \in Edit : ~Counted(e)
      /\ \A v \in Reviewer : rev[v].step # "insert"
  BY DEF SystemInit, ScheduleInit, Idle, R!Init, R!Idle, Counted
<1> QED
  BY <1>1, <1>2, <1>3, <1>4 DEF SystemInv, Services, HistoryIsKept,
     EditsHaveCounted, BookedTermsAreKept, ReviewersHaveEarned,
     ReviewsAreEarned, OneActiveBooking, ActiveBookings, DecisionHasMail

LEMMA SystemStepInv == SystemInv /\ [SystemNext]_systemVars => SystemInv'
<1> SUFFICES ASSUME SystemInv, [SystemNext]_systemVars PROVE SystemInv'
  OBVIOUS
<1> QED
  BY ServicesKept, UsersKept, HistoryKept, CountsKept, TermsKept, ReviewersKept,
     ReviewsKept DEF SystemInv

\* The services, each correct alone, keep their invariants, and what they
\* promise together, when their statements interleave on the same tables.
THEOREM SystemInvariant == SystemSpec => []SystemInv
BY SystemInitInv, SystemStepInv, PTL DEF SystemSpec

\* Every state of the services is well-typed.
THEOREM SystemTypeCorrect == SystemSpec => []SystemTypeOK
<1>1. SystemInv => SystemTypeOK
  BY DEF SystemInv, Services, ChecksInv, ScheduleInv, SystemTypeOK
<1> QED
  BY <1>1, SystemInvariant, PTL

\* No edit, delete or job touches a departure a create has locked: the booking
\* is inserted on the row that was checked.
THEOREM LockedRowIsCurrentCorrect == SystemSpec => []LockedRowIsCurrent
<1>1. SystemInv => LockedRowIsCurrent
  BY DEF SystemInv, Services, ChecksInv
<1> QED
  BY <1>1, SystemInvariant, PTL

\* A departure with booking history is never removed, even when it is booked
\* after the delete counted its bookings.
THEOREM HistoryIsKeptCorrect == SystemSpec => []HistoryIsKept
BY SystemInvariant, PTL DEF SystemInv

\* What users booked stays what they booked, unless they booked it between the
\* count and the save of an edit, or two edits of the tour overlapped.
THEOREM BookedTermsAreKeptCorrect == SystemSpec => []BookedTermsAreKept
BY SystemInvariant, PTL DEF SystemInv

\* Who reviewed a tour had a booking decided on a departure of it that is over.
THEOREM ReviewsAreEarnedCorrect == SystemSpec => []ReviewsAreEarned
BY SystemInvariant, PTL DEF SystemInv

-----------------------------------------------------------------------------
(* Promises of one service, kept while the other works on its tables *)

\* No edit, delete or job makes a create insert what it has not checked: the
\* departure is still open, the user has no booking and the slots still fit.
THEOREM ChecksHoldInSystem == SystemSpec => []ChecksStillHold
<1>1. SystemInv => ChecksStillHold
  BY DEF SystemInv, Services, ChecksInv
<1> QED
  BY <1>1, SystemInvariant, PTL

\* A user never gets two active bookings of a departure, however it is edited
\* while the creates race.
THEOREM OneActiveBookingInSystem == SystemSpec => []OneActiveBooking
BY SystemInvariant, PTL DEF SystemInv

\* A decided booking has its mail queued or about to be, whatever happens to
\* its departure.
THEOREM DecisionHasMailInSystem == SystemSpec => []DecisionHasMail
BY SystemInvariant, PTL DEF SystemInv

\* Bookings, the daily job and reviews do not disturb what an edit has found:
\* only another edit of the tour does.
THEOREM EditSeesCurrentTimesInSystem == SystemSpec => []EditSeesCurrentTimes
<1>1. SystemInv => EditSeesCurrentTimes
  BY DEF SystemInv, Services, ScheduleInv
<1> QED
  BY <1>1, SystemInvariant, PTL

\* The times of a tour never overlap unless two edits of it did.
THEOREM NoOverlapInSystem == SystemSpec => []NoOverlapUnlessRaced
<1>1. SystemInv => NoOverlapUnlessRaced
  BY DEF SystemInv, Services, ScheduleInv
<1> QED
  BY <1>1, SystemInvariant, PTL

\* A booking appears only on a departure that is open at the commit, at the
\* price it has then, though admins change both.
THEOREM BookedOnOpenDepartureInSystem == SystemSpec => BookedOnOpenDeparture
<1> DEFINE Good(b) ==
      LET t == bookings'[b].tourTime IN
        /\ Live(t)
        /\ tourTimes[t].status = "open"
        /\ bookings'[b].totalPrice = tourTimes[t].price * bookings'[b].slots
<1>1. ASSUME SystemInv, [SystemNext]_systemVars,
             NEW b \in (DOMAIN bookings') \ (DOMAIN bookings)
      PROVE  Good(b)
  BY <1>1, NewBookings DEF SystemInv
<1>2. SystemInv /\ [SystemNext]_systemVars =>
        [\A b \in (DOMAIN bookings') \ (DOMAIN bookings) : Good(b)]_vars
  BY <1>1
<1> HIDE DEF Good
<1>3. SystemSpec =>
        [][\A b \in (DOMAIN bookings') \ (DOMAIN bookings) : Good(b)]_vars
  BY <1>2, SystemInvariant, PTL DEF SystemSpec
<1> QED
  BY <1>3 DEF BookedOnOpenDeparture, Good

\* A cancellation never replaces a decision.
THEOREM CancelOnlyPendingInSystem == SystemSpec => CancelOnlyPending
<1>1. SystemInv /\ [SystemNext]_systemVars => [CancelsPending]_vars
  BY RowsStay DEF SystemInv
<1>2. SystemSpec => [][CancelsPending]_vars
  BY <1>1, SystemInvariant, PTL DEF SystemSpec
<1> QED
  BY <1>2 DEF CancelOnlyPending, CancelsPending

\* A cancelled time is not written again, also while it is being booked.
THEOREM CancelledIsFinalInSystem == SystemSpec => CancelledIsFinal
<1>1. SystemInv /\ [SystemNext]_systemVars
        => [CancelledRowsStay]_scheduleVars
  BY RowsStay DEF SystemInv
<1>2. SystemSpec => [][CancelledRowsStay]_scheduleVars
  BY <1>1, SystemInvariant, PTL DEF SystemSpec
<1> QED
  BY <1>2 DEF CancelledIsFinal, CancelledRowsStay

\* A started time changes only as ToursService alone may change it.
THEOREM StartedIsFinalInSystem == SystemSpec => StartedIsFinal
<1>1. SystemInv /\ [SystemNext]_systemVars
        => [StartedRowsStay]_scheduleVars
  BY RowsStay DEF SystemInv
<1>2. SystemSpec => [][StartedRowsStay]_scheduleVars
  BY <1>1, SystemInvariant, PTL DEF SystemSpec
<1> QED
  BY <1>2 DEF StartedIsFinal, StartedRowsStay
================================================================================
