---------------------------- MODULE BookingsProofs ----------------------------
(* Theorems about Bookings, for every value of its constants. *)
EXTENDS Bookings, FiniteSetTheorems, TLAPS

\* The total price of a booking is a natural number.
LEMMA ProductIsNat == \A m, n \in Nat : m * n \in Nat
  BY SMT

\* What TypeOK says of one request.
LEMMA RequestTyped ==
  ASSUME TypeOK, NEW r \in Request
  PROVE  /\ req[r].step = "lock" \/ InTransaction(r) =>
              /\ req[r].user \in User
              /\ req[r].tourTime \in TourTimeId
              /\ req[r].slots \in Slots
         /\ InTransaction(r) => req[r].row \in TourTime
         /\ req[r].step \in {"cancel", "save", "enqueue"} =>
              /\ req[r].booking \in BookingId
              /\ req[r].booking \in DOMAIN bookings
         /\ req[r].step = "cancel" => req[r].user \in User
         /\ req[r].step \in {"save", "enqueue"} => req[r].decision \in Decision
         /\ req[r].step = "idle" => req[r] = Idle
  BY DEF TypeOK, RequestState, Idle, CreateState, CancelState,
         DecisionState, TransactionSteps, InTransaction

-----------------------------------------------------------------------------
(* Type correctness *)

LEMMA InitTyped == Init => TypeOK
  BY StoreAssumption DEF Init, StoreInit, TypeOK, StoreTypeOK, RequestState,
     Idle, Day

\* Ending a request keeps req and rowLock well typed.
LEMMA EndTyped ==
  ASSUME TypeOK, NEW r \in Request, End(r)
  PROVE  /\ req' \in [Request -> RequestState]
         /\ rowLock' \in [TourTimeId -> Request \cup {NoRequest}]
         /\ req'[r] = Idle
         /\ \A q \in Request \ {r} : req'[q] = req[q]
  BY DEF TypeOK, StoreTypeOK, End, RequestState

LEMMA StepTyped == TypeOK /\ [Next]_vars => TypeOK'
<1> SUFFICES ASSUME TypeOK, [Next]_vars PROVE TypeOK'
  OBVIOUS
<1> USE DEF TypeOK, StoreTypeOK, storeVars
<1>1. ASSUME NEW r \in Request, NEW u \in User, NEW t \in TourTimeId,
             NEW n \in Slots, StartCreate(r, u, t, n)
      PROVE  TypeOK'
  BY <1>1 DEF StartCreate, RequestState, CreateState
<1>2. ASSUME NEW r \in Request, LockTourTime(r)
      PROVE  TypeOK'
  <2>1. req'[r] \in CreateState /\ rowLock'[req[r].tourTime] = r
    BY <1>2, RequestTyped DEF LockTourTime, Bookable, Live, CreateState,
       TransactionSteps
  <2> QED
    BY <1>2, <2>1, RequestTyped DEF LockTourTime, RequestState, CreateState,
       TransactionSteps
<1>3. ASSUME NEW r \in Request, RejectUnavailable(r)
      PROVE  TypeOK'
  BY <1>3, EndTyped DEF RejectUnavailable, Idle
<1>4. ASSUME NEW r \in Request, NEW step \in {"sumSlots", "insert"},
             InTransaction(r), Goto(r, step)
      PROVE  /\ req' \in [Request -> RequestState]
             /\ \A q \in Request \ {r} : req'[q] = req[q]
             /\ req'[r].step = step
  <2>1. [req[r] EXCEPT !.step = step] \in CreateState
    BY <1>4 DEF InTransaction, RequestState, CreateState, CancelState,
       DecisionState, Idle, TransactionSteps
  <2> QED
    BY <1>4, <2>1 DEF Goto, RequestState, InTransaction
<1>5. ASSUME NEW r \in Request, FindExisting(r)
      PROVE  TypeOK'
  BY <1>4, <1>5, EndTyped DEF FindExisting, Idle, InTransaction,
     TransactionSteps
<1>6. ASSUME NEW r \in Request, CheckCapacity(r)
      PROVE  TypeOK'
  BY <1>4, <1>6, EndTyped DEF CheckCapacity, Idle, InTransaction,
     TransactionSteps
<1>7. ASSUME NEW r \in Request, SaveBooking(r)
      PROVE  TypeOK'
  <2> DEFINE row == [user |-> req[r].user, tourTime |-> req[r].tourTime,
                     slots |-> req[r].slots, status |-> "pending",
                     totalPrice |-> req[r].row.price * req[r].slots]
  <2>1. PICK b \in BookingId \ (DOMAIN bookings) : InsertBooking(b, row)
    BY <1>7 DEF SaveBooking
  <2>2. InTransaction(r)
    BY <1>7 DEF SaveBooking, InTransaction, TransactionSteps
  <2>3. req[r].row.price * req[r].slots \in Nat
    BY <2>2, RequestTyped, ProductIsNat, StoreAssumption
       DEF TourTime, Slots
  <2>4. row \in Booking
    BY <2>2, <2>3, RequestTyped DEF Booking, BookingStatus
  <2>5. /\ DOMAIN bookings' \subseteq BookingId
        /\ bookings' \in [DOMAIN bookings' -> Booking]
        /\ DOMAIN bookings \subseteq DOMAIN bookings'
    BY <2>1, <2>4 DEF InsertBooking
  <2> QED
    BY <1>7, <2>5, EndTyped DEF SaveBooking, Idle
<1>8. ASSUME NEW r \in Request, NEW u \in User, NEW b \in BookingId,
             FindOwnBooking(r, u, b)
      PROVE  TypeOK'
  BY <1>8 DEF FindOwnBooking, RequestState, CancelState
<1>9. ASSUME NEW b \in DOMAIN bookings, NEW status \in BookingStatus,
             SetBookingStatus(b, status)
      PROVE  /\ DOMAIN bookings' = DOMAIN bookings
             /\ bookings' \in [DOMAIN bookings' -> Booking]
  BY <1>9 DEF SetBookingStatus, Booking
<1>10. ASSUME NEW r \in Request, CancelBooking(r)
       PROVE  TypeOK'
  BY <1>9, <1>10, EndTyped, RequestTyped DEF CancelBooking, Idle,
     BookingStatus
<1>11. ASSUME NEW r \in Request, NEW b \in BookingId, NEW d \in Decision,
              FindBooking(r, b, d)
       PROVE  TypeOK'
  BY <1>11 DEF FindBooking, RequestState, DecisionState
<1>12. ASSUME NEW r \in Request, SaveDecision(r)
       PROVE  TypeOK'
  <2>1. /\ req' \in [Request -> RequestState]
        /\ req'[r].booking = req[r].booking
        /\ \A q \in Request \ {r} : req'[q] = req[q]
    <3>1. [req[r] EXCEPT !.step = "enqueue"] \in DecisionState
      BY <1>12 DEF SaveDecision, RequestState, CreateState, CancelState,
         DecisionState, Idle, TransactionSteps
    <3> QED
      BY <1>12, <3>1 DEF SaveDecision, Goto, RequestState
  <2>2. /\ req[r].booking \in DOMAIN bookings
        /\ req[r].booking \in BookingId
        /\ req[r].decision \in Decision
    BY <1>12, RequestTyped DEF SaveDecision
  <2>3. /\ DOMAIN bookings' = DOMAIN bookings
        /\ bookings' \in [DOMAIN bookings' -> Booking]
    BY <1>9, <1>12, <2>2 DEF SaveDecision, Decision, BookingStatus
  <2> QED
    BY <1>12, <2>1, <2>2, <2>3 DEF SaveDecision
<1>13. ASSUME NEW r \in Request, EnqueueBookingDecision(r)
       PROVE  TypeOK'
  BY <1>13, EndTyped, RequestTyped DEF EnqueueBookingDecision, Idle
<1>14. ASSUME NEW r \in Request, Fail(r)
       PROVE  TypeOK'
  BY <1>14, EndTyped DEF Fail, Idle
<1>15. CASE Background
  <2>1. CASE Tick
    BY <1>15, <2>1, StoreAssumption DEF Background, Tick, Day
  <2>2. CASE CloseStartedTourTimes
    BY <1>15, <2>2 DEF Background, CloseStartedTourTimes, TourTime,
       TourTimeStatus
  <2> QED
    BY <1>15, <2>1, <2>2 DEF Background
<1>16. CASE UNCHANGED vars
  BY <1>16 DEF vars
<1> QED
  BY <1>1, <1>2, <1>3, <1>5, <1>6, <1>7, <1>8, <1>10, <1>11, <1>12, <1>13,
     <1>14, <1>15, <1>16 DEF Next, Arrive, Lock, Proceed

\* TypeOK holds in every behaviour of the service: rows, locks, requests and
\* mail jobs keep their types, and a request never works on a missing booking.
THEOREM TypeCorrect == Spec => []TypeOK
  BY InitTyped, StepTyped, PTL DEF Spec

-----------------------------------------------------------------------------
(* The row lock *)

LEMMA StepKeepsLock ==
  TypeOK /\ LockedRowIsCurrent /\ [Next]_vars => LockedRowIsCurrent'
<1> SUFFICES ASSUME TypeOK, LockedRowIsCurrent, [Next]_vars
             PROVE  LockedRowIsCurrent'
  OBVIOUS
<1> USE DEF LockedRowIsCurrent
<1>n. NoRequest \notin Request
  BY StoreAssumption
<1>t. /\ req \in [Request -> RequestState]
      /\ rowLock \in [TourTimeId -> Request \cup {NoRequest}]
  BY DEF TypeOK, StoreTypeOK
\* The request leaves its transaction, or never was in one.
<1>1. ASSUME NEW r \in Request, End(r), UNCHANGED tourTimes
      PROVE  LockedRowIsCurrent'
  <2>1. req' = [req EXCEPT ![r] = Idle] /\ ~InTransaction(r)'
    BY <1>1, <1>t DEF End, InTransaction, TransactionSteps, Idle
  <2>2. \A q \in Request \ {r} : req'[q] = req[q]
                                   /\ InTransaction(q)' = InTransaction(q)
    BY <2>1, <1>t DEF InTransaction
  <2>3. CASE InTransaction(r)
    <3>1. rowLock' = [rowLock EXCEPT ![req[r].tourTime] = NoRequest]
      BY <1>1, <2>3 DEF End
    <3> QED
      BY <2>1, <2>2, <2>3, <3>1, <1>1, <1>n, <1>t, RequestTyped
  <2>4. CASE ~InTransaction(r)
    <3>1. rowLock' = rowLock
      BY <1>1, <2>4 DEF End
    <3> QED
      BY <2>1, <2>2, <2>4, <3>1, <1>1, <1>n, <1>t
  <2> QED
    BY <2>3, <2>4
\* The request goes on in its transaction, or stays out of one.
<1>2. ASSUME NEW r \in Request, NEW s \in RequestState,
             req' = [req EXCEPT ![r] = s],
             UNCHANGED <<tourTimes, rowLock>>,
             InTransaction(r)' = InTransaction(r),
             InTransaction(r) => /\ s.tourTime = req[r].tourTime
                                 /\ s.row = req[r].row
      PROVE  LockedRowIsCurrent'
  <2>1. \A q \in Request \ {r} : req'[q] = req[q]
                                   /\ InTransaction(q)' = InTransaction(q)
    BY <1>2, <1>t DEF InTransaction
  <2>2. InTransaction(r) => /\ req'[r].tourTime = req[r].tourTime
                            /\ req'[r].row = req[r].row
    BY <1>2, <1>t
  <2> QED
    BY <1>2, <2>1, <2>2, <1>n, <1>t
<1>3. ASSUME NEW r \in Request, LockTourTime(r)
      PROVE  LockedRowIsCurrent'
  <2> DEFINE t == req[r].tourTime
  <2>1. /\ rowLock[t] = NoRequest
        /\ rowLock' = [rowLock EXCEPT ![t] = r]
        /\ tourTimes' = tourTimes
        /\ t \in DOMAIN tourTimes
        /\ t \in TourTimeId
    BY <1>3, RequestTyped DEF LockTourTime, Bookable, Live
  <2>2. /\ InTransaction(r)'
        /\ req'[r].tourTime = t
        /\ req'[r].row = tourTimes[t]
        /\ \A q \in Request \ {r} : req'[q] = req[q]
                                      /\ InTransaction(q)' = InTransaction(q)
    BY <1>3, <1>t DEF LockTourTime, InTransaction, TransactionSteps
  <2>3. ~InTransaction(r)
    BY <1>3 DEF LockTourTime, InTransaction, TransactionSteps
  <2> HIDE DEF t
  <2> QED
    BY <2>1, <2>2, <2>3, <1>n, <1>t
<1>4. ASSUME NEW r \in Request, FindExisting(r) \/ CheckCapacity(r)
      PROVE  LockedRowIsCurrent'
  <2>1. CASE End(r)
    BY <1>1, <1>4, <2>1 DEF FindExisting, CheckCapacity
  <2>2. ASSUME NEW step \in {"sumSlots", "insert"}, Goto(r, step),
               UNCHANGED rowLock
        PROVE  LockedRowIsCurrent'
    <3>1. InTransaction(r) /\ InTransaction(r)'
      BY <1>4, <1>t, <2>2 DEF FindExisting, CheckCapacity, Goto,
         InTransaction, TransactionSteps, RequestState, CreateState,
         CancelState, DecisionState, Idle
    <3>2. [req[r] EXCEPT !.step = step] \in RequestState
      BY <1>t, <3>1 DEF InTransaction, TransactionSteps, RequestState,
         CreateState, CancelState, DecisionState, Idle
    <3>3. /\ [req[r] EXCEPT !.step = step].tourTime = req[r].tourTime
          /\ [req[r] EXCEPT !.step = step].row = req[r].row
      BY <1>t, <3>1 DEF InTransaction, TransactionSteps, RequestState,
         CreateState, CancelState, DecisionState, Idle
    <3>4. /\ req' = [req EXCEPT ![r] = [req[r] EXCEPT !.step = step]]
          /\ UNCHANGED <<tourTimes, rowLock>>
      BY <1>4, <1>t, <2>2 DEF Goto, FindExisting, CheckCapacity
    <3> QED
      BY <1>2, <3>1, <3>2, <3>3, <3>4
  <2> QED
    BY <1>4, <2>1, <2>2 DEF FindExisting, CheckCapacity
<1>5. ASSUME NEW r \in Request,
             \/ RejectUnavailable(r) \/ SaveBooking(r) \/ CancelBooking(r)
             \/ EnqueueBookingDecision(r) \/ Fail(r)
      PROVE  LockedRowIsCurrent'
  BY <1>1, <1>5 DEF RejectUnavailable, SaveBooking, CancelBooking,
     EnqueueBookingDecision, Fail
<1>6. ASSUME NEW r \in Request, Arrive(r) \/ SaveDecision(r)
      PROVE  LockedRowIsCurrent'
  <2>1. /\ UNCHANGED <<tourTimes, rowLock>>
        /\ ~InTransaction(r) /\ ~InTransaction(r)'
        /\ \A q \in Request \ {r} : req'[q] = req[q]
                                      /\ InTransaction(q)' = InTransaction(q)
    BY <1>6, <1>t DEF Arrive, StartCreate, FindOwnBooking, FindBooking,
       SaveDecision, Goto, InTransaction, TransactionSteps, Idle, storeVars,
       RequestState, CreateState, CancelState, DecisionState
  <2> QED
    BY <2>1, <1>n, <1>t
<1>7. CASE Background
  <2>1. CASE Tick
    BY <1>7, <2>1 DEF Background, Tick, InTransaction
  <2>2. CASE CloseStartedTourTimes
    <3>1. \A t \in DOMAIN tourTimes :
            rowLock[t] # NoRequest => tourTimes'[t] = tourTimes[t]
      BY <2>2 DEF CloseStartedTourTimes
    <3>2. /\ DOMAIN tourTimes' = DOMAIN tourTimes
          /\ UNCHANGED <<rowLock, req>>
      BY <1>7, <2>2 DEF CloseStartedTourTimes, Background
    <3> QED
      BY <3>1, <3>2, <1>n DEF InTransaction
  <2> QED
    BY <1>7, <2>1, <2>2 DEF Background
<1>8. CASE UNCHANGED vars
  BY <1>8 DEF vars, InTransaction
<1> QED
  BY <1>3, <1>4, <1>5, <1>6, <1>7, <1>8 DEF Next, Lock, Proceed

\* The departure a create works on is locked by it alone and is still the row
\* it read, for any number of requests and departures.
THEOREM LockCorrect == Spec => []LockedRowIsCurrent
<1>1. Init => LockedRowIsCurrent
  BY StoreAssumption DEF Init, StoreInit, LockedRowIsCurrent, InTransaction,
     TransactionSteps, Idle
<1> QED
  BY <1>1, StepKeepsLock, TypeCorrect, PTL DEF Spec

-----------------------------------------------------------------------------
(* Seats *)

LEMMA SeatsFinite ==
  ASSUME TypeOK, NEW t, NEW S
  PROVE  IsFiniteSet(Seats(t, S)) /\ ReservedSlots(t, S) \in Nat
<1>1. IsFiniteSet(BookingId \X Slots)
  <2>1. IsFiniteSet(Slots)
    BY StoreAssumption, FS_Interval DEF Slots
  <2> QED
    BY <2>1, StoreAssumption, FS_Product
<1>2. Seats(t, S) \subseteq BookingId \X Slots
  BY DEF Seats, TypeOK, StoreTypeOK
<1> QED
  BY <1>1, <1>2, FS_Subset, FS_CardinalityType DEF ReservedSlots

\* A step after which every counted booking was counted before.
NothingBooked ==
  \A b \in DOMAIN bookings' :
    /\ b \in DOMAIN bookings
    /\ bookings'[b].user = bookings[b].user
    /\ bookings'[b].tourTime = bookings[b].tourTime
    /\ bookings'[b].slots = bookings[b].slots
    /\ b \notin overwritten' /\ Active(b)' => b \notin overwritten /\ Active(b)

LEMMA NothingBookedShrinks ==
  ASSUME TypeOK, TypeOK', NothingBooked, NEW t, NEW u
  PROVE  /\ ReservedSlots(t, overwritten)' <= ReservedSlots(t, overwritten)
         /\ ReservedSlots(t, overwritten)' \in Nat
         /\ ActiveBookings(u, t, overwritten)'
              \subseteq ActiveBookings(u, t, overwritten)
<1>1. Seats(t, overwritten)' \subseteq Seats(t, overwritten)
  BY DEF Seats, NothingBooked, Active
<1>2. ActiveBookings(u, t, overwritten)'
        \subseteq ActiveBookings(u, t, overwritten)
  BY DEF ActiveBookings, NothingBooked, Active
<1> QED
  BY <1>1, <1>2, SeatsFinite, FS_Subset, FS_CardinalityType
     DEF ReservedSlots

\* Inserting a pending booking of n slots takes n seats of its departure and
\* none of the others.
LEMMA InsertTakesSeats ==
  ASSUME TypeOK, TypeOK',
         NEW b \in BookingId, b \notin DOMAIN bookings,
         NEW row \in Booking, row.status = "pending",
         InsertBooking(b, row), UNCHANGED overwritten,
         NEW t
  PROVE  /\ ReservedSlots(t, overwritten)' \in Nat
         /\ t = row.tourTime =>
              ReservedSlots(t, overwritten)'
                <= ReservedSlots(t, overwritten) + row.slots
         /\ t # row.tourTime =>
              ReservedSlots(t, overwritten)' = ReservedSlots(t, overwritten)
<1> DEFINE new == {b} \X (1..row.slots)
<1>1. /\ bookings'[b] = row
      /\ \A x \in DOMAIN bookings : bookings'[x] = bookings[x]
      /\ DOMAIN bookings' = (DOMAIN bookings) \cup {b}
  BY DEF InsertBooking
<1>2. row.slots \in Slots /\ row.slots \in Nat
  BY DEF Booking, Slots
<1>3. t # row.tourTime => Seats(t, overwritten)' = Seats(t, overwritten)
  BY <1>1 DEF Seats, Active
<1>4. Seats(t, overwritten)' \subseteq Seats(t, overwritten) \cup new
  BY <1>1, <1>2 DEF Seats, Active, Slots
<1>5. IsFiniteSet(new) /\ Cardinality(new) = row.slots
  <2>1. IsFiniteSet({b}) /\ Cardinality({b}) = 1
    BY FS_Singleton
  <2>2. IsFiniteSet(1..row.slots) /\ Cardinality(1..row.slots) = row.slots
    BY <1>2, FS_Interval
  <2> DEFINE one == {b}  slots == 1..row.slots
  <2> HIDE DEF one, slots
  <2>3. /\ IsFiniteSet(one \X slots)
        /\ Cardinality(one \X slots) = Cardinality(one) * Cardinality(slots)
    BY <2>1, <2>2, FS_Product DEF one, slots
  <2> QED
    BY <1>2, <2>1, <2>2, <2>3 DEF one, slots
<1>6. /\ Cardinality(Seats(t, overwritten)') \in Nat
      /\ Cardinality(Seats(t, overwritten)')
           <= Cardinality(Seats(t, overwritten)) + row.slots
  <2> DEFINE old == Seats(t, overwritten)
  <2>1. IsFiniteSet(old)
    BY SeatsFinite
  <2> HIDE DEF new, old
  <2>2. /\ IsFiniteSet(old \cup new)
        /\ Cardinality(old \cup new)
             = Cardinality(old) + Cardinality(new) - Cardinality(old \cap new)
    BY <1>5, <2>1, FS_Union
  <2>3. Cardinality(old \cap new) \in Nat /\ Cardinality(old) \in Nat
    BY <2>1, FS_Intersection, FS_CardinalityType
  <2>4. Cardinality(Seats(t, overwritten)') <= Cardinality(old \cup new)
    BY <1>4, <2>2, FS_Subset DEF old
  <2>5. Cardinality(Seats(t, overwritten)') \in Nat
    BY <1>4, <2>2, FS_Subset, FS_CardinalityType DEF old
  <2>6. Cardinality(old \cup new) \in Nat
    BY <2>2, FS_CardinalityType
  <2> QED
    BY <1>2, <1>5, <2>2, <2>3, <2>4, <2>5, <2>6 DEF old
<1> QED
  BY <1>3, <1>6 DEF ReservedSlots

\* It adds one active booking of its user on its departure, and no other.
LEMMA InsertAddsOneBooking ==
  ASSUME TypeOK,
         NEW b \in BookingId, b \notin DOMAIN bookings,
         NEW row \in Booking, InsertBooking(b, row), UNCHANGED overwritten,
         NEW t, NEW u
  PROVE  /\ ActiveBookings(u, t, overwritten)'
              \subseteq ActiveBookings(u, t, overwritten) \cup {b}
         /\ t # row.tourTime \/ u # row.user =>
              ActiveBookings(u, t, overwritten)'
                = ActiveBookings(u, t, overwritten)
  BY DEF ActiveBookings, Active, InsertBooking

-----------------------------------------------------------------------------
(* The inductive invariant: the locks, the checks in flight, the capacity.  *)

\* What holds even when admins change departures that are not locked.
ChecksInv == /\ TypeOK
             /\ LockedRowIsCurrent
             /\ ChecksStillHold

IInv == /\ ChecksInv
        /\ CapacityRespected
        /\ OneActiveBooking

\* Every step but SaveBooking only frees seats.
LEMMA NothingBookedSteps ==
  ASSUME TypeOK, [Next]_vars, \A r \in Request : ~SaveBooking(r)
  PROVE  NothingBooked
<1> USE DEF NothingBooked, TypeOK, StoreTypeOK, Active
<1>1. CASE UNCHANGED <<bookings, overwritten>>
  BY <1>1
<1>2. ASSUME NEW r \in Request, CancelBooking(r)
      PROVE  NothingBooked
  BY <1>2, RequestTyped DEF CancelBooking, SetBookingStatus, Booking,
     ActiveStatus
<1>3. ASSUME NEW r \in Request, SaveDecision(r)
      PROVE  NothingBooked
  BY <1>3, RequestTyped DEF SaveDecision, SetBookingStatus, Booking
<1> QED
  BY <1>1, <1>2, <1>3 DEF Next, Arrive, StartCreate, FindOwnBooking,
     FindBooking, Lock, LockTourTime, RejectUnavailable, Proceed,
     FindExisting, CheckCapacity, EnqueueBookingDecision, Fail, Background,
     Tick, CloseStartedTourTimes, vars, storeVars

\* A step changes a row of tour_times only while nobody has it locked, and
\* never its capacity.
LEMMA LockedRowsKept ==
  ASSUME TypeOK, [Next]_vars
  PROVE  /\ DOMAIN tourTimes' = DOMAIN tourTimes
         /\ \A t \in DOMAIN tourTimes :
              /\ tourTimes'[t].maxCapacity = tourTimes[t].maxCapacity
              /\ rowLock[t] # NoRequest => tourTimes'[t] = tourTimes[t]
<1>1. CASE CloseStartedTourTimes
  BY <1>1 DEF CloseStartedTourTimes, TypeOK, StoreTypeOK, TourTime
<1>2. CASE UNCHANGED tourTimes
  BY <1>2
<1> QED
  BY <1>1, <1>2 DEF Next, Arrive, StartCreate, FindOwnBooking,
     FindBooking, Lock, LockTourTime, RejectUnavailable, Proceed,
     FindExisting, CheckCapacity, SaveBooking, CancelBooking, SaveDecision,
     EnqueueBookingDecision, Fail, Background, Tick, vars, storeVars

\* A request in its transaction came there by its own step or was there.
LEMMA TransactionOrigin ==
  ASSUME TypeOK, [Next]_vars, NEW r \in Request, InTransaction(r)'
  PROVE  \/ req'[r] = req[r]
         \/ LockTourTime(r) /\ req'[r].step = "findExisting"
         \/ FindExisting(r) /\ Goto(r, "sumSlots")
         \/ CheckCapacity(r) /\ Goto(r, "insert")
<1> USE DEF TypeOK
<1>1. ASSUME NEW q \in Request, q # r,
             Arrive(q) \/ Lock(q) \/ Proceed(q) \/ Fail(q)
      PROVE  req'[r] = req[r]
  BY <1>1 DEF Arrive, StartCreate, FindOwnBooking, FindBooking, Lock,
     LockTourTime, RejectUnavailable, Proceed, FindExisting, CheckCapacity,
     SaveBooking, CancelBooking, SaveDecision, EnqueueBookingDecision, Fail,
     Goto, End
<1>2. ~ End(r)
  BY DEF End, InTransaction, TransactionSteps, Idle
<1>3. ~ Arrive(r) /\ ~ SaveDecision(r)
  BY DEF Arrive, StartCreate, FindOwnBooking, FindBooking, SaveDecision, Goto,
     InTransaction, TransactionSteps, RequestState, CreateState, CancelState,
     DecisionState, Idle
<1>4. ~ RejectUnavailable(r) /\ ~ SaveBooking(r) /\ ~ CancelBooking(r)
        /\ ~ EnqueueBookingDecision(r) /\ ~ Fail(r)
  BY <1>2 DEF RejectUnavailable, SaveBooking, CancelBooking,
     EnqueueBookingDecision, Fail
<1>5. CASE LockTourTime(r)
  BY <1>5 DEF LockTourTime
<1>6. CASE FindExisting(r)
  BY <1>2, <1>6 DEF FindExisting
<1>7. CASE CheckCapacity(r)
  BY <1>2, <1>7 DEF CheckCapacity
<1> QED
  BY <1>1, <1>3, <1>4, <1>5, <1>6, <1>7
     DEF Next, Lock, Proceed, Background, vars

LEMMA IgnoringFewerCountsMore ==
  ASSUME TypeOK, NEW t, NEW u
  PROVE  /\ ReservedSlots(t, overwritten) <= ReservedSlots(t, {})
         /\ ActiveBookings(u, t, overwritten) \subseteq ActiveBookings(u, t, {})
<1>1. Seats(t, overwritten) \subseteq Seats(t, {})
  BY DEF Seats
<1> QED
  BY <1>1, SeatsFinite, FS_Subset DEF ReservedSlots, ActiveBookings

\* The effect of an insert, for the request that made all the checks.
LEMMA SaveBookingEffect ==
  ASSUME ChecksInv, TypeOK', NEW r \in Request, SaveBooking(r)
  PROVE  \E b \in BookingId \ (DOMAIN bookings), row \in Booking :
           /\ InsertBooking(b, row)
           /\ row.status = "pending"
           /\ row.user = req[r].user
           /\ row.tourTime = req[r].tourTime
           /\ row.slots = req[r].slots
           /\ row.totalPrice = tourTimes[req[r].tourTime].price * req[r].slots
<1> DEFINE row == [user |-> req[r].user, tourTime |-> req[r].tourTime,
                   slots |-> req[r].slots, status |-> "pending",
                   totalPrice |-> req[r].row.price * req[r].slots]
<1>1. PICK b \in BookingId \ (DOMAIN bookings) : InsertBooking(b, row)
  BY DEF SaveBooking
<1>2. row \in Booking
  BY <1>1 DEF TypeOK, StoreTypeOK, InsertBooking
<1>3. req[r].row = tourTimes[req[r].tourTime]
  BY DEF ChecksInv, LockedRowIsCurrent, SaveBooking, InTransaction,
     TransactionSteps
<1> QED
  BY <1>1, <1>2, <1>3

LEMMA StepKeepsChecks == ChecksInv /\ [Next]_vars => ChecksStillHold'
<1> SUFFICES ASSUME ChecksInv, [Next]_vars, NEW r \in Request, InTransaction(r)',
                    NEW t, t = req'[r].tourTime, NEW u, u = req'[r].user
             PROVE  /\ Live(t)' /\ tourTimes'[t].status = "open"
                    /\ req'[r].step \in {"sumSlots", "insert"} =>
                         ActiveBookings(u, t, overwritten)' = {}
                    /\ req'[r].step = "insert" =>
                         ReservedSlots(t, overwritten)' + req'[r].slots
                           <= tourTimes'[t].maxCapacity
  BY DEF ChecksStillHold, InTransaction, TransactionSteps, Live,
     ActiveBookings, ReservedSlots, Seats, Active
<1>t. TypeOK /\ TypeOK' /\ LockedRowIsCurrent /\ LockedRowIsCurrent'
  BY StepTyped, StepKeepsLock DEF ChecksInv
<1>1. CASE \E q \in Request : SaveBooking(q)
  <2>1. PICK q \in Request : SaveBooking(q)
    BY <1>1
  <2>2. PICK b \in BookingId \ (DOMAIN bookings), row \in Booking :
          /\ InsertBooking(b, row)
          /\ row.status = "pending"
          /\ row.tourTime = req[q].tourTime
    BY <2>1, <1>t, SaveBookingEffect
  <2>3. InTransaction(q) /\ ~InTransaction(q)'
    BY <2>1, <1>t DEF SaveBooking, End, InTransaction, TransactionSteps, Idle,
       TypeOK
  <2>4. req'[r] = req[r] /\ r # q
    BY <2>1, <2>3, <1>t DEF SaveBooking, End, TypeOK
  <2>5. InTransaction(r) /\ t # row.tourTime
    BY <2>2, <2>3, <2>4, <1>t DEF LockedRowIsCurrent, InTransaction
  <2>6. /\ ReservedSlots(t, overwritten)' = ReservedSlots(t, overwritten)
        /\ ActiveBookings(u, t, overwritten)'
             = ActiveBookings(u, t, overwritten)
    <3>1. UNCHANGED overwritten
      BY <2>1 DEF SaveBooking
    <3>2. t # row.tourTime
      BY <2>5
    <3> QED
      BY <1>t, <2>2, <3>1, <3>2, InsertTakesSeats, InsertAddsOneBooking
  <2>7. tourTimes' = tourTimes
    BY <2>1 DEF SaveBooking
  <2> QED
    BY <2>4, <2>5, <2>6, <2>7 DEF ChecksInv, ChecksStillHold, Live
<1>2. CASE \A q \in Request : ~SaveBooking(q)
  <2>1. /\ ReservedSlots(t, overwritten)' <= ReservedSlots(t, overwritten)
        /\ ReservedSlots(t, overwritten)' \in Nat
        /\ ActiveBookings(u, t, overwritten)'
             \subseteq ActiveBookings(u, t, overwritten)
    BY <1>2, <1>t, NothingBookedSteps, NothingBookedShrinks
  <2>2. /\ ReservedSlots(t, overwritten) \in Nat
        /\ ReservedSlots(t, {}) \in Nat
    BY <1>t, SeatsFinite
  <2>3. ReservedSlots(t, overwritten) <= ReservedSlots(t, {})
    BY <1>t, IgnoringFewerCountsMore
  <2>4. ActiveBookings(u, t, overwritten) \subseteq ActiveBookings(u, t, {})
    BY <1>t, IgnoringFewerCountsMore
  <2>5. req'[r].slots \in Nat
    BY <1>t, StoreAssumption DEF TypeOK, RequestState, CreateState, Idle,
       CancelState, DecisionState, InTransaction, TransactionSteps, Slots
  \* The departure of a request in its transaction stays as it is.
  <2>6. ASSUME InTransaction(r), req'[r].tourTime = req[r].tourTime
        PROVE  /\ tourTimes'[t] = tourTimes[t] /\ t \in DOMAIN tourTimes'
               /\ tourTimes[t] = req[r].row /\ tourTimes[t] \in TourTime
               /\ Live(t)' /\ tourTimes'[t].status = "open"
    <3>1. rowLock[t] # NoRequest /\ t \in DOMAIN tourTimes
      BY <1>t, <2>6, StoreAssumption DEF LockedRowIsCurrent
    <3>2. tourTimes'[t] = tourTimes[t] /\ t \in DOMAIN tourTimes'
      BY <3>1, <1>t, LockedRowsKept
    <3> QED
      BY <3>1, <3>2, <2>6, <1>t DEF ChecksInv, ChecksStillHold, Live,
         LockedRowIsCurrent, TypeOK, StoreTypeOK
  <2>7. CASE req'[r] = req[r]
    <3>1. InTransaction(r)
      BY <2>7 DEF InTransaction
    <3>2. /\ req[r].step \in {"sumSlots", "insert"} =>
               ActiveBookings(u, t, overwritten) = {}
          /\ req[r].step = "insert" =>
               ReservedSlots(t, overwritten) + req[r].slots
                 <= tourTimes[t].maxCapacity
      BY <2>7 DEF ChecksInv, ChecksStillHold
    <3>3. tourTimes[t].maxCapacity \in Nat
      BY <2>6, <2>7, <3>1, StoreAssumption DEF TourTime
    <3> QED
      BY <2>1, <2>2, <2>5, <2>6, <2>7, <3>1, <3>2, <3>3
  <2>8. CASE LockTourTime(r) /\ req'[r].step = "findExisting"
    BY <2>8, <1>t DEF LockTourTime, Bookable, Live, TypeOK
  <2>9. CASE FindExisting(r) /\ Goto(r, "sumSlots")
    <3>1. /\ InTransaction(r) /\ req'[r].step = "sumSlots"
          /\ req'[r].tourTime = req[r].tourTime
          /\ req'[r].user = req[r].user
      BY <2>9, <1>t DEF FindExisting, Goto, InTransaction, TransactionSteps,
         TypeOK, RequestState, CreateState, CancelState, DecisionState, Idle
    <3>2. ActiveBookings(u, t, {}) = {}
      BY <2>9, <3>1, <1>t DEF FindExisting, End, TypeOK, Idle
    <3> QED
      BY <2>1, <2>4, <2>6, <3>1, <3>2
  <2>10. CASE CheckCapacity(r) /\ Goto(r, "insert")
    <3>1. /\ InTransaction(r) /\ req'[r].step = "insert"
          /\ req[r].step = "sumSlots"
          /\ req'[r].tourTime = req[r].tourTime
          /\ req'[r].user = req[r].user
          /\ req'[r].slots = req[r].slots
          /\ req'[r].row = req[r].row
      BY <2>10, <1>t DEF CheckCapacity, Goto, InTransaction, TransactionSteps,
         TypeOK, RequestState, CreateState, CancelState, DecisionState, Idle
    <3>2. ReservedSlots(t, {}) + req[r].slots <= req[r].row.maxCapacity
      BY <2>10, <3>1, <1>t DEF CheckCapacity, End, TypeOK, Idle
    <3>3. ActiveBookings(u, t, overwritten) = {}
      BY <3>1 DEF ChecksInv, ChecksStillHold
    <3>4. tourTimes'[t].maxCapacity \in Nat
      BY <2>6, <3>1, StoreAssumption DEF TourTime
    <3> QED
      BY <2>1, <2>2, <2>3, <2>5, <2>6, <3>1, <3>2, <3>3, <3>4
  <2> QED
    BY <2>7, <2>8, <2>9, <2>10, <1>t, TransactionOrigin
<1> QED
  BY <1>1, <1>2

\* A step books no more of a departure than fits in it, and books one only
\* while it is open, at its price.
LEMMA SlotsFit ==
  ChecksInv /\ [Next]_vars =>
    \A t \in DOMAIN tourTimes :
      /\ ReservedSlots(t, overwritten) \in Nat
      /\ ReservedSlots(t, overwritten)' \in Nat
      /\ \/ ReservedSlots(t, overwritten)' <= ReservedSlots(t, overwritten)
         \/ ReservedSlots(t, overwritten)' <= tourTimes[t].maxCapacity
<1> SUFFICES ASSUME ChecksInv, [Next]_vars, NEW t \in DOMAIN tourTimes
             PROVE  /\ ReservedSlots(t, overwritten) \in Nat
                    /\ ReservedSlots(t, overwritten)' \in Nat
                    /\ \/ ReservedSlots(t, overwritten)'
                             <= ReservedSlots(t, overwritten)
                       \/ ReservedSlots(t, overwritten)'
                             <= tourTimes[t].maxCapacity
  OBVIOUS
<1>t. TypeOK /\ TypeOK'
  BY StepTyped DEF ChecksInv
<1>1. CASE \A q \in Request : ~SaveBooking(q)
  BY <1>1, <1>t, NothingBookedSteps, NothingBookedShrinks, SeatsFinite
<1>2. CASE \E q \in Request : SaveBooking(q)
  <2>1. PICK r \in Request : SaveBooking(r)
    BY <1>2
  <2>2. PICK b \in BookingId \ (DOMAIN bookings), row \in Booking :
          /\ InsertBooking(b, row)
          /\ row.status = "pending"
          /\ row.tourTime = req[r].tourTime
          /\ row.slots = req[r].slots
    BY <2>1, <1>t, SaveBookingEffect
  <2>3. UNCHANGED overwritten /\ req[r].step = "insert"
    BY <2>1 DEF SaveBooking
  <2>4. ReservedSlots(row.tourTime, overwritten) + row.slots
             <= tourTimes[row.tourTime].maxCapacity
    BY <2>2, <2>3 DEF ChecksInv, ChecksStillHold
  <2>5. /\ ReservedSlots(t, overwritten) \in Nat
        /\ row.slots \in Nat
        /\ tourTimes[t].maxCapacity \in Nat
    BY <1>t, SeatsFinite, StoreAssumption
       DEF TypeOK, StoreTypeOK, TourTime, Booking, Slots
  <2>6. /\ ReservedSlots(t, overwritten)' \in Nat
        /\ t = row.tourTime => ReservedSlots(t, overwritten)'
                                <= ReservedSlots(t, overwritten) + row.slots
        /\ t # row.tourTime => ReservedSlots(t, overwritten)'
                                = ReservedSlots(t, overwritten)
    BY <1>t, <2>2, <2>3, InsertTakesSeats
  <2>7. CASE t = row.tourTime
    BY <2>4, <2>5, <2>6, <2>7
  <2>8. CASE t # row.tourTime
    BY <2>5, <2>6, <2>8
  <2> QED
    BY <2>7, <2>8
<1> QED
  BY <1>1, <1>2

\* Bookings stay, with their terms and, once decided, with a decision; a new
\* one is of a departure that is open and has room, at its price.
LEMMA BookingEffect ==
  ChecksInv /\ [Next]_vars =>
    /\ DOMAIN bookings \subseteq DOMAIN bookings'
    /\ \A b \in DOMAIN bookings :
         /\ bookings'[b].user = bookings[b].user
         /\ bookings'[b].tourTime = bookings[b].tourTime
         /\ bookings'[b].slots = bookings[b].slots
         /\ bookings'[b].totalPrice = bookings[b].totalPrice
         /\ bookings[b].status \in Decision => bookings'[b].status \in Decision
    /\ \A b \in (DOMAIN bookings') \ (DOMAIN bookings) :
         \E t \in DOMAIN tourTimes :
           /\ UNCHANGED <<tourTimes, today>>
           /\ bookings'[b].tourTime = t
           /\ Live(t) /\ tourTimes[t].status = "open"
           /\ bookings'[b].totalPrice = tourTimes[t].price * bookings'[b].slots
           /\ ReservedSlots(t, overwritten)' <= tourTimes[t].maxCapacity
<1> SUFFICES ASSUME ChecksInv, [Next]_vars
             PROVE  BookingEffect!2
  OBVIOUS
<1>t. TypeOK /\ TypeOK'
  BY StepTyped DEF ChecksInv
<1>1. CASE UNCHANGED bookings
  BY <1>1
<1>2. ASSUME NEW r \in Request, CancelBooking(r) \/ SaveDecision(r)
      PROVE  /\ DOMAIN bookings' = DOMAIN bookings
             /\ \A b \in DOMAIN bookings :
                  /\ bookings'[b].user = bookings[b].user
                  /\ bookings'[b].tourTime = bookings[b].tourTime
                  /\ bookings'[b].slots = bookings[b].slots
                  /\ bookings'[b].totalPrice = bookings[b].totalPrice
                  /\ bookings[b].status \in Decision =>
                       bookings'[b].status \in Decision
  BY <1>2, <1>t, RequestTyped DEF CancelBooking, SaveDecision, SetBookingStatus,
     TypeOK, StoreTypeOK, Booking, Decision
<1>3. ASSUME NEW r \in Request, SaveBooking(r)
      PROVE  /\ DOMAIN bookings \subseteq DOMAIN bookings'
             /\ \A b \in DOMAIN bookings : bookings'[b] = bookings[b]
             /\ \A b \in (DOMAIN bookings') \ (DOMAIN bookings) :
                  \E t \in DOMAIN tourTimes :
                  /\ UNCHANGED <<tourTimes, today>>
                  /\ bookings'[b].tourTime = t
                  /\ Live(t) /\ tourTimes[t].status = "open"
                  /\ bookings'[b].totalPrice
                        = tourTimes[t].price * bookings'[b].slots
                  /\ ReservedSlots(t, overwritten)' <= tourTimes[t].maxCapacity
  <2>1. PICK c \in BookingId \ (DOMAIN bookings), row \in Booking :
          /\ InsertBooking(c, row)
          /\ row.status = "pending"
          /\ row.tourTime = req[r].tourTime
          /\ row.slots = req[r].slots
          /\ row.totalPrice = tourTimes[req[r].tourTime].price * req[r].slots
    BY <1>3, <1>t, SaveBookingEffect
  <2> DEFINE t == row.tourTime
  <2>2. UNCHANGED <<tourTimes, today, overwritten>> /\ req[r].step = "insert"
    BY <1>3 DEF SaveBooking
  <2>3. /\ Live(t) /\ tourTimes[t].status = "open"
        /\ ReservedSlots(t, overwritten) + row.slots <= tourTimes[t].maxCapacity
    BY <2>1, <2>2 DEF ChecksInv, ChecksStillHold, InTransaction, TransactionSteps
  <2>4. /\ ReservedSlots(t, overwritten)' \in Nat
        /\ ReservedSlots(t, overwritten)'
             <= ReservedSlots(t, overwritten) + row.slots
    BY <1>t, <2>1, <2>2, InsertTakesSeats
  <2>5. /\ ReservedSlots(t, overwritten) \in Nat /\ row.slots \in Nat
        /\ tourTimes[t].maxCapacity \in Nat
    BY <1>t, <2>3, SeatsFinite, StoreAssumption
       DEF TypeOK, StoreTypeOK, TourTime, Booking, Slots, Live
  <2>6. ReservedSlots(t, overwritten)' <= tourTimes[t].maxCapacity
    BY <2>3, <2>4, <2>5
  <2>7. /\ DOMAIN bookings' = DOMAIN bookings \cup {c}
        /\ bookings'[c] = row
        /\ \A b \in DOMAIN bookings : bookings'[b] = bookings[b]
    BY <2>1 DEF InsertBooking
  <2>8. t \in DOMAIN tourTimes
    BY <2>3 DEF Live
  <2> QED
    BY <2>1, <2>2, <2>3, <2>6, <2>7, <2>8
<1> QED
  BY <1>1, <1>2, <1>3 DEF Next, Arrive, StartCreate, FindOwnBooking,
     FindBooking, Lock, LockTourTime, RejectUnavailable, Proceed,
     FindExisting, CheckCapacity, EnqueueBookingDecision, Fail, Background,
     Tick, CloseStartedTourTimes, vars, storeVars

\* What others do to departures that are not locked disturbs no request.
LEMMA ChecksKept ==
  /\ ChecksInv /\ StoreTypeOK'
  /\ UNCHANGED <<bookings, rowLock, req, mailJobs, overwritten, failures>>
  /\ \A t \in DOMAIN tourTimes : rowLock[t] # NoRequest =>
       t \in DOMAIN tourTimes' /\ tourTimes'[t] = tourTimes[t]
  => ChecksInv'
<1> SUFFICES ASSUME ChecksKept!1 PROVE ChecksInv'
  OBVIOUS
<1>1. TypeOK'
  BY DEF ChecksInv, TypeOK
<1>2. ASSUME NEW r \in Request, InTransaction(r)
      PROVE  LET t == req[r].tourTime IN
             /\ t \in DOMAIN tourTimes /\ t \in DOMAIN tourTimes'
             /\ tourTimes'[t] = tourTimes[t]
  BY <1>2, StoreAssumption DEF ChecksInv, LockedRowIsCurrent
<1>3. \A r \in Request : InTransaction(r)' = InTransaction(r)
  BY DEF InTransaction
<1>4. LockedRowIsCurrent'
  <2>1. \A t \in TourTimeId : rowLock[t] # NoRequest =>
          InTransaction(rowLock[t]) /\ req[rowLock[t]].tourTime = t
    BY DEF ChecksInv, LockedRowIsCurrent
  <2>2. \A t \in TourTimeId : rowLock'[t] # NoRequest =>
          InTransaction(rowLock[t])' /\ req'[rowLock'[t]].tourTime = t
    BY <2>1 DEF InTransaction
  <2>3. \A r \in Request : InTransaction(r)' =>
          /\ rowLock'[req'[r].tourTime] = r
          /\ req'[r].tourTime \in DOMAIN tourTimes'
          /\ tourTimes'[req'[r].tourTime] = req'[r].row
    BY <1>2, <1>3 DEF ChecksInv, LockedRowIsCurrent
  <2> QED
    BY <2>2, <2>3 DEF LockedRowIsCurrent, InTransaction
<1>5. \A t, u : /\ ReservedSlots(t, overwritten)' = ReservedSlots(t, overwritten)
               /\ ActiveBookings(u, t, overwritten)'
                    = ActiveBookings(u, t, overwritten)
  BY DEF ReservedSlots, Seats, ActiveBookings, Active
<1>6. ChecksStillHold'
  BY <1>2, <1>3, <1>5 DEF ChecksInv, ChecksStillHold, Live, InTransaction,
     TransactionSteps, ReservedSlots, Seats, ActiveBookings, Active
<1> QED
  BY <1>1, <1>4, <1>6 DEF ChecksInv

\* A request writes no departure.
LEMMA RequestsKeepRows ==
  Next /\ ~Background => UNCHANGED <<tourTimes, today>>
BY DEF Next, Arrive, StartCreate, FindOwnBooking, FindBooking, Lock, LockTourTime,
       RejectUnavailable, Proceed, FindExisting, CheckCapacity, SaveBooking,
       CancelBooking, SaveDecision, EnqueueBookingDecision, Fail, storeVars

\* A booking is inserted only while its user has no active one of the
\* departure.  Nothing is assumed of the capacity, which admins may change.
LEMMA StepKeepsOneBooking ==
  ASSUME ChecksInv, OneActiveBooking, [Next]_vars
  PROVE  OneActiveBooking'
<1>t. TypeOK /\ TypeOK'
  BY StepTyped DEF ChecksInv
<1> SUFFICES ASSUME NEW t \in TourTimeId, NEW u \in User,
                    NEW x \in ActiveBookings(u, t, overwritten)',
                    NEW y \in ActiveBookings(u, t, overwritten)'
             PROVE  x = y
  BY DEF OneActiveBooking
<1>1. CASE \A q \in Request : ~SaveBooking(q)
  BY <1>t, <1>1, NothingBookedSteps, NothingBookedShrinks
     DEF OneActiveBooking
<1>2. ASSUME NEW r \in Request, SaveBooking(r)
      PROVE  x = y
  <2>1. PICK b \in BookingId \ (DOMAIN bookings), row \in Booking :
          /\ InsertBooking(b, row)
          /\ row.user = req[r].user
          /\ row.tourTime = req[r].tourTime
    BY <1>2, <1>t, SaveBookingEffect
  <2>2. UNCHANGED overwritten /\ req[r].step = "insert"
    BY <1>2 DEF SaveBooking
  <2>3. ActiveBookings(row.user, row.tourTime, overwritten) = {}
    BY <2>1, <2>2, <1>t DEF ChecksInv, ChecksStillHold
  <2>4. CASE t = row.tourTime /\ u = row.user
    <3>1. ActiveBookings(u, t, overwritten)' \subseteq {b}
      BY <1>t, <2>1, <2>2, <2>3, <2>4, InsertAddsOneBooking
    <3> QED
      BY <3>1
  <2>5. CASE t # row.tourTime \/ u # row.user
    <3>1. ActiveBookings(u, t, overwritten)'
            = ActiveBookings(u, t, overwritten)
      BY <1>t, <2>1, <2>2, <2>5, InsertAddsOneBooking
    <3> QED
      BY <3>1 DEF OneActiveBooking
  <2> QED
    BY <2>4, <2>5
<1> QED
  BY <1>1, <1>2

LEMMA StepKeepsCapacity ==
  IInv /\ [Next]_vars => CapacityRespected' /\ OneActiveBooking'
<1> SUFFICES ASSUME IInv, [Next]_vars
             PROVE  CapacityRespected' /\ OneActiveBooking'
  OBVIOUS
<1>t. TypeOK /\ TypeOK' /\ ChecksInv
  BY StepTyped DEF IInv, ChecksInv
<1>1. CapacityRespected'
  <2> SUFFICES ASSUME NEW t \in DOMAIN tourTimes'
               PROVE  ReservedSlots(t, overwritten)' <= tourTimes'[t].maxCapacity
    BY DEF CapacityRespected
  <2>1. /\ t \in DOMAIN tourTimes
        /\ tourTimes'[t].maxCapacity = tourTimes[t].maxCapacity
        /\ tourTimes[t].maxCapacity \in Nat
    BY <1>t, LockedRowsKept, StoreAssumption DEF TypeOK, StoreTypeOK, TourTime
  <2>2. /\ ReservedSlots(t, overwritten)' \in Nat
        /\ \/ ReservedSlots(t, overwritten)' <= ReservedSlots(t, overwritten)
           \/ ReservedSlots(t, overwritten)' <= tourTimes[t].maxCapacity
    BY <1>t, <2>1, SlotsFit
  <2>3. /\ ReservedSlots(t, overwritten) \in Nat
        /\ ReservedSlots(t, overwritten) <= tourTimes[t].maxCapacity
    BY <1>t, <2>1, SeatsFinite DEF IInv, CapacityRespected
  <2> QED
    BY <2>1, <2>2, <2>3
<1>2. OneActiveBooking'
  BY <1>t, StepKeepsOneBooking DEF IInv
<1> QED
  BY <1>1, <1>2

LEMMA InvariantHolds == Spec => []IInv
<1>1. ASSUME Init
      PROVE  ChecksStillHold /\ CapacityRespected /\ OneActiveBooking
  <2>1. \A r \in Request : req[r].step = "idle"
    BY <1>1 DEF Init, Idle
  <2>2. \A t, S : Seats(t, S) = {} /\ \A u : ActiveBookings(u, t, S) = {}
    BY <1>1 DEF Init, StoreInit, Seats, ActiveBookings
  <2>3. \A t \in DOMAIN tourTimes : tourTimes[t].maxCapacity \in 1..MaxCapacity
    BY <1>1, InitTyped DEF TypeOK, StoreTypeOK, TourTime
  <2>4. \A t, S : ReservedSlots(t, S) = 0
    BY <2>2, FS_EmptySet DEF ReservedSlots
  <2>5. CapacityRespected
    BY <2>3, <2>4, StoreAssumption DEF CapacityRespected
  <2>6. ChecksStillHold /\ OneActiveBooking
    BY <2>1, <2>2 DEF ChecksStillHold, OneActiveBooking, InTransaction,
       TransactionSteps
  <2> QED
    BY <2>5, <2>6
<1>2. IInv /\ [Next]_vars
        => ChecksStillHold' /\ CapacityRespected' /\ OneActiveBooking'
  BY StepKeepsChecks, StepKeepsCapacity DEF IInv
<1>3. IInv <=> TypeOK /\ LockedRowIsCurrent /\ ChecksStillHold
                 /\ CapacityRespected /\ OneActiveBooking
  BY DEF IInv, ChecksInv
<1> QED
  BY <1>1, <1>2, <1>3, TypeCorrect, LockCorrect, PTL DEF Spec

\* The bookings of a departure fit in it, those a late decision revived left
\* out: for any number of users, requests, departures and bookings, and any
\* interleaving and failure of their statements.
THEOREM CapacityCorrect == Spec => []CapacityRespected
  BY InvariantHolds, PTL DEF IInv

\* A user never gets two active bookings of one departure by racing creates.
THEOREM OneActiveBookingCorrect == Spec => []OneActiveBooking
  BY InvariantHolds, PTL DEF IInv

\* What a create has checked about the departure, the user and the capacity
\* is still true when it inserts, whatever ran between the statements.
THEOREM ChecksCorrect == Spec => []ChecksStillHold
  BY InvariantHolds, PTL DEF IInv, ChecksInv
-----------------------------------------------------------------------------
(* Mails *)

\* What DecisionHasMail says of one booking.
HasMail(b) ==
  \/ <<b, bookings[b].status>> \in mailJobs
  \/ \E r \in Request :
       req[r] = [step |-> "enqueue", booking |-> b,
                 decision |-> bookings[b].status]
  \/ failures > 0

LEMMA StepKeepsMail ==
  ASSUME TypeOK, TypeOK', DecisionHasMail, [Next]_vars
  PROVE  DecisionHasMail'
<1> USE DEF HasMail
<1>0. \A b \in DOMAIN bookings : bookings[b].status \in Decision => HasMail(b)
  BY DEF DecisionHasMail
<1> SUFFICES ASSUME NEW b \in DOMAIN bookings', bookings'[b].status \in Decision
             PROVE  HasMail(b)'
  BY Zenon DEF DecisionHasMail
<1>1. ASSUME NEW r \in Request, SaveBooking(r)
      PROVE  HasMail(b)'
  <2>1. req[r].step = "insert" /\ failures' = failures /\ mailJobs' = mailJobs
    BY <1>1 DEF SaveBooking
  <2>2. b \in DOMAIN bookings /\ bookings'[b] = bookings[b]
    BY <1>1 DEF SaveBooking, InsertBooking, Decision
  <2>3. \A x \in Request \ {r} : req'[x] = req[x]
    BY <1>1, EndTyped DEF SaveBooking
  <2> QED
    BY <1>0, <2>1, <2>2, <2>3
<1>2. ASSUME NEW r \in Request, CancelBooking(r)
      PROVE  HasMail(b)'
  <2>1. req[r].step = "cancel" /\ failures' = failures /\ mailJobs' = mailJobs
    BY <1>2 DEF CancelBooking
  <2>2. b \in DOMAIN bookings /\ bookings'[b].status = bookings[b].status
    BY <1>2, RequestTyped DEF CancelBooking, SetBookingStatus, Decision, TypeOK,
       StoreTypeOK, Booking
  <2>3. \A x \in Request \ {r} : req'[x] = req[x]
    BY <1>2, EndTyped DEF CancelBooking
  <2> QED
    BY <1>0, <2>1, <2>2, <2>3
<1>3. ASSUME NEW r \in Request, SaveDecision(r)
      PROVE  HasMail(b)'
  <2>1. /\ req[r].step = "save" /\ failures' = failures /\ mailJobs' = mailJobs
        /\ req' = [req EXCEPT ![r].step = "enqueue"]
    BY <1>3 DEF SaveDecision, Goto
  <2>2. \A x \in Request \ {r} : req'[x] = req[x]
    BY <2>1 DEF TypeOK
  <2>3. CASE b = req[r].booking
    <3>1. bookings'[b].status = req[r].decision
      BY <1>3, <2>3, RequestTyped DEF SaveDecision, SetBookingStatus, TypeOK,
         StoreTypeOK, Booking
    <3>2. req[r] \in DecisionState
      BY <2>1 DEF TypeOK, RequestState, Idle, CreateState, CancelState,
         TransactionSteps
    <3>3. req'[r] = [step |-> "enqueue", booking |-> b,
                     decision |-> bookings'[b].status]
      BY <2>1, <2>3, <3>1, <3>2 DEF TypeOK, DecisionState
    <3> QED
      BY <3>3
  <2>4. CASE b # req[r].booking
    <3>1. b \in DOMAIN bookings /\ bookings'[b].status = bookings[b].status
      BY <1>3, <2>4, RequestTyped DEF SaveDecision, SetBookingStatus, TypeOK,
         StoreTypeOK
    <3> QED
      BY <1>0, <2>1, <2>2, <3>1
  <2> QED
    BY <2>3, <2>4
<1>4. ASSUME NEW r \in Request, EnqueueBookingDecision(r)
      PROVE  HasMail(b)'
  <2>1. /\ bookings' = bookings /\ failures' = failures
        /\ mailJobs' = mailJobs \cup {<<req[r].booking, req[r].decision>>}
        /\ \A x \in Request \ {r} : req'[x] = req[x]
    BY <1>4, EndTyped DEF EnqueueBookingDecision
  <2> QED
    BY <1>0, <2>1
<1>5. ASSUME NEW r \in Request, Fail(r)
      PROVE  HasMail(b)'
  BY <1>5 DEF Fail, TypeOK
<1>6. ASSUME NEW r \in Request,
             \/ LockTourTime(r) \/ RejectUnavailable(r) \/ FindExisting(r)
             \/ CheckCapacity(r)
      PROVE  HasMail(b)'
  <2>1. /\ UNCHANGED <<bookings, mailJobs, failures>>
        /\ req[r].step # "enqueue"
        /\ \A x \in Request \ {r} : req'[x] = req[x]
    BY <1>6 DEF LockTourTime, RejectUnavailable, FindExisting, CheckCapacity,
       Goto, End, TypeOK
  <2> QED
    BY <1>0, <2>1
<1>7. ASSUME NEW r \in Request, Arrive(r)
      PROVE  HasMail(b)'
  <2>1. /\ UNCHANGED <<bookings, mailJobs, failures>>
        /\ req[r].step # "enqueue"
        /\ \A x \in Request \ {r} : req'[x] = req[x]
    BY <1>7 DEF Arrive, StartCreate, FindOwnBooking, FindBooking, storeVars,
       TypeOK, Idle
  <2> QED
    BY <1>0, <2>1
<1>8. CASE Background \/ UNCHANGED vars
  <2>1. UNCHANGED <<mailJobs, failures, req, bookings>>
    BY <1>8 DEF Background, Tick, CloseStartedTourTimes, vars
  <2> QED
    BY <1>0, <2>1
<1> QED
  BY <1>1, <1>2, <1>3, <1>4, <1>5, <1>6, <1>7, <1>8 DEF Next, Lock, Proceed

\* A booking that was decided has its mail queued or about to be queued, unless
\* a statement failed.
THEOREM DecisionHasMailCorrect == Spec => []DecisionHasMail
<1>1. Init => DecisionHasMail
  BY DEF Init, StoreInit, DecisionHasMail
<1> QED
  BY <1>1, StepKeepsMail, TypeCorrect, PTL DEF Spec

-----------------------------------------------------------------------------
(* What a step may do to bookings *)

\* A booking appears only on a departure open at the commit, at its price.
THEOREM BookedOnOpenDepartureCorrect == Spec => BookedOnOpenDeparture
<1> DEFINE Good(b) ==
      LET t == bookings'[b].tourTime IN
        /\ Live(t)
        /\ tourTimes[t].status = "open"
        /\ bookings'[b].totalPrice = tourTimes[t].price * bookings'[b].slots
<1>1. ASSUME IInv, TypeOK', [Next]_vars,
             NEW b \in (DOMAIN bookings') \ (DOMAIN bookings)
      PROVE  Good(b)
  BY <1>1, BookingEffect DEF IInv
<1>2. IInv /\ TypeOK' /\ [Next]_vars =>
        [\A b \in (DOMAIN bookings') \ (DOMAIN bookings) : Good(b)]_vars
  BY <1>1
<1> HIDE DEF Good
<1>3. Spec => [][\A b \in (DOMAIN bookings') \ (DOMAIN bookings) : Good(b)]_vars
  BY <1>2, InvariantHolds, TypeCorrect, PTL DEF Spec
<1> QED
  BY <1>3 DEF BookedOnOpenDeparture, Good

\* A step cancels only bookings that are pending.
CancelsPending ==
  \A b \in DOMAIN bookings : bookings'[b].status = "cancelled" =>
     bookings[b].status \in {"pending", "cancelled"}

LEMMA StepCancelsPending == TypeOK /\ [Next]_vars => CancelsPending
<1> SUFFICES ASSUME TypeOK, [Next]_vars PROVE CancelsPending
  OBVIOUS
<1> USE DEF CancelsPending
<1>1. CASE UNCHANGED bookings
  BY <1>1
<1>2. ASSUME NEW r \in Request, SaveBooking(r) PROVE CancelsPending
  BY <1>2 DEF SaveBooking, InsertBooking
<1>3. ASSUME NEW r \in Request, CancelBooking(r) PROVE CancelsPending
  BY <1>3, RequestTyped DEF CancelBooking, SetBookingStatus, TypeOK,
     StoreTypeOK, Booking
<1>4. ASSUME NEW r \in Request, SaveDecision(r) PROVE CancelsPending
  BY <1>4, RequestTyped DEF SaveDecision, SetBookingStatus, TypeOK,
     StoreTypeOK, Booking, Decision
<1> QED
  BY <1>1, <1>2, <1>3, <1>4 DEF Next, Arrive, StartCreate, FindOwnBooking,
     FindBooking, Lock, LockTourTime, RejectUnavailable, Proceed,
     FindExisting, CheckCapacity, EnqueueBookingDecision, Fail, Background,
     Tick, CloseStartedTourTimes, vars, storeVars

\* A cancellation never replaces a decision.
THEOREM CancelOnlyPendingCorrect == Spec => CancelOnlyPending
<1>1. TypeOK /\ [Next]_vars => [CancelsPending]_vars
  BY StepCancelsPending
<1>2. Spec => [][CancelsPending]_vars
  BY <1>1, TypeCorrect, PTL DEF Spec
<1> QED
  BY <1>2 DEF CancelOnlyPending, CancelsPending

-----------------------------------------------------------------------------
(* The step simulation *)

\* The queries of the abstract specification are those of the tables.
LEMMA SameQueries ==
  /\ \A t : Abstract!Live(t) <=> Live(t)
  /\ \A b : Abstract!Active(b) <=> Active(b)
  /\ \A t, S : Abstract!ReservedSlots(t, S) = ReservedSlots(t, S)
  /\ \A u, t, S : Abstract!ActiveBookings(u, t, S) = ActiveBookings(u, t, S)
  /\ Abstract!Slots = Slots /\ Abstract!Decision = Decision
  BY DEF Abstract!Live, Live, Abstract!Active, Active, Abstract!Seats, Seats,
     Abstract!ReservedSlots, ReservedSlots, Abstract!ActiveBookings,
     ActiveBookings, Abstract!Slots, Slots, Abstract!Decision, Decision,
     Abstract!ActiveStatus, ActiveStatus, Abstract!Cardinality, Cardinality,
     Abstract!IsFiniteSet, IsFiniteSet

LEMMA StepRefines ==
  IInv /\ TypeOK' /\ [Next]_vars => [Abstract!Next]_(Abstract!resVars)
<1> SUFFICES ASSUME IInv, TypeOK', [Next]_vars
             PROVE  [Abstract!Next]_(Abstract!resVars)
  OBVIOUS
<1>t. TypeOK /\ LockedRowIsCurrent /\ ChecksStillHold
  BY DEF IInv, ChecksInv
<1>1. ASSUME NEW r \in Request, SaveBooking(r)
      PROVE  Abstract!Next
  <2> DEFINE u == req[r].user  t == req[r].tourTime  n == req[r].slots
  <2>1. InTransaction(r) /\ req[r].step = "insert"
    BY <1>1 DEF SaveBooking, InTransaction, TransactionSteps
  <2>2. u \in User /\ t \in TourTimeId /\ n \in Slots
    BY <1>t, <2>1, RequestTyped
  <2>3. req[r].row = tourTimes[t]
    BY <1>t, <2>1 DEF LockedRowIsCurrent
  <2>4. /\ Live(t) /\ tourTimes[t].status = "open"
        /\ ActiveBookings(u, t, overwritten) = {}
        /\ ReservedSlots(t, overwritten) + n <= tourTimes[t].maxCapacity
    BY <1>t, <2>1 DEF ChecksStillHold
  <2>5. Abstract!Reserve(u, t, n)
    BY <1>1, <2>3, <2>4, SameQueries DEF SaveBooking, Abstract!Reserve,
       InsertBooking, Abstract!InsertBooking
  <2> HIDE DEF u, t, n
  <2> QED
    BY <2>2, <2>5, SameQueries DEF Abstract!Next
<1>2. ASSUME NEW r \in Request, CancelBooking(r)
      PROVE  [Abstract!Next]_(Abstract!resVars)
  <2> DEFINE b == req[r].booking
  <2>1. b \in DOMAIN bookings
    BY <1>t, <1>2, RequestTyped DEF CancelBooking
  <2>2. CASE bookings[b].user = req[r].user /\ bookings[b].status = "pending"
    <3>1. Abstract!Cancel(b)
      BY <1>2, <2>2 DEF CancelBooking, SetBookingStatus, Abstract!Cancel,
         Abstract!SetBookingStatus
    <3> QED
      BY <2>1, <3>1 DEF Abstract!Next
  <2>3. CASE ~(bookings[b].user = req[r].user
                 /\ bookings[b].status = "pending")
    BY <1>2, <2>3 DEF CancelBooking, Abstract!resVars
  <2> QED
    BY <2>2, <2>3
<1>3. ASSUME NEW r \in Request, SaveDecision(r)
      PROVE  Abstract!Next
  <2> DEFINE b == req[r].booking  d == req[r].decision
  <2>1. b \in DOMAIN bookings /\ d \in Decision
    BY <1>t, <1>3, RequestTyped DEF SaveDecision
  <2>2. Abstract!Decide(b, d)
    BY <1>3, SameQueries DEF SaveDecision, SetBookingStatus, Abstract!Decide,
       Abstract!SetBookingStatus, Abstract!ActiveStatus, ActiveStatus
  <2> HIDE DEF b, d
  <2> QED
    BY <2>1, <2>2, SameQueries DEF Abstract!Next
<1>4. ASSUME CloseStartedTourTimes, UNCHANGED overwritten
      PROVE  Abstract!Next
  <2>1. Abstract!Close(ToClose)
    BY <1>4, SameQueries DEF CloseStartedTourTimes, ToClose, Abstract!Close
  <2>2. ToClose \in SUBSET DOMAIN tourTimes
    BY DEF ToClose
  <2> QED
    BY <2>1, <2>2 DEF Abstract!Next
<1>5. CASE UNCHANGED <<tourTimes, bookings, overwritten>>
  BY <1>5 DEF Abstract!resVars
<1> QED
  BY <1>1, <1>2, <1>3, <1>4, <1>5 DEF Next, Arrive, StartCreate,
     FindOwnBooking, FindBooking, Lock, LockTourTime, RejectUnavailable,
     Proceed, FindExisting, CheckCapacity, EnqueueBookingDecision, Fail,
     Background, Tick, vars, storeVars

\* The service behaves as if every reservation, cancellation and decision
\* were one atomic step.
THEOREM BookingsImplementReservation == Spec => ImplementsReservation
<1>1. Init => Abstract!Init
  BY DEF Init, StoreInit, Abstract!Init
<1> QED
  BY <1>1, StepRefines, InvariantHolds, TypeCorrect, PTL
     DEF Spec, ImplementsReservation, Abstract!Spec
=============================================================================
