------------------------------ MODULE Bookings ------------------------------
(***************************************************************************)
(* BookingsService: users book slots of a departure and cancel, admins     *)
(* decide.  Each HTTP request is a process whose steps are the statements  *)
(* between two awaits; the requests interleave at every await.             *)
(*                                                                         *)
(*   create:        lock -> findExisting -> sumSlots -> insert  (one       *)
(*                  transaction, the departure row locked FOR UPDATE)      *)
(*   cancel:        cancel          (findOne, then a conditional UPDATE)   *)
(*   updateStatus:  save -> enqueue (findOne, save, then the mail job)     *)
(*                                                                         *)
(* A request that ends, whatever its answer, goes back to "idle".          *)
(***************************************************************************)
EXTENDS TourStore

CONSTANT MaxFailures     \* bound on the statements that fail

VARIABLES req,           \* the state of each request
          mailJobs,      \* decision mail jobs accepted by the queue
          overwritten,   \* history: bookings a late decision made active again
          failures       \* number of failed statements

vars == <<tourTimes, bookings, rowLock, today,
          req, mailJobs, overwritten, failures>>

TransactionSteps == {"findExisting", "sumSlots", "insert"}
CreateSteps == {"lock"} \cup TransactionSteps

\* row is what the locked SELECT returned: the checks and the price use it,
\* never the table again.
CreateState ==
  [step: {"lock"}, user: User, tourTime: TourTimeId, slots: Slots]
  \cup [step: TransactionSteps, user: User, tourTime: TourTimeId,
        slots: Slots, row: TourTime]
CancelState == [step: {"cancel"}, user: User, booking: BookingId]
DecisionState ==
  [step: {"save", "enqueue"}, booking: BookingId, decision: Decision]

RequestState == {Idle} \cup CreateState \cup CancelState \cup DecisionState

TypeOK ==
  /\ StoreTypeOK
  /\ req \in [Request -> RequestState]
  /\ mailJobs \subseteq BookingId \X Decision
  /\ overwritten \subseteq BookingId
  /\ failures \in Nat
  /\ \A r \in Request : req[r].step \in {"cancel", "save", "enqueue"}
                         => req[r].booking \in DOMAIN bookings

Init ==
  /\ StoreInit
  /\ req = [r \in Request |-> Idle]
  /\ mailJobs = {}
  /\ overwritten = {}
  /\ failures = 0

-----------------------------------------------------------------------------
(* Helpers *)

InTransaction(r) == req[r].step \in TransactionSteps

Goto(r, step) == req' = [req EXCEPT ![r].step = step]

\* The handler returns or throws; a transaction commits or rolls back.
End(r) ==
  /\ req' = [req EXCEPT ![r] = Idle]
  /\ rowLock' = IF InTransaction(r)
                THEN [rowLock EXCEPT ![req[r].tourTime] = NoRequest]
                ELSE rowLock

\* BookingId bounds the table: a create starts only if an id is left for it.
RoomForBooking ==
  Cardinality(DOMAIN bookings)
    + Cardinality({r \in Request : req[r].step \in CreateSteps})
    < Cardinality(BookingId)

-----------------------------------------------------------------------------
(* create *)

StartCreate(r, u, t, n) ==
  /\ req[r] = Idle
  /\ RoomForBooking
  /\ req' = [req EXCEPT ![r] = [step |-> "lock", user |-> u,
                                tourTime |-> t, slots |-> n]]
  /\ UNCHANGED <<storeVars, mailJobs, overwritten, failures>>

\* The departure can be booked: it is not deleted, open and not started.
Bookable(t) == Live(t) /\ tourTimes[t].status = "open" /\ ~Started(t)

\* A plausible bug: a plain SELECT, without setLock('pessimistic_write').
LockTourTime_NoLock(r) ==
  /\ req[r].step = "lock"
  /\ Bookable(req[r].tourTime)
  /\ req' = [req EXCEPT ![r] = [step |-> "findExisting",
                                user |-> req[r].user,
                                tourTime |-> req[r].tourTime,
                                slots |-> req[r].slots,
                                row |-> tourTimes[req[r].tourTime]]]
  /\ UNCHANGED <<storeVars, mailJobs, overwritten, failures>>

\* SELECT ... FOR UPDATE waits for the row lock and reads the row then.
LockTourTime(r) ==
  /\ req[r].step = "lock"
  /\ LET t == req[r].tourTime IN
       /\ rowLock[t] = NoRequest
       /\ Bookable(t)
       /\ rowLock' = [rowLock EXCEPT ![t] = r]
       /\ req' = [req EXCEPT ![r] = [step |-> "findExisting",
                                     user |-> req[r].user,
                                     tourTime |-> t,
                                     slots |-> req[r].slots,
                                     row |-> tourTimes[t]]]
  /\ UNCHANGED <<tourTimes, bookings, today, mailJobs, overwritten, failures>>

\* 404 or 409: the transaction rolls back as soon as it has the lock.
RejectUnavailable(r) ==
  /\ req[r].step = "lock"
  /\ rowLock[req[r].tourTime] = NoRequest
  /\ ~Bookable(req[r].tourTime)
  /\ End(r)
  /\ UNCHANGED <<tourTimes, bookings, today, mailJobs, overwritten, failures>>

\* A plausible bug: only pending bookings count as existing ones.
FindExisting_PendingOnly(r) ==
  /\ req[r].step = "findExisting"
  /\ IF {b \in ActiveBookings(req[r].user, req[r].tourTime, {}) :
           bookings[b].status = "pending"} = {}
     THEN Goto(r, "sumSlots") /\ UNCHANGED rowLock
     ELSE End(r)
  /\ UNCHANGED <<tourTimes, bookings, today, mailJobs, overwritten, failures>>

\* A plausible bug: the 409 leaves the transaction open.
FindExisting_KeepsTransaction(r) ==
  /\ req[r].step = "findExisting"
  /\ IF ActiveBookings(req[r].user, req[r].tourTime, {}) = {}
     THEN Goto(r, "sumSlots")
     ELSE req' = [req EXCEPT ![r] = Idle]
  /\ UNCHANGED <<storeVars, mailJobs, overwritten, failures>>

FindExisting(r) ==
  /\ req[r].step = "findExisting"
  /\ IF ActiveBookings(req[r].user, req[r].tourTime, {}) = {}
     THEN Goto(r, "sumSlots") /\ UNCHANGED rowLock
     ELSE End(r)
  /\ UNCHANGED <<tourTimes, bookings, today, mailJobs, overwritten, failures>>

\* A plausible bug: the requested slots are not added to the reserved ones.
CheckCapacity_OwnSlotsForgotten(r) ==
  /\ req[r].step = "sumSlots"
  /\ IF ReservedSlots(req[r].tourTime, {}) < req[r].row.maxCapacity
     THEN Goto(r, "insert") /\ UNCHANGED rowLock
     ELSE End(r)
  /\ UNCHANGED <<tourTimes, bookings, today, mailJobs, overwritten, failures>>

CheckCapacity(r) ==
  /\ req[r].step = "sumSlots"
  /\ IF ReservedSlots(req[r].tourTime, {}) + req[r].slots
          <= req[r].row.maxCapacity
     THEN Goto(r, "insert") /\ UNCHANGED rowLock
     ELSE End(r)
  /\ UNCHANGED <<tourTimes, bookings, today, mailJobs, overwritten, failures>>

\* INSERT and COMMIT: until the commit nobody else sees the row.
SaveBooking(r) ==
  /\ req[r].step = "insert"
  /\ \E b \in BookingId \ (DOMAIN bookings) :
       InsertBooking(b, [user |-> req[r].user,
                         tourTime |-> req[r].tourTime,
                         slots |-> req[r].slots,
                         status |-> "pending",
                         totalPrice |-> req[r].row.price * req[r].slots])
  /\ End(r)
  /\ UNCHANGED <<tourTimes, today, mailJobs, overwritten, failures>>

-----------------------------------------------------------------------------
(* cancel *)

\* findOne by id and user: 404 and 409 change nothing.
FindOwnBooking(r, u, b) ==
  /\ req[r] = Idle
  /\ b \in DOMAIN bookings
  /\ bookings[b].user = u
  /\ bookings[b].status = "pending"
  /\ req' = [req EXCEPT ![r] = [step |-> "cancel", user |-> u, booking |-> b]]
  /\ UNCHANGED <<storeVars, mailJobs, overwritten, failures>>

\* A plausible bug: the UPDATE trusts the status read before.
CancelBooking_Unconditional(r) ==
  /\ req[r].step = "cancel"
  /\ SetBookingStatus(req[r].booking, "cancelled")
  /\ End(r)
  /\ UNCHANGED <<tourTimes, today, mailJobs, overwritten, failures>>

\* UPDATE ... WHERE id AND user_id AND status = 'pending'; nothing affected
\* is a 409.
CancelBooking(r) ==
  /\ req[r].step = "cancel"
  /\ LET b == req[r].booking IN
       IF bookings[b].user = req[r].user /\ bookings[b].status = "pending"
       THEN SetBookingStatus(b, "cancelled")
       ELSE UNCHANGED bookings
  /\ End(r)
  /\ UNCHANGED <<tourTimes, today, mailJobs, overwritten, failures>>

-----------------------------------------------------------------------------
(* updateStatus *)

\* A plausible bug: no 404 for a booking that does not exist.
FindBooking_NotChecked(r, b, d) ==
  /\ req[r] = Idle
  /\ b \in DOMAIN bookings => bookings[b].status = "pending"
  /\ req' = [req EXCEPT ![r] = [step |-> "save", booking |-> b,
                                decision |-> d]]
  /\ UNCHANGED <<storeVars, mailJobs, overwritten, failures>>

FindBooking(r, b, d) ==
  /\ req[r] = Idle
  /\ b \in DOMAIN bookings
  /\ bookings[b].status = "pending"
  /\ req' = [req EXCEPT ![r] = [step |-> "save", booking |-> b,
                                decision |-> d]]
  /\ UNCHANGED <<storeVars, mailJobs, overwritten, failures>>

\* save(booking) updates the row by id alone: whatever status the booking
\* has by now is replaced.
SaveDecision(r) ==
  /\ req[r].step = "save"
  /\ LET b == req[r].booking
         d == req[r].decision
     IN  /\ SetBookingStatus(b, d)
         /\ overwritten' = IF ~Active(b) /\ d \in ActiveStatus
                           THEN overwritten \cup {b} ELSE overwritten
  /\ Goto(r, "enqueue")
  /\ UNCHANGED <<tourTimes, rowLock, today, mailJobs, failures>>

\* A plausible bug: the job id names the booking but not the decision.
EnqueueBookingDecision_OnePerBooking(r) ==
  /\ req[r].step = "enqueue"
  /\ mailJobs' = IF \E d \in Decision : <<req[r].booking, d>> \in mailJobs
                 THEN mailJobs
                 ELSE mailJobs \cup {<<req[r].booking, req[r].decision>>}
  /\ End(r)
  /\ UNCHANGED <<tourTimes, bookings, today, overwritten, failures>>

\* The queue drops a job whose id (booking, decision) it already has.
EnqueueBookingDecision(r) ==
  /\ req[r].step = "enqueue"
  /\ mailJobs' = mailJobs \cup {<<req[r].booking, req[r].decision>>}
  /\ End(r)
  /\ UNCHANGED <<tourTimes, bookings, today, overwritten, failures>>

-----------------------------------------------------------------------------
(* A statement fails, the connection breaks or the process dies: the       *)
(* request ends with 500 (or no answer), its transaction is rolled back,   *)
(* and what it committed before stays.                                     *)
Fail(r) ==
  /\ req[r] # Idle
  /\ failures < MaxFailures
  /\ failures' = failures + 1
  /\ End(r)
  /\ UNCHANGED <<tourTimes, bookings, today, mailJobs, overwritten>>

-----------------------------------------------------------------------------
Arrive(r) ==
  \/ \E u \in User, t \in TourTimeId, n \in Slots : StartCreate(r, u, t, n)
  \/ \E u \in User, b \in BookingId : FindOwnBooking(r, u, b)
  \/ \E b \in BookingId, d \in Decision : FindBooking(r, b, d)

Lock(r) == LockTourTime(r) \/ RejectUnavailable(r)

Proceed(r) ==
  \/ FindExisting(r) \/ CheckCapacity(r) \/ SaveBooking(r)
  \/ CancelBooking(r)
  \/ SaveDecision(r) \/ EnqueueBookingDecision(r)

Background ==
  /\ Tick \/ CloseStartedTourTimes
  /\ UNCHANGED <<req, mailJobs, overwritten, failures>>

Next ==
  \/ \E r \in Request : Arrive(r) \/ Lock(r) \/ Proceed(r) \/ Fail(r)
  \/ Background

Spec == Init /\ [][Next]_vars

-----------------------------------------------------------------------------
(* Properties *)

\* A departure row is locked exactly by the request whose transaction has
\* read it, and that transaction still sees the row as it read it: the
\* checks of create never decide on a stale departure.
LockedRowIsCurrent ==
  /\ \A r \in Request : InTransaction(r) =>
       /\ rowLock[req[r].tourTime] = r
       /\ req[r].tourTime \in DOMAIN tourTimes
       /\ tourTimes[req[r].tourTime] = req[r].row
  /\ \A t \in TourTimeId : rowLock[t] # NoRequest =>
       InTransaction(rowLock[t]) /\ req[rowLock[t]].tourTime = t

\* What a create has checked stays true until it inserts: the departure is
\* open, the user has no other active booking, the slots fit.
ChecksStillHold ==
  \A r \in Request :
    LET t == req[r].tourTime IN
      /\ InTransaction(r) => Live(t) /\ tourTimes[t].status = "open"
      /\ req[r].step \in {"sumSlots", "insert"}
           => ActiveBookings(req[r].user, t, overwritten) = {}
      /\ req[r].step = "insert"
           => ReservedSlots(t, overwritten) + req[r].slots
                <= tourTimes[t].maxCapacity

\* The bookings that hold slots of a departure, except those a late decision
\* made active again, fit in it, however the creates, cancellations and
\* decisions interleave and fail.
CapacityRespected ==
  \A t \in DOMAIN tourTimes :
    ReservedSlots(t, overwritten) <= tourTimes[t].maxCapacity

\* A user has at most one active booking of a departure, bookings a late
\* decision made active again left out.
OneActiveBooking ==
  \A t \in TourTimeId, u \in User :
    \A b, c \in ActiveBookings(u, t, overwritten) : b = c

\* A decided booking has its mail job, or a request is about to add it, or a
\* statement failed on the way.
DecisionHasMail ==
  \A b \in DOMAIN bookings : bookings[b].status \in Decision =>
    \/ <<b, bookings[b].status>> \in mailJobs
    \/ \E r \in Request :
         req[r] = [step |-> "enqueue", booking |-> b,
                   decision |-> bookings[b].status]
    \/ failures > 0

\* A booking appears only on a departure that is open and not deleted at the
\* commit, priced by the row as it is then, whatever job runs in between.
BookedOnOpenDeparture ==
  [][\A b \in (DOMAIN bookings') \ (DOMAIN bookings) :
       LET t == bookings'[b].tourTime IN
         /\ Live(t)
         /\ tourTimes[t].status = "open"
         /\ bookings'[b].totalPrice = tourTimes[t].price * bookings'[b].slots
    ]_vars

\* A cancellation never replaces a decision, even one saved after the
\* cancelling request read the booking.
CancelOnlyPending ==
  [][\A b \in DOMAIN bookings :
       bookings'[b].status = "cancelled" =>
         bookings[b].status \in {"pending", "cancelled"}]_vars

\* The four statements of create, and the two of cancel, act as one: every
\* behaviour of the service is one of the atomic reservation.
Abstract == INSTANCE Reservation

ImplementsReservation == Abstract!Spec

\* docs/tour-schedules.md: the lock prevents concurrent requests from
\* exceeding max_capacity.  A cancelled booking approved late breaks it.
NeverOverbooked ==
  \A t \in DOMAIN tourTimes :
    ReservedSlots(t, {}) <= tourTimes[t].maxCapacity
=============================================================================
