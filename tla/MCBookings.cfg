SPECIFICATION Spec
CONSTANTS
  Tour = {tour}
  TourTimeId = {t1}
  BookingId = {b1, b2, b3}
  User = {u1, u2}
  Request = {r1, r2}
  NoRequest = NoRequest
  Price = {10}
  MaxSlots = 2
  MaxCapacity = 2
  MaxDay = 2
  InitialTourTime <- MCInitialTourTime
  MaxFailures = 1
SYMMETRY MCSymmetry
CHECK_DEADLOCK FALSE
INVARIANTS
  TypeOK
  LockedRowIsCurrent
  ChecksStillHold
  CapacityRespected
  OneActiveBooking
  DecisionHasMail
PROPERTIES
  ImplementsReservation
  BookedOnOpenDeparture
  CancelOnlyPending
