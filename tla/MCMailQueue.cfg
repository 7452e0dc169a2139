SPECIFICATION QueueFairSpec
CONSTANTS
  Tour = {tour}
  TourTimeId = {t1}
  BookingId = {b1}
  User = {u1}
  Request = {r1, r2}
  NoRequest = NoRequest
  Price = {10}
  MaxSlots = 1
  MaxCapacity = 1
  MaxDay = 2
  InitialTourTime <- MCInitialTourTime
  MaxFailures = 1
  Worker = {w1}
  MaxAttempts = 3
  MaxStalls = 1
  NoMail = NoMail
CHECK_DEADLOCK FALSE
INVARIANTS
  QueueTypeOK
  LastMailIsCurrent
PROPERTIES
  JobEnds
