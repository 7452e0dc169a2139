SPECIFICATION ScheduleSpec
CONSTANTS
  tourA = tourA
  t1 = t1
  t2 = t2
  t3 = t3
  Tour = {tourA, tourB}
  TourTimeId = {t1, t2, t3}
  BookingId = {}
  User = {}
  Request = {}
  NoRequest = NoRequest
  Price = {10}
  MaxSlots = 1
  MaxCapacity = 1
  MaxDay = 3
  InitialTourTime <- MCInitialTourTime
  Edit = {e1, e2}
  NewTours <- MCNewTours
  Forms <- MCForms
SYMMETRY MCSymmetry
CHECK_DEADLOCK FALSE
INVARIANTS
  ScheduleTypeOK
  EditSeesCurrentTimes
  NoOverlapUnlessRaced
PROPERTIES
  CancelledIsFinal
  StartedIsFinal
