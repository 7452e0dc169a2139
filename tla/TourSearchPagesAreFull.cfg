SPECIFICATION Spec
CONSTANTS
  Tour <- MCTour
  TourTimeId = {t1, t2, t3}
  BookingId = {}
  User = {}
  Request = {}
  NoRequest = NoRequest
  Price = {5, 10}
  MaxSlots = 1
  MaxCapacity = 1
  MaxDay = 3
  InitialTourTime <- MCInitialTourTime
  MaxImages = 1
  Query <- MCQuery
CHECK_DEADLOCK FALSE
INVARIANTS
  PagesAreFull
