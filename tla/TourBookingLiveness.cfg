SPECIFICATION SystemFairSpec
CONSTANTS
  tourA = tourA
  t1 = t1
  Tour = {tourA}
  TourTimeId = {t1}
  BookingId = {b1, b2}
  User = {u1}
  Request = {r1, r2}
  NoRequest = NoRequest
  Price = {10}
  MaxSlots = 1
  MaxCapacity = 2
  MaxDay = 2
  InitialTourTime <- MCInitialTourTime
  MaxFailures = 1
  Edit = {e1}
  Reviewer = {}
  NewTours = {}
  Forms <- MCOneForm
CHECK_DEADLOCK FALSE
PROPERTIES
  AllAnswered
