SPECIFICATION SystemSpec
CONSTANTS
  tourA = tourA
  t1 = t1
  Tour = {tourA}
  TourTimeId = {t1, t2}
  BookingId = {b1}
  User = {u1, u2}
  Request = {r1, r2}
  NoRequest = NoRequest
  Price = {5, 10}
  MaxSlots = 2
  MaxCapacity = 2
  MaxDay = 3
  InitialTourTime <- MCInitialTourTime
  MaxFailures = 0
  Edit = {e1}
  Reviewer = {v1}
  NewTours = {}
  Forms <- MCForms
SYMMETRY MCSymmetry
CHECK_DEADLOCK FALSE
INVARIANTS
  SystemTypeOK
  LockedRowIsCurrent
  HistoryIsKept
  BookedTermsAreKept
  ReviewsAreEarned
