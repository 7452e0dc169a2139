SPECIFICATION Spec
CONSTANTS
  Session = {s1, s2}
  RefreshToken = {f1, f2, f3}
  AccessToken = {a1, a2, a3}
  Request = {r1, r2}
  AccessTTL = 1
  RefreshTTL = 2
  MaxTime = 3
  MaxFailures = 1
SYMMETRY MCSymmetry
CHECK_DEADLOCK FALSE
INVARIANTS
  TypeOK
  OneSuccessor
  BlacklistedMeansRevoked
PROPERTIES
  ImplementsSessions
  LoggedOutTokenRefused
