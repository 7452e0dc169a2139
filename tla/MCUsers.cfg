SPECIFICATION Spec
CONSTANTS
  User = {u1, u2}
  Email = {m1, m2, m3}
  Optional = {"phone"}
  Value = {v1, v2}
  Client = {c1, c2}
SYMMETRY MCSymmetry
INVARIANTS
  TypeOK
  EmailsUnique
  SuccessIsInEffect
PROPERTIES
  OnlySubmittedChanges
  ImplementsAccounts
