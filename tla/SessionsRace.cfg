SPECIFICATION Spec

CONSTANTS
  None = NoValue
  Account = {a1}
  Email = {e1}
  Client = {c1, c2}
  Request = {r1, r2}
  Ops <- PasswordOps
  Lossy = TRUE
  MaxJti = 3
  MaxPassword = 1
  MaxLink = 1

SYMMETRY Symmetry
INVARIANT ParentSpent
PROPERTY ImplementsLedger
