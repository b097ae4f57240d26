SPECIFICATION Spec

CONSTANTS
  None = NoValue
  Account = {a1, a2}
  Email = {e1, e2, e3}
  Client = {c1}
  Request = {r1}
  Ops <- AddressOps
  Lossy = TRUE
  MaxJti = 3
  MaxPassword = 1
  MaxLink = 1

SYMMETRY Symmetry
CHECK_DEADLOCK FALSE
INVARIANT LiveTokensResolve
PROPERTY TokenActsOnItsAccount
