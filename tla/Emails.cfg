SPECIFICATION Spec

CONSTANTS
  None = NoValue
  Account = {a1, a2}
  Email = {e1, e2, e3}
  Request = {r1, r2}
  Ops <- AllOps
  Lossy = TRUE
  MaxRows = 3

SYMMETRY Symmetry
CHECK_DEADLOCK FALSE
INVARIANT NoOrphans
INVARIANT OnePrimary
INVARIANT NoAddressShared
PROPERTY RecoveryRestores
