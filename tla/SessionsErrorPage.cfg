SPECIFICATION Spec

CONSTANTS
  None = NoValue
  Account = {a1}
  Email = {e1}
  Client = {c1}
  Request = {r1}
  Ops <- BrowsingOps
  Lossy = FALSE
  MaxJti = 4
  MaxPassword = 1
  MaxLink = 1

INVARIANT NoSelfReplay
