SPECIFICATION FairSpec

CONSTANTS
  None = NoValue
  Account = {a1}
  Email = {e1}
  Client = {c1, c2}
  Request = {r1}
  Ops <- PasswordOps
  Lossy = FALSE
  MaxJti = 4
  MaxPassword = 2
  MaxLink = 2

INVARIANT OneSuccessor
INVARIANT OldPasswordDies
PROPERTY RevocationComplete
PROPERTY PresentedTokenSpent
