SPECIFICATION FairSpec

CONSTANTS
  login_ip = login_ip
  login_email = login_email
  ip = ip
  x = x
  y = y
  Limiter = {login_ip, login_email}
  Key = {ip, x, y}
  Scope <- Scopes
  Limit <- Limits
  Window = 2
  PruneEvery = 1
  Request = {r1, r2}
  Routes <- Logins
  MaxLag = 1

INVARIANT TypeOK
INVARIANT WithinBound
PROPERTY KeysReopen
PROPERTY RetryAfterExact
PROPERTY CleanupExact
