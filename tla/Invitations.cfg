SPECIFICATION Spec

CONSTANTS
  None = NoValue
  person = u1
  primary = e1
  secondary = e2
  User = {u1}
  Email = {e1, e2}
  PrimaryOf <- Primaries
  VerifiedOf <- Verified
  Role = {member, custom}
  CustomRole = {custom}
  Request = {r1, r2}
  Ops <- AllOps
  Lossy = TRUE
  MaxInvitations = 3
  MaxTokens = 3

SYMMETRY Symmetry
CHECK_DEADLOCK FALSE
INVARIANT OneLinkWorks
PROPERTY LinksOnlyAdvance
PROPERTY AdmittedByInvitation
PROPERTY AcceptedOnce
