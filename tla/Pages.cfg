SPECIFICATION Spec

CONSTANTS
  None = None
  n1 = n1
  i1 = i1
  Tab = {t1, t2}
  Token = {k1, k2}
  Message = {m1, m2}
  Form <- Forms
  Value <- Values
  Usages <- Browsing

SYMMETRY Symmetry
CHECK_DEADLOCK FALSE
INVARIANT SureFormsPass
INVARIANT FollowUpTells
INVARIANT RowIsLastForm
