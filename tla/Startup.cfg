SPECIFICATION Spec

CONSTANTS
  a1 = a1
  p1 = p1
  Worker = {w1, w2}
  Run = {s1, s2}
  Scripts <- AllScripts
  Permission = {p1, p2}
  Account = {a1, a2}
  Old <- Databases
  Environments <- Settings

SYMMETRY Symmetry
INVARIANT SomebodySetsUp
INVARIANT GapHasCause
INVARIANT ReportHolds
INVARIANT OneKey
