SPECIFICATION Spec
CONSTANTS
  t1 = t1
  t2 = t2
  d1 = d1
  d2 = d2
  None = None
  Tab = {t1, t2}
  Date = {d1, d2}
  MaxToken = 4
  MaxActs = 3
  MaxFaults = 1
SYMMETRY Tabs
CHECK_DEADLOCK FALSE
INVARIANTS
  NoForcedLogout
  GuardIsAwaited
PROPERTIES
  LoginStands
  StrangerHasNoSession
