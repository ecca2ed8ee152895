SPECIFICATION Spec
CONSTANTS
  r1 = r1
  r2 = r2
  d1 = d1
  d2 = d2
  a = a
  b = b
  n1 = n1
  n2 = n2
  e1 = e1
  e2 = e2
  inond = inond
  None = None
  Gone = Gone
  Monitor = Monitor
  Unresolved = Unresolved
  MaxHops = 10
  Dossier = {d1, d2}
  Req = {r1, r2}
  Damage <- MCDamage
  Declaration = {4}
  Entry = {e1, e2}
  Arrete = {n1, n2}
  arreteOf <- MCArreteOf
  texts <- MCTexts
  Merger <- MCMerger
  Ruled <- MCRuled
  MaxRequests = 3
SYMMETRY Symmetric
CHECK_DEADLOCK FALSE
INVARIANTS
  RowsAgree
  LockOrder
PROPERTIES
  NoTwin
  SameMatchAlone
