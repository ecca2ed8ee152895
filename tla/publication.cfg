SPECIFICATION Spec
CONSTANTS
  x = x
  y = y
  z = z
  lx = lx
  lxBad = lxBad
  lxArticle = lxArticle
  ly = ly
  nx = nx
  ny = ny
  dep = dep
  p1 = p1
  p2 = p2
  p3 = p3
  None = None
  NoDate = None
  Text <- MCText
  print <- MCPrint
  Code = {x, y, z}
  Known = {y}
  MinCommunes = 1
  nameOf <- MCNameOf
  departementOf <- MCDep
  keysOf <- MCKeysOf
  meantBy <- MCMeantBy
  Rules <- MCRules
  WindowMonths = 12
  Years = {2023, 2024, 2025}
  MaxRow = 4
  MaxDeliveries = 3
  MaxReforms = 1
INVARIANTS
  StoredAsPrinted
  DeadlinesKeepOrder
PROPERTIES
  CorrectionKeepsItsRow
  RowKeepsItsCommune
CHECK_DEADLOCK FALSE
