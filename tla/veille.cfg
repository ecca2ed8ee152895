SPECIFICATION Spec
CONSTANTS
  old = old
  cur = cur
  n1 = n1
  None = None
  Unresolved = Unresolved
  MaxHops = 50
  Handler = {1, 2}
  Code = {old, cur}
  mergesInto <- MCMergesInto
  Chosen = {{old}, {cur}}
  Arrete = {n1}
  names <- MCNames
  Limit = 2
  MaxToken = 3
  MaxId = 2
  MaxEvents = 3
  MaxRuns = 1
CHECK_DEADLOCK FALSE
INVARIANTS
  StoredLinkIsMailed
  EveryLetterCanEndIt
PROPERTIES
  OnlyLinksDecide
  AppliedAsShown
