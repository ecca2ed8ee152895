SPECIFICATION Spec
CONSTANTS
  a = a
  p = p
  q = q
  old = old
  cur = cur
  None = None
  Unresolved = Unresolved
  MaxHops = 50
  Email = {a}
  Password = {p, q}
  Handler = {1, 2}
  Code = {old, cur}
  mergesInto <- MCMergesInto
  RegistrationLimit = 1
  EmailLimit = 2
  LoginLimit = 1
  MaxToken = 3
  MaxUid = 2
  MaxSession = 1
  MaxEvents = 5
CHECK_DEADLOCK FALSE
INVARIANTS
  OneLinkWorks
  NoDossierLeftBehind
PROPERTIES
  OnlyAClosedCommuneCosts
  OnlyALinkChangesThePassword
