\* One person's letters through seven mornings.
CONSTANTS
  None = None
  u1 = u1
  declare = declare
  expertise = expertise
  User = {u1}
  Step = {declare, expertise}
  ownerOf <- MCOwner
  scaleOf <- MCScale
  durationOf <- MCDuration
  Anchor = {0, 3}
  Interval = 2
  MaxOverdue = 2
  Attempts = 2
  Marks = {"FAIT"}
  Soon = 1
  LastDay = 6
  MaxToken = 3
  MaxEdits = 2
SPECIFICATION Spec
CHECK_DEADLOCK FALSE
INVARIANTS
  SelectsWhatIsDue
  LettersExplained
