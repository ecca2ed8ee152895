\* One run at a time over three rows; two failed attempts make a row stuck.
SPECIFICATION FairSpec
CONSTANTS
  r1 = r1
  r2 = r2
  r3 = r3
  a1 = a1
  a2 = a2
  NoRow = NoRow
  Row <- MCRow
  Arrete <- MCArrete
  arreteOf <- MCArreteOf
  Hopeless <- MCHopeless
  Threshold = 2
  AttemptCap = 2
  MaxFaults = 2
INVARIANTS
  StuckIsReported
  DuplicatesExplained
  OncePerRun
PROPERTIES
  EventuallySettled
  EventuallyReported
  KeepsContract
