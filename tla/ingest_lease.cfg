\* Few letters per run: one unit for all of them.
SPECIFICATION LeaseFairSpec
CONSTANTS
  app1 = app1
  app2 = app2
  script = script
  Stale = Stale
  NoOwner = NoOwner
  Apps <- MCApps
  Scripts <- MCScripts
  TTL = 8
  CallLimit = 1
  IngestLimit = 2
  SendLimit = 1
  Letters = 1
  Backlog = 2
  MaxFaults = 2
INVARIANTS
  LeaseTypeOK
  IngestExclusive
  BackfillShielded
PROPERTIES
  StaleLeaseYields
  BackfillEnds
