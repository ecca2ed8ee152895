SPECIFICATION FairSpec
CONSTANTS
  A = A
  B = B
  l1 = l1
  l2 = l2
  l3 = l3
  l4 = l4
  p1 = p1
  p2 = p2
  p3 = p3
  p4 = p4
  p5 = p5
  c1 = c1
  c2 = c2
  c3 = c3
  c4 = c4
  a1 = a1
  a2 = a2
  b1 = b1
  b2 = b2
  z1 = z1
  d1 = d1
  d2 = d2
  v1 = v1
  None = None
  Deleted = Deleted
  Nor = {A, B}
  Line = {l1, l2, l3, l4}
  Place = {p1, p2, p3, p4, p5}
  Commune = {c1, c2, c3, c4}
  communeOf <- MCCommuneOf
  Text = {a1, a2, b1, b2, z1}
  norOf <- MCNorOf
  dateOf <- MCDateOf
  linesOf <- MCLinesOf
  Unreadable = {z1}
  LastDelta = 3
  textsIn <- MCTextsIn
  Broken = {1}
  Ruled <- MCRuled
  Floor = 2
  MaxDeltasPerRun = 2
  Dossier = {d1}
  homeOf <- MCHomeOf
  Veille = {v1}
  watched <- MCWatched
  DeclarationDate = {2}
  MaxFaults = 2
PROPERTIES
  EventuallyIngested
  EventuallyDated
  WatcherTold
INVARIANTS
  MarkedIsStored
