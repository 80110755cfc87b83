SPECIFICATION Spec
CONSTANTS
  Branch = {b1, b2}
  NoBranch = NoBranch
  Support = {s1}
  Note = {n1}
  Knowledge = {k1}
  Linked = {l1}
  b1 = b1
  b2 = b2
  s1 = s1
  n1 = n1
  k1 = k1
  l1 = l1
  UserEdge <- MCUserEdge
INVARIANTS
  TypeOK
  Acyclic
  LedgerInGraph
  RebuildSucceeds
  FreshNeverRefused
  SortIsRight
PROPERTIES
  DurableEdges
