SPECIFICATION Spec
CONSTANTS
  Knowledge = {k1, k2}
  Successor = {w1, w2, w3}
  Challenge = {c1, c2, c3}
  None = None
PROPERTIES
  HistoryKept
