CONSTANTS
  Slots = {s1, s2}
  SeededBranches = 1
  DefaultLimits <- MCDefaultLimits
  OtherLimits <- MCOtherLimits
  Policies <- MCPolicies
  ComputeUnits = {1}
  MaxCitations = 2
  MaxBranches = 3
  MaxRequests = 3
CHECK_DEADLOCK FALSE
SYMMETRY Symmetric
SPECIFICATION Spec
INVARIANTS TypeOK ContradictionReaches ForkedOnce CitationsPaid
