SPECIFICATION Spec
CONSTANTS
  Evidence = {e1, e2}
  Formal = {e2}
  Counterexample = {x1}
  Experiment = {p1}
  Reviewer = {r1, r2}
  NoReview = NoReview
  HasHypothesis = TRUE
  MaxSessions = 2
SYMMETRY MCSymmetry
INVARIANTS
  TypeOK
  StatusTells
  StageTells
PROPERTIES
  AcceptedOnlyWhen
  ItemStays
