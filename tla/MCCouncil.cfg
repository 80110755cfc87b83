SPECIFICATION FairSpec
CONSTANTS
  lit = lit
  exp = exp
  Role = {critic, formal}
  DevilsAdvocate = critic
  LiteratureCritic = critic
  ExperimentCritic = critic
  FormalVerifier = formal
  Actor = {a1, a2, a3}
  Node = {claim, lit, exp, review}
  Required = {claim, lit, exp}
  Literature = {lit}
  Experiment = {exp}
  Claim = claim
  Review = review
  Voice <- MCVoice
  NoContribution = NoContribution
INVARIANTS
  TypeOK
  StoredStatusCurrent
  PassedByRule
PROPERTIES
  ImplementsOutcome
  Passable
