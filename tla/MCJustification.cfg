SPECIFICATION Spec
CONSTANTS
  Branches = {A, B}
  Validators = {v1, v2, v3}
  Balance <- EqualBalance
  Aggregates <- Supermajorities
  Dishonest = {v1}
  ForkEpoch = 0
  MaxEpoch = 5
SYMMETRY Interchangeable
CHECK_DEADLOCK FALSE
INVARIANTS
  JustifiedByVotes
  FinalizedByLink
  AccountableSafety
  PostStatesOrdered
