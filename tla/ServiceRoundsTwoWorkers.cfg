SPECIFICATION Spec
CONSTANTS
  g1 = g1  g2 = g2  w1 = w1  w2 = w2
  Worker = {w1, w2}
  Guest = {g1, g2}
  Weights <- TwoWeights
  Fee = {0, 2}
  FirstService = 1
  MaxService = 2
  MAX_ATTEMPTS = 1
  CATCHUP_MAX = 2
  NotMined = NotMined
  MaxReceived = 4
SYMMETRY WorkerSymmetry
INVARIANTS PoolIsUnallocated EntitlementsMatchRounds
PROPERTIES RoundsAreImmutable ImplementsEarnings
CHECK_DEADLOCK FALSE
