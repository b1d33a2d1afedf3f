SPECIFICATION FairSpec
CONSTANTS
  g1 = g1  g2 = g2  w1 = w1  w2 = w2
  Worker = {w1}
  Guest = {g1, g2}
  Weights <- SomeWeights
  Fee = {0, 1}
  FirstService = 1
  MaxService = 3
  MAX_ATTEMPTS = 2
  CATCHUP_MAX = 2
  NotMined = NotMined
  MaxReceived = 1
INVARIANTS RoundsContiguous StuckIsDelayed
PROPERTY DueServicesAreFinalized
CHECK_DEADLOCK FALSE
