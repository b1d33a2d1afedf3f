SPECIFICATION IngestFairSpec
CONSTANTS
  alice = alice  bob = bob  NoEvent = NoEvent  NoHash = NoHash
  Account = {alice, bob}
  Amount = {1}
  LIVE_CONFIRMATIONS = 1
  MaxReorg = 2
  MayFail = TRUE
  MaxBlock = 4
  MaxReorgs = 1
  MaxFaults = 2
INVARIANTS SnapshotIsExact NoEventSkipped
PROPERTY IngestCatchesUp
CHECK_DEADLOCK FALSE
