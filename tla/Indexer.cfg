SPECIFICATION IndexerFairSpec
CONSTANTS
  alice = alice  bob = bob  Zero = Zero  NoHash = NoHash
  Holder = {alice, bob}
  Tx = {1, 2, 3}
  TransferOf <- ThreeTransfers
  LIVE_CONFIRMATIONS = 1
  Regime <- FailuresOrReorgs
  ReorgInPoll = FALSE
  MayBeLate = TRUE
  MaxBlock = 4
  MaxTxs = 1
INVARIANTS LogIsTheChain NothingSkipped
PROPERTIES PollEndsBalanced CatchesUp
CHECK_DEADLOCK FALSE
