SPECIFICATION IndexerGrowingSpec
CONSTANTS
  alice = alice  bob = bob  Zero = Zero  NoHash = NoHash
  Holder = {alice, bob}
  Tx = {1}
  TransferOf <- OneTransfer
  LIVE_CONFIRMATIONS = 1
  Regime <- OneGap
  ReorgInPoll = FALSE
  MayBeLate = FALSE
  MaxBlock = 4
  MaxTxs = 1
PROPERTY SyncingEnds
CHECK_DEADLOCK FALSE
