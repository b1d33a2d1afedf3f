SPECIFICATION FairSpec
CONSTANTS
  alice = alice  key = key  otherKey = otherKey  Nobody = Nobody
  Guest = {alice}
  Signer = {key, otherKey}
  ApiSigner = key
  Challenge = {n1}
  Request = {r1, r2}
  MaxReceived = 2
  MaxEpoch = 2
  MaxFaults = 1
INVARIANTS VouchersArePayable OneVoucherPerChallenge
PROPERTIES ImplementsLedger EveryWeiIsPaid
CHECK_DEADLOCK FALSE
