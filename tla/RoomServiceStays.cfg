SPECIFICATION FairSpec
CONSTANTS
  g1 = g1  g2 = g2  k1 = k1  k2 = k2
  Guest = {g1, g2}
  Signer = {k1, k2}
  Deployer = Deployer
  Nobody = Nobody
  FirstEntitlementSigner = k1
  FirstEligibilitySigner = k1
  CheckInNonce = {n1, n2}
  HotelAmount = {1, 2}
  WeiAmount = {1}
  Entitlement = {1}
  InitialHotel = 2
  CHECK_IN_DURATION = 1
  MaxTime = 2
  MaxEpoch = 1
  MaxReceived = 1
INVARIANT EscrowBacked
PROPERTIES StayReturnedWhole CheckoutNeverBlocked
CHECK_DEADLOCK FALSE
