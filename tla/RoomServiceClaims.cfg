SPECIFICATION Spec
CONSTANTS
  g1 = g1  g2 = g2  k1 = k1  k2 = k2
  Guest = {g1, g2}
  Signer = {k1, k2}
  Deployer = Deployer
  Nobody = Nobody
  FirstEntitlementSigner = k1
  FirstEligibilitySigner = k1
  CheckInNonce = {}
  HotelAmount = {}
  WeiAmount = {1, 2}
  Entitlement = {1, 2, 3}
  InitialHotel = 0
  CHECK_IN_DURATION = 1
  MaxTime = 1
  MaxEpoch = 2
  MaxReceived = 4
SYMMETRY GuestSymmetry
INVARIANTS EthConservation PaidIsClaimed
CHECK_DEADLOCK FALSE
