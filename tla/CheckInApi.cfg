SPECIFICATION MCSpec
CONSTANTS
  Guest = {1, 2}
  Challenge = {c1, c2}
  Request = {r1, r2}
  NULL = NULL
  Supply <- MCSupply
  HOTEL_ROOM_COUNT = 1
  CHECK_IN_MINIMUM_BPS = 5000
  CHECK_IN_CHALLENGE_TTL = 1
  CHECK_IN_AUTH_VALIDITY = 0
  CHECK_IN_DURATION = 2
  MaxAnswer = 0
  MaxTime = 2
  MaxTransfers = 1
  Handler = {h1, h2}
  WalletBucket = {w1, w2}
  IpBucket = {i1}
  WINDOW = 2
  WALLET_MAX = 1
  IP_MAX = 2
  MaxClock = 4
  MaxRequests = 4
INVARIANTS OneAuthorizationPerChallenge StaysAreFresh AuthorizedIsTopRanked
  RateIsLimited FullBeforeRefusing
CHECK_DEADLOCK FALSE
SYMMETRY MCSymmetry

