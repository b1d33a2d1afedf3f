SPECIFICATION Spec
CONSTANTS
  Request = {r1}
  NULL = NULL
  PUBLIC_STALE_THRESHOLD = 1
  MaxTime = 3
INVARIANTS UnsettledIsAnnounced ShownRoomsAreSettled CurrentRoomsAreRecent
CHECK_DEADLOCK FALSE
