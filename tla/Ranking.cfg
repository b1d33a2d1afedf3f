SPECIFICATION Spec
CONSTANTS
  Account = {1, 2, 3, 4, 5, 6}
  RoomService = 5
  Market = 6
  ExcludedAddresses = {1}
  ManualExclusions = {2, 6}
  Contract = {5, 6}
  HOTEL_ROOM_COUNT = 2
  CHECK_IN_DURATION = 1
  Supply = 4
  MaxTime = 2
  MaxPool = 4
INVARIANTS AuthorizedHasRoom ShownIsPaid
PROPERTIES BuyTakesTarget StaysKeepRooms CheckInPays
CHECK_DEADLOCK FALSE
