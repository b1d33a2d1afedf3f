SPECIFICATION FairSpec
CONSTANTS
  a = a  c1 = c1  c2 = c2
  Guest = {a}
  Click = {c1, c2}
  ClaimClick = {c2}
  Amount = {1}
  Initial <- OneToken
  Earned <- OneToken
  NULL = NULL
  MaxLoads = 1
  MaxConnects = 1
  MaxFaults = 1
INVARIANTS ConfirmedIsDone BusyIsExact
PROPERTIES SnapshotOfTheWallet GuestGetsOut
