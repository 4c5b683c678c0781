CONSTANTS
  Owners = {o1, o2}
  Candidates = {1, 2}
  Grants = {1, 2}
  MaxQuantity = 2
  LeaseSeconds = 1
  MaxTime = 3
  NoOwner = NoOwner
  NoGrant = NoGrant
  Jobs = {j1, j2}
  Parts = {detail, package}
  MaxReserves = 2
  StoreTime = 2
SPECIFICATION LoadFairSpec
INVARIANTS CountersMatchRows LedgerExplainsCounters NoOverReservation ChargedToOwnGrant ChargedOnlyIfSaved ImportsServeOnlyCharged
PROPERTIES ConsumedIsFinal RequestsAreSettled
CHECK_DEADLOCK FALSE
