CONSTANTS
  Owners = {o1}
  Candidates = {1, 2}
  Grants = {1}
  MaxQuantity = 2
  LeaseSeconds = 1
  MaxTime = 3
  NoOwner = NoOwner
  NoGrant = NoGrant
  Jobs = {j1}
  Parts = {detail}
SPECIFICATION LookupSpec
INVARIANT ServedRevisionIsCharged
CHECK_DEADLOCK FALSE
