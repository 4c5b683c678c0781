CONSTANTS
  Price = 2
  Orders = {o1}
  Threads = {t1, t2}
  NoThread = NoThread
  MaxAttempts = 2
  Amounts = {1, 2}
  MaxTransfers = 2
SPECIFICATION OrdersSpec
SYMMETRY ThreadSymmetry
INVARIANTS CancelledAtProvider ReconciliationGoesOn PaidOnceGrantedOnce AppliedIsPaid
PROPERTIES GrantIsEarned ClosedStaysClosed SettledEventIsFinal
CHECK_DEADLOCK FALSE
