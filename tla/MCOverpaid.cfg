CONSTANTS
  Price = 1
  Orders = {o1}
  Threads = {t1, t2}
  NoThread = NoThread
  MaxAttempts = 2
  Amounts = {1}
  MaxTransfers = 2
SPECIFICATION TransferSpec
SYMMETRY ThreadSymmetry
INVARIANTS GrantedOnce
CHECK_DEADLOCK FALSE
