CONSTANTS
  Price = 1
  Orders = {o1}
  Threads = {t1, t2}
  NoThread = NoThread
  MaxAttempts = 2
  Amounts = {1}
  MaxTransfers = 1
SPECIFICATION CheckoutSpec
SYMMETRY ThreadSymmetry
INVARIANTS FinalReadSeesPayment
CHECK_DEADLOCK FALSE
