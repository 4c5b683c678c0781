CONSTANTS
  Price = 1
  Orders = {o1}
  Threads = {w}
  Worker = w
  NoThread = NoThread
  MaxAttempts = 1
  Amounts = {1}
  MaxTransfers = 1
SPECIFICATION FairSpec
PROPERTIES LeasesAreReleased
