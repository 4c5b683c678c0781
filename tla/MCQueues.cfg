CONSTANTS
  Price = 1
  Orders = {o1}
  Threads = {t1, t2}
  NoThread = NoThread
  MaxAttempts = 2
  Amounts = {1}
  MaxTransfers = 1
  MaxMishaps = 2
  Events = {1, 2}
  Processes = {p1}
  MaxFailures = 2
  MaxCrashes = 1
  Emails = {m1}
  Senders = {t1, t2}
  MaxDeliveries = 2
  Records = {1}
  Heavy = {}
  PageSize = 1
  MaxVersion = 2
  MaxEdits = 1
  MaxFaults = 1
SPECIFICATION AllSpec
PROPERTIES CommandsAreSettled EventsAreSettled EveryEventIsHandled RevokedSocketsClose EmailsAreSettled ReplicaConverges
CHECK_DEADLOCK FALSE
