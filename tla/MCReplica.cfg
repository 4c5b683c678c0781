CONSTANTS
  Records = {1, 2, 3}
  Heavy = {3}
  PageSize = 1
  MaxVersion = 2
  MaxEdits = 2
  MaxFaults = 1
SPECIFICATION ReplicaSpec
INVARIANTS ReplicaIsCurrent NoEditIsLost KeyNamesOnePayload AppliedOnce
PROPERTIES ReadsAreMonotonic
CHECK_DEADLOCK FALSE
