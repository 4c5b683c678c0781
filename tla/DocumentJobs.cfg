CONSTANTS
  Jobs = {e1}
  Workers = {w1, w2}
  MaxAttempts = 2
  Capacity = 1
  External = TRUE
  MaxClaims = 2
SPECIFICATION FairSpec
INVARIANTS CompletedHasResult ServedAsPublished
PROPERTIES KeepsLifecycle EditedNeverPublished EveryJobSettles
CHECK_DEADLOCK FALSE
