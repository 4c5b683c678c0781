CONSTANTS
  Contents = {a, b}
  Editors = {u1, u2}
  Hosts = {h1}
  MaxProjections = 2
  MaxVersions = 2
  MaxRow = 4
  MaxStops = 1
  Users = {u1, u2}
  Owner = u1
  Platform = admin
  MaxSeats = 2
  Events = {1, 2}
  Processes = {p1, p2}
  MaxFailures = 2
  MaxCrashes = 1
  Enrichers = {1, 2}
  Decisions = {d1, d2}
  LastRevision = 2
  MaxPlanEdits = 1
  MaxCuts = 2
  Calls = {q1, q2, q3}
  LastStep = 2
  MaxRowEdits = 1
  MaxBreaks = 2
SPECIFICATION ServicesSpec
INVARIANTS CurrentPageIsTrue PublishedIsKept NoEventIsSkipped ManagerRemains CommitsFollowDecisions CompletedImportIsKept
PROPERTIES NoSeatIsOverfilled
CHECK_DEADLOCK FALSE
