CONSTANTS
  Contents = {a, b}
  Editors = {u1}
  Hosts = {h1}
  MaxProjections = 2
  MaxVersions = 2
  MaxRow = 4
  MaxStops = 0
SPECIFICATION TemplateSpec
INVARIANT AliasIsPublished
CHECK_DEADLOCK FALSE
