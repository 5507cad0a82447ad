\* Self-update, admin page and mock client, one at a time.
SPECIFICATION CallersSpec
CONSTANTS
  Workers = {w1, w2}
  Scripts <- MCScripts
  First <- MCFirst
  MaxDeploys = 2
  Faults <- AllFaults
  MaxFaults = 2
  PageIds = {p1}
  Slots = {s1, s2}
  MaxChanges = 3
  MockIds = {i1, i2, i3}
  MaxFailures = 2
  Torn = Torn
  None = None
INVARIANTS
  TypesOK
  OnlyAnnouncedInstalled
  SomeScriptIsLeft
PROPERTIES
  UpdatesEnd
  PageCatchesUp
  KeepsReporting
CHECK_DEADLOCK FALSE
