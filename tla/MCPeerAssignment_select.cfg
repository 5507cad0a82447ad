SPECIFICATION Spec
CONSTANTS
  asker = asker
  Ids = {asker, p1, p2}
  Nets = {n1, n2}
  Garbled = Garbled
  Inside = {in}
  Outside = {}
  Counts <- MCCounts
  Askers = {asker}
  Clients = {}
  Days = 1
  None = None
SYMMETRY Symmetry
CONSTRAINT Explored
INVARIANT
  AssignmentIsFull
PROPERTY
  OnlyDaysRotate
CHECK_DEADLOCK FALSE
