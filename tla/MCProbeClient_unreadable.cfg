SPECIFICATION Spec
CONSTANTS
  i1 = i1
  i2 = i2
  i3 = i3
  Ids = {i1, i2}
  None = None
  MaxBatch = 2
  BatchSize = 2
  Retention = 1
  MaxResults = 2
  MaxClock = 2
  MaxCrashes = 1
  ReadErrors = TRUE
SYMMETRY IdSymmetry
PROPERTY BufferKept
