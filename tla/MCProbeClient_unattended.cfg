SPECIFICATION UnattendedSpec
CONSTANTS
  i1 = i1
  i2 = i2
  i3 = i3
  Ids = {i1, i2}
  None = None
  MaxBatch = 1
  BatchSize = 1
  Retention = 0
  MaxResults = 2
  MaxClock = 0
  MaxCrashes = 0
  ReadErrors = FALSE
PROPERTY ReRegisters
