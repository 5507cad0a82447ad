SPECIFICATION OfflineSpec
CONSTANTS
  i1 = i1
  i2 = i2
  i3 = i3
  Ids = {i1, i2}
  None = None
  MaxBatch = 1
  BatchSize = 1
  Retention = 0
  MaxResults = 1
  MaxClock = 1
  MaxCrashes = 0
  ReadErrors = FALSE
PROPERTY ExpiredIsPurged
