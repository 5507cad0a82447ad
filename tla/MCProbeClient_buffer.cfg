SPECIFICATION Spec
CONSTANTS
  i1 = i1
  i2 = i2
  i3 = i3
  Ids = {i1, i2}
  None = None
  MaxBatch = 2
  BatchSize = 2
  Retention = 1
  MaxResults = 4
  MaxClock = 2
  MaxCrashes = 1
  ReadErrors = FALSE
SYMMETRY IdSymmetry
INVARIANTS TypeOK IdentityIsSaved LossNeedsCrash AnsweredIsNotResent
PROPERTIES  BufferKept
