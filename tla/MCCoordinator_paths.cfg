\* Two workers: requests interleave at every transaction.
SPECIFICATION Spec
CONSTANTS
  i1 = i1
  i2 = i2
  r1 = r1
  r2 = r2
  w1 = w1
  w2 = w2
  m1 = m1
  m2 = m2
  Ids = {i1}
  Meas = {m1, m2}
  Stamps = {1, 2, 3}
  Bodies <- PathBodies
  Req = {r1, r2}
  Workers = {w1, w2}
  WorkerOf <- TwoWorkers
  Window = 1
  Retention = 2
  MaxClock = 0
  None = None
INVARIANTS PathsBackedByVM KeepsNewest AckedResultsAreStored
PROPERTIES GoneForGood SilentOnceDrained KeepsHistory
