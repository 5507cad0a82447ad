\* One worker, the single-container image: handlers share one event loop, and all requests end.
SPECIFICATION FairSpec
CONSTANTS
  i1 = i1
  i2 = i2
  r1 = r1
  r2 = r2
  w1 = w1
  w2 = w2
  m1 = m1
  m2 = m2
  Ids = {i1}
  Meas = {m1}
  Stamps = {1, 2}
  Bodies <- SmallBodies
  Req = {r1, r2}
  Workers = {w1}
  WorkerOf <- OneWorker
  Window = 1
  Retention = 1
  MaxClock = 3
  None = None
INVARIANTS TypeOK AckedContactIsRecorded
PROPERTIES SweepSparesAnswered RequestsEnd
