----------------------------- MODULE MCCoordinator -----------------------------
(* Small instances of Coordinator for TLC.                                  *)
EXTENDS Coordinator

CONSTANTS i1, i2, r1, r2, w1, w2, m1, m2

Path(m, t) == [meas |-> m, ts |-> t, trace |-> TRUE, valid |-> TRUE]
Ping(m, t) == [meas |-> m, ts |-> t, trace |-> FALSE, valid |-> TRUE]
Bad(m, t) == [meas |-> m, ts |-> t, trace |-> FALSE, valid |-> FALSE]

\* A batch with a path, a ping and an invalid timestamp, and one of which nothing is accepted.
MixedBodies == {{Path(m1, 1), Ping(m1, 2), Bad(m1, 3)}, {Bad(m1, 1)}}

\* A batch with one path, and one of which nothing is accepted.
SmallBodies == {{Path(m1, 1), Bad(m1, 2)}, {Bad(m1, 1)}}

\* Batches whose paths compete for the rows of m1, the newest one not last, next to m2.
PathBodies == {{Path(m1, 1), Path(m1, 3)}, {Path(m1, 2), Path(m2, 1)}}

OneWorker == [r \in Req |-> w1]
TwoWorkers == [r \in Req |-> IF r = r1 THEN w1 ELSE w2]
================================================================================
