------------------------------ MODULE PathHistory ------------------------------
(***************************************************************************)
(* What the traceroute history promises to those who read it, whatever      *)
(* requests, workers, failures and deletes are behind it: for each probe    *)
(* and measurement it shows the newest paths, and one path gives way only   *)
(* to Retention newer ones that are shown in its place.                     *)
(***************************************************************************)
EXTENDS Naturals, FiniteSets

CONSTANTS Ids, Meas, Stamps, Retention

VARIABLE shown

Path == [id : Ids, meas : Meas, ts : Stamps]

SamePair(p, q) == p.id = q.id /\ p.meas = q.meas

NewerShown(p) == {q \in shown : SamePair(p, q) /\ q.ts > p.ts}

Init == shown = {}

(* A path is added, possibly one that was shown before or is too old to be. *)
Save(p) ==
  /\ shown' \subseteq shown \cup {p}
  /\ \A q \in shown' : Cardinality(NewerShown(q)') < Retention
  /\ \A q \in (shown \cup {p}) \ shown' :
       SamePair(p, q) /\ Cardinality(NewerShown(q)') >= Retention

(* A probe is deleted with all its paths.                                   *)
Forget(i) == shown' = {p \in shown : p.id # i}

Next == (\E p \in Path : Save(p)) \/ (\E i \in Ids : Forget(i))

Spec == Init /\ [][Next]_shown

================================================================================
