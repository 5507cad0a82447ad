--------------------------- MODULE CoordinatorProofs ---------------------------
(* Proofs about Coordinator for every value of its constants.  The second   *)
(* half is about the table traceroute_paths: the trim of each save keeps    *)
(* the newest paths ever saved, the table implements PathHistory, and what  *)
(* was answered is there.                                                   *)
EXTENDS Coordinator, FiniteSetTheorems, TLAPS

(* A request that is being served acts for a client id.                     *)
ServedHasId == \A r \in Req : Resting(r) \/ req[r].id \in Ids

TypeInv == TypeOK /\ ServedHasId

LEMMA PointsType ==
  ASSUME NEW i \in Ids, NEW X \in SUBSET Result
  PROVE  /\ Points(i, X) \in SUBSET Point
         /\ Points(i, Accepted(X)) \in SUBSET Point
         /\ Points(i, Traced(X)) \subseteq Points(i, Accepted(X))
  BY DEF Points, Point, Accepted, Traced, Result

LEMMA TypeInit == Init => TypeInv
  BY CoordinatorAssumption
  DEF Init, TypeInv, TypeOK, ServedHasId, Resting, Idle, Request, Row, Missing,
      ProbeStates, Steps, Ops, Codes

LEMMA IdleType == Idle \in Request
  BY CoordinatorAssumption DEF Idle, Request, Steps, Ops, Codes

(* A slot update with a value of type Request that names an id while it is  *)
(* served keeps the part of the invariant about slots.                      *)
LEMMA SlotType ==
  ASSUME TypeInv, NEW r \in Req, NEW x \in Request,
         x.step \in {"idle", "done"} \/ x.id \in Ids,
         req' = [req EXCEPT ![r] = x]
  PROVE  req' \in [Req -> Request] /\ ServedHasId'
  BY DEF TypeInv, TypeOK, ServedHasId, Resting

LEMMA RefuseType ==
  ASSUME TypeInv, NEW r \in Req, NEW c \in Codes, Refuse(r, c)
  PROVE  req' \in [Req -> Request] /\ ServedHasId'
<1> DEFINE x == [Idle EXCEPT !.step = "done", !.code = c]
<1>1. x \in Request /\ x.step = "done"
  BY IdleType DEF Idle, Request, Steps
<1>2. req' = [req EXCEPT ![r] = x]
  BY DEF Refuse
<1> QED  BY <1>1, <1>2, SlotType

LEMMA AnswerType ==
  ASSUME TypeInv, NEW r \in Req, Answer(r)
  PROVE  req' \in [Req -> Request] /\ ServedHasId'
<1> DEFINE x == [req[r] EXCEPT !.step = "done", !.code = 200]
<1>0. req[r] \in Request
  BY DEF TypeInv, TypeOK
<1>a. "done" \in Steps /\ 200 \in Codes
  BY DEF Steps, Codes
<1>1. x \in Request /\ x.step = "done"
  BY <1>0, <1>a DEF Request
<1>2. req' = [req EXCEPT ![r] = x]
  BY <1>0 DEF Answer, TypeInv, TypeOK, Request
<1> QED  BY <1>1, <1>2, SlotType

LEMMA ToWriteType ==
  ASSUME TypeInv, NEW r \in Req, ~Resting(r), ToWrite(r)
  PROVE  req' \in [Req -> Request] /\ ServedHasId'
<1> DEFINE x == [req[r] EXCEPT !.step = "write", !.at = now, !.todo = {}]
<1>0. req[r] \in Request /\ req[r].id \in Ids
  BY DEF TypeInv, TypeOK, ServedHasId
<1>1. x \in Request /\ x.id \in Ids
  BY <1>0 DEF Request, Steps, TypeInv, TypeOK
<1>2. req' = [req EXCEPT ![r] = x]
  BY <1>0 DEF ToWrite, TypeInv, TypeOK, Request
<1> QED  BY <1>1, <1>2, SlotType

LEMMA RowType ==
  /\ \A s \in ProbeStates : Missing(s) \in Row
  /\ \A i \in Ids, t \in Nat :
       TypeOK /\ TouchHeartbeat(i, t) => probes' \in [Ids -> Row]
<1>1. \A s \in ProbeStates : Missing(s) \in Row
  BY DEF Missing, Row
<1>2. ASSUME NEW i \in Ids, NEW t \in Nat, TypeOK, TouchHeartbeat(i, t)
      PROVE  probes' \in [Ids -> Row]
  <2>1. probes[i] \in Row /\ probes \in [Ids -> Row]
    BY <1>2 DEF TypeOK
  <2>2. [probes[i] EXCEPT !.hb = t] \in Row
    BY <2>1 DEF Row
  <2> QED  BY <1>2, <2>1, <2>2 DEF TouchHeartbeat
<1> QED  BY <1>1, <1>2

LEMMA TypeStep == TypeInv /\ [Next]_vars => TypeInv'
<1> SUFFICES ASSUME TypeInv, [Next]_vars PROVE TypeInv'
  OBVIOUS
<1> USE DEF TypeInv
<1>0. \A q \in Req : req[q] \in Request
  BY DEF TypeOK
<1>c. 200 \in Codes /\ 400 \in Codes /\ 401 \in Codes /\ 403 \in Codes
      /\ 500 \in Codes /\ 502 \in Codes
  BY DEF Codes
<1>1. ASSUME NEW r \in Req, RegisterRefused(r) PROVE TypeInv'
  BY <1>1, <1>c, RefuseType DEF RegisterRefused, TypeOK
<1>2. ASSUME NEW r \in Req, Register(r) PROVE TypeInv'
  <2>1. PICK i \in Ids :
          req' = [req EXCEPT ![r] = [Idle EXCEPT !.step = "write", !.op = "register",
                                                 !.id = i, !.at = now]]
    BY <1>2 DEF Register, FreshIds
  <2>2. [Idle EXCEPT !.step = "write", !.op = "register", !.id = i, !.at = now] \in Request
    BY DEF Idle, Request, Steps, Ops, Codes, TypeOK
  <2>3. req' \in [Req -> Request] /\ ServedHasId'
    BY <2>1, <2>2, SlotType DEF Idle
  <2> QED  BY <1>2, <2>3 DEF Register, TypeOK
<1>3. ASSUME NEW r \in Req, RegisterCommit(r) PROVE TypeInv'
  <2>1. [state |-> "live", created |-> req[r].at, hb |-> None] \in Row
    BY <1>0 DEF Row, ProbeStates, Request
  <2>2. probes' \in [Ids -> Row]
    BY <1>3, <2>1 DEF RegisterCommit, TypeOK
  <2> QED  BY <1>3, <2>2, AnswerType DEF RegisterCommit, TypeOK
<1>4. ASSUME NEW r \in Req, Authenticate(r) PROVE TypeInv'
  <2>1. PICK i \in Ids, o \in Ops, B \in SUBSET Result : Arrive(r, o, i, B)
    <3>1. Bodies \subseteq SUBSET Result /\ {} \in SUBSET Result
      BY CoordinatorAssumption
    <3>2. "heartbeat" \in Ops /\ "results" \in Ops
      BY DEF Ops
    <3> QED  BY <1>4, <3>1, <3>2, Zenon DEF Authenticate
  <2>2. [Idle EXCEPT !.step = "body", !.op = o, !.id = i, !.body = B] \in Request
    BY DEF Idle, Request, Steps, Codes
  <2>3. req' \in [Req -> Request] /\ ServedHasId'
    BY <2>1, <2>2, SlotType DEF Arrive, Idle
  <2> QED  BY <1>4, <2>3 DEF Authenticate, TypeOK
<1>5. ASSUME NEW r \in Req, Unauthorized(r) PROVE TypeInv'
  BY <1>5, <1>c, RefuseType DEF Unauthorized, TypeOK
<1>6. ASSUME NEW r \in Req, HeartbeatInvalid(r) PROVE TypeInv'
  BY <1>6, <1>c, RefuseType DEF HeartbeatInvalid, TypeOK
<1>7. ASSUME NEW r \in Req, Heartbeat(r) PROVE TypeInv'
  <2>1. ~Resting(r)
    BY <1>7 DEF Heartbeat, Resting
  <2> QED  BY <1>7, <2>1, ToWriteType DEF Heartbeat, TypeOK
<1>8. ASSUME NEW r \in Req, HeartbeatCommit(r) PROVE TypeInv'
  <2>1. req[r].id \in Ids /\ req[r].at \in Nat
    BY <1>0, <1>8 DEF HeartbeatCommit, ServedHasId, Resting, Request
  <2>2. [req[r] EXCEPT !.step = "vm"] \in Request
    <3>1. "vm" \in Steps
      BY DEF Steps
    <3> QED  BY <1>0, <3>1 DEF Request
  <2>3. req' \in [Req -> Request] /\ ServedHasId'
    BY <1>0, <1>8, <2>1, <2>2 DEF HeartbeatCommit, TypeOK, ServedHasId, Request, Resting
  <2> QED  BY <1>8, <2>1, <2>3, RowType DEF HeartbeatCommit, TypeOK
<1>9. ASSUME NEW r \in Req, HeartbeatAnswer(r) PROVE TypeInv'
  BY <1>9, AnswerType DEF HeartbeatAnswer, TypeOK
<1>10. ASSUME NEW r \in Req, ResultsForeign(r) PROVE TypeInv'
  BY <1>10, <1>c, RefuseType DEF ResultsForeign, TypeOK
<1>11. ASSUME NEW r \in Req, Results(r) PROVE TypeInv'
  <2>1. ~Resting(r)
    BY <1>11 DEF Results, Resting
  <2>2. req[r].id \in Ids /\ req[r].body \in SUBSET Result
    BY <1>0, <2>1 DEF ServedHasId, Request
  <2>3. [req[r] EXCEPT !.step = "vm",
                       !.todo = Points(req[r].id, Traced(req[r].body))] \in Request
    <3>1. "vm" \in Steps /\ Points(req[r].id, Traced(req[r].body)) \in SUBSET Point
      <4>1. "vm" \in Steps
        BY DEF Steps
      <4> QED  BY <2>2, <4>1, PointsType
    <3> QED  BY <1>0, <3>1 DEF Request
  <2>w. wire' \subseteq Point
    BY <1>11, <2>2, PointsType DEF Results, ResultPoints, TypeOK
  <2>4. CASE ToWrite(r)
    BY <1>11, <2>1, <2>w, <2>4, ToWriteType DEF Results, TypeOK
  <2>5. CASE req' = [req EXCEPT ![r].step = "vm",
                                ![r].todo = Points(req[r].id, Traced(req[r].body))]
    <3>1. req' \in [Req -> Request] /\ ServedHasId'
      BY <1>0, <2>2, <2>3, <2>5 DEF TypeOK, ServedHasId, Request, Resting
    <3> QED  BY <1>11, <2>w, <3>1 DEF Results, TypeOK
  <2> QED  BY <1>11, <2>4, <2>5 DEF Results
<1>12. ASSUME NEW r \in Req, VmAck(r) PROVE TypeInv'
  <2>1. ~Resting(r)
    BY <1>12 DEF VmAck, Resting
  <2>2. req[r].id \in Ids /\ req[r].body \in SUBSET Result
    BY <1>0, <2>1 DEF ServedHasId, Request
  <2>4. CASE ToWrite(r)
    BY <1>12, <2>1, <2>4, ToWriteType DEF VmAck, TypeOK
  <2>5. CASE req' = [req EXCEPT ![r].step = "save"]
    <3>1. [req[r] EXCEPT !.step = "save"] \in Request
      <4>1. "save" \in Steps
        BY DEF Steps
      <4> QED  BY <1>0, <4>1 DEF Request
    <3>2. req' \in [Req -> Request] /\ ServedHasId'
      BY <1>0, <2>2, <2>5, <3>1 DEF TypeOK, ServedHasId, Request, Resting
    <3> QED  BY <1>12, <3>2 DEF VmAck, TypeOK
  <2> QED  BY <1>12, <2>4, <2>5 DEF VmAck, AfterVm
<1>13. ASSUME NEW r \in Req, VmFails(r) PROVE TypeInv'
  BY <1>13, <1>c, RefuseType DEF VmFails, TypeOK
<1>14. ASSUME NEW r \in Req, SavePath(r) PROVE TypeInv'
  <2>1. ~Resting(r) /\ req[r].todo \in SUBSET Point /\ req[r].id \in Ids
    BY <1>0, <1>14 DEF SavePath, Resting, Request, ServedHasId
  <2>2. PICK p \in req[r].todo :
          /\ paths' = Trim(paths \cup {p}, p)
          /\ saved' = saved \cup {p}
          /\ IF req[r].todo = {p} THEN ToWrite(r)
             ELSE req' = [req EXCEPT ![r].todo = @ \ {p}]
    BY <1>14 DEF SavePath
  <2>3. paths' \subseteq Point /\ saved' \subseteq Point
    BY <2>1, <2>2 DEF Trim, TypeOK
  <2>4. CASE ToWrite(r)
    BY <1>14, <2>1, <2>3, <2>4, ToWriteType DEF SavePath, TypeOK
  <2>5. CASE req' = [req EXCEPT ![r].todo = @ \ {p}]
    <3>1. [req[r] EXCEPT !.todo = @ \ {p}] \in Request
      BY <1>0, <2>1 DEF Request
    <3>2. req' \in [Req -> Request] /\ ServedHasId'
      BY <1>0, <2>1, <2>5, <3>1 DEF TypeOK, ServedHasId, Request, Resting
    <3> QED  BY <1>14, <2>3, <3>2 DEF SavePath, TypeOK
  <2> QED  BY <2>2, <2>4, <2>5
<1>15. ASSUME NEW r \in Req, ResultsCommit(r) PROVE TypeInv'
  <2>1. req[r].id \in Ids /\ req[r].at \in Nat
    BY <1>0, <1>15 DEF ResultsCommit, ServedHasId, Resting, Request
  <2> QED  BY <1>15, <2>1, RowType, AnswerType DEF ResultsCommit, TypeOK
<1>16. ASSUME NEW r \in Req, StorageFails(r) PROVE TypeInv'
  BY <1>16, <1>c, RefuseType DEF StorageFails, TypeOK
<1>17. ASSUME NEW i \in Ids, DeleteProbe(i) PROVE TypeInv'
  <2>1. Missing("deleted") \in Row
    BY RowType DEF ProbeStates
  <2> QED  BY <1>17, <2>1 DEF DeleteProbe, TypeOK, ServedHasId, Resting
<1>18. CASE SweepBegin
  BY <1>18 DEF SweepBegin, TypeOK, ServedHasId, Resting
<1>19. CASE Sweep
  <2>1. Missing("swept") \in Row
    BY RowType DEF ProbeStates
  <2> QED  BY <1>19, <2>1 DEF Sweep, TypeOK, ServedHasId, Resting
<1>20. ASSUME NEW w \in Workers, Crash(w) PROVE TypeInv'
  <2>1. req' \in [Req -> Request]
    BY <1>20, IdleType DEF Crash, TypeOK
  <2>2. ServedHasId'
    BY <1>20 DEF Crash, ServedHasId, Resting, Idle
  <2> QED  BY <1>20, <2>1, <2>2 DEF Crash, TypeOK
<1>21. CASE Tick
  BY <1>21 DEF Tick, TypeOK, ServedHasId, Resting
<1>22. CASE UNCHANGED vars
  BY <1>22 DEF vars, TypeOK, ServedHasId, Resting
<1>23. CASE VmStore
  BY <1>23 DEF VmStore, TypeOK, ServedHasId, Resting
<1> QED
  BY <1>1, <1>2, <1>3, <1>4, <1>5, <1>6, <1>7, <1>8, <1>9, <1>10, <1>11, <1>12,
     <1>13, <1>14, <1>15, <1>16, <1>17, <1>18, <1>19, <1>20, <1>21, <1>22,
     <1>23
  DEF Next, Arrival, Handler, Admin, Environment

(* Type correctness: the tables, the request slots and the clock keep the   *)
(* types that main.py and sqlite.py give them.                              *)
THEOREM TypeCorrect == Spec => []TypeOK
<1>1. TypeInv => TypeOK
  BY DEF TypeInv
<1> QED  BY <1>1, TypeInit, TypeStep, PTL DEF Spec

--------------------------------------------------------------------------------
(* What the common slot updates do to the slot, and that they leave the     *)
(* other slots alone.                                                       *)

Others(r) == \A q \in Req \ {r} : req'[q] = req[q]

LEMMA RefuseEffect ==
  ASSUME TypeOK, NEW r \in Req, NEW c, Refuse(r, c)
  PROVE  /\ req'[r].step = "done" /\ req'[r].code = c /\ req'[r].id = None
         /\ req'[r].op = "none" /\ Others(r)
  BY DEF TypeOK, Refuse, Idle, Others

LEMMA AnswerEffect ==
  ASSUME TypeOK, NEW r \in Req, Answer(r)
  PROVE  /\ req'[r].step = "done" /\ req'[r].code = 200
         /\ req'[r].op = req[r].op /\ req'[r].id = req[r].id
         /\ req'[r].at = req[r].at /\ req'[r].body = req[r].body
         /\ Others(r)
<1>1. req[r] \in Request
  BY DEF TypeOK
<1> QED  BY <1>1 DEF TypeOK, Answer, Others, Request

LEMMA ToWriteEffect ==
  ASSUME TypeOK, NEW r \in Req, ToWrite(r)
  PROVE  /\ req'[r].step = "write" /\ req'[r].at = now
         /\ req'[r].op = req[r].op /\ req'[r].id = req[r].id
         /\ req'[r].body = req[r].body /\ Others(r)
<1>1. req[r] \in Request
  BY DEF TypeOK
<1> QED  BY <1>1 DEF TypeOK, ToWrite, Others, Request

LEMMA ArriveEffect ==
  ASSUME TypeOK, NEW r \in Req, Authenticate(r)
  PROVE  /\ req'[r].step = "body" /\ req'[r].id \in Ids /\ Live(req'[r].id)
         /\ req'[r].op \in {"heartbeat", "results"} /\ Others(r)
<1>1. PICK i \in Ids, o \in {"heartbeat", "results"}, B \in SUBSET Result : Live(i) /\ Arrive(r, o, i, B)
  BY CoordinatorAssumption DEF Authenticate
<1> QED  BY <1>1 DEF Arrive, TypeOK, Idle, Others

--------------------------------------------------------------------------------
(* Paths are backed by VictoriaMetrics: what a handler still has to save is *)
(* in VictoriaMetrics already, and what it will have to save is part of     *)
(* what it is sending there.                                                *)

SavesAreBacked ==
  \A r \in Req :
    /\ req[r].step = "save" => req[r].todo \subseteq vm
    /\ req[r].step = "vm" /\ req[r].op = "results" => req[r].todo \subseteq ResultPoints(r)

BackedInv == PathsBackedByVM /\ SavesAreBacked

(* No slot enters a step that SavesAreBacked speaks of.                     *)
LEMMA BackedFrame ==
  ASSUME BackedInv, vm \subseteq vm', paths' \subseteq vm',
         \A q \in Req : \/ req'[q] = req[q]
                        \/ req'[q].step \notin {"vm", "save"}
                        \/ req'[q].step = "vm" /\ req'[q].op # "results"
  PROVE  BackedInv'
  BY DEF BackedInv, PathsBackedByVM, SavesAreBacked, ResultPoints

LEMMA BackedStep == TypeInv /\ BackedInv /\ [Next]_vars => BackedInv'
<1> SUFFICES ASSUME TypeInv, BackedInv, [Next]_vars PROVE BackedInv'
  OBVIOUS
<1>t. TypeOK /\ \A q \in Req : req[q] \in Request
  BY DEF TypeInv, TypeOK
<1>p. paths \subseteq vm
  BY DEF BackedInv, PathsBackedByVM
<1>1. ASSUME NEW r \in Req, RegisterRefused(r) PROVE BackedInv'
  BY <1>1, <1>t, <1>p, RefuseEffect, BackedFrame DEF RegisterRefused, Others
<1>2. ASSUME NEW r \in Req, Register(r) PROVE BackedInv'
  <2>1. req'[r].step = "write" /\ Others(r)
    BY <1>2, <1>t DEF Register, TypeOK, Idle, Others
  <2> QED  BY <1>2, <1>p, <2>1, BackedFrame DEF Register, Others
<1>3. ASSUME NEW r \in Req, RegisterCommit(r) PROVE BackedInv'
  BY <1>3, <1>t, <1>p, AnswerEffect, BackedFrame DEF RegisterCommit, Others
<1>4. ASSUME NEW r \in Req, Authenticate(r) PROVE BackedInv'
  BY <1>4, <1>t, <1>p, ArriveEffect, BackedFrame DEF Authenticate, Others
<1>5. ASSUME NEW r \in Req, Unauthorized(r) PROVE BackedInv'
  BY <1>5, <1>t, <1>p, RefuseEffect, BackedFrame DEF Unauthorized, Others
<1>6. ASSUME NEW r \in Req, HeartbeatInvalid(r) PROVE BackedInv'
  BY <1>6, <1>t, <1>p, RefuseEffect, BackedFrame DEF HeartbeatInvalid, Others
<1>7. ASSUME NEW r \in Req, Heartbeat(r) PROVE BackedInv'
  BY <1>7, <1>t, <1>p, ToWriteEffect, BackedFrame DEF Heartbeat, Others
<1>8. ASSUME NEW r \in Req, HeartbeatCommit(r) PROVE BackedInv'
  <2>1. req'[r].step = "vm" /\ req'[r].op = "heartbeat" /\ Others(r)
    BY <1>8, <1>t DEF HeartbeatCommit, TypeOK, Others, Request
  <2> QED  BY <1>8, <1>p, <2>1, BackedFrame DEF HeartbeatCommit, Others
<1>9. ASSUME NEW r \in Req, HeartbeatAnswer(r) PROVE BackedInv'
  BY <1>9, <1>t, <1>p, AnswerEffect, BackedFrame DEF HeartbeatAnswer, Others
<1>10. ASSUME NEW r \in Req, ResultsForeign(r) PROVE BackedInv'
  BY <1>10, <1>t, <1>p, RefuseEffect, BackedFrame DEF ResultsForeign, Others
<1>11. ASSUME NEW r \in Req, Results(r) PROVE BackedInv'
  <2>1. CASE ToWrite(r)
    BY <1>11, <1>t, <1>p, <2>1, ToWriteEffect, BackedFrame DEF Results, Others
  <2>2. CASE req' = [req EXCEPT ![r].step = "vm",
                                ![r].todo = Points(req[r].id, Traced(req[r].body))]
    <3>1. /\ req'[r].step = "vm" /\ req'[r].id = req[r].id /\ req'[r].body = req[r].body
          /\ req'[r].todo = Points(req[r].id, Traced(req[r].body)) /\ Others(r)
      BY <1>t, <2>2 DEF TypeOK, Others, Request
    <3>2. req'[r].todo \subseteq ResultPoints(r)'
      BY <3>1 DEF ResultPoints, Points, Traced, Accepted
    <3> QED  BY <1>11, <1>p, <3>1, <3>2
      DEF Results, BackedInv, PathsBackedByVM, SavesAreBacked, ResultPoints, Others
  <2> QED  BY <1>11, <2>1, <2>2 DEF Results
<1>12. ASSUME NEW r \in Req, VmAck(r) PROVE BackedInv'
  <2>1. CASE ToWrite(r)
    BY <1>12, <1>t, <1>p, <2>1, ToWriteEffect, BackedFrame DEF VmAck, Others
  <2>2. CASE req' = [req EXCEPT ![r].step = "save"]
    <3>1. req'[r].step = "save" /\ req'[r].todo = req[r].todo /\ Others(r)
      BY <1>t, <2>2 DEF TypeOK, Others, Request
    <3>2. req'[r].todo \subseteq vm'
      BY <1>12, <3>1 DEF VmAck, BackedInv, SavesAreBacked
    <3> QED  BY <1>12, <1>p, <3>1, <3>2
      DEF VmAck, BackedInv, PathsBackedByVM, SavesAreBacked, ResultPoints, Others
  <2> QED  BY <1>12, <2>1, <2>2 DEF VmAck, AfterVm
<1>13. ASSUME NEW r \in Req, VmFails(r) PROVE BackedInv'
  BY <1>13, <1>t, <1>p, RefuseEffect, BackedFrame DEF VmFails, Others
<1>14. ASSUME NEW r \in Req, SavePath(r) PROVE BackedInv'
  <2>1. PICK p \in req[r].todo :
          /\ paths' = Trim(paths \cup {p}, p)
          /\ IF req[r].todo = {p} THEN ToWrite(r)
             ELSE req' = [req EXCEPT ![r].todo = @ \ {p}]
    BY <1>14 DEF SavePath
  <2>2. req[r].todo \subseteq vm /\ vm' = vm /\ req[r].step = "save"
    BY <1>14 DEF SavePath, BackedInv, SavesAreBacked
  <2>3. paths' \subseteq vm'
    BY <1>p, <2>1, <2>2 DEF Trim
  <2>4. CASE ToWrite(r)
    BY <1>t, <2>2, <2>3, <2>4, ToWriteEffect, BackedFrame DEF Others
  <2>5. CASE req' = [req EXCEPT ![r].todo = @ \ {p}]
    <3>1. req'[r].step = "save" /\ req'[r].todo = req[r].todo \ {p} /\ Others(r)
      BY <1>t, <2>2, <2>5 DEF TypeOK, Others, Request
    <3> QED  BY <2>2, <2>3, <3>1
      DEF BackedInv, PathsBackedByVM, SavesAreBacked, ResultPoints, Others
  <2> QED  BY <2>1, <2>4, <2>5
<1>15. ASSUME NEW r \in Req, ResultsCommit(r) PROVE BackedInv'
  BY <1>15, <1>t, <1>p, AnswerEffect, BackedFrame DEF ResultsCommit, Others
<1>16. ASSUME NEW r \in Req, StorageFails(r) PROVE BackedInv'
  BY <1>16, <1>t, <1>p, RefuseEffect, BackedFrame DEF StorageFails, Others
<1>17. ASSUME NEW i \in Ids, DeleteProbe(i) PROVE BackedInv'
  BY <1>17, <1>p, BackedFrame DEF DeleteProbe
<1>18. CASE Admin /\ UNCHANGED <<paths, vm, req>>
  BY <1>18, <1>p, BackedFrame
<1>19. ASSUME NEW w \in Workers, Crash(w) PROVE BackedInv'
  <2>1. \A q \in Req : req'[q] = req[q] \/ req'[q].step = "idle"
    BY <1>19, <1>t DEF Crash, TypeOK, Idle
  <2> QED  BY <1>19, <1>p, <2>1, BackedFrame DEF Crash
<1>20. CASE Tick
  BY <1>20, <1>p, BackedFrame DEF Tick
<1>21. CASE UNCHANGED vars
  BY <1>21, <1>p, BackedFrame DEF vars
<1>23. CASE VmStore
  BY <1>23, <1>p, BackedFrame DEF VmStore
<1>22. CASE Admin
  BY <1>17, <1>18, <1>22 DEF Admin, SweepBegin, Sweep
<1> QED
  BY <1>1, <1>2, <1>3, <1>4, <1>5, <1>6, <1>7, <1>8, <1>9, <1>10, <1>11, <1>12,
     <1>13, <1>14, <1>15, <1>16, <1>19, <1>20, <1>21, <1>22, <1>23
  DEF Next, Arrival, Handler, Environment

(* No path is stored whose result VictoriaMetrics lacks, whatever requests, *)
(* failures, deletes and crashes come together (results, main.py).          *)
THEOREM BackedByVM == Spec => []PathsBackedByVM
<1>1. Init => BackedInv
  BY DEF Init, BackedInv, PathsBackedByVM, SavesAreBacked, Idle
<1>2. BackedInv => PathsBackedByVM
  BY DEF BackedInv
<1> QED  BY <1>1, <1>2, TypeInit, TypeStep, BackedStep, PTL DEF Spec

--------------------------------------------------------------------------------
(* The life of a row and of a slot, as relations between a state and the    *)
(* next one that every step satisfies.                                      *)

Pending(r) == req[r].step = "write" /\ req[r].op = "register"

(* What a step can make of the state of row i.                              *)
RowChange(i) ==
  \/ probes'[i].state = probes[i].state
  \/ probes[i].state # "unused" /\ Gone(i)'
  \/ \E r \in Req : Pending(r) /\ req[r].id = i /\ req'[r].step = "done"

(* What a step can make of slot q.                                          *)
SlotChange(q) ==
  \/ req'[q] = req[q]
  \/ Resting(q)' /\ req'[q].id = None /\ req'[q].todo = {}
  \/ Resting(q)' /\ req'[q].id = req[q].id /\ req'[q].todo = req[q].todo /\ ~Resting(q)
  \/ /\ Resting(q) /\ ~Pending(q)' /\ req'[q].todo = {}
     /\ req'[q].id \in Ids /\ Live(req'[q].id)
     /\ Others(q) /\ UNCHANGED probes
  \/ /\ Resting(q) /\ Pending(q)' /\ req'[q].todo = {} /\ req'[q].id \in FreshIds
     /\ Others(q) /\ UNCHANGED probes
  \/ /\ ~Resting(q) /\ ~Pending(q)' /\ req'[q].id = req[q].id
     /\ \A p \in req'[q].todo : p \in req[q].todo \/ p.id = req[q].id

(* A save is still to be made for the client whose request it is.           *)
TodoIsOwn == \A r \in Req : \A p \in req[r].todo : p.id = req[r].id

(* The row of a registration that waits for its INSERT is not there, and no *)
(* other slot knows its id.                                                 *)
PendingIsFresh ==
  \A r \in Req : Pending(r) =>
    /\ probes[req[r].id].state = "unused"
    /\ \A q \in Req \ {r} : req[q].id # req[r].id

LifeInv == TodoIsOwn /\ PendingIsFresh

LEMMA TouchKeepsState ==
  ASSUME TypeOK, NEW i \in Ids, NEW t, TouchHeartbeat(i, t)
  PROVE  \A j \in Ids : probes'[j].state = probes[j].state
<1>1. \A j \in Ids : probes[j] \in Row
  BY DEF TypeOK
<1> QED  BY <1>1 DEF TouchHeartbeat, TypeOK, Row

LEMMA RowsChange == TypeInv /\ [Next]_vars => \A i \in Ids : RowChange(i)
<1> SUFFICES ASSUME TypeInv, [Next]_vars, NEW i \in Ids PROVE RowChange(i)
  OBVIOUS
<1>t. TypeOK /\ \A q \in Req : req[q] \in Request
  BY DEF TypeInv, TypeOK
<1>1. CASE UNCHANGED probes
  BY <1>1 DEF RowChange
<1>2. ASSUME NEW r \in Req, RegisterCommit(r) PROVE RowChange(i)
  <2>1. req'[r].step = "done" /\ Pending(r)
    BY <1>2, <1>t, AnswerEffect DEF RegisterCommit, Pending
  <2>2. CASE req[r].id = i
    BY <1>2, <1>t, <2>1, <2>2 DEF RegisterCommit, RowChange, TypeOK
  <2>3. CASE req[r].id # i
    BY <1>2, <1>t, <2>3 DEF RegisterCommit, RowChange, TypeOK
  <2> QED  BY <2>2, <2>3
<1>3. ASSUME NEW r \in Req, HeartbeatCommit(r) \/ ResultsCommit(r) PROVE RowChange(i)
  <2>1. req[r].id \in Ids /\ TouchHeartbeat(req[r].id, req[r].at)
    BY <1>3 DEF HeartbeatCommit, ResultsCommit, TypeInv, ServedHasId, Resting
  <2> QED  BY <1>t, <2>1, TouchKeepsState DEF RowChange
<1>4. ASSUME NEW j \in Ids, DeleteProbe(j) PROVE RowChange(i)
  BY <1>4, <1>t DEF DeleteProbe, RowChange, TypeOK, Missing, Gone
<1>5. CASE Sweep
  BY <1>5, <1>t DEF Sweep, RowChange, TypeOK, Missing, Gone, Dead, Live
<1> QED
  BY <1>1, <1>2, <1>3, <1>4, <1>5
  DEF Next, Arrival, Handler, Admin, Environment, RegisterRefused, Register,
      Authenticate, Unauthorized, HeartbeatInvalid, Heartbeat, HeartbeatAnswer,
      ResultsForeign, Results, VmAck, VmFails, SavePath, StorageFails, SweepBegin,
      Crash, Tick, VmStore, vars

LEMMA SlotsChange == TypeInv /\ [Next]_vars => \A q \in Req : SlotChange(q)
<1> SUFFICES ASSUME TypeInv, [Next]_vars PROVE \A q \in Req : SlotChange(q)
  OBVIOUS
<1>t. TypeOK /\ \A q \in Req : req[q] \in Request
  BY DEF TypeInv, TypeOK
<1>o. ASSUME NEW r \in Req, SlotChange(r), Others(r) PROVE \A q \in Req : SlotChange(q)
  BY <1>o DEF Others, SlotChange
<1>1. ASSUME NEW r \in Req, NEW c, Refuse(r, c) PROVE \A q \in Req : SlotChange(q)
  <2>1. req'[r].step = "done" /\ req'[r].todo = {} /\ req'[r].id = None /\ Others(r)
    BY <1>t, <1>1 DEF Refuse, TypeOK, Idle, Others
  <2> QED  BY <1>o, <2>1 DEF SlotChange, Resting
<1>2. ASSUME NEW r \in Req, ToWrite(r), ~Resting(r), req[r].op # "register"
      PROVE  \A q \in Req : SlotChange(q)
  <2>1. /\ req'[r].id = req[r].id /\ req'[r].op # "register" /\ req'[r].todo = {}
        /\ Others(r)
    BY <1>t, <1>2, ToWriteEffect DEF ToWrite, TypeOK, Request
  <2> QED  BY <1>o, <1>2, <2>1 DEF SlotChange, Pending
<1>3. ASSUME NEW r \in Req, RegisterCommit(r) \/ HeartbeatAnswer(r) \/ ResultsCommit(r)
      PROVE  \A q \in Req : SlotChange(q)
  <2>1. req'[r].step = "done" /\ req'[r].id = req[r].id /\ Others(r) /\ ~Resting(r)
    BY <1>t, <1>3, AnswerEffect DEF RegisterCommit, HeartbeatAnswer, ResultsCommit, Resting
  <2>2. req'[r].todo = req[r].todo
    BY <1>t, <1>3 DEF RegisterCommit, HeartbeatAnswer, ResultsCommit, Answer, TypeOK, Request
  <2> QED  BY <1>o, <2>1, <2>2 DEF SlotChange, Resting
<1>4. ASSUME NEW r \in Req, Register(r) PROVE \A q \in Req : SlotChange(q)
  <2>1. /\ req'[r].step = "write" /\ req'[r].op = "register" /\ req'[r].todo = {}
        /\ req'[r].id \in FreshIds /\ Others(r)
    BY <1>t, <1>4 DEF Register, TypeOK, Idle, Others
  <2> QED  BY <1>o, <1>4, <2>1 DEF Register, SlotChange, Pending
<1>5. ASSUME NEW r \in Req, Authenticate(r) PROVE \A q \in Req : SlotChange(q)
  <2>1. req'[r].todo = {}
    BY <1>t, <1>5 DEF Authenticate, Arrive, TypeOK, Idle
  <2> QED  BY <1>o, <1>t, <1>5, <2>1, ArriveEffect DEF Authenticate, SlotChange, Pending
<1>6. ASSUME NEW r \in Req, HeartbeatCommit(r) PROVE \A q \in Req : SlotChange(q)
  <2>1. /\ req'[r].step = "vm" /\ req'[r].id = req[r].id /\ req'[r].todo = req[r].todo
        /\ Others(r) /\ ~Resting(r)
    BY <1>t, <1>6 DEF HeartbeatCommit, TypeOK, Request, Others, Resting
  <2> QED  BY <1>o, <2>1 DEF SlotChange, Pending
<1>7. ASSUME NEW r \in Req, Results(r) PROVE \A q \in Req : SlotChange(q)
  <2>1. ~Resting(r) /\ req[r].op # "register"
    BY <1>7 DEF Results, Resting
  <2>2. CASE req' = [req EXCEPT ![r].step = "vm",
                                ![r].todo = Points(req[r].id, Traced(req[r].body))]
    <3>1. /\ req'[r].step = "vm" /\ req'[r].id = req[r].id /\ Others(r)
          /\ req'[r].todo = Points(req[r].id, Traced(req[r].body))
      BY <1>t, <2>2 DEF TypeOK, Request, Others
    <3> QED  BY <1>o, <2>1, <3>1 DEF SlotChange, Pending, Points
  <2> QED  BY <1>2, <1>7, <2>1, <2>2 DEF Results
<1>8. ASSUME NEW r \in Req, VmAck(r) PROVE \A q \in Req : SlotChange(q)
  <2>1. ~Resting(r) /\ req[r].op # "register"
    BY <1>8 DEF VmAck, Resting
  <2>2. CASE req' = [req EXCEPT ![r].step = "save"]
    <3>1. /\ req'[r].step = "save" /\ req'[r].id = req[r].id /\ Others(r)
          /\ req'[r].todo = req[r].todo
      BY <1>t, <2>2 DEF TypeOK, Request, Others
    <3> QED  BY <1>o, <2>1, <3>1 DEF SlotChange, Pending
  <2> QED  BY <1>2, <1>8, <2>1, <2>2 DEF VmAck, AfterVm
<1>9. ASSUME NEW r \in Req, SavePath(r) PROVE \A q \in Req : SlotChange(q)
  <2>1. PICK p \in req[r].todo : \/ ToWrite(r)
                                \/ req' = [req EXCEPT ![r].todo = @ \ {p}]
    BY <1>9 DEF SavePath
  <2>2. ~Resting(r) /\ req[r].step = "save" /\ req[r].op # "register"
    BY <1>9 DEF SavePath, Resting
  <2>3. CASE req' = [req EXCEPT ![r].todo = @ \ {p}]
    <3>1. /\ req'[r].step = "save" /\ req'[r].id = req[r].id /\ Others(r)
          /\ req'[r].todo = req[r].todo \ {p}
      BY <1>t, <2>2, <2>3 DEF TypeOK, Request, Others
    <3> QED  BY <1>o, <2>2, <3>1 DEF SlotChange, Pending
  <2>4. CASE ToWrite(r)
    <3>1. /\ req'[r].step = "write" /\ req'[r].id = req[r].id /\ req'[r].todo = {}
          /\ req'[r].op = req[r].op /\ Others(r)
      BY <1>t, <2>4, ToWriteEffect DEF ToWrite, TypeOK, Request
    <3> QED  BY <1>o, <2>2, <3>1 DEF SlotChange, Pending
  <2> QED  BY <2>1, <2>3, <2>4
<1>10. ASSUME NEW w \in Workers, Crash(w) PROVE \A q \in Req : SlotChange(q)
  BY <1>10, <1>t DEF Crash, SlotChange, Resting, Idle, TypeOK
<1>11. CASE UNCHANGED req
  BY <1>11 DEF SlotChange
<1>12. ASSUME NEW r \in Req, Arrival(r) \/ Handler(r) PROVE \A q \in Req : SlotChange(q)
  BY <1>1, <1>2, <1>3, <1>4, <1>5, <1>6, <1>7, <1>9, <1>12
  DEF Arrival, Handler, RegisterRefused, Unauthorized, HeartbeatInvalid, Heartbeat,
      ResultsForeign, VmFails, StorageFails, Resting
<1> QED
  BY <1>8, <1>10, <1>11, <1>12
  DEF Next, Admin, Environment, DeleteProbe, SweepBegin, Sweep, Tick, VmStore, vars

LEMMA LifeInit == Init => LifeInv
  BY DEF Init, LifeInv, TodoIsOwn, PendingIsFresh, Pending, Idle

LEMMA LifeStep == TypeInv /\ LifeInv /\ [Next]_vars => LifeInv'
<1> SUFFICES ASSUME TypeInv, LifeInv, [Next]_vars PROVE LifeInv'
  OBVIOUS
<1>s. \A q \in Req : SlotChange(q)
  BY SlotsChange
<1>r. \A i \in Ids : RowChange(i)
  BY RowsChange
<1>1. TodoIsOwn'
  BY <1>s DEF LifeInv, TodoIsOwn, SlotChange
<1>2. ASSUME NEW r \in Req, Pending(r)' PROVE probes'[req'[r].id].state = "unused"
  <2>1. CASE req'[r] = req[r]
    <3>1. Pending(r) /\ req[r].id \in Ids /\ probes[req[r].id].state = "unused"
      BY <1>2, <2>1 DEF Pending, LifeInv, PendingIsFresh, TypeInv, ServedHasId, Resting
    <3>2. \A q \in Req : Pending(q) /\ req[q].id = req[r].id => q = r
      BY <3>1 DEF LifeInv, PendingIsFresh
    <3> QED  BY <1>r, <1>2, <2>1, <3>1, <3>2 DEF RowChange, Pending
  <2>2. CASE req'[r].id \in FreshIds /\ UNCHANGED probes
    BY <2>2 DEF FreshIds
  <2> QED  BY <1>s, <1>2, <2>1, <2>2 DEF SlotChange, Pending, Resting
<1>3. ASSUME NEW r \in Req, Pending(r)', NEW q \in Req \ {r}
      PROVE  req'[q].id # req'[r].id
  <2>1. CASE req'[r] = req[r]
    <3>1. /\ Pending(r) /\ req[r].id \in Ids /\ probes[req[r].id].state = "unused"
          /\ req[q].id # req[r].id
      BY <1>3, <2>1 DEF Pending, LifeInv, PendingIsFresh, TypeInv, ServedHasId, Resting
    <3>2. None \notin Ids
      BY CoordinatorAssumption
    <3> QED  BY <1>s, <2>1, <3>1, <3>2 DEF SlotChange, Live, FreshIds
  <2>2. CASE req'[r].id \in FreshIds /\ Others(r)
    BY <2>2 DEF FreshIds, Others
  <2> QED  BY <1>s, <1>3, <2>1, <2>2 DEF SlotChange, Pending, Resting
<1> QED  BY <1>1, <1>2, <1>3 DEF LifeInv, PendingIsFresh

(* A removed probe's row never comes back, also when requests that were     *)
(* authenticated before the removal still write (touch_heartbeat,           *)
(* update_heartbeat_meta, register_probe with a fresh uuid).                *)
THEOREM RemovalIsFinal == Spec => GoneForGood
<1>1. TypeInv /\ LifeInv /\ [Next]_vars => [\A i \in Ids : Gone(i) => Gone(i)']_vars
  <2> SUFFICES ASSUME TypeInv, LifeInv, [Next]_vars, NEW i \in Ids, Gone(i) PROVE Gone(i)'
    OBVIOUS
  <2>1. RowChange(i)
    BY RowsChange
  <2>2. \A r \in Req : Pending(r) => req[r].id # i
    BY DEF LifeInv, PendingIsFresh, Gone
  <2> QED  BY <2>1, <2>2 DEF RowChange, Gone
<1> QED
  BY <1>1, TypeInit, TypeStep, LifeInit, LifeStep, PTL DEF Spec, GoneForGood

(* New paths, and points newly sent to VictoriaMetrics, carry the id of a    *)
(* request that is being served.                                            *)
LEMMA StoresChange ==
  ASSUME TypeInv, LifeInv, [Next]_vars,
         NEW p \in (paths' \ paths) \cup (wire' \ wire)
  PROVE  \E r \in Req : ~Resting(r) /\ req[r].id = p.id
<1>1. ASSUME NEW r \in Req, Results(r)
      PROVE  ~Resting(r) /\ req[r].id = p.id
  BY <1>1 DEF Results, ResultPoints, Points, Resting
<1>2. ASSUME NEW r \in Req, SavePath(r)
      PROVE  ~Resting(r) /\ req[r].id = p.id
  <2>1. p \in req[r].todo
    BY <1>2 DEF SavePath, Trim
  <2> QED  BY <1>2, <2>1 DEF SavePath, Resting, LifeInv, TodoIsOwn
<1>3. ASSUME NEW i \in Ids, DeleteProbe(i) PROVE FALSE
  BY <1>3 DEF DeleteProbe
<1>4. CASE UNCHANGED <<paths, wire>>
  BY <1>4
<1>5. CASE VmStore
  BY <1>5 DEF VmStore
<1> QED
  BY <1>1, <1>2, <1>3, <1>4, <1>5
  DEF Next, Arrival, Handler, Admin, Environment, RegisterRefused, Register,
      RegisterCommit, Authenticate, Unauthorized, HeartbeatInvalid, Heartbeat,
      HeartbeatCommit, HeartbeatAnswer, ResultsForeign, VmAck, VmFails, ResultsCommit,
      StorageFails, SweepBegin, Sweep, Crash, Tick, vars

(* VictoriaMetrics stores only what was sent to it before.                  *)
LEMMA StoredWasSent ==
  ASSUME [Next]_vars, NEW p \in vm' \ vm
  PROVE  p \in wire
<1>1. CASE VmStore
  BY <1>1 DEF VmStore
<1>2. CASE UNCHANGED vm
  BY <1>2
<1> QED
  BY <1>1, <1>2
  DEF Next, Arrival, Handler, Admin, Environment, RegisterRefused, Register,
      RegisterCommit, Authenticate, Unauthorized, HeartbeatInvalid, Heartbeat,
      HeartbeatCommit, HeartbeatAnswer, ResultsForeign, Results, VmAck, VmFails,
      SavePath, ResultsCommit, StorageFails, DeleteProbe, SweepBegin, Sweep, Crash,
      Tick, vars

(* Nothing is saved and nothing is sent any more under the id of a removed  *)
(* probe whose last request has ended, though what was sent before may      *)
(* still be stored (authenticated_probe, results).                          *)
THEOREM RemovedIsSilent == Spec => SilentOnceDrained
<1> DEFINE Silent == \A i \in Ids : Gone(i) /\ ~Busy(i) =>
                       /\ ~Busy(i)'
                       /\ \A p \in (paths' \ paths) \cup (wire' \ wire) : p.id # i
                       /\ \A p \in vm' \ vm : p.id = i => p \in wire
<1>1. TypeInv /\ LifeInv /\ [Next]_vars => [Silent]_vars
  <2> SUFFICES ASSUME TypeInv, LifeInv, [Next]_vars, NEW i \in Ids, Gone(i), ~Busy(i)
               PROVE  /\ ~Busy(i)'
                      /\ \A p \in (paths' \ paths) \cup (wire' \ wire) : p.id # i
                      /\ \A p \in vm' \ vm : p.id = i => p \in wire
    OBVIOUS
  <2>1. ~Busy(i)'
    <3> SUFFICES ASSUME NEW r \in Req, req'[r].id = i, ~Resting(r)' PROVE FALSE
      BY DEF Busy
    <3>1. SlotChange(r)
      BY SlotsChange
    <3> QED  BY <3>1 DEF SlotChange, Busy, Gone, Live, FreshIds, Resting
  <2>2. \A p \in (paths' \ paths) \cup (wire' \ wire) : p.id # i
    BY StoresChange DEF Busy
  <2>3. \A p \in vm' \ vm : p.id = i => p \in wire
    BY StoredWasSent
  <2> QED  BY <2>1, <2>2, <2>3
<1> QED
  BY <1>1, TypeInit, TypeStep, LifeInit, LifeStep, PTL DEF Spec, SilentOnceDrained

--------------------------------------------------------------------------------
(* Clock readings with one worker.  A handler writes the clock reading it   *)
(* took before its transaction; as it keeps the event loop in between, no   *)
(* other handler writes a later one first.                                  *)

SingleLoop == \A q, r \in Req : WorkerOf[q] = WorkerOf[r]

RowClock(i) ==
  probes[i].created <= now /\ (probes[i].hb # None => probes[i].hb <= now)

OneHolder == \A q, r \in Req : HoldsLoop(q) /\ HoldsLoop(r) => q = r

(* The row is not newer than what a slot is about to write, and not older   *)
(* than what a slot has written.                                            *)
SlotClock(r) ==
  /\ req[r].at <= now
  /\ req[r].step = "body" => req[r].at = 0
  /\ req[r].step = "write" /\ req[r].op # "register" /\ Live(req[r].id)
       => Seen(req[r].id) <= req[r].at
  /\ req[r].step = "vm" \/ Answered(r)
       => req[r].id \in Ids /\ (Live(req[r].id) => Seen(req[r].id) >= req[r].at)

ClockInv ==
  /\ \A i \in Ids : RowClock(i)
  /\ sweep # None => sweep <= now
  /\ OneHolder
  /\ \A r \in Req : SlotClock(r)

LEMMA ClockInit == Init => ClockInv
  BY CoordinatorAssumption
  DEF Init, ClockInv, RowClock, OneHolder, SlotClock, HoldsLoop, Answered, Idle, Missing

LEMMA SeenType ==
  ASSUME TypeOK, NEW i \in Ids
  PROVE  Seen(i) \in Nat
<1>1. probes[i] \in Row
  BY DEF TypeOK
<1> QED  BY <1>1 DEF Row, Seen

(* A step of slot r's handler that leaves the rows and the clock alone.     *)
LEMMA ClockSlotStep ==
  ASSUME ClockInv, NEW r \in Req, Others(r), UNCHANGED <<probes, sweep, now>>,
         SlotClock(r)', HoldsLoop(r)' => HoldsLoop(r) \/ (LoopFree(r) /\ SingleLoop)
  PROVE  ClockInv'
<1>1. \A q \in Req : SlotClock(q)'
  BY DEF ClockInv, SlotClock, Others, Live, Seen, Answered
<1>2. OneHolder'
  BY DEF ClockInv, OneHolder, HoldsLoop, LoopFree, SingleLoop, Others
<1> QED  BY <1>1, <1>2 DEF ClockInv, RowClock

(* An error answer.                                                         *)
LEMMA ClockRefuse ==
  ASSUME TypeInv, ClockInv, NEW r \in Req, NEW c, c # 200, Refuse(r, c),
         UNCHANGED <<probes, sweep, now>>
  PROVE  ClockInv'
<1>1. /\ req'[r].step = "done" /\ req'[r].code # 200 /\ req'[r].at = 0 /\ Others(r)
  BY RefuseEffect DEF TypeInv, TypeOK, Refuse, Idle, Others
<1>2. SlotClock(r)' /\ ~HoldsLoop(r)'
  BY <1>1 DEF SlotClock, Answered, HoldsLoop, TypeInv, TypeOK
<1> QED  BY <1>1, <1>2, ClockSlotStep

(* Going on to write the row with the present clock reading.                *)
LEMMA ClockToWrite ==
  ASSUME TypeInv, ClockInv, NEW r \in Req, ToWrite(r), req[r].id \in Ids,
         HoldsLoop(r) \/ (LoopFree(r) /\ SingleLoop), UNCHANGED <<probes, sweep, now>>
  PROVE  ClockInv'
<1>1. /\ req'[r].step = "write" /\ req'[r].at = now /\ req'[r].id = req[r].id /\ Others(r)
  BY ToWriteEffect DEF TypeInv
<1>2. Live(req[r].id) => Seen(req[r].id) <= now
  BY DEF ClockInv, RowClock, Seen
<1>3. SlotClock(r)'
  BY <1>1, <1>2 DEF SlotClock, Answered, TypeInv, TypeOK, Live, Seen
<1> QED  BY <1>1, <1>3, ClockSlotStep

(* A handler writes its clock reading into its probe's row.                 *)
LEMMA ClockTouch ==
  ASSUME TypeInv, ClockInv, NEW r \in Req, req[r].step = "write",
         req[r].op # "register", TouchHeartbeat(req[r].id, req[r].at),
         UNCHANGED <<sweep, now>>, Others(r),
         req'[r].step \in {"vm", "done"}, req'[r].id = req[r].id, req'[r].at = req[r].at
  PROVE  ClockInv'
<1> DEFINE i == req[r].id
           t == req[r].at
<1>1. i \in Ids /\ t \in Nat /\ t <= now /\ now \in Nat /\ None \notin Nat
  <2>1. req[r] \in Request
    BY DEF TypeInv, TypeOK
  <2> QED
    BY <2>1, CoordinatorAssumption
    DEF Request, TypeInv, TypeOK, ServedHasId, Resting, ClockInv, SlotClock
<1>2. CASE ~Live(i)
  <2>1. UNCHANGED probes
    BY <1>2 DEF TouchHeartbeat
  <2>2. SlotClock(r)' /\ ~HoldsLoop(r)'
    BY <1>1, <1>2, <2>1 DEF SlotClock, HoldsLoop, Live
  <2> QED  BY <2>1, <2>2, ClockSlotStep
<1>3. CASE Live(i)
  <2>1. probes' = [probes EXCEPT ![i].hb = t]
    BY <1>3 DEF TouchHeartbeat
  <2>2. /\ probes'[i].hb = t /\ probes'[i].created = probes[i].created
        /\ probes'[i].state = probes[i].state
        /\ \A j \in Ids \ {i} : probes'[j] = probes[j]
    <3>1. probes[i] \in Row /\ probes \in [Ids -> Row]
      BY <1>1 DEF TypeInv, TypeOK
    <3> QED  BY <1>1, <2>1, <3>1 DEF Row
  <2>3. Seen(i)' = t /\ Seen(i) <= t
    BY <1>1, <1>3, <2>2 DEF Seen, ClockInv, SlotClock
  <2>4. \A j \in Ids : RowClock(j)'
    BY <1>1, <2>2 DEF RowClock, ClockInv
  <2>5. ~HoldsLoop(r)' /\ OneHolder'
    BY DEF ClockInv, OneHolder, HoldsLoop, Others
  <2>6. SlotClock(r)'
    BY <1>1, <2>3 DEF SlotClock, Answered
  <2>7. ASSUME NEW q \in Req \ {r} PROVE SlotClock(q)'
    <3>1. ~HoldsLoop(q) /\ req'[q] = req[q]
      BY DEF ClockInv, OneHolder, HoldsLoop, Others
    <3>2. req[q] \in Request
      BY DEF TypeInv, TypeOK
    <3>3. CASE req[q].id = i
      <4>1. SlotClock(q) /\ Seen(i) \in Nat /\ req[q].at \in Nat
        BY <1>1, <3>2, SeenType DEF ClockInv, TypeInv, Request
      <4> QED
        BY <1>1, <1>3, <2>3, <3>1, <3>3, <4>1 DEF SlotClock, Answered, HoldsLoop
    <3>4. CASE req[q].id \in Ids \ {i}
      <4>1. SlotClock(q) /\ probes'[req[q].id] = probes[req[q].id]
        BY <2>2, <3>4 DEF ClockInv
      <4> QED
        BY <3>1, <3>4, <4>1 DEF SlotClock, Answered, HoldsLoop, Live, Seen
    <3>5. CASE req[q].id \notin Ids
      BY <3>1, <3>5 DEF SlotClock, Answered, HoldsLoop, ClockInv
    <3> QED  BY <3>3, <3>4, <3>5
  <2> QED  BY <2>4, <2>5, <2>6, <2>7 DEF ClockInv
<1> QED  BY <1>2, <1>3

LEMMA ClockStep ==
  SingleLoop /\ TypeInv /\ LifeInv /\ ClockInv /\ [Next]_vars => ClockInv'
<1> SUFFICES ASSUME SingleLoop, TypeInv, LifeInv, ClockInv, [Next]_vars PROVE ClockInv'
  OBVIOUS
<1>t. TypeOK /\ (\A q \in Req : req[q] \in Request) /\ now \in Nat /\ None \notin Nat
  BY CoordinatorAssumption DEF TypeInv, TypeOK
<1>i. \A q \in Req : ~Resting(q) => req[q].id \in Ids
  BY DEF TypeInv, ServedHasId
<1>1. ASSUME NEW r \in Req, NEW c \in Codes \ {200}, Refuse(r, c), UNCHANGED <<probes, sweep, now>>
      PROVE  ClockInv'
  BY <1>1, ClockRefuse
<1>2. ASSUME NEW r \in Req, Register(r) PROVE ClockInv'
  <2>1. /\ req'[r].step = "write" /\ req'[r].op = "register" /\ req'[r].at = now
        /\ Others(r)
    BY <1>2, <1>t DEF Register, TypeOK, Idle, Others
  <2>2. SlotClock(r)'
    BY <1>2, <1>t, <2>1 DEF Register, SlotClock, Answered
  <2> QED  BY <1>2, <2>1, <2>2, ClockSlotStep DEF Register
<1>3. ASSUME NEW r \in Req, RegisterCommit(r) PROVE ClockInv'
  <2>1. /\ req'[r].step = "done" /\ req'[r].id = req[r].id /\ req'[r].at = req[r].at
        /\ Others(r)
    BY <1>3, <1>t, AnswerEffect DEF RegisterCommit
  <2>2. Pending(r) /\ req[r].id \in Ids /\ req[r].at <= now /\ req[r].at \in Nat
    BY <1>3, <1>t, <1>i DEF RegisterCommit, Pending, Resting, ClockInv, SlotClock, Request
  <2>3. /\ probes'[req[r].id] = [state |-> "live", created |-> req[r].at, hb |-> None]
        /\ \A j \in Ids \ {req[r].id} : probes'[j] = probes[j]
    BY <1>3, <1>t, <2>2 DEF RegisterCommit, TypeOK
  <2>4. \A j \in Ids : RowClock(j)'
    BY <1>3, <2>2, <2>3 DEF RegisterCommit, RowClock, ClockInv
  <2>5. OneHolder'
    BY <2>1 DEF ClockInv, OneHolder, HoldsLoop, Others
  <2>6. SlotClock(r)'
    BY <1>3, <2>1, <2>2, <2>3 DEF RegisterCommit, SlotClock, Answered, Seen
  <2>7. ASSUME NEW q \in Req \ {r} PROVE SlotClock(q)'
    <3>1. req'[q] = req[q] /\ req[q].id # req[r].id /\ SlotClock(q) /\ now' = now
      BY <1>3, <2>1, <2>2 DEF RegisterCommit, Others, LifeInv, PendingIsFresh, ClockInv
    <3>2. CASE req[q].id \in Ids
      BY <2>3, <3>1, <3>2 DEF SlotClock, Answered, Live, Seen
    <3>3. CASE req[q].id \notin Ids
      BY <1>i, <3>1, <3>3 DEF SlotClock, Answered, Resting
    <3> QED  BY <3>2, <3>3
  <2> QED  BY <1>3, <2>4, <2>5, <2>6, <2>7 DEF RegisterCommit, ClockInv
<1>4. ASSUME NEW r \in Req, Authenticate(r) PROVE ClockInv'
  <2>1. req'[r].at = 0
    BY <1>4, <1>t DEF Authenticate, Arrive, TypeOK, Idle
  <2>2. req'[r].step = "body" /\ Others(r)
    BY <1>4, <1>t, ArriveEffect
  <2>3. SlotClock(r)' /\ ~HoldsLoop(r)'
    BY <1>4, <1>t, <2>1, <2>2 DEF Authenticate, SlotClock, Answered, HoldsLoop
  <2> QED  BY <1>4, <2>2, <2>3, ClockSlotStep DEF Authenticate
<1>5. ASSUME NEW r \in Req, ToWrite(r), ~Resting(r), HoldsLoop(r) \/ LoopFree(r),
             UNCHANGED <<probes, sweep, now>>
      PROVE  ClockInv'
  BY <1>5, <1>i, ClockToWrite
<1>6. ASSUME NEW r \in Req, HeartbeatCommit(r) PROVE ClockInv'
  <2>1. /\ req'[r].step = "vm" /\ req'[r].id = req[r].id /\ req'[r].at = req[r].at
        /\ Others(r)
    BY <1>6, <1>t DEF HeartbeatCommit, TypeOK, Request, Others
  <2> QED  BY <1>6, <2>1, ClockTouch DEF HeartbeatCommit
<1>7. ASSUME NEW r \in Req, ResultsCommit(r) PROVE ClockInv'
  <2>1. /\ req'[r].step = "done" /\ req'[r].id = req[r].id /\ req'[r].at = req[r].at
        /\ Others(r)
    BY <1>7, <1>t, AnswerEffect DEF ResultsCommit
  <2> QED  BY <1>7, <2>1, ClockTouch DEF ResultsCommit
<1>8. ASSUME NEW r \in Req, HeartbeatAnswer(r) PROVE ClockInv'
  <2>1. /\ req'[r].step = "done" /\ req'[r].id = req[r].id /\ req'[r].at = req[r].at
        /\ Others(r)
    BY <1>8, <1>t, AnswerEffect DEF HeartbeatAnswer
  <2>2. SlotClock(r)' /\ ~HoldsLoop(r)'
    BY <1>8, <2>1
    DEF HeartbeatAnswer, ClockInv, SlotClock, Answered, HoldsLoop, Live, Seen
  <2> QED  BY <1>8, <2>1, <2>2, ClockSlotStep DEF HeartbeatAnswer
<1>9. ASSUME NEW r \in Req, Results(r) PROVE ClockInv'
  <2>1. CASE ToWrite(r)
    BY <1>5, <1>9, <2>1 DEF Results, Resting
  <2>2. CASE req' = [req EXCEPT ![r].step = "vm",
                                ![r].todo = Points(req[r].id, Traced(req[r].body))]
    <3>1. /\ req'[r].step = "vm" /\ req'[r].id = req[r].id /\ req'[r].at = req[r].at
          /\ Others(r)
      BY <1>t, <2>2 DEF TypeOK, Request, Others
    <3>2. req[r].at = 0 /\ req[r].id \in Ids /\ Seen(req[r].id) \in Nat
      BY <1>9, <1>t, <1>i, SeenType DEF Results, ClockInv, SlotClock, Resting
    <3>3. SlotClock(r)' /\ ~HoldsLoop(r)'
      BY <1>9, <1>t, <3>1, <3>2 DEF Results, SlotClock, Answered, HoldsLoop, Live, Seen
    <3> QED  BY <1>9, <3>1, <3>3, ClockSlotStep DEF Results
  <2> QED  BY <1>9, <2>1, <2>2 DEF Results
<1>10. ASSUME NEW r \in Req, VmAck(r) PROVE ClockInv'
  <2>1. CASE ToWrite(r)
    BY <1>5, <1>10, <2>1 DEF VmAck, Resting
  <2>2. CASE req' = [req EXCEPT ![r].step = "save"]
    <3>1. req'[r].step = "save" /\ req'[r].at = req[r].at /\ Others(r)
      BY <1>t, <2>2 DEF TypeOK, Request, Others
    <3>2. SlotClock(r)'
      BY <1>10, <3>1 DEF VmAck, ClockInv, SlotClock, Answered
    <3> QED  BY <1>10, <3>1, <3>2, ClockSlotStep DEF VmAck
  <2> QED  BY <1>10, <2>1, <2>2 DEF VmAck, AfterVm
<1>11. ASSUME NEW r \in Req, SavePath(r) PROVE ClockInv'
  <2>1. PICK p \in req[r].todo : \/ ToWrite(r)
                                \/ req' = [req EXCEPT ![r].todo = @ \ {p}]
    BY <1>11 DEF SavePath
  <2>2. CASE ToWrite(r)
    BY <1>5, <1>11, <2>2 DEF SavePath, Resting, HoldsLoop
  <2>3. CASE req' = [req EXCEPT ![r].todo = @ \ {p}]
    <3>0. req[r].step = "save" /\ UNCHANGED <<probes, sweep, now>>
      BY <1>11 DEF SavePath
    <3>1. req'[r].step = "save" /\ req'[r].at = req[r].at /\ Others(r)
      BY <1>t, <2>3, <3>0 DEF TypeOK, Request, Others
    <3>2. SlotClock(r)'
      BY <3>0, <3>1 DEF ClockInv, SlotClock, Answered
    <3> QED  BY <3>0, <3>1, <3>2, ClockSlotStep DEF HoldsLoop
  <2> QED  BY <2>1, <2>2, <2>3
<1>12. ASSUME UNCHANGED <<req, now>>, sweep' \in {sweep, None, now},
              \A i \in Ids : probes'[i] = probes[i] \/ (~Live(i)' /\ RowClock(i)')
       PROVE  ClockInv'
  <2>1. \A i \in Ids : RowClock(i)'
    BY <1>12 DEF ClockInv, RowClock
  <2>2. sweep' # None => sweep' <= now'
    BY <1>12, <1>t DEF ClockInv
  <2>3. ASSUME NEW q \in Req PROVE SlotClock(q)'
    <3>1. SlotClock(q) /\ (~Resting(q) \/ Answered(q) => req[q].id \in Ids)
      BY <1>i DEF ClockInv, SlotClock
    <3> QED  BY <1>12, <3>1 DEF SlotClock, Answered, Live, Seen, Resting
  <2> QED  BY <1>12, <2>1, <2>2, <2>3 DEF ClockInv, OneHolder, HoldsLoop
<1>13. ASSUME NEW i \in Ids, DeleteProbe(i) PROVE ClockInv'
  <2>1. \A j \in Ids : probes'[j] = IF j = i THEN Missing("deleted") ELSE probes[j]
    BY <1>13, <1>t DEF DeleteProbe, TypeOK
  <2>2. \A j \in Ids : probes'[j] = probes[j] \/ (~Live(j)' /\ RowClock(j)')
    BY <1>13, <1>t, <2>1 DEF DeleteProbe, Live, RowClock, Missing
  <2> QED  BY <1>12, <1>13, <2>2 DEF DeleteProbe
<1>14. CASE SweepBegin
  BY <1>12, <1>14 DEF SweepBegin
<1>15. CASE Sweep
  <2>1. \A j \in Ids : probes'[j] = probes[j] \/ (~Live(j)' /\ RowClock(j)')
    BY <1>15, <1>t DEF Sweep, Live, RowClock, Missing
  <2> QED  BY <1>12, <1>15, <2>1 DEF Sweep
<1>16. ASSUME NEW w \in Workers, Crash(w) PROVE ClockInv'
  <2>1. \A q \in Req : req'[q] = req[q] \/ req'[q] = Idle
    BY <1>16, <1>t DEF Crash, TypeOK
  <2>2. OneHolder'
    BY <2>1 DEF ClockInv, OneHolder, HoldsLoop, Idle
  <2>3. \A q \in Req : SlotClock(q)'
    BY <1>16, <1>t, <2>1 DEF Crash, ClockInv, SlotClock, Answered, Idle, Live, Seen
  <2> QED  BY <1>16, <2>2, <2>3 DEF Crash, ClockInv, RowClock
<1>17. CASE Tick
  <2>1. now <= now' /\ now' \in Nat /\ UNCHANGED <<probes, req, sweep>>
    BY <1>17, <1>t DEF Tick
  <2>2. \A i \in Ids : RowClock(i)'
    <3>1. \A i \in Ids : probes[i] \in Row
      BY <1>t DEF TypeOK
    <3> QED  BY <1>t, <2>1, <3>1 DEF ClockInv, RowClock, Row
  <2>3. \A q \in Req : SlotClock(q)'
    BY <1>t, <2>1 DEF ClockInv, SlotClock, Answered, Live, Seen, Request
  <2>4. sweep' # None => sweep' <= now'
    BY <1>t, <2>1 DEF ClockInv, TypeOK
  <2> QED  BY <2>1, <2>2, <2>3, <2>4 DEF ClockInv, OneHolder, HoldsLoop
<1>18. CASE UNCHANGED vars \/ VmStore
  BY <1>12, <1>18 DEF vars, VmStore
<1>19. ASSUME NEW r \in Req, Arrival(r) \/ Handler(r) PROVE ClockInv'
  BY <1>1, <1>2, <1>3, <1>4, <1>5, <1>6, <1>7, <1>8, <1>9, <1>11, <1>19
  DEF Arrival, Handler, RegisterRefused, Unauthorized, HeartbeatInvalid, Heartbeat,
      ResultsForeign, VmFails, StorageFails, Resting, Codes
<1> QED
  BY <1>10, <1>13, <1>14, <1>15, <1>16, <1>17, <1>18, <1>19
  DEF Next, Admin, Environment

(* With one worker no answered contact is ever overwritten by an older      *)
(* clock reading (touch_heartbeat, update_heartbeat_meta, register_probe).  *)
THEOREM AnsweredIsRecorded == ASSUME SingleLoop PROVE Spec => []AckedContactIsRecorded
<1>1. ClockInv => AckedContactIsRecorded
  BY DEF ClockInv, SlotClock, AckedContactIsRecorded
<1>2. TypeInv /\ LifeInv /\ ClockInv /\ [Next]_vars => ClockInv'
  BY ClockStep
<1> QED
  BY <1>1, <1>2, TypeInit, TypeStep, LifeInit, LifeStep, ClockInit, PTL DEF Spec

(* With one worker a sweep removes no probe that was answered within the    *)
(* Window (delete_dead_probes).                                             *)
THEOREM SweepIsSafe == ASSUME SingleLoop PROVE Spec => SweepSparesAnswered
<1> DEFINE Spared == \A i \in Ids : Live(i) /\ probes'[i].state = "swept" =>
                       \A r \in Req :
                         Answered(r) /\ req[r].id = i => req[r].at + Window < now
<1>1. TypeInv /\ ClockInv /\ [Next]_vars => [Spared]_vars
  <2> SUFFICES ASSUME TypeInv, ClockInv, [Next]_vars, NEW i \in Ids, Live(i),
                      probes'[i].state = "swept", NEW r \in Req, Answered(r), req[r].id = i
               PROVE  req[r].at + Window < now
    OBVIOUS
  <2>1. Sweep
    <3>1. CASE UNCHANGED probes
      BY <3>1 DEF Live
    <3>2. ASSUME NEW q \in Req, RegisterCommit(q) PROVE FALSE
      BY <3>2 DEF RegisterCommit, TypeInv, TypeOK, Live
    <3>3. ASSUME NEW q \in Req, HeartbeatCommit(q) \/ ResultsCommit(q) PROVE FALSE
      <4>1. req[q].id \in Ids /\ TouchHeartbeat(req[q].id, req[q].at)
        BY <3>3 DEF HeartbeatCommit, ResultsCommit, TypeInv, ServedHasId, Resting
      <4> QED  BY <4>1, TouchKeepsState DEF TypeInv, Live
    <3>4. ASSUME NEW j \in Ids, DeleteProbe(j) PROVE FALSE
      BY <3>4 DEF DeleteProbe, TypeInv, TypeOK, Live, Missing
    <3> QED
      BY <3>1, <3>2, <3>3, <3>4
      DEF Next, Arrival, Handler, Admin, Environment, RegisterRefused, Register,
          Authenticate, Unauthorized, HeartbeatInvalid, Heartbeat, HeartbeatAnswer,
          ResultsForeign, Results, VmAck, VmFails, SavePath, StorageFails, SweepBegin,
          Crash, Tick, VmStore, vars
  <2>2. Seen(i) + Window < sweep /\ sweep # None
    BY <2>1 DEF Sweep, Dead, Live
  <2>3. req[r].at <= Seen(i) /\ sweep <= now
    BY <2>2 DEF ClockInv, SlotClock
  <2>4. /\ req[r].at \in Nat /\ Seen(i) \in Nat /\ sweep \in Nat /\ now \in Nat
        /\ Window \in Nat
    <3>1. req[r] \in Request
      BY DEF TypeInv, TypeOK
    <3> QED
      BY <2>2, <3>1, SeenType, CoordinatorAssumption DEF TypeInv, TypeOK, Request
  <2> QED  BY <2>2, <2>3, <2>4
<1>2. TypeInv /\ LifeInv /\ ClockInv /\ [Next]_vars => ClockInv'
  BY ClockStep
<1> QED
  BY <1>1, <1>2, TypeInit, TypeStep, LifeInit, LifeStep, ClockInit, PTL
  DEF Spec, SweepSparesAnswered

--------------------------------------------------------------------------------
(* Newer and Newest, the operators behind the retention.                    *)

LEMMA NewerFacts ==
  ASSUME NEW S \in SUBSET Point, NEW T \in SUBSET S, IsFiniteSet(S), NEW q
  PROVE  /\ Newer(T, q) \subseteq Newer(S, q)
         /\ IsFiniteSet(Newer(S, q)) /\ IsFiniteSet(Newer(T, q))
         /\ Cardinality(Newer(S, q)) \in Nat /\ Cardinality(Newer(T, q)) \in Nat
         /\ Cardinality(Newer(T, q)) <= Cardinality(Newer(S, q))
<1>1. Newer(T, q) \in SUBSET Newer(S, q) /\ Newer(S, q) \in SUBSET S
  BY DEF Newer
<1>2. IsFiniteSet(Newer(S, q))
  BY <1>1, FS_Subset
<1>3. IsFiniteSet(Newer(T, q)) /\ Cardinality(Newer(T, q)) <= Cardinality(Newer(S, q))
  BY <1>1, <1>2, FS_Subset
<1> QED  BY <1>1, <1>2, <1>3, FS_CardinalityType

(* What is newer than a newer path is strictly less.                        *)
LEMMA NewerDecreases ==
  ASSUME NEW S \in SUBSET Point, NEW q \in Point, NEW x \in Newer(S, q)
  PROVE  /\ Newer(S, x) \subseteq Newer(S, q)
         /\ x \notin Newer(S, x)
<1>1. \A y \in Point : y.ts \in Nat
  BY CoordinatorAssumption DEF Point
<1>2. x \in Point
  BY DEF Newer
<1> QED  BY <1>1, <1>2 DEF Newer

(* A path that gave way did so to Retention newer ones that have not given  *)
(* way themselves.                                                          *)
LEMMA NewestSuffices ==
  ASSUME NEW S \in SUBSET Point, IsFiniteSet(S), NEW q \in Point,
         Cardinality(Newer(S, q)) >= Retention
  PROVE  Cardinality(Newer(Newest(S), q)) >= Retention
<1>n. Newest(S) \in SUBSET S
  BY DEF Newest
<1>1. CASE Newer(S, q) \subseteq Newest(S)
  <2>1. Newer(Newest(S), q) = Newer(S, q)
    BY <1>1, <1>n DEF Newer
  <2> QED  BY <2>1
<1>2. CASE ~(Newer(S, q) \subseteq Newest(S))
  <2> DEFINE Lost == Newer(S, q) \ Newest(S)
             above == {Newer(S, x) : x \in Lost}
  <2>1. above # {} /\ above \subseteq FiniteSubsetsOf(S)
    <3>1. \A x : Newer(S, x) \in SUBSET S
      BY DEF Newer
    <3>2. \A x : IsFiniteSet(Newer(S, x))
      BY <3>1, FS_Subset
    <3> QED  BY <1>2, <3>1, <3>2 DEF FiniteSubsetsOf
  <2>2. PICK N \in above : \A M \in above : <<M, N>> \notin StrictSubsetOrdering(S)
    <3> HIDE DEF above
    <3> QED  BY <2>1, FS_StrictSubsetOrderingWellFounded, WFMin
  <2>3. PICK x \in Lost : N = Newer(S, x)
    BY <2>2
  <2>4. x \in S /\ x \in Point /\ N \subseteq Newer(S, q)
    BY <2>3, NewerDecreases DEF Newer
  <2>5. N \subseteq Newest(S)
    <3> SUFFICES ASSUME NEW y \in N, y \notin Newest(S) PROVE FALSE
      OBVIOUS
    <3>1. Newer(S, y) \in above
      BY <2>4
    <3>2. Newer(S, y) \subseteq N /\ y \notin Newer(S, y)
      BY <2>3, <2>4, NewerDecreases
    <3>3. Newer(S, y) \subseteq S /\ N \subseteq S
      BY <2>3 DEF Newer
    <3>4. <<Newer(S, y), N>> \in StrictSubsetOrdering(S)
      BY <3>2, <3>3 DEF StrictSubsetOrdering
    <3> QED  BY <2>2, <3>1, <3>4
  <2>6. N \in SUBSET Newer(Newest(S), q)
    BY <2>4, <2>5 DEF Newer
  <2>7. Cardinality(N) >= Retention
    <3>1. Cardinality(N) \in Nat
      BY <2>3, NewerFacts
    <3> QED  BY <2>3, <2>4, <3>1, CoordinatorAssumption DEF Newest
  <2>8. /\ IsFiniteSet(Newer(Newest(S), q)) /\ Cardinality(Newer(Newest(S), q)) \in Nat
        /\ Cardinality(N) \in Nat /\ Cardinality(N) <= Cardinality(Newer(Newest(S), q))
    <3>1. IsFiniteSet(Newer(Newest(S), q)) /\ Cardinality(Newer(Newest(S), q)) \in Nat
      BY <1>n, NewerFacts
    <3>2. IsFiniteSet(N) /\ Cardinality(N) <= Cardinality(Newer(Newest(S), q))
      BY <2>6, <3>1, FS_Subset
    <3> QED  BY <3>1, <3>2, FS_CardinalityType
  <2> QED  BY <2>7, <2>8, CoordinatorAssumption
<1> QED  BY <1>1, <1>2

(* Adding a path to the newest ones and trimming its own pair gives the     *)
(* newest of all, whatever was trimmed before (save_traceroute_path).       *)
LEMMA TrimKeepsNewest ==
  ASSUME NEW S \in SUBSET Point, IsFiniteSet(S), NEW p \in Point
  PROVE  Trim(Newest(S) \cup {p}, p) = Newest(S \cup {p})
<1> DEFINE All == S \cup {p}
           Kept == Newest(S) \cup {p}
<1>1. /\ All \in SUBSET Point /\ IsFiniteSet(All)
      /\ S \in SUBSET All /\ Kept \in SUBSET All /\ Newest(S) \in SUBSET S
      /\ Newest(All) \in SUBSET All
  BY FS_AddElement DEF Newest
<1>2. Newest(All) \in SUBSET Kept
  <2> SUFFICES ASSUME NEW q \in Newest(All), q # p PROVE q \in Newest(S)
    BY <1>1
  <2>1. q \in S /\ Cardinality(Newer(All, q)) < Retention
    BY <1>1 DEF Newest
  <2>2. /\ Cardinality(Newer(S, q)) \in Nat /\ Cardinality(Newer(All, q)) \in Nat
        /\ Cardinality(Newer(S, q)) <= Cardinality(Newer(All, q))
    <3> HIDE DEF All
    <3> QED  BY <1>1, NewerFacts
  <2> QED  BY <2>1, <2>2, CoordinatorAssumption DEF Newest
<1>3. ASSUME NEW q \in All, q.id = p.id, q.meas = p.meas
      PROVE  q \in Trim(Kept, p) <=> q \in Newest(All)
  <2>1. /\ Cardinality(Newer(Kept, q)) \in Nat /\ Cardinality(Newer(All, q)) \in Nat
        /\ Cardinality(Newer(Kept, q)) <= Cardinality(Newer(All, q))
    <3> HIDE DEF All, Kept
    <3> QED  BY <1>1, NewerFacts
  <2>2. q \in Newest(All) => q \in Trim(Kept, p)
    BY <1>2, <2>1, CoordinatorAssumption DEF Newest, Trim
  <2>3. ASSUME Cardinality(Newer(All, q)) >= Retention
        PROVE  Cardinality(Newer(Kept, q)) >= Retention
    <3>1. Cardinality(Newer(Newest(All), q)) >= Retention
      <4> HIDE DEF All
      <4> QED  BY <1>1, <2>3, NewestSuffices
    <3>2. /\ Cardinality(Newer(Newest(All), q)) \in Nat
          /\ Cardinality(Newer(Newest(All), q)) <= Cardinality(Newer(Kept, q))
      <4>1. Kept \in SUBSET Point /\ IsFiniteSet(Kept)
        BY <1>1, FS_Subset
      <4> HIDE DEF All, Kept
      <4> QED  BY <1>2, <4>1, NewerFacts
    <3> QED  BY <2>1, <3>1, <3>2, CoordinatorAssumption
  <2>4. q \in Trim(Kept, p) => q \in Newest(All)
    BY <1>3, <2>1, <2>3, CoordinatorAssumption DEF Newest, Trim
  <2> QED  BY <2>2, <2>4
<1>4. ASSUME NEW q \in All, ~(q.id = p.id /\ q.meas = p.meas)
      PROVE  q \in Trim(Kept, p) <=> q \in Newest(All)
  <2>1. Newer(All, q) = Newer(S, q) /\ q # p
    BY <1>4 DEF Newer
  <2> QED  BY <1>4, <2>1 DEF Newest, Trim
<1>5. Trim(Kept, p) \in SUBSET All
  BY <1>1 DEF Trim
<1> QED  BY <1>1, <1>3, <1>4, <1>5

(* Deleting a client's paths from the newest ones gives the newest of what  *)
(* is left (delete_probe).                                                  *)
LEMMA DeleteKeepsNewest ==
  ASSUME NEW S \in SUBSET Point, NEW i
  PROVE  {p \in Newest(S) : p.id # i} = Newest({p \in S : p.id # i})
<1> DEFINE Left == {p \in S : p.id # i}
<1>1. \A q \in Left : Newer(Left, q) = Newer(S, q)
  BY DEF Newer
<1> QED  BY <1>1 DEF Newest

--------------------------------------------------------------------------------
(* The table of paths                                                       *)

NewestInv == KeepsNewest /\ IsFiniteSet(saved)

(* What a step can do to the table.                                         *)
LEMMA PathsChange ==
  ASSUME TypeInv, [Next]_vars
  PROVE  \/ UNCHANGED <<paths, saved>>
         \/ \E p \in Point : paths' = Trim(paths \cup {p}, p) /\ saved' = saved \cup {p}
         \/ \E i \in Ids : /\ paths' = {p \in paths : p.id # i}
                           /\ saved' = {p \in saved : p.id # i}
                           /\ ~Live(i)'
<1>1. ASSUME NEW r \in Req, SavePath(r)
      PROVE  \E p \in Point : paths' = Trim(paths \cup {p}, p) /\ saved' = saved \cup {p}
  <2>1. req[r].todo \subseteq Point
    BY DEF TypeInv, TypeOK, Request
  <2> QED  BY <1>1, <2>1 DEF SavePath
<1>2. ASSUME NEW i \in Ids, DeleteProbe(i)
      PROVE  /\ paths' = {p \in paths : p.id # i} /\ saved' = {p \in saved : p.id # i}
             /\ ~Live(i)'
  BY <1>2 DEF DeleteProbe, Live, Missing, TypeInv, TypeOK
<1>3. ASSUME NEW r \in Req, Arrival(r) \/ Handler(r) \/ VmAck(r), ~SavePath(r)
      PROVE  UNCHANGED <<paths, saved>>
  BY <1>3
  DEF Arrival, Handler, RegisterRefused, Register, RegisterCommit, Authenticate,
      Unauthorized, HeartbeatInvalid, Heartbeat, HeartbeatCommit, HeartbeatAnswer,
      ResultsForeign, Results, VmAck, VmFails, ResultsCommit, StorageFails
<1>4. CASE SweepBegin \/ Sweep \/ Environment \/ UNCHANGED vars
  BY <1>4 DEF SweepBegin, Sweep, Environment, Crash, Tick, VmStore, vars
<1> QED  BY <1>1, <1>2, <1>3, <1>4 DEF Next, Admin

LEMMA NewestInit == Init => NewestInv
  BY FS_EmptySet DEF Init, NewestInv, KeepsNewest, Newest

LEMMA NewestStep == TypeInv /\ NewestInv /\ [Next]_vars => NewestInv'
<1> SUFFICES ASSUME TypeInv, NewestInv, [Next]_vars PROVE NewestInv'
  OBVIOUS
<1>0. saved \in SUBSET Point /\ paths = Newest(saved) /\ IsFiniteSet(saved)
  BY DEF TypeInv, TypeOK, NewestInv, KeepsNewest
<1>1. CASE UNCHANGED <<paths, saved>>
  BY <1>0, <1>1 DEF NewestInv, KeepsNewest, Newest
<1>2. ASSUME NEW p \in Point, paths' = Trim(paths \cup {p}, p), saved' = saved \cup {p}
      PROVE  NewestInv'
  <2>1. paths' = Newest(saved \cup {p}) /\ IsFiniteSet(saved \cup {p})
    BY <1>0, <1>2, TrimKeepsNewest, FS_AddElement
  <2> QED  BY <1>2, <2>1 DEF NewestInv, KeepsNewest, Newest
<1>3. ASSUME NEW i \in Ids, paths' = {p \in paths : p.id # i}, saved' = {p \in saved : p.id # i}
      PROVE  NewestInv'
  <2>1. paths' = Newest({p \in saved : p.id # i}) /\ {p \in saved : p.id # i} \in SUBSET saved
    BY <1>0, <1>3, DeleteKeepsNewest
  <2>2. IsFiniteSet({p \in saved : p.id # i})
    BY <1>0, <2>1, FS_Subset
  <2> QED  BY <1>3, <2>1, <2>2 DEF NewestInv, KeepsNewest, Newest
<1> QED  BY <1>1, <1>2, <1>3, PathsChange

(* The stored paths of a client and measurement are the newest Retention of *)
(* all that were saved, in whatever order they arrived, although each save  *)
(* sees only what the earlier ones left (save_traceroute_path).             *)
THEOREM NewestAreKept == Spec => []KeepsNewest
<1>1. NewestInv => KeepsNewest
  BY DEF NewestInv
<1> QED  BY <1>1, TypeInit, TypeStep, NewestInit, NewestStep, PTL DEF Spec

(* The table implements the path history its readers are promised: a save   *)
(* is a Save, a delete a Forget, every other step leaves what they see.     *)
THEOREM ImplementsHistory == Spec => KeepsHistory
<1>1. Init => History!Init
  BY DEF Init, History!Init
<1>2. TypeInv /\ NewestInv /\ NewestInv' /\ TypeInv' /\ [Next]_vars => [History!Next]_paths
  <2> SUFFICES ASSUME TypeInv, NewestInv, NewestInv', TypeInv', [Next]_vars
               PROVE  [History!Next]_paths
    OBVIOUS
  <2>0. /\ saved' \in SUBSET Point /\ IsFiniteSet(saved') /\ paths' = Newest(saved')
        /\ paths \subseteq saved /\ Point = History!Path
    BY DEF TypeInv, TypeOK, NewestInv, KeepsNewest, Newest, Point, History!Path
  <2>1. CASE UNCHANGED paths
    BY <2>1
  <2>2. ASSUME NEW p \in Point, paths' = Trim(paths \cup {p}, p), saved' = saved \cup {p}
        PROVE  History!Save(p)
    <3>1. paths' \subseteq paths \cup {p}
      BY <2>2 DEF Trim
    <3>2. ASSUME NEW q PROVE History!NewerShown(q)' = Newer(paths', q)
      BY DEF History!NewerShown, History!SamePair, Newer
    <3>3. ASSUME NEW q \in paths' PROVE Cardinality(Newer(paths', q)) < Retention
      <4>1. Cardinality(Newer(saved', q)) < Retention /\ paths' \in SUBSET saved'
        BY <2>0 DEF Newest
      <4>2. /\ Cardinality(Newer(paths', q)) \in Nat /\ Cardinality(Newer(saved', q)) \in Nat
            /\ Cardinality(Newer(paths', q)) <= Cardinality(Newer(saved', q))
        BY <2>0, <4>1, NewerFacts
      <4> QED  BY <4>1, <4>2, CoordinatorAssumption
    <3>4. ASSUME NEW q \in (paths \cup {p}) \ paths'
          PROVE  History!SamePair(p, q) /\ Cardinality(Newer(paths', q)) >= Retention
      <4>1. q.id = p.id /\ q.meas = p.meas
        BY <2>2 DEF Trim
      <4>2. q \in saved' /\ q \in Point /\ q \notin Newest(saved')
        BY <2>0, <2>2
      <4>3. Cardinality(Newer(saved', q)) \in Nat
        BY <2>0, NewerFacts
      <4>4. Cardinality(Newer(saved', q)) >= Retention
        BY <4>2, <4>3, CoordinatorAssumption DEF Newest
      <4> QED  BY <2>0, <4>1, <4>2, <4>4, NewestSuffices DEF History!SamePair
    <3>5. \A S : History!Cardinality(S) = Cardinality(S)
      BY DEF History!Cardinality, Cardinality
    <3> QED  BY <3>1, <3>2, <3>3, <3>4, <3>5 DEF History!Save
  <2>3. ASSUME NEW i \in Ids, paths' = {p \in paths : p.id # i} PROVE History!Forget(i)
    BY <2>3 DEF History!Forget
  <2> QED  BY <2>0, <2>1, <2>2, <2>3, PathsChange DEF History!Next
<1> QED
  BY <1>1, <1>2, TypeInit, TypeStep, NewestInit, NewestStep, PTL
  DEF Spec, KeepsHistory, History!Spec

--------------------------------------------------------------------------------
(* What was answered is stored.                                             *)

TracedPoints(r) == Points(req[r].id, Traced(req[r].body))

(* A batch on its way: before it is sent to VictoriaMetrics its paths wait  *)
(* in the slot; afterwards its points are stored, and each path is saved or *)
(* still waits, unless the probe was removed meanwhile.                     *)
BatchIsKept(r) ==
  req[r].op = "results" =>
    /\ req[r].id \in Ids
    /\ req[r].step = "vm" => req[r].todo = TracedPoints(r)
    /\ req[r].step \in {"save", "write", "done"} =>
         /\ ResultPoints(r) \subseteq vm
         /\ Live(req[r].id) => TracedPoints(r) \subseteq saved \cup req[r].todo
    /\ req[r].step \in {"write", "done"} => req[r].todo = {}

BatchInv == \A r \in Req : BatchIsKept(r)

(* What a step can do to the other stores, and that no removed probe comes  *)
(* back under a batch.                                                      *)
LEMMA StoresGrow ==
  ASSUME TypeInv, LifeInv, [Next]_vars
  PROVE  /\ vm \subseteq vm'
         /\ \A p \in saved : p \in saved' \/ ~Live(p.id)'
         /\ \A r \in Req, i \in Ids :
              req[r].op = "results" /\ req[r].id = i /\ Live(i)' => Live(i)
<1>1. vm \subseteq vm'
  BY DEF Next, Arrival, Handler, Admin, Environment, RegisterRefused, Register,
      RegisterCommit, Authenticate, Unauthorized, HeartbeatInvalid, Heartbeat,
      HeartbeatCommit, HeartbeatAnswer, ResultsForeign, Results, VmAck, VmFails,
      SavePath, ResultsCommit, StorageFails, DeleteProbe, SweepBegin, Sweep, Crash,
      Tick, VmStore, vars
<1>2. ASSUME NEW p \in saved, p \notin saved' PROVE ~Live(p.id)'
  BY <1>2, PathsChange
<1>3. ASSUME NEW r \in Req, NEW i \in Ids, req[r].op = "results", req[r].id = i, Live(i)'
      PROVE  Live(i)
  <2>1. RowChange(i)
    BY RowsChange
  <2>2. ASSUME NEW q \in Req, Pending(q) PROVE req[q].id # i
    BY <1>3, <2>2 DEF LifeInv, PendingIsFresh, Pending
  <2> QED  BY <1>3, <2>1, <2>2 DEF RowChange, Live, Gone
<1> QED  BY <1>1, <1>2, <1>3

(* The slot keeps what it is about, and what it may take off its list has   *)
(* been saved.                                                              *)
LEMMA BatchFrame ==
  ASSUME TypeInv, LifeInv, BatchInv, [Next]_vars, NEW r \in Req,
         req[r].op = "results", req'[r].op = req[r].op, req'[r].id = req[r].id,
         req'[r].body = req[r].body,
         req[r].step \in {"save", "write", "done"},
         req'[r].step \in {"save", "write", "done"},
         req'[r].step \in {"write", "done"} => req'[r].todo = {},
         \A p \in req[r].todo : p \in saved' \cup req'[r].todo
  PROVE  BatchIsKept(r)'
<1>1. BatchIsKept(r)
  BY DEF BatchInv
<1>2. ResultPoints(r)' = ResultPoints(r) /\ TracedPoints(r)' = TracedPoints(r)
  BY DEF ResultPoints, TracedPoints
<1>3. \A p \in TracedPoints(r) : p.id = req[r].id
  BY DEF TracedPoints, Points
<1>4. ASSUME NEW i \in Ids, req[r].id = i, Live(i)'
      PROVE  TracedPoints(r) \subseteq saved' \cup req'[r].todo
  <2>1. Live(i)
    BY <1>4, StoresGrow
  <2>2. TracedPoints(r) \subseteq saved \cup req[r].todo
    BY <1>1, <1>4, <2>1 DEF BatchIsKept
  <2>3. \A p \in saved : p.id = i => p \in saved'
    BY <1>4, StoresGrow
  <2> QED  BY <1>3, <1>4, <2>2, <2>3
<1>5. ResultPoints(r) \subseteq vm'
  BY <1>1, StoresGrow DEF BatchIsKept
<1> QED  BY <1>1, <1>2, <1>4, <1>5 DEF BatchIsKept, Live

LEMMA BatchSame ==
  ASSUME TypeInv, LifeInv, BatchInv, [Next]_vars, NEW r \in Req, req'[r] = req[r]
  PROVE  BatchIsKept(r)'
<1>1. BatchIsKept(r)
  BY DEF BatchInv
<1>2. CASE req[r].op # "results"
  BY <1>2 DEF BatchIsKept
<1>3. CASE req[r].op = "results" /\ req[r].step \in {"save", "write", "done"}
  BY <1>1, <1>3, BatchFrame DEF BatchIsKept
<1>4. CASE req[r].op = "results" /\ req[r].step \notin {"save", "write", "done"}
  BY <1>1, <1>4 DEF BatchIsKept, TracedPoints
<1> QED  BY <1>2, <1>3, <1>4

LEMMA BatchStep == TypeInv /\ LifeInv /\ BatchInv /\ [Next]_vars => BatchInv'
<1> SUFFICES ASSUME TypeInv, LifeInv, BatchInv, [Next]_vars, NEW r \in Req
             PROVE  BatchIsKept(r)'
  BY DEF BatchInv
<1>t. TypeOK /\ req[r] \in Request /\ BatchIsKept(r)
  BY DEF TypeInv, TypeOK, BatchInv
<1>1. CASE req'[r] = req[r]
  BY <1>1, BatchSame
<1>2. CASE req'[r].op # "results"
  BY <1>2 DEF BatchIsKept
<1>3. CASE Authenticate(r)
  BY <1>3, <1>t, ArriveEffect DEF BatchIsKept
<1>4. CASE Heartbeat(r) \/ HeartbeatCommit(r) \/ HeartbeatAnswer(r) \/ RegisterCommit(r)
  <2>1. req'[r].op = req[r].op /\ req[r].op # "results"
    BY <1>4, <1>t, ToWriteEffect, AnswerEffect
    DEF Heartbeat, HeartbeatCommit, HeartbeatAnswer, RegisterCommit, TypeOK, Request
  <2> QED  BY <1>2, <2>1
<1>5. CASE Results(r)
  <2>0. req[r].op = "results" /\ req[r].id \in Ids
    BY <1>5, <1>t DEF Results, BatchIsKept
  <2>1. CASE Accepted(req[r].body) = {} /\ ToWrite(r)
    <3>1. /\ req'[r].step = "write" /\ req'[r].op = req[r].op /\ req'[r].id = req[r].id
          /\ req'[r].body = req[r].body
      BY <1>t, <2>1, ToWriteEffect
    <3>2. req'[r].todo = {}
      BY <1>t, <2>1 DEF ToWrite, TypeOK, Request
    <3>3. ResultPoints(r)' = {} /\ TracedPoints(r)' = {}
      BY <2>1, <3>1 DEF ResultPoints, TracedPoints, Points, Traced
    <3> QED  BY <2>0, <3>1, <3>2, <3>3 DEF BatchIsKept
  <2>2. CASE req' = [req EXCEPT ![r].step = "vm", ![r].todo = TracedPoints(r)]
    <3>1. /\ req'[r].step = "vm" /\ req'[r].id = req[r].id /\ req'[r].body = req[r].body
          /\ req'[r].todo = TracedPoints(r)
      BY <1>t, <2>2 DEF TypeOK, Request
    <3>2. TracedPoints(r)' = TracedPoints(r)
      BY <3>1 DEF TracedPoints
    <3> QED  BY <2>0, <3>1, <3>2 DEF BatchIsKept
  <2> QED  BY <1>5, <2>1, <2>2 DEF Results, TracedPoints
<1>6. CASE VmAck(r)
  <2>0. req[r].op = "results" /\ req[r].id \in Ids /\ req[r].todo = TracedPoints(r)
    BY <1>6, <1>t DEF VmAck, BatchIsKept
  <2>1. /\ req'[r].id = req[r].id /\ req'[r].body = req[r].body
        /\ \/ req'[r].step = "write" /\ req'[r].todo = {} /\ req[r].todo = {}
           \/ req'[r].step = "save" /\ req'[r].todo = req[r].todo
    <3>1. CASE req[r].todo = {} /\ ToWrite(r)
      BY <1>t, <3>1 DEF ToWrite, TypeOK, Request
    <3>2. CASE req' = [req EXCEPT ![r].step = "save"]
      BY <1>t, <3>2 DEF TypeOK, Request
    <3> QED  BY <1>6, <3>1, <3>2 DEF VmAck, AfterVm
  <2>2. ResultPoints(r)' = ResultPoints(r) /\ TracedPoints(r)' = TracedPoints(r)
    BY <2>1 DEF ResultPoints, TracedPoints
  <2>3. ResultPoints(r) \subseteq vm'
    BY <1>6 DEF VmAck
  <2> QED  BY <2>0, <2>1, <2>2, <2>3 DEF BatchIsKept
<1>7. CASE SavePath(r)
  <2>0. req[r].op = "results" /\ req[r].step = "save"
    BY <1>7 DEF SavePath
  <2>1. PICK p \in req[r].todo :
          /\ saved' = saved \cup {p}
          /\ IF req[r].todo = {p} THEN ToWrite(r) ELSE req' = [req EXCEPT ![r].todo = @ \ {p}]
    BY <1>7 DEF SavePath
  <2>2. /\ req'[r].op = req[r].op /\ req'[r].id = req[r].id /\ req'[r].body = req[r].body
        /\ \/ req'[r].step = "write" /\ req'[r].todo = {} /\ req[r].todo = {p}
           \/ req'[r].step = "save" /\ req'[r].todo = req[r].todo \ {p}
    <3>1. CASE req[r].todo = {p} /\ ToWrite(r)
      BY <1>t, <3>1 DEF ToWrite, TypeOK, Request
    <3>2. CASE req' = [req EXCEPT ![r].todo = @ \ {p}]
      BY <1>t, <2>0, <3>2 DEF TypeOK, Request
    <3> QED  BY <2>1, <3>1, <3>2
  <2> QED  BY <2>0, <2>1, <2>2, BatchFrame
<1>8. CASE ResultsCommit(r)
  <2>1. /\ req[r].op = "results" /\ req[r].step = "write" /\ req'[r].step = "done"
        /\ req'[r].op = req[r].op /\ req'[r].id = req[r].id /\ req'[r].body = req[r].body
        /\ req'[r].todo = req[r].todo
    BY <1>8, <1>t DEF ResultsCommit, Answer, TypeOK, Request
  <2>2. req[r].todo = {}
    BY <1>t, <2>1 DEF BatchIsKept
  <2> QED  BY <2>1, <2>2, BatchFrame
<1>9. ASSUME NEW c, Refuse(r, c) PROVE req'[r].op # "results"
  BY <1>9, <1>t, RefuseEffect
<1>10. CASE Register(r)
  BY <1>2, <1>10, <1>t DEF Register, TypeOK, Idle
<1>11. CASE \E w \in Workers : Crash(w)
  <2>1. req'[r] = req[r] \/ req'[r].op # "results"
    BY <1>11, <1>t DEF Crash, Idle, TypeOK
  <2> QED  BY <1>1, <1>2, <2>1
<1>12. ASSUME NEW q \in Req \ {r}, Arrival(q) \/ Handler(q) \/ VmAck(q)
       PROVE  req'[r] = req[r]
  <2>1. \A x \in Request : [req EXCEPT ![q] = x][r] = req[r]
    BY <1>t DEF TypeOK
  <2> QED
    BY <1>12, <1>t, <2>1
    DEF TypeOK, Arrival, Handler, RegisterRefused, Register, RegisterCommit, Authenticate,
        Arrive, Unauthorized, HeartbeatInvalid, Heartbeat, HeartbeatCommit, HeartbeatAnswer,
        ResultsForeign, Results, VmAck, AfterVm, VmFails, SavePath, ResultsCommit, StorageFails,
        Refuse, Answer, ToWrite
<1>13. CASE UNCHANGED req
  BY <1>1, <1>13
<1>14. CASE Arrival(r) \/ Handler(r) \/ VmAck(r)
  BY <1>2, <1>3, <1>4, <1>5, <1>6, <1>7, <1>8, <1>9, <1>10, <1>14
  DEF Arrival, Handler, RegisterRefused, Unauthorized, HeartbeatInvalid, ResultsForeign,
      VmFails, StorageFails
<1> QED
  BY <1>1, <1>11, <1>12, <1>13, <1>14
  DEF Next, Admin, Environment, DeleteProbe, SweepBegin, Sweep, Tick, VmStore, vars

(* What a results request answered 200 brought is in VictoriaMetrics, and   *)
(* as long as its probe is registered each of its paths is in the table or  *)
(* has given way to Retention newer ones, whatever other requests, deletes, *)
(* failures and crashes did before and after the answer (results, main.py). *)
THEOREM AnsweredIsStored == Spec => []AckedResultsAreStored
<1>1. Init => BatchInv
  BY DEF Init, BatchInv, BatchIsKept, Idle
<1>2. TypeInv /\ NewestInv /\ BatchInv => AckedResultsAreStored
  <2> SUFFICES ASSUME TypeInv, NewestInv, BatchInv,
                      NEW r \in Req, Answered(r), req[r].op = "results"
               PROVE  /\ ResultPoints(r) \subseteq vm
                      /\ Live(req[r].id) =>
                           \A p \in TracedPoints(r) :
                             p \in paths \/ Cardinality(Newer(paths, p)) >= Retention
    BY DEF AckedResultsAreStored, TracedPoints
  <2>1. /\ ResultPoints(r) \subseteq vm
        /\ Live(req[r].id) => TracedPoints(r) \subseteq saved
    BY DEF Answered, BatchInv, BatchIsKept
  <2>2. ASSUME NEW p \in saved, p \notin paths
        PROVE  Cardinality(Newer(paths, p)) >= Retention
    <3>1. saved \in SUBSET Point /\ IsFiniteSet(saved) /\ paths = Newest(saved)
      BY DEF TypeInv, TypeOK, NewestInv, KeepsNewest
    <3>2. Cardinality(Newer(saved, p)) \in Nat /\ saved \in SUBSET saved
      BY <3>1, NewerFacts
    <3>3. Cardinality(Newer(saved, p)) >= Retention
      BY <2>2, <3>1, <3>2, CoordinatorAssumption DEF Newest
    <3> QED  BY <3>1, <3>3, NewestSuffices
  <2> QED  BY <2>1, <2>2
<1> QED
  BY <1>1, <1>2, TypeInit, TypeStep, LifeInit, LifeStep, NewestInit, NewestStep,
     BatchStep, PTL DEF Spec

================================================================================
