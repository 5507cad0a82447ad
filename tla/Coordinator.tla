------------------------------ MODULE Coordinator ------------------------------
(***************************************************************************)
(* The coordinator's request handlers over its two stores: the SQLite file  *)
(* (tables probes and traceroute_paths) and VictoriaMetrics.                *)
(*                                                                          *)
(* A request runs in the steps at which other code can run in between:      *)
(*   - authentication is a sync dependency and runs in the thread pool;     *)
(*   - the handler body runs on the event loop of its worker, which it      *)
(*     holds until it returns or awaits the HTTP write to VictoriaMetrics;  *)
(*   - every Storage method is one transaction under the storage lock.  Its *)
(*     clock reading comes before the lock, so reading and writing are two  *)
(*     steps; inside one worker no other handler gets between them.         *)
(* The administrator's handlers are plain functions and run in the thread   *)
(* pool, between any two steps of a request.                                *)
(*                                                                          *)
(* Not represented here: columns of probes that no property of this module  *)
(* reads (site data, role, classification, addresses, version), the metric  *)
(* points a heartbeat writes, and the enabled flag, which the code only     *)
(* ever sets to 1.  A token and the id it was issued with are one value.    *)
(* A batch is a set of results: its order decides only the order of saves   *)
(* that the primary key makes independent.                                  *)
(*                                                                          *)
(* A definition named ..._Bug is a faulty variant of the definition below   *)
(* it.  No action uses it; it shows which property would notice the fault.  *)
(***************************************************************************)
EXTENDS Naturals, FiniteSets

CONSTANTS
  Ids,          \* client ids (uuid4), each with the token issued with it
  Meas,         \* measurement ids
  Stamps,       \* timestamps that results carry
  Bodies,       \* result lists that clients post
  Req,          \* slots for concurrent requests
  Workers,      \* uvicorn worker processes
  WorkerOf,     \* the worker that serves a slot
  Window,       \* older_than_hours
  Retention,    \* _TRACEROUTE_RETENTION
  MaxClock,     \* bound on the wall clock
  None          \* SQL NULL

(* A posted result.  trace: it is a traceroute that carries a path.  valid: *)
(* its timestamp parses (_valid_iso).                                       *)
Result == [meas : Meas, ts : Stamps, trace : BOOLEAN, valid : BOOLEAN]

ASSUME CoordinatorAssumption ==
  /\ Stamps \subseteq Nat
  /\ Bodies \subseteq SUBSET Result
  /\ WorkerOf \in [Req -> Workers]
  /\ Window \in Nat \ {0}
  /\ Retention \in Nat \ {0}
  /\ MaxClock \in Nat
  /\ None \notin Nat
  /\ None \notin Ids

VARIABLES
  probes,       \* table probes; a missing row remembers why it is missing
  paths,        \* table traceroute_paths, by primary key
  vm,           \* result points stored by VictoriaMetrics
  wire,         \* points sent to VictoriaMetrics that it has not stored
  req,          \* the requests being served, and the last answer of a slot
  sweep,        \* clock reading of a sweep that waits for the lock, or None
  now,          \* wall clock
  saved         \* history: paths saved since their probe was last deleted

vars == <<probes, paths, vm, wire, req, sweep, now, saved>>

ProbeStates == {"unused", "live", "deleted", "swept"}

Row == [state : ProbeStates, created : Nat, hb : Nat \cup {None}]

Missing(s) == [state |-> s, created |-> 0, hb |-> None]

Live(i) == probes[i].state = "live"

Gone(i) == probes[i].state \in {"deleted", "swept"}

(* The time a row is judged by in delete_dead_probes: its last heartbeat,   *)
(* or its creation when it never had one.                                   *)
Seen(i) == IF probes[i].hb = None THEN probes[i].created ELSE probes[i].hb

Point == [id : Ids, meas : Meas, ts : Stamps]

Points(i, X) == {[id |-> i, meas |-> x.meas, ts |-> x.ts] : x \in X}

Accepted(B) == {x \in B : x.valid}

Traced(B) == {x \in Accepted(B) : x.trace}

(* Rows of the same (client, measurement) with a later timestamp.           *)
Newer(S, p) == {q \in S : q.id = p.id /\ q.meas = p.meas /\ q.ts > p.ts}

Newest(S) == {p \in S : Cardinality(Newer(S, p)) < Retention}

--------------------------------------------------------------------------------
(* Requests                                                                 *)

Steps == {"idle", "body", "write", "vm", "save", "done"}

Ops == {"none", "register", "heartbeat", "results"}

Codes == {0, 200, 400, 401, 403, 500, 502}

Request == [step : Steps, op : Ops, id : Ids \cup {None}, at : Nat,
            body : SUBSET Result, todo : SUBSET Point, code : Codes]

Idle == [step |-> "idle", op |-> "none", id |-> None, at |-> 0,
         body |-> {}, todo |-> {}, code |-> 0]

Resting(r) == req[r].step \in {"idle", "done"}

(* A handler between its first statement and its next await or return.      *)
HoldsLoop(r) == req[r].step \in {"write", "save"}

LoopNotHeld_Bug(r) == TRUE

LoopFree(r) ==
  \A q \in Req \ {r} : WorkerOf[q] = WorkerOf[r] => ~HoldsLoop(q)

(* An error answer; the slot keeps only the status code.                    *)
Refuse(r, c) == req' = [req EXCEPT ![r] = [Idle EXCEPT !.step = "done", !.code = c]]

Answer(r) == req' = [req EXCEPT ![r].step = "done", ![r].code = 200]

(* The handler reads the clock and goes on to write the probe's row.        *)
ToWrite(r) == req' = [req EXCEPT ![r].step = "write", ![r].at = now,
                                 ![r].todo = {}]

Init ==
  /\ probes = [i \in Ids |-> Missing("unused")]
  /\ paths = {}
  /\ vm = {}
  /\ wire = {}
  /\ req = [r \in Req |-> Idle]
  /\ sweep = None
  /\ now = 0
  /\ saved = {}

--------------------------------------------------------------------------------
(* POST /probe/register                                                     *)

RegisterRefused(r) ==
  /\ Resting(r) /\ LoopFree(r)
  /\ Refuse(r, 403)
  /\ UNCHANGED <<probes, paths, vm, wire, sweep, now, saved>>

FreshIds == {i \in Ids : probes[i].state = "unused" /\ \A q \in Req : req[q].id # i}

Register(r) ==
  /\ Resting(r) /\ LoopFree(r)
  /\ \E i \in FreshIds :
       req' = [req EXCEPT ![r] = [Idle EXCEPT !.step = "write", !.op = "register",
                                              !.id = i, !.at = now]]
  /\ UNCHANGED <<probes, paths, vm, wire, sweep, now, saved>>

RegisterCommit_NoCreated_Bug(r) ==
  /\ req[r].step = "write" /\ req[r].op = "register"
  /\ probes' = [probes EXCEPT ![req[r].id] =
                  [state |-> "live", created |-> None, hb |-> None]]
  /\ Answer(r)
  /\ UNCHANGED <<paths, vm, wire, sweep, now, saved>>

RegisterCommit(r) ==
  /\ req[r].step = "write" /\ req[r].op = "register"
  /\ probes' = [probes EXCEPT ![req[r].id] =
                  [state |-> "live", created |-> req[r].at, hb |-> None]]
  /\ Answer(r)
  /\ UNCHANGED <<paths, vm, wire, sweep, now, saved>>

--------------------------------------------------------------------------------
(* Authentication of heartbeats and results                                 *)

Arrive(r, o, i, B) ==
  req' = [req EXCEPT ![r] = [Idle EXCEPT !.step = "body", !.op = o, !.id = i,
                                         !.body = B]]

Authenticate_NoRowCheck_Bug(r) ==
  /\ Resting(r)
  /\ \E i \in Ids :
       /\ probes[i].state # "unused"
       /\ \/ Arrive(r, "heartbeat", i, {})
          \/ \E B \in Bodies : Arrive(r, "results", i, B)
  /\ UNCHANGED <<probes, paths, vm, wire, sweep, now, saved>>

Authenticate(r) ==
  /\ Resting(r)
  /\ \E i \in Ids :
       /\ Live(i)
       /\ \/ Arrive(r, "heartbeat", i, {})
          \/ \E B \in Bodies : Arrive(r, "results", i, B)
  /\ UNCHANGED <<probes, paths, vm, wire, sweep, now, saved>>

Unauthorized(r) ==
  /\ Resting(r)
  /\ \E i \in Ids : ~Live(i)
  /\ Refuse(r, 401)
  /\ UNCHANGED <<probes, paths, vm, wire, sweep, now, saved>>

--------------------------------------------------------------------------------
(* UPDATE probes SET last_heartbeat_at = t WHERE id = i: no row, no effect.  *)

TouchHeartbeat_Upsert_Bug(i, t) ==
  probes' = [probes EXCEPT ![i] = [@ EXCEPT !.state = "live", !.hb = t]]

TouchHeartbeat(i, t) ==
  IF Live(i) THEN probes' = [probes EXCEPT ![i].hb = t] ELSE UNCHANGED probes

(* POST /probe/heartbeat                                                    *)

HeartbeatInvalid(r) ==
  /\ req[r].step = "body" /\ req[r].op = "heartbeat" /\ LoopFree(r)
  /\ Refuse(r, 400)
  /\ UNCHANGED <<probes, paths, vm, wire, sweep, now, saved>>

Heartbeat(r) ==
  /\ req[r].step = "body" /\ req[r].op = "heartbeat" /\ LoopFree(r)
  /\ ToWrite(r)
  /\ UNCHANGED <<probes, paths, vm, wire, sweep, now, saved>>

HeartbeatCommit(r) ==
  /\ req[r].step = "write" /\ req[r].op = "heartbeat"
  /\ TouchHeartbeat(req[r].id, req[r].at)
  /\ req' = [req EXCEPT ![r].step = "vm"]
  /\ UNCHANGED <<paths, vm, wire, sweep, now, saved>>

(* The write to VictoriaMetrics ends, well or not: the answer is 200.       *)
HeartbeatAnswer(r) ==
  /\ req[r].step = "vm" /\ req[r].op = "heartbeat" /\ LoopFree(r)
  /\ Answer(r)
  /\ UNCHANGED <<probes, paths, vm, wire, sweep, now, saved>>

--------------------------------------------------------------------------------
(* POST /probe/results                                                      *)

ResultsForeign(r) ==
  /\ req[r].step = "body" /\ req[r].op = "results" /\ LoopFree(r)
  /\ Refuse(r, 403)
  /\ UNCHANGED <<probes, paths, vm, wire, sweep, now, saved>>

Results_SaveFirst_Bug(r) ==
  /\ req[r].step = "body" /\ req[r].op = "results" /\ LoopFree(r)
  /\ req' = [req EXCEPT ![r].step = "save",
                        ![r].todo = Points(req[r].id, Traced(req[r].body))]
  /\ UNCHANGED <<probes, paths, vm, wire, sweep, now, saved>>

ResultPoints(r) == Points(req[r].id, Accepted(req[r].body))

(* The points are sent, the ones that VictoriaMetrics has already are of no *)
(* more effect there.                                                       *)
Results(r) ==
  /\ req[r].step = "body" /\ req[r].op = "results" /\ LoopFree(r)
  /\ IF Accepted(req[r].body) = {} THEN ToWrite(r)
     ELSE req' = [req EXCEPT ![r].step = "vm",
                             ![r].todo = Points(req[r].id, Traced(req[r].body))]
  /\ wire' = wire \cup (ResultPoints(r) \ vm)
  /\ UNCHANGED <<probes, paths, vm, sweep, now, saved>>

(* VictoriaMetrics stores a point it was sent, whether or not the request   *)
(* that sent it still waits; a point that is lost stays on the wire.        *)
VmStore ==
  /\ \E p \in wire : vm' = vm \cup {p} /\ wire' = wire \ {p}
  /\ UNCHANGED <<probes, paths, req, sweep, now, saved>>

AfterVm(r) ==
  IF req[r].todo = {} THEN ToWrite(r) ELSE req' = [req EXCEPT ![r].step = "save"]

(* It answers with success when it has stored all of them.                  *)
VmAck(r) ==
  /\ req[r].step = "vm" /\ req[r].op = "results" /\ LoopFree(r)
  /\ ResultPoints(r) \subseteq vm
  /\ AfterVm(r)
  /\ UNCHANGED <<probes, paths, vm, wire, sweep, now, saved>>

VmFails_NoTimeout_Bug(r) == FALSE /\ UNCHANGED vars

VmFails_Ignored_Bug(r) ==
  /\ req[r].step = "vm" /\ req[r].op = "results" /\ LoopFree(r)
  /\ AfterVm(r)
  /\ UNCHANGED <<probes, paths, vm, wire, sweep, now, saved>>

(* Connection refused, error status or time-out, with any part of the       *)
(* points stored and the others stored later or never.                      *)
VmFails(r) ==
  /\ req[r].step = "vm" /\ req[r].op = "results" /\ LoopFree(r)
  /\ Refuse(r, 502)
  /\ UNCHANGED <<probes, paths, vm, wire, sweep, now, saved>>

(* save_traceroute_path: insert or replace, then trim this (client,         *)
(* measurement) to its newest rows.                                         *)
Trim_PerClient_Bug(S, p) ==
  {q \in S : q.id = p.id => Cardinality({x \in S : x.id = q.id /\ x.ts > q.ts}) < Retention}

(* Bug: the oldest Retention paths are kept.                                *)
Trim_Oldest_Bug(S, p) ==
  {q \in S : q.id = p.id /\ q.meas = p.meas =>
     Cardinality({x \in S : x.id = q.id /\ x.meas = q.meas /\ x.ts < q.ts}) < Retention}

Trim(S, p) ==
  {q \in S : q.id = p.id /\ q.meas = p.meas => Cardinality(Newer(S, q)) < Retention}

SavePath(r) ==
  /\ req[r].step = "save" /\ req[r].op = "results"
  /\ \E p \in req[r].todo :
       /\ paths' = Trim(paths \cup {p}, p)
       /\ saved' = saved \cup {p}
       /\ IF req[r].todo = {p} THEN ToWrite(r)
          ELSE req' = [req EXCEPT ![r].todo = @ \ {p}]
  /\ UNCHANGED <<probes, vm, wire, sweep, now>>

ResultsCommit(r) ==
  /\ req[r].step = "write" /\ req[r].op = "results"
  /\ TouchHeartbeat(req[r].id, req[r].at)
  /\ Answer(r)
  /\ UNCHANGED <<paths, vm, wire, sweep, now, saved>>

--------------------------------------------------------------------------------
(* A Storage call that raises ("database is locked" after 10 s, disk full)  *)
(* leaves its transaction undone and the request with 500.                  *)

StorageFails(r) ==
  /\ HoldsLoop(r)
  /\ Refuse(r, 500)
  /\ UNCHANGED <<probes, paths, vm, wire, sweep, now, saved>>

--------------------------------------------------------------------------------
(* The administrator                                                        *)

DeleteProbe(i) ==
  /\ probes[i].state # "unused"
  /\ probes' = [probes EXCEPT ![i] = Missing("deleted")]
  /\ paths' = {p \in paths : p.id # i}
  /\ saved' = {p \in saved : p.id # i}
  /\ UNCHANGED <<vm, wire, req, sweep, now>>

SweepBegin ==
  /\ sweep = None
  /\ sweep' = now
  /\ UNCHANGED <<probes, paths, vm, wire, req, now, saved>>

Dead_ByCreation_Bug(i, t) == Live(i) /\ probes[i].created + Window < t

Dead(i, t) == Live(i) /\ Seen(i) + Window < t

Sweep ==
  /\ sweep # None
  /\ probes' = [i \in Ids |-> IF Dead(i, sweep) THEN Missing("swept") ELSE probes[i]]
  /\ sweep' = None
  /\ UNCHANGED <<paths, vm, wire, req, now, saved>>

--------------------------------------------------------------------------------
(* The environment                                                          *)

(* A worker dies with what it was doing; both stores keep what they have,   *)
(* and VictoriaMetrics what it was sent.                                    *)
Crash(w) ==
  /\ req' = [r \in Req |-> IF WorkerOf[r] = w /\ ~Resting(r) THEN Idle ELSE req[r]]
  /\ sweep' \in {sweep, None}
  /\ UNCHANGED <<probes, paths, vm, wire, now, saved>>

Tick ==
  /\ now < MaxClock
  /\ now' = now + 1
  /\ UNCHANGED <<probes, paths, vm, wire, req, sweep, saved>>

--------------------------------------------------------------------------------
Arrival(r) == RegisterRefused(r) \/ Register(r) \/ Authenticate(r) \/ Unauthorized(r)

(* The handler's own steps, the ones its scheduling guarantees: a write to  *)
(* VictoriaMetrics is only sure to end by its time-out.                     *)
Handler(r) ==
  \/ RegisterCommit(r)
  \/ HeartbeatInvalid(r) \/ Heartbeat(r) \/ HeartbeatCommit(r) \/ HeartbeatAnswer(r)
  \/ ResultsForeign(r) \/ Results(r) \/ SavePath(r) \/ ResultsCommit(r)
  \/ VmFails(r)
  \/ StorageFails(r)

Admin == (\E i \in Ids : DeleteProbe(i)) \/ SweepBegin \/ Sweep

Environment == Tick \/ VmStore \/ \E w \in Workers : Crash(w)

Next ==
  \/ \E r \in Req : Arrival(r) \/ Handler(r) \/ VmAck(r)
  \/ Admin
  \/ Environment

Spec == Init /\ [][Next]_vars

FairSpec == Spec /\ \A r \in Req : SF_vars(Handler(r))

--------------------------------------------------------------------------------
(* Properties                                                               *)

(* Every variable has its type (columns of the two tables, the request      *)
(* slots of main.py's handlers).                                            *)
TypeOK ==
  /\ probes \in [Ids -> Row]
  /\ paths \subseteq Point
  /\ vm \subseteq Point /\ wire \subseteq Point
  /\ req \in [Req -> Request]
  /\ sweep \in Nat \cup {None}
  /\ now \in Nat
  /\ saved \subseteq Point

(* A traceroute path is in SQLite only when VictoriaMetrics has its result: *)
(* a batch that ends in 502, and is sent again by the client, has left      *)
(* nothing in the path history (results, main.py).                          *)
PathsBackedByVM == paths \subseteq vm

(* However results are repeated, reordered between batches, cut short by a  *)
(* crash or interleaved with other batches and deletes, the stored paths of *)
(* a (client, measurement) are the newest Retention of those saved since    *)
(* the client was last deleted (save_traceroute_path).                      *)
KeepsNewest == paths = Newest(saved)

Answered(r) == req[r].step = "done" /\ req[r].code = 200

(* What a results request answered 200 brought is stored for as long as its *)
(* probe is registered: every accepted point in VictoriaMetrics, every path *)
(* in SQLite unless Retention newer ones have replaced it.                  *)
AckedResultsAreStored ==
  \A r \in Req : Answered(r) /\ req[r].op = "results" =>
    /\ ResultPoints(r) \subseteq vm
    /\ Live(req[r].id) =>
         \A p \in Points(req[r].id, Traced(req[r].body)) :
           p \in paths \/ Cardinality(Newer(paths, p)) >= Retention

(* An answer 200 is never taken back: as long as the probe is registered    *)
(* its row dates from the answered request or later, although a request    *)
(* carries its clock reading across other handlers' steps and writes it     *)
(* last.  Holds where one worker serves all requests.                       *)
AckedContactIsRecorded ==
  \A r \in Req :
    Answered(r) /\ Live(req[r].id) => Seen(req[r].id) >= req[r].at

(* A sweep never removes a probe that got an answer within the last Window, *)
(* although it takes its cutoff before it waits for the lock                *)
(* (delete_dead_probes).  Holds where one worker serves all requests.       *)
SweepSparesAnswered ==
  [][\A i \in Ids : Live(i) /\ probes'[i].state = "swept" =>
       \A r \in Req :
         Answered(r) /\ req[r].id = i => req[r].at + Window < now]_vars

(* A removed probe stays removed: requests that were authenticated before   *)
(* the removal finish later and must not bring its row back                 *)
(* (touch_heartbeat and update_heartbeat_meta are updates).                 *)
GoneForGood == [][\A i \in Ids : Gone(i) => Gone(i)']_vars

(* The request slots in use for client i.                                   *)
Busy(i) == \E r \in Req : req[r].id = i /\ ~Resting(r)

(* Once a probe is removed and its last request has ended, nothing happens  *)
(* under its id any more: its token opens no new request, no path is saved  *)
(* and no line is sent.  VictoriaMetrics can still store a line that was    *)
(* sent before, long after the request that sent it timed out or died.      *)
SilentOnceDrained ==
  [][\A i \in Ids : Gone(i) /\ ~Busy(i) =>
       /\ ~Busy(i)'
       /\ \A p \in (paths' \ paths) \cup (wire' \ wire) : p.id # i
       /\ \A p \in vm' \ vm : p.id = i => p \in wire]_vars

(* Every request that a handler has started ends, also while VictoriaMetrics*)
(* does not answer and other requests hold the event loop.                  *)
RequestsEnd == \A r \in Req : ~Resting(r) ~> Resting(r)

(* The paths table keeps the promise of a path history.                     *)
History == INSTANCE PathHistory WITH shown <- paths

(* What the traceroute history promises holds over crashes, repeated        *)
(* batches and deletes.                                                     *)
KeepsHistory == History!Spec

(* What delete_probe's docstring says: the probe's paths go with it.  A     *)
(* results request in flight at the delete saves more of them afterwards.   *)
DeletedLeavesNoPaths == \A p \in paths : probes[p.id].state # "deleted"

================================================================================
