------------------------------- MODULE MockProbe -------------------------------
(***************************************************************************)
(* One simulated probe of the mock client (run_probe): it registers, then   *)
(* sends a heartbeat, fetches its specification, reports and sleeps, each   *)
(* in a try of its own.  The coordinator may fail or time out at any call,  *)
(* also after it has done the work, and the administrator removes probes.   *)
(*                                                                          *)
(* Ages are counted in rounds.  With the default interval of 30 s, give or  *)
(* take 2, the limit of 60 s may be passed after two rounds and is passed   *)
(* after three.  Simulated round-trip times, paths and scenarios are left   *)
(* out; the probe's targets are the specification they came with.           *)
(***************************************************************************)
EXTENDS Naturals

CONSTANTS
  Ids,          \* client ids
  MaxFailures,    \* bound on failed calls and removals
  None

MockProbeAssumption == MaxFailures \in Nat /\ None \notin Ids

Old == 3

VARIABLES
  rows,         \* table probes
  reported,     \* rows under which results were stored in this round
  pc,           \* the place in run_probe
  id,           \* the id and token of the probe
  targets,      \* ping_targets are not empty
  hbAge, specAge,
  failures,
  removed       \* history: a probe was removed

vars == <<rows, reported, pc, id, targets, hbAge, specAge, failures, removed>>

Init ==
  /\ rows = {} /\ reported = {}
  /\ pc = "register" /\ id = None /\ targets = FALSE
  /\ hbAge = Old /\ specAge = Old
  /\ failures = 0 /\ removed = FALSE

Failure == failures < MaxFailures /\ failures' = failures + 1

NewRow(i) == i \notin rows \cup {id} /\ rows' = rows \cup {i}

(* What an age lets the loop do: a call is due, or may be, or is not.       *)
May(age) == age >= 2
Must(age) == age >= Old

--------------------------------------------------------------------------------
(* _register, with back-off until it succeeds                               *)

(* Bug: the id is not kept.                                                 *)
RegisterOk_NotKept_Bug ==
  /\ pc = "register"
  /\ \E i \in Ids : NewRow(i)
  /\ pc' = "heartbeat"
  /\ UNCHANGED <<reported, id, targets, hbAge, specAge, failures, removed>>

RegisterOk ==
  /\ pc = "register"
  /\ \E i \in Ids : NewRow(i) /\ id' = i
  /\ pc' = "heartbeat"
  /\ UNCHANGED <<reported, targets, hbAge, specAge, failures, removed>>

(* Bug: a failed attempt leaves the loop of attempts, too.                  *)
RegisterFails_Breaks_Bug ==
  /\ pc = "register" /\ Failure /\ UNCHANGED rows
  /\ pc' = "heartbeat"
  /\ UNCHANGED <<reported, id, targets, hbAge, specAge, removed>>

(* The answer is lost, with or without a row: the next try makes another.   *)
RegisterFails ==
  /\ pc = "register" /\ Failure
  /\ \/ UNCHANGED rows
     \/ \E i \in Ids : NewRow(i)
  /\ UNCHANGED <<reported, pc, id, targets, hbAge, specAge, removed>>

--------------------------------------------------------------------------------
(* The call is answered 401, or fails otherwise.                            *)
Refused == IF id \in rows THEN Failure ELSE UNCHANGED failures

(* The loop.  A call of a probe that was removed is answered 401, which is  *)
(* an exception like any other.                                             *)

HeartbeatOk ==
  /\ pc = "heartbeat" /\ May(hbAge) /\ id \in rows
  /\ hbAge' = 0
  /\ pc' = "spec"
  /\ UNCHANGED <<rows, reported, id, targets, specAge, failures, removed>>

HeartbeatFails ==
  /\ pc = "heartbeat" /\ May(hbAge)
  /\ Refused
  /\ pc' = "spec"
  /\ UNCHANGED <<rows, reported, id, targets, hbAge, specAge, removed>>

HeartbeatSkip ==
  /\ pc = "heartbeat" /\ ~Must(hbAge)
  /\ pc' = "spec"
  /\ UNCHANGED <<rows, reported, id, targets, hbAge, specAge, failures, removed>>

(* _fetch_spec: the kinds of measurement the mock can simulate, or none.    *)
SpecOk ==
  /\ pc = "spec" /\ (May(specAge) \/ ~targets) /\ id \in rows
  /\ targets' \in BOOLEAN /\ specAge' = 0
  /\ pc' = "report"
  /\ UNCHANGED <<rows, reported, id, hbAge, failures, removed>>

SpecFails ==
  /\ pc = "spec" /\ (May(specAge) \/ ~targets)
  /\ Refused
  /\ pc' = "report"
  /\ UNCHANGED <<rows, reported, id, targets, hbAge, specAge, removed>>

SpecSkip ==
  /\ pc = "spec" /\ ~Must(specAge) /\ targets
  /\ pc' = "report"
  /\ UNCHANGED <<rows, reported, id, targets, hbAge, specAge, failures, removed>>

Sleep ==
  /\ pc' = "heartbeat"
  /\ hbAge' = IF hbAge < Old THEN hbAge + 1 ELSE Old
  /\ specAge' = IF specAge < Old THEN specAge + 1 ELSE Old
  /\ UNCHANGED <<rows, id, targets, removed>>

ReportOk ==
  /\ pc = "report" /\ targets /\ id \in rows
  /\ reported' = {id} /\ Sleep /\ UNCHANGED failures

(* Results that could not be reported are dropped.                          *)
ReportFails ==
  /\ pc = "report" /\ targets
  /\ Refused
  /\ reported' = {} /\ Sleep

ReportNone ==
  /\ pc = "report" /\ ~targets
  /\ reported' = {} /\ Sleep /\ UNCHANGED failures

--------------------------------------------------------------------------------
RemoveProbe ==
  /\ Failure
  /\ \E i \in rows : rows' = rows \ {i}
  /\ removed' = TRUE
  /\ UNCHANGED <<reported, pc, id, targets, hbAge, specAge>>

Heartbeat == HeartbeatOk \/ HeartbeatFails \/ HeartbeatSkip
FetchSpec == SpecOk \/ SpecFails \/ SpecSkip
Report == ReportOk \/ ReportFails \/ ReportNone

Next == RegisterOk \/ RegisterFails \/ Heartbeat \/ FetchSpec \/ Report \/ RemoveProbe

Spec == Init /\ [][Next]_vars

(* The task runs, calls succeed again and again, and the specification has  *)
(* something to measure again and again.                                    *)
LiveSpec ==
  /\ Spec /\ WF_vars(Next) /\ SF_vars(RegisterOk)
  /\ SF_vars(HeartbeatOk) /\ SF_vars(SpecOk /\ targets') /\ SF_vars(ReportOk)

--------------------------------------------------------------------------------
(* Properties                                                               *)

(* Type invariant; a registered probe that reports has an id.               *)
TypeOK ==
  /\ rows \subseteq Ids /\ reported \subseteq {id}
  /\ id \in Ids \cup {None} /\ (id = None <=> pc = "register")
  /\ pc = "register" => reported = {}
  /\ pc \in {"register", "heartbeat", "spec", "report"}
  /\ targets \in BOOLEAN
  /\ hbAge \in 0 .. Old /\ specAge \in 0 .. Old
  /\ failures \in 0 .. MaxFailures /\ removed \in BOOLEAN

(* As long as no probe is removed the mock reports again and again,         *)
(* whatever failed before.                                                  *)
KeepsReporting == <>removed \/ []<>(reported # {})

--------------------------------------------------------------------------------
(* What the documents say and the code does not keep: no run checks these,  *)
(* TLC refutes each of them (see the README).                               *)

(* The mock client implements the same API contract as the real one, which  *)
(* registers again after a 401: it comes back after its probe was removed.  *)
ComesBack == (id # None /\ id \notin rows) ~> (id \in rows)

================================================================================
