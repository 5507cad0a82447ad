------------------------------ MODULE ProbeClient ------------------------------
(***************************************************************************)
(* The PowerShell client: registration, the main loop and the JSONL buffer  *)
(* that keeps results while the coordinator cannot take them.               *)
(*                                                                          *)
(* pc names the place in the script where the process is.  Each action is   *)
(* one step between two places, with every outcome the step can have: the   *)
(* coordinator answers, answers 401, answers something else or nothing, or  *)
(* does the work and the answer is lost.  The process may be killed at any  *)
(* place; what it keeps is config.json and buffer.jsonl.                    *)
(*                                                                          *)
(* Results are numbered in the order they are measured.  A file line that   *)
(* is not readable JSON is skipped by the reader and is left out of lines;  *)
(* what matters of it is whether the next append runs into it (tail).       *)
(*                                                                          *)
(* Of the encryption of the token (DPAPI) the model has that a start may    *)
(* fail to decrypt it.                                                      *)
(*                                                                          *)
(* Not represented: -Once, a changed coordinator URL, a token of an older   *)
(* version in plain text, a second client process on the same files, and    *)
(* the contents of the specification, taken to list a measurement whenever  *)
(* it is fetched.  Update-Self appears only as the exit it ends in.         *)
(*                                                                          *)
(* A definition named ..._Bug is a faulty variant of the definition below   *)
(* it.  No action uses it; it shows which property would notice the fault.  *)
(***************************************************************************)
EXTENDS Naturals, FiniteSets, Sequences, SequencesExt, Filter

CONSTANTS
  Ids,          \* client ids, each with its token
  None,         \* no id
  MaxBatch,     \* results one round of the loop can produce
  BatchSize,    \* $batchSize of a flush
  Retention,    \* $BufferRetentionDays
  MaxResults,   \* bound: results that are followed; later rounds produce none of interest
  MaxClock,     \* bound on the client's clock
  MaxCrashes,   \* bound on kills and disk errors
  ReadErrors    \* whether reading buffer.jsonl may be one of the disk errors

ASSUME ProbeClientAssumption ==
  /\ None \notin Ids
  /\ MaxBatch \in Nat \ {0}
  /\ BatchSize \in Nat \ {0}
  /\ ReadErrors \in BOOLEAN
  /\ {Retention, MaxResults, MaxClock, MaxCrashes} \subseteq Nat

VARIABLES
  rows,         \* coordinator: ids that are registered
  issued,       \* coordinator: ids ever handed out
  stored,       \* coordinator: results it has stored
  config,       \* config.json: the id it holds, None when absent or unreadable
  lines,        \* buffer.jsonl: the readable lines, a sequence of results
  tail,         \* how buffer.jsonl ends, see Tails
  pc,           \* where the process is
  id,           \* $config: the id the process uses
  plain,        \* $config._plain_token is not empty, when there is an id
  batch,        \* $results
  rest,         \* $remaining of a flush
  known,        \* $specMeasurements is not empty
  due,          \* what the timers do not let the loop skip
  now,          \* the client's clock
  born,         \* timestamps of the results measured so far
  acked,        \* history: results in an answered report
  refused,      \* history: results whose report was answered 401
  crashes       \* history: kills and disk errors so far

server == <<rows, issued, stored>>
disk   == <<config, lines, tail>>
memory == <<pc, id, plain, batch, rest, known, due>>
history == <<acked, refused, crashes>>
vars == <<server, disk, memory, now, born, history>>

(* whole: the file ends with a newline (or is absent).                      *)
(* cut:   it ends in an unreadable piece of a line.                         *)
(* open:  its last readable line has no newline yet.                        *)
Tails == {"whole", "cut", "open"}

Places == {"off", "register", "saveConfig", "flush", "flushSend", "flushWrite",
           "spec", "heartbeat", "measure", "send", "append"}

Timers == {"spec", "heartbeat", "measure"}

Fresh == Ids \ issued

(* The retention test of a flush: $ts -lt $cutoff.                          *)
Expired(k) == born[k] + Retention < now

Init ==
  /\ rows = {} /\ issued = {} /\ stored = {}
  /\ config = None /\ lines = <<>> /\ tail = "whole"
  /\ pc = "off" /\ id = None /\ plain = TRUE /\ batch = <<>> /\ rest = <<>>
  /\ known = FALSE /\ due = Timers \cup {"flush"}
  /\ now = 0 /\ born = <<>>
  /\ acked = {} /\ refused = {} /\ crashes = 0

(* The process ends and takes its variables with it.                        *)
Terminate ==
  /\ pc' = "off" /\ id' = None /\ plain' = TRUE /\ batch' = <<>> /\ rest' = <<>>
  /\ known' = FALSE /\ due' = Timers \cup {"flush"}

(* A 401 resets every timer.                                                *)
Reset == due' = Timers

Goto(place) == pc' = place

-----------------------------------------------------------------------------
(* Start and registration.                                                  *)

(* The script starts: it reads config.json and registers when it holds no   *)
(* token, else it flushes the buffer first.  A token that cannot be         *)
(* decrypted counts as empty.  The Fresh id is a bound: it is what the      *)
(* client will ask for then.                                                *)
Start ==
  /\ pc = "off"
  /\ id' = config
  /\ plain' \in IF config # None /\ Fresh # {} THEN BOOLEAN ELSE {TRUE}
  /\ Goto(IF config = None THEN "register" ELSE "flush")
  /\ UNCHANGED <<server, disk, batch, rest, known, due, now, born, history>>

RegisterOk ==
  /\ pc = "register"
  /\ \E i \in Fresh :
       /\ rows' = rows \cup {i}
       /\ issued' = issued \cup {i}
       /\ id' = i
  /\ plain' = TRUE
  /\ Goto("saveConfig")
  /\ UNCHANGED <<stored, disk, batch, rest, known, due, now, born, history>>

(* Registration fails, or its answer is lost after the row was written.     *)
(* Nothing catches the exception of Register-Probe: the script ends.  The   *)
(* second Fresh id is a bound: it leaves one for the next attempt.          *)
RegisterFails ==
  /\ pc = "register"
  /\ \/ UNCHANGED server
     \/ \E i, j \in Fresh :
          /\ i # j
          /\ rows' = rows \cup {i}
          /\ issued' = issued \cup {i}
          /\ UNCHANGED stored
  /\ Terminate
  /\ UNCHANGED <<disk, now, born, history>>

SaveConfig_Skipped_Bug ==
  /\ pc = "saveConfig"
  /\ Goto(IF "flush" \in due THEN "flush" ELSE "spec")
  /\ UNCHANGED <<server, disk, id, plain, batch, rest, known, due, now, born, history>>
SaveConfig ==
  /\ pc = "saveConfig"
  /\ config' = id
  /\ Goto(IF "flush" \in due THEN "flush" ELSE "spec")
  /\ UNCHANGED <<server, lines, tail, id, plain, batch, rest, known, due, now, born, history>>

(* Any authenticated request of the loop is answered 401: its token is not  *)
(* that of a probe, or is empty, since decrypting it has failed at the      *)
(* start and, tried anew, for this request.  A report that is refused is    *)
(* not buffered.                                                            *)
Unauthorized_AnyError_Bug ==
  /\ pc \in {"spec", "heartbeat", "send"}
  /\ refused' = refused \cup Range(batch)
  /\ batch' = <<>>
  /\ Reset
  /\ Goto("register")
  /\ UNCHANGED <<server, disk, id, plain, rest, known, now, born, acked, crashes>>
Unauthorized_NotRegistered_Bug ==
  /\ pc \in {"spec", "heartbeat", "send"}
  /\ id \notin rows \/ ~plain
  /\ refused' = refused \cup Range(batch)
  /\ batch' = <<>>
  /\ Reset
  /\ Goto("spec")
  /\ UNCHANGED <<server, disk, id, plain, rest, known, now, born, acked, crashes>>
Unauthorized ==
  /\ pc \in {"spec", "heartbeat", "send"}
  /\ id \notin rows \/ ~plain
  /\ refused' = refused \cup Range(batch)
  /\ batch' = <<>>
  /\ Reset
  /\ Goto("register")
  /\ UNCHANGED <<server, disk, id, plain, rest, known, now, born, acked, crashes>>

-----------------------------------------------------------------------------
(* Flushing the buffer.                                                     *)

FlushDone == due' = due \ {"flush"}

(* The file is read once; unreadable and expired lines are skipped.         *)
FlushRead ==
  /\ pc = "flush"
  /\ rest' = At(lines, {i \in DOMAIN lines : ~Expired(lines[i])})
  /\ Goto(IF rest' = <<>> THEN "flushWrite" ELSE "flushSend")
  /\ UNCHANGED <<server, disk, id, plain, batch, known, due, now, born, history>>

(* Get-Content fails silently: the file counts as empty and is removed,     *)
(* unless removing it fails as well.                                        *)
FlushReadFails ==
  /\ pc = "flush"
  /\ ReadErrors
  /\ crashes < MaxCrashes
  /\ crashes' = crashes + 1
  /\ \/ lines' = <<>> /\ tail' = "whole"
     \/ UNCHANGED <<lines, tail>>
  /\ batch' = <<>>
  /\ FlushDone
  /\ Goto("spec")
  /\ UNCHANGED <<server, config, id, plain, rest, known, now, born, acked, refused>>

FlushBatch == SubSeq(rest, 1, IF Len(rest) < BatchSize THEN Len(rest) ELSE BatchSize)
AfterBatch_Drop_Bug == SubSeq(rest, BatchSize + 2, Len(rest))
AfterBatch == SubSeq(rest, BatchSize + 1, Len(rest))

FlushAcked ==
  /\ pc = "flushSend"
  /\ id \in rows
  /\ stored' = stored \cup Range(FlushBatch)
  /\ acked' = acked \cup Range(FlushBatch)
  /\ rest' = AfterBatch
  /\ Goto(IF rest' = <<>> THEN "flushWrite" ELSE "flushSend")
  /\ UNCHANGED <<rows, issued, disk, id, plain, batch, known, due, now, born, refused, crashes>>

(* Any error stops the flush, 401 included: what is left goes back to disk. *)
FlushFails ==
  /\ pc = "flushSend"
  /\ \/ UNCHANGED stored
     \/ id \in rows /\ stored' = stored \cup Range(FlushBatch)
  /\ Goto("flushWrite")
  /\ UNCHANGED <<rows, issued, disk, id, plain, batch, rest, known, due, now, born, history>>

(* The file is removed when nothing remains, else replaced by what remains. *)
FlushWrite_Keep_Bug ==
  /\ pc = "flushWrite"
  /\ IF rest = <<>> THEN lines' = <<>> /\ tail' = "whole"
     ELSE UNCHANGED <<lines, tail>>
  /\ rest' = <<>> /\ batch' = <<>>
  /\ FlushDone
  /\ Goto("spec")
  /\ UNCHANGED <<server, config, id, plain, known, now, born, history>>
FlushWrite_NoNewline_Bug ==
  /\ pc = "flushWrite"
  /\ lines' = rest /\ tail' = IF rest = <<>> THEN "whole" ELSE "open"
  /\ rest' = <<>> /\ batch' = <<>>
  /\ FlushDone
  /\ Goto("spec")
  /\ UNCHANGED <<server, config, id, plain, known, now, born, history>>
FlushWrite_TailKept_Bug ==
  /\ pc = "flushWrite"
  /\ lines' = rest /\ UNCHANGED tail
  /\ rest' = <<>> /\ batch' = <<>>
  /\ FlushDone
  /\ Goto("spec")
  /\ UNCHANGED <<server, config, id, plain, known, now, born, history>>
FlushWrite ==
  /\ pc = "flushWrite"
  /\ lines' = rest /\ tail' = "whole"
  /\ rest' = <<>> /\ batch' = <<>>
  /\ FlushDone
  /\ Goto("spec")
  /\ UNCHANGED <<server, config, id, plain, known, now, born, history>>

(* A file that cannot be removed stays, silently.  One that cannot be       *)
(* replaced raises: at start it is logged, in the loop the handler of the   *)
(* report buffers $results although they were sent.                         *)
FlushWriteFails ==
  /\ pc = "flushWrite"
  /\ crashes < MaxCrashes
  /\ crashes' = crashes + 1
  /\ IF rest = <<>> \/ "flush" \in due
     THEN batch' = <<>> /\ Goto("spec")
     ELSE batch' = batch /\ Goto("append")
  /\ rest' = <<>>
  /\ FlushDone
  /\ UNCHANGED <<server, disk, id, plain, known, now, born, acked, refused>>

-----------------------------------------------------------------------------
(* One round of the loop.                                                   *)

SpecSkip ==
  /\ pc = "spec"
  /\ "spec" \notin due
  /\ Goto("heartbeat")
  /\ UNCHANGED <<server, disk, id, plain, batch, rest, known, due, now, born, history>>

SpecFetched ==
  /\ pc = "spec"
  /\ id \in rows
  /\ known' = TRUE
  /\ due' = due \ {"spec"}
  /\ Goto("heartbeat")
  /\ UNCHANGED <<server, disk, id, plain, batch, rest, now, born, history>>

(* The old measurements stay in use.                                        *)
SpecFails ==
  /\ pc = "spec"
  /\ Goto("heartbeat")
  /\ UNCHANGED <<server, disk, id, plain, batch, rest, known, due, now, born, history>>

HeartbeatSkip ==
  /\ pc = "heartbeat"
  /\ "heartbeat" \notin due
  /\ Goto("measure")
  /\ UNCHANGED <<server, disk, id, plain, batch, rest, known, due, now, born, history>>

(* Answered or failed, the next heartbeat is an interval away.              *)
HeartbeatDone ==
  /\ pc = "heartbeat"
  /\ due' = due \ {"heartbeat"}
  /\ Goto("measure")
  /\ UNCHANGED <<server, disk, id, plain, batch, rest, known, now, born, history>>

(* The answer offers another version and Update-Self ends the process.      *)
HeartbeatUpdates ==
  /\ pc = "heartbeat"
  /\ id \in rows
  /\ Terminate
  /\ UNCHANGED <<server, disk, now, born, history>>

MeasureNone ==
  /\ pc = "measure"
  /\ ~known \/ "measure" \notin due
  /\ Goto("spec")
  /\ UNCHANGED <<server, disk, id, plain, batch, rest, known, due, now, born, history>>

(* Some measurements are due; each gives one result.                        *)
Measure ==
  /\ pc = "measure"
  /\ known
  /\ LET n == Len(born) IN
     \E k \in (IF n < MaxResults THEN 1..MaxBatch ELSE {0}) :
       /\ n + k <= MaxResults
       /\ batch' = [i \in 1..k |-> n + i]
       /\ born' = born \o [i \in 1..k |-> now]
  /\ due' = due \ {"measure"}
  /\ Goto("send")
  /\ UNCHANGED <<server, disk, id, plain, rest, known, now, history>>

(* A report that was answered is followed by a flush.                       *)
SendAcked_NoFlush_Bug ==
  /\ pc = "send"
  /\ id \in rows
  /\ stored' = stored \cup Range(batch)
  /\ acked' = acked \cup Range(batch)
  /\ batch' = <<>>
  /\ Goto("spec")
  /\ UNCHANGED <<rows, issued, disk, id, plain, rest, known, due, now, born, refused, crashes>>
SendAcked ==
  /\ pc = "send"
  /\ id \in rows
  /\ stored' = stored \cup Range(batch)
  /\ acked' = acked \cup Range(batch)
  /\ Goto("flush")
  /\ UNCHANGED <<rows, issued, disk, id, plain, batch, rest, known, due, now, born, refused, crashes>>

(* Any other error: the batch goes to the buffer, stored or not.            *)
SendFails ==
  /\ pc = "send"
  /\ \/ UNCHANGED stored
     \/ id \in rows /\ stored' = stored \cup Range(batch)
  /\ Goto("append")
  /\ UNCHANGED <<rows, issued, disk, id, plain, batch, rest, known, due, now, born, history>>

-----------------------------------------------------------------------------
(* Appending to the buffer.                                                 *)

(* The readable lines once the first p results of the batch are written.    *)
(* The first one runs into what an interrupted append left at the end.      *)
Appended(p) ==
  IF p = 0 THEN lines
  ELSE CASE tail = "whole" -> lines \o SubSeq(batch, 1, p)
         [] tail = "cut"   -> lines \o SubSeq(batch, 2, p)
         [] tail = "open"  -> Front(lines) \o SubSeq(batch, 2, p)

SaveResultsToBuffer ==
  /\ pc = "append"
  /\ lines' = Appended(Len(batch))
  /\ tail' = IF batch = <<>> THEN tail ELSE "whole"
  /\ batch' = <<>>
  /\ Goto("spec")
  /\ UNCHANGED <<server, config, id, plain, rest, known, due, now, born, history>>

(* An append that stops between two writes: after p whole lines, inside the *)
(* next one, or just before its newline.                                    *)
PartialAppend ==
  \E p \in 0..Len(batch) :
    \/ /\ lines' = Appended(p)
       /\ tail' = IF p = 0 THEN tail ELSE "whole"
    \/ /\ p < Len(batch)
       /\ lines' = IF p = 0 /\ tail = "open" THEN Front(lines) ELSE Appended(p)
       /\ tail' = "cut"
    \/ /\ p < Len(batch)
       /\ p > 0 \/ tail = "whole"
       /\ lines' = Append(Appended(p), batch[p + 1])
       /\ tail' = "open"

(* Save-ResultsToBuffer logs a disk error and the loop goes on.             *)
AppendFails ==
  /\ pc = "append"
  /\ crashes < MaxCrashes
  /\ crashes' = crashes + 1
  /\ PartialAppend
  /\ batch' = <<>>
  /\ Goto("spec")
  /\ UNCHANGED <<server, config, id, plain, rest, known, due, now, born, acked, refused>>

-----------------------------------------------------------------------------
(* The process is killed.  A killed WriteAllText leaves the old config.json,*)
(* the new one, or an unreadable file; without a Fresh id (a bound) the new *)
(* one, so that no state asks for an id the model has not got.              *)
Kill ==
  /\ pc # "off"
  /\ crashes < MaxCrashes
  /\ crashes' = crashes + 1
  /\ IF pc = "append" THEN PartialAppend ELSE UNCHANGED <<lines, tail>>
  /\ config' \in IF pc # "saveConfig" THEN {config}
                 ELSE IF Fresh # {} THEN {config, None, id} ELSE {id}
  /\ Terminate
  /\ UNCHANGED <<server, now, born, acked, refused>>

(* The administrator deletes the probe.  The Fresh id is a bound.           *)
DeleteProbe ==
  /\ Fresh # {}
  /\ \E i \in rows \cap {id, config} : rows' = rows \ {i}
  /\ UNCHANGED <<issued, stored, disk, memory, now, born, history>>

Tick ==
  /\ now < MaxClock
  /\ now' = now + 1
  /\ UNCHANGED <<server, disk, memory, born, history>>

-----------------------------------------------------------------------------
Flush ==
  \/ FlushRead \/ FlushReadFails
  \/ FlushAcked \/ FlushFails
  \/ FlushWrite \/ FlushWriteFails

Loop ==
  \/ SpecSkip \/ SpecFetched \/ SpecFails
  \/ HeartbeatSkip \/ HeartbeatDone \/ HeartbeatUpdates
  \/ MeasureNone \/ Measure
  \/ SendAcked \/ SendFails
  \/ SaveResultsToBuffer \/ AppendFails

Running == RegisterOk \/ RegisterFails \/ SaveConfig \/ Unauthorized \/ Flush \/ Loop

Next == Start \/ Running \/ Kill \/ DeleteProbe \/ Tick

Spec == Init /\ [][Next]_vars

(* A started script keeps running.  Of what can go either way again and     *)
(* again, the good outcome happens again and again: the coordinator is      *)
(* reachable often enough, and measurements fall due.                       *)
LoopFairness ==
  /\ WF_vars(Running)
  /\ SF_vars(SpecFetched) /\ SF_vars(Measure)
  /\ SF_vars(SendAcked) /\ SF_vars(FlushAcked)
  /\ SF_vars(RegisterOk) /\ SF_vars(id \notin rows /\ Unauthorized)

(* A scheduled task or a person starts a script that ended.                 *)
FairSpec == Spec /\ WF_vars(Start) /\ LoopFairness

(* Nobody starts the script a second time.                                  *)
UnattendedSpec == Spec /\ WF_vars(Start /\ issued = {}) /\ LoopFairness

(* The script runs and is restarted, and the coordinator may stay away.     *)
OfflineSpec == Spec /\ WF_vars(Start) /\ WF_vars(Running) /\ SF_vars(Measure)

-----------------------------------------------------------------------------
Results == 1..Len(born)
Buffered == Range(lines)

TypeOK ==
  /\ rows \subseteq issued /\ issued \subseteq Ids
  /\ config \in issued \cup {None} /\ id \in issued \cup {None}
  /\ born \in Seq(0..MaxClock) /\ Len(born) <= MaxResults
  /\ lines \in Seq(Results) /\ batch \in Seq(Results) /\ rest \in Seq(Results)
  /\ Len(batch) <= MaxBatch
  /\ tail \in Tails /\ (tail = "open" => lines # <<>>)
  /\ stored \cup acked \cup refused \subseteq Results
  /\ pc \in Places /\ known \in BOOLEAN /\ plain \in BOOLEAN
  /\ due \subseteq Timers \cup {"flush"}
  /\ now \in 0..MaxClock /\ crashes \in 0..MaxCrashes

(* A client that works under an id finds the same id in config.json after a *)
(* restart: Register-Probe saves before it returns.                         *)
IdentityIsSaved ==
  pc \notin {"off", "register", "saveConfig"} => id = config

(* A new id is asked for only by a client that has none, whose probe the    *)
(* coordinator no longer knows, or whose token could not be decrypted when  *)
(* it started; any other failure keeps the identity.                        *)
RegistersOnlyWhenNeeded ==
  [][issued' # issued => config = None \/ config \notin rows \/ ~plain]_vars

(* A terminated line of buffer.jsonl stays until its result is stored by    *)
(* the coordinator or has expired, whatever fails or is killed meanwhile.   *)
BufferKept ==
  [][\A k \in Range(IF tail = "open" THEN Front(lines) ELSE lines) :
       k \in Range(lines') \/ k \in stored' \/ Expired(k)]_vars

(* Results that were measured and are nowhere.                              *)
Lost ==
  {k \in Results \ (Range(batch) \cup Buffered \cup stored \cup refused) : ~Expired(k)}

(* Only a kill or a disk error loses results, and each one at most those of *)
(* a round and one more, which a later append runs into the torn line.      *)
LossNeedsCrash == Cardinality(Lost) <= crashes * (MaxBatch + 1)

(* While nothing was killed and the disk works, a result whose report was   *)
(* answered is not in the buffer, so that it is never sent again.           *)
AnsweredIsNotResent ==
  crashes = 0 /\ pc \notin {"flushSend", "flushWrite"} => acked \cap Buffered = {}

(* What is buffered leaves the buffer.                                      *)
BufferDrains == \A k \in 1..MaxResults : k \in Buffered ~> k \notin Buffered

(* A client whose token has become invalid gets a valid one.                *)
ReRegisters == (id # None /\ id \notin rows) ~> (id \in rows)

(* A result older than the retention leaves the buffer.                     *)
ExpiredIsPurged ==
  \A k \in 1..MaxResults :
    (k \in Buffered /\ Expired(k)) ~> k \notin Buffered

-----------------------------------------------------------------------------
(* What one may expect and the code does not keep: no run checks this, TLC  *)
(* refutes it (see the README).                                             *)

(* A client whose probe is registered and whose config.json names it does   *)
(* not ask for another id.                                                  *)
KeepsItsProbe == [][issued' # issued => config = None \/ config \notin rows]_vars
================================================================================
