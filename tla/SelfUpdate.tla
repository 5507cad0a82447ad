------------------------------- MODULE SelfUpdate -------------------------------
(***************************************************************************)
(* The distribution of the client script: the coordinator announces version *)
(* and SHA-256 of its copy in the answer to a heartbeat, and Update-Self    *)
(* downloads the copy, compares the hash and replaces the running script.   *)
(*                                                                          *)
(* A worker reads the copy once, when it starts (ClientInfo.load), for what *)
(* it announces, and again at every download for what it sends.  A script   *)
(* is a record of the version in its header, which the coordinator reads,   *)
(* and the version in its code, which the client reports; the record stands *)
(* for its bytes, so comparing records is comparing hashes.                 *)
(***************************************************************************)
EXTENDS Naturals

CONSTANTS
  Workers,      \* uvicorn worker processes
  Scripts,      \* scripts that are deployed one after the other
  First,        \* the one in use at the beginning
  MaxDeploys,   \* bound on replacements of the coordinator's copy
  Faults,       \* kinds of faults that may happen
  MaxFaults,    \* bound on their number
  Torn,         \* a part of a script
  None

ASSUME SelfUpdateAssumption ==
  /\ \A s \in Scripts : s.header \in Nat /\ s.code \in Nat
  /\ First \in Scripts /\ MaxDeploys \in Nat /\ MaxFaults \in Nat
  /\ Faults \subseteq {"download", "backup", "install", "kill"}
  /\ Torn \notin Scripts /\ None \notin Scripts

VARIABLES
  copy,         \* the coordinator's copy of the script
  info,         \* what each worker has cached: the script it announces
  deploys,
  script,       \* the client's NknMonitor.ps1, .ps1.new and .ps1.old
  running,      \* the script that runs, or None
  step,         \* the place in Update-Self
  offer,        \* the script announced to the client
  sent,         \* the last download: the hash in its header, the bytes
  faults,
  announced     \* history: every script a worker announced

server == <<copy, info, deploys, announced>>
client == <<script, running, step, offer>>
vars == <<server, client, sent, faults>>

Init ==
  /\ copy = First /\ info = [w \in Workers |-> First]
  /\ deploys = 0 /\ announced = {First}
  /\ script = [current |-> First, new |-> None, old |-> None]
  /\ running = First /\ step = "idle" /\ offer = None
  /\ sent = None /\ faults = 0

--------------------------------------------------------------------------------
(* The coordinator                                                          *)

Deploy(s) ==
  /\ deploys < MaxDeploys /\ deploys' = deploys + 1
  /\ copy' = s
  /\ UNCHANGED <<info, announced, client, sent, faults>>

(* lifespan, ClientInfo.load                                                *)
Restart(w) ==
  /\ info[w] # copy
  /\ info' = [info EXCEPT ![w] = copy]
  /\ announced' = announced \cup {copy}
  /\ UNCHANGED <<copy, deploys, client, sent, faults>>

--------------------------------------------------------------------------------
(* The client                                                               *)

Fault(k) == k \in Faults /\ faults < MaxFaults /\ faults' = faults + 1

(* The coordinator offers any other version than the reported one, and a    *)
(* script without a header never.                                           *)
Offered(w) == info[w].header # 0 /\ info[w].header # running.code

(* The client compares the offered version with its own once more.          *)
Wanted(w) == info[w].header # running.code

(* Bug: Update-Self without its check that the script is in its place.      *)
InPlace_Unchecked_Bug == TRUE

InPlace == script.current # None

(* The heartbeat that begins an update.                                     *)
Heartbeat(w) ==
  /\ running # None /\ step = "idle"
  /\ Offered(w) /\ Wanted(w) /\ InPlace
  /\ offer' = info[w] /\ step' = "offered"
  /\ UNCHANGED <<server, script, running, sent, faults>>

Download(w) ==
  /\ step = "offered" /\ info[w].header # 0
  /\ sent' = [hash |-> info[w], bytes |-> copy]
  /\ script' = [script EXCEPT !.new = copy] /\ step' = "fetched"
  /\ UNCHANGED <<server, running, offer, faults>>

(* catch: the script goes on without the update.                            *)
GiveUp ==
  /\ script' = [script EXCEPT !.new = None] /\ step' = "idle"
  /\ UNCHANGED <<server, running, offer, sent>>

DownloadFails == step = "offered" /\ Fault("download") /\ GiveUp

(* Bug: the hash is not compared.                                          *)
Verified_AnyHash_Bug ==
  /\ step = "fetched"
  /\ step' = "verified"
  /\ UNCHANGED <<server, script, running, offer, sent, faults>>

Verified ==
  /\ step = "fetched" /\ script.new = offer
  /\ step' = "verified"
  /\ UNCHANGED <<server, script, running, offer, sent, faults>>

Mismatch == step = "fetched" /\ script.new # offer /\ GiveUp /\ UNCHANGED faults

Move(file, at) ==
  /\ script' = file /\ step' = at
  /\ UNCHANGED <<server, offer, sent>>

RemoveOld ==
  /\ step = "verified" /\ Move([script EXCEPT !.old = None], "removed")
  /\ UNCHANGED <<running, faults>>

Backup ==
  /\ step = "removed"
  /\ Move([script EXCEPT !.old = script.current, !.current = None], "moved")
  /\ UNCHANGED <<running, faults>>

BackupFails == step = "removed" /\ Fault("backup") /\ GiveUp

(* Bug: the old script goes on after it was replaced.                       *)
Install_GoesOn_Bug ==
  /\ step = "moved"
  /\ Move([script EXCEPT !.current = script.new, !.new = None], "idle")
  /\ UNCHANGED <<running, faults>>

(* exit 0                                                                   *)
Install ==
  /\ step = "moved"
  /\ Move([script EXCEPT !.current = script.new, !.new = None], "idle")
  /\ running' = None
  /\ UNCHANGED faults

InstallFails == step = "moved" /\ Fault("install") /\ GiveUp

(* The process ends: a reboot, a logoff, a power failure.                   *)
Kill ==
  /\ running # None /\ Fault("kill")
  /\ running' = None /\ step' = "idle"
  /\ script' \in {script} \cup IF step = "offered" THEN {[script EXCEPT !.new = Torn]} ELSE {}
  /\ UNCHANGED <<server, offer, sent>>

(* A scheduled task or a person starts what is at the path of the script.   *)
Start ==
  /\ running = None /\ script.current # None
  /\ running' = script.current
  /\ UNCHANGED <<server, script, step, offer, sent, faults>>

Update ==
  \/ \E w \in Workers : Heartbeat(w) \/ Download(w)
  \/ Verified \/ Mismatch \/ RemoveOld \/ Backup \/ Install

Next ==
  \/ \E s \in Scripts : Deploy(s)
  \/ \E w \in Workers : Restart(w)
  \/ Update \/ Start
  \/ DownloadFails \/ BackupFails \/ InstallFails \/ Kill

(* The script runs to the end of what it began, and a worker is restarted   *)
(* some time after its copy was replaced.  Nobody has to start the script:  *)
(* it ends with exit 0, which is no failure for a task that restarts on     *)
(* failure.                                                                 *)
Fairness ==
  /\ WF_vars(Update)
  /\ \A w \in Workers : WF_vars(Restart(w)) /\ SF_vars(Heartbeat(w))

Spec == Init /\ [][Next]_vars

LiveSpec == Spec /\ Fairness

--------------------------------------------------------------------------------
(* Properties                                                               *)

(* Type invariant.                                                          *)
TypeOK ==
  /\ copy \in Scripts /\ info \in [Workers -> Scripts] /\ announced \subseteq Scripts
  /\ script \in [current : Scripts \cup {Torn, None}, new : Scripts \cup {Torn, None},
                 old : Scripts \cup {Torn, None}]
  /\ running \in Scripts \cup {None}
  /\ step \in {"idle", "offered", "fetched", "verified", "removed", "moved"}
  /\ offer \in Scripts \cup {None}
  /\ step # "idle" => running # None /\ offer # None
  /\ deploys \in 0 .. MaxDeploys /\ faults \in 0 .. MaxFaults

(* Whatever fails and whenever the process ends, only a whole script that   *)
(* the coordinator announced stands where the next start looks for one.     *)
OnlyAnnouncedInstalled == script.current # None => script.current \in announced

(* A whole script is left on the disk, under its name or as .old: an update *)
(* that failed between its two moves does not lead to another that removes  *)
(* the last copy.                                                           *)
SomeScriptIsLeft == {script.current, script.old} \cap Scripts # {}

(* When the copy is no longer replaced, updates come to an end: whenever    *)
(* the client runs, it has the announced version.  Excepted are a client   *)
(* whose script is gone from its place, and a copy whose header is not the  *)
(* version in its code, where updates never end (or never begin: no header).*)
UpdatesEnd ==
  <>[](\/ running = None \/ running.code = copy.header
       \/ step = "idle" /\ script.current = None
       \/ copy.header # copy.code)

--------------------------------------------------------------------------------
(* What the documents say and the code does not keep: no run checks these,  *)
(* TLC refutes each of them (see the README).                               *)

(* The docstring of download_client: the hash must match the one that is    *)
(* announced.                                                               *)
SentMatchesHash == sent # None => sent.bytes = sent.hash

(* The deployment guide: the client replaces the script and is started      *)
(* again.  Outside an update there is a script to start.                    *)
StaysStartable == step = "idle" => script.current # None

================================================================================
