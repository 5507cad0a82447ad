----------------------------- MODULE CallersProofs -----------------------------
(* Proofs about SelfUpdate, AdminPage, MockProbe and their composition      *)
(* Callers, for every value of their constants.                             *)
EXTENDS Callers, TLAPS

(* Update-Self, for every number of workers, scripts, deploys and faults.   *)

Files == [current : Scripts \cup {Torn, None}, new : Scripts \cup {Torn, None},
          old : Scripts \cup {Torn, None}]

Steps == {"idle", "offered", "fetched", "verified", "removed", "moved"}

(* What workers announce, and the client is offered, are scripts that were  *)
(* announced.                                                               *)
OffersInv ==
  /\ copy \in Scripts /\ info \in [Workers -> Scripts] /\ announced \subseteq Scripts
  /\ \A w \in Workers : info[w] \in announced
  /\ step \in Steps
  /\ step # "idle" => offer \in announced

(* The three files at each step.  The backup is removed only while a script *)
(* stands in its place, and a script leaves its place only as the backup.   *)
FilesInv ==
  /\ script \in Files
  /\ script.current \in announced \cup {None}
  /\ step \in {"verified", "removed", "moved"} => script.new = offer
  /\ step \in {"offered", "fetched", "verified", "removed"} => script.current # None
  /\ script.current = None => script.old \in announced

SafeInv == OffersInv /\ FilesInv

LEMMA SafeInit == Init => SafeInv
<1> SUFFICES ASSUME Init PROVE SafeInv
  OBVIOUS
<1>1. First \in Scripts /\ First # None
  BY SelfUpdateAssumption
<1>2. OffersInv
  BY <1>1 DEF Init, OffersInv, Steps
<1>3. FilesInv
  BY <1>1 DEF Init, FilesInv, Files
<1> QED  BY <1>2, <1>3 DEF SafeInv

(* A step of Update-Self that ends it keeps the script that stands and the  *)
(* backup.                                                                  *)
LEMMA EndSafe ==
  ASSUME SafeInv, UNCHANGED server, step' = "idle",
         script' = script \/ \E x \in {Torn, None} : script' = [script EXCEPT !.new = x]
  PROVE  SafeInv'
<1>1. OffersInv'
  BY DEF SafeInv, OffersInv, server, Steps
<1>2. /\ script' \in Files /\ script'.current = script.current /\ script'.old = script.old
      /\ announced' = announced
  BY DEF SafeInv, FilesInv, Files, server
<1>3. FilesInv'
  BY <1>2 DEF SafeInv, FilesInv
<1> QED  BY <1>1, <1>3 DEF SafeInv

LEMMA SafeStep == SafeInv /\ [Next]_vars => SafeInv'
<1> SUFFICES ASSUME SafeInv, [Next]_vars PROVE SafeInv'
  OBVIOUS
<1> USE DEF SafeInv
<1>n. None \notin Scripts /\ Torn \notin Scripts
  BY SelfUpdateAssumption
<1>1. ASSUME NEW s \in Scripts, Deploy(s) PROVE SafeInv'
  BY <1>1 DEF Deploy, OffersInv, FilesInv, client
<1>2. ASSUME NEW w \in Workers, Restart(w) PROVE SafeInv'
  <2>1. OffersInv'
    BY <1>2 DEF Restart, OffersInv, client
  <2>2. FilesInv'
    BY <1>2 DEF Restart, FilesInv, client
  <2> QED  BY <2>1, <2>2
<1>3. ASSUME NEW w \in Workers, Heartbeat(w) PROVE SafeInv'
  BY <1>3 DEF Heartbeat, InPlace, OffersInv, FilesInv, server, Steps
<1>4. ASSUME NEW w \in Workers, Download(w) PROVE SafeInv'
  <2>1. OffersInv'
    BY <1>4 DEF Download, OffersInv, server, Steps
  <2>2. /\ script' \in Files /\ script'.current = script.current /\ script'.old = script.old
        /\ announced' = announced /\ step = "offered" /\ step' = "fetched"
    BY <1>4 DEF Download, OffersInv, FilesInv, Files, server
  <2>3. FilesInv'
    BY <2>2 DEF FilesInv
  <2> QED  BY <2>1, <2>3
<1>5. ASSUME GiveUp PROVE SafeInv'
  BY <1>5, EndSafe DEF GiveUp
<1>6. CASE Verified
  BY <1>6 DEF Verified, OffersInv, FilesInv, server, Steps
<1>7. CASE RemoveOld
  <2>1. OffersInv'
    BY <1>7 DEF RemoveOld, Move, OffersInv, server, Steps
  <2>2. /\ script' \in Files /\ script'.current = script.current /\ script'.new = script.new
        /\ announced' = announced /\ offer' = offer /\ step = "verified" /\ step' = "removed"
    BY <1>7 DEF RemoveOld, Move, FilesInv, Files, server
  <2>3. FilesInv'
    BY <2>2 DEF FilesInv
  <2> QED  BY <2>1, <2>3
<1>8. CASE Backup
  <2>1. OffersInv'
    BY <1>8 DEF Backup, Move, OffersInv, server, Steps
  <2>2. /\ script' \in Files /\ script'.current = None /\ script'.new = script.new
        /\ script'.old = script.current
        /\ announced' = announced /\ offer' = offer /\ step = "removed" /\ step' = "moved"
    BY <1>8 DEF Backup, Move, FilesInv, Files, server
  <2>3. FilesInv'
    BY <2>2 DEF FilesInv
  <2> QED  BY <2>1, <2>3
<1>9. CASE Install
  <2>1. OffersInv'
    BY <1>9 DEF Install, Move, OffersInv, server, Steps
  <2>2. /\ script' \in Files /\ script'.current = offer /\ offer \in announced
        /\ announced' = announced /\ step' = "idle"
    BY <1>9 DEF Install, Move, OffersInv, FilesInv, Files, server
  <2>3. offer # None
    BY <1>n, <2>2 DEF OffersInv
  <2>4. FilesInv'
    BY <2>2, <2>3 DEF FilesInv
  <2> QED  BY <2>1, <2>4
<1>10. CASE Kill
  <2>1. script' = script \/ script' = [script EXCEPT !.new = Torn]
    BY <1>10 DEF Kill
  <2> QED  BY <1>10, <2>1, EndSafe DEF Kill
<1>11. CASE Start
  BY <1>11 DEF Start, OffersInv, FilesInv, server
<1>12. CASE UNCHANGED vars
  BY <1>12 DEF vars, server, client, OffersInv, FilesInv
<1> QED
  BY <1>1, <1>2, <1>3, <1>4, <1>5, <1>6, <1>7, <1>8, <1>9, <1>10, <1>11, <1>12
  DEF Next, Update, Mismatch, DownloadFails, BackupFails, InstallFails

(* Update-Self installs nothing but what a worker announced: the hash of    *)
(* the bytes is compared after they are on the disk and before a file       *)
(* moves, so neither a stale worker nor a cut download gets through.        *)
THEOREM InstalledWasAnnounced == Spec => []OnlyAnnouncedInstalled
<1>1. SafeInv => OnlyAnnouncedInstalled
  BY DEF SafeInv, FilesInv, OnlyAnnouncedInstalled
<1> QED  BY <1>1, SafeInit, SafeStep, PTL DEF Spec

(* However often updates fail or are killed half way, the last whole script *)
(* is never removed: Update-Self stops when none stands in its place.       *)
THEOREM ScriptIsLeft == Spec => []SomeScriptIsLeft
<1>1. SafeInv => SomeScriptIsLeft
  BY DEF SafeInv, OffersInv, FilesInv, SomeScriptIsLeft
<1> QED  BY <1>1, SafeInit, SafeStep, PTL DEF Spec


(* What TypeOK adds to SafeInv.  An update has a running script, and an     *)
(* offer, until it ends.                                                    *)
RunInv ==
  /\ running \in Scripts \cup {None}
  /\ offer \in Scripts \cup {None}
  /\ step # "idle" => running # None
  /\ deploys \in 0 .. MaxDeploys /\ faults \in 0 .. MaxFaults

LEMMA RunInit == Init => RunInv
<1>1. First \in Scripts /\ 0 \in 0 .. MaxDeploys /\ 0 \in 0 .. MaxFaults
  BY SelfUpdateAssumption
<1> QED  BY <1>1, Zenon DEF Init, RunInv

LEMMA FaultType ==
  ASSUME RunInv, NEW k, Fault(k)
  PROVE  faults' \in 0 .. MaxFaults
BY SelfUpdateAssumption DEF RunInv, Fault

LEMMA RunStep == SafeInv /\ RunInv /\ [Next]_vars => RunInv'
<1> SUFFICES ASSUME SafeInv, RunInv, [Next]_vars PROVE RunInv'
  OBVIOUS
<1>n. None \notin Scripts /\ MaxDeploys \in Nat /\ MaxFaults \in Nat
  BY SelfUpdateAssumption
<1>1. ASSUME NEW s \in Scripts, Deploy(s) PROVE RunInv'
  <2>1. deploys' \in 0 .. MaxDeploys
    BY <1>1, <1>n DEF Deploy, RunInv
  <2> QED  BY <1>1, <2>1, Zenon DEF Deploy, RunInv, client
<1>2. ASSUME NEW w \in Workers, Restart(w) PROVE RunInv'
  BY <1>2, Zenon DEF Restart, RunInv, client
<1>3. ASSUME NEW w \in Workers, Heartbeat(w) PROVE RunInv'
  <2>1. info[w] \in Scripts
    BY DEF SafeInv, OffersInv
  <2> QED  BY <1>3, <2>1, Zenon DEF Heartbeat, RunInv, server
<1>4. ASSUME NEW w \in Workers, Download(w) PROVE RunInv'
  <2>1. running # None
    BY <1>4 DEF Download, RunInv
  <2> QED  BY <1>4, <2>1, Zenon DEF Download, RunInv, server
<1>5. ASSUME GiveUp, faults' \in 0 .. MaxFaults PROVE RunInv'
  BY <1>5, Zenon DEF GiveUp, RunInv, server
<1>6. ASSUME Verified \/ RemoveOld \/ Backup PROVE RunInv'
  <2>1. running # None
    BY <1>6 DEF Verified, RemoveOld, Backup, RunInv
  <2> QED  BY <1>6, <2>1, Zenon DEF Verified, RemoveOld, Backup, Move, RunInv, server
<1>7. CASE Install
  BY <1>7, Zenon DEF Install, Move, RunInv, server
<1>8. CASE Kill
  <2>1. faults' \in 0 .. MaxFaults
    BY <1>8, FaultType DEF Kill
  <2> QED  BY <1>8, <2>1, Zenon DEF Kill, RunInv, server
<1>9. CASE Start
  <2>1. script.current \in Scripts
    BY <1>9 DEF Start, SafeInv, OffersInv, FilesInv
  <2> QED  BY <1>9, <2>1, Zenon DEF Start, RunInv, server
<1>10. CASE UNCHANGED vars
  BY <1>10, Zenon DEF vars, server, client, RunInv
<1>11. CASE Mismatch
  BY <1>5, <1>11 DEF Mismatch, RunInv
<1>12. CASE DownloadFails \/ BackupFails \/ InstallFails
  BY <1>5, <1>12, FaultType DEF DownloadFails, BackupFails, InstallFails
<1> QED
  BY <1>1, <1>2, <1>3, <1>4, <1>6, <1>7, <1>8, <1>9, <1>10, <1>11, <1>12 DEF Next, Update

LEMMA UpdateTypeCorrect == Spec => []TypeOK
<1>1. SafeInv /\ RunInv => TypeOK
  <2> SUFFICES ASSUME SafeInv, RunInv PROVE TypeOK
    OBVIOUS
  <2>1. step # "idle" => offer # None
    BY SelfUpdateAssumption DEF SafeInv, OffersInv
  <2> QED  BY <2>1, Zenon DEF SafeInv, OffersInv, FilesInv, RunInv, Files, Steps, TypeOK
<1> QED  BY <1>1, SafeInit, SafeStep, RunInit, RunStep, PTL DEF Spec

--------------------------------------------------------------------------------
(* The admin page                                                           *)


LEMMA PageInit == Page!AdminPageAssumption /\ Page!Init => Page!TypeOK
<1> SUFFICES ASSUME Page!AdminPageAssumption, Page!Init PROVE Page!TypeOK
  OBVIOUS
<1>1. page \in Page!Tables /\ table \in Page!Tables
  BY DEF Page!Init, Page!Tables
<1>2. Page!IdleFetch \in [step : {"idle", "asked", "answered"}, body : Page!Tables]
  BY DEF Page!IdleFetch, Page!Tables
<1> QED
  BY <1>1, <1>2
     DEF Page!AdminPageAssumption, Page!Init, Page!NoCommand, Page!TypeOK, Page!Roles

LEMMA PageNext ==
  Page!AdminPageAssumption /\ Page!TypeOK /\ [Page!Next]_Page!vars => Page!TypeOK'
<1> SUFFICES ASSUME Page!AdminPageAssumption, Page!TypeOK, [Page!Next]_Page!vars
             PROVE  Page!TypeOK'
  OBVIOUS
<1> DEFINE Commands ==
      [step : {"idle", "sent", "answered"}, op : {"none", "role", "delete", "sweep"},
       id : PageIds \cup {None}, role : Page!Roles \cup {None}, was : Page!Roles \cup {None},
       there : BOOLEAN, ok : BOOLEAN]
<1> DEFINE Fetches == [step : {"idle", "asked", "answered"}, body : Page!Tables]
<1>t. /\ table \in Page!Tables /\ page \in Page!Tables /\ fetch \in [Slots -> Fetches]
      /\ cmd \in Commands /\ changes \in 0 .. MaxChanges /\ MaxChanges \in Nat
  BY DEF Page!TypeOK, Page!AdminPageAssumption
<1>g. ASSUME /\ table' \in Page!Tables /\ page' \in Page!Tables
             /\ fetch' \in [Slots -> Fetches]
             /\ cmd' \in Commands /\ changes' \in 0 .. MaxChanges
      PROVE  Page!TypeOK'
  BY <1>g DEF Page!TypeOK
<1>i. Page!IdleFetch \in Fetches /\ Page!NoCommand \in Commands
  BY DEF Page!IdleFetch, Page!Tables, Page!NoCommand
<1>s. \A f \in Fetches : /\ f.body \in Page!Tables
                         /\ \A x \in {"idle", "asked", "answered"} : [f EXCEPT !.step = x] \in Fetches
  OBVIOUS
<1>u. \A c \in Commands : \A b \in BOOLEAN :
        /\ [c EXCEPT !.there = b] \in Commands
        /\ [c EXCEPT !.step = "answered", !.ok = b] \in Commands
  OBVIOUS
<1>c. Page!Change => changes' \in 0 .. MaxChanges
  BY <1>t DEF Page!Change
<1> HIDE DEF Commands, Fetches
<1>1. ASSUME NEW s \in Slots, Page!Ask(s) PROVE Page!TypeOK'
  BY <1>1, <1>t, <1>s, <1>g DEF Page!Ask
<1>2. ASSUME NEW s \in Slots, Page!Serve(s) PROVE Page!TypeOK'
  <2>1. [step |-> "answered", body |-> table] \in Fetches
    BY <1>t DEF Fetches
  <2> QED  BY <1>2, <2>1, <1>t, <1>g DEF Page!Serve
<1>3. ASSUME NEW s \in Slots, Page!ServeFails(s) PROVE Page!TypeOK'
  BY <1>3, <1>t, <1>i, <1>g DEF Page!ServeFails
<1>4. ASSUME NEW s \in Slots, Page!Render(s) PROVE Page!TypeOK'
  <2>1. page' \in Page!Tables
    BY <1>4, <1>t, <1>s DEF Page!Render
  <2>2. cmd' \in Commands
    BY <1>4, <1>t, <1>u DEF Page!Render
  <2> QED  BY <1>4, <2>1, <2>2, <1>t, <1>i, <1>g DEF Page!Render
<1>5. ASSUME NEW s \in Slots, Page!Succeed(s) PROVE Page!TypeOK'
  BY <1>5, <1>t, <1>i, <1>s, <1>g DEF Page!Succeed
<1>6. CASE Page!Execute
  <2>1. table' \in Page!Tables
    <3>1. \A D : [i \in PageIds |-> IF i \in D THEN None ELSE table[i]] \in Page!Tables
      BY <1>t DEF Page!Tables
    <3>2. [table EXCEPT ![cmd.id] = cmd.role] \in Page!Tables
      BY <1>t DEF Page!Tables, Commands
    <3> QED  BY <1>6, <1>t, <3>1, <3>2 DEF Page!Execute
  <2>2. cmd' \in Commands
    <3>1. (cmd.op = "sweep" \/ table[cmd.id] # None) \in BOOLEAN
      OBVIOUS
    <3> QED  BY <1>6, <1>t, <1>u, <3>1 DEF Page!Execute
  <2> QED  BY <1>6, <2>1, <2>2, <1>t, <1>g DEF Page!Execute
<1>7. CASE Page!CommandLost
  BY <1>7, <1>t, <1>i, <1>g DEF Page!CommandLost
<1>8. CASE Page!Refused
  <2>1. page' \in Page!Tables
    <3>1. [page EXCEPT ![cmd.id] = cmd.was] \in Page!Tables
      BY <1>t DEF Page!Tables, Commands
    <3> QED  BY <1>8, <1>t, <3>1 DEF Page!Refused
  <2> QED  BY <1>8, <2>1, <1>t, <1>i, <1>g DEF Page!Refused
<1>9. ASSUME NEW op \in {"role", "delete", "sweep"}, NEW i \in PageIds \cup {None},
             NEW r \in Page!Roles \cup {None}, Page!Send(op, i, r), page' \in Page!Tables
      PROVE  Page!TypeOK'
  <2>1. (IF i = None THEN None ELSE page[i]) \in Page!Roles \cup {None}
    BY <1>t DEF Page!Tables
  <2>2. cmd' \in Commands
    BY <1>9, <2>1 DEF Page!Send, Page!NoCommand, Commands
  <2> QED  BY <1>9, <2>2, <1>t, <1>c, <1>g DEF Page!Send
<1>10. ASSUME NEW i \in PageIds, NEW r \in Page!Roles, Page!ChooseRole(i, r) PROVE Page!TypeOK'
  <2>1. page' \in Page!Tables
    BY <1>10, <1>t DEF Page!ChooseRole, Page!Tables
  <2> QED  BY <1>9, <1>10, <2>1 DEF Page!ChooseRole
<1>11. ASSUME NEW i \in PageIds, Page!AskDelete(i) PROVE Page!TypeOK'
  BY <1>9, <1>11, <1>t DEF Page!AskDelete
<1>12. CASE Page!AskSweep
  BY <1>9, <1>12, <1>t DEF Page!AskSweep
<1>13. ASSUME NEW t \in Page!Tables, Page!Others(t) PROVE Page!TypeOK'
  BY <1>13, <1>t, <1>c, <1>g DEF Page!Others
<1>14. CASE UNCHANGED Page!vars
  BY <1>14, <1>t, <1>g DEF Page!vars
<1> QED
  BY <1>1, <1>2, <1>3, <1>4, <1>5, <1>6, <1>7, <1>8, <1>10, <1>11, <1>12, <1>13, <1>14
     DEF Page!Next, Page!User


--------------------------------------------------------------------------------
(* The mock client                                                          *)

LEMMA MockInit == Mock!MockProbeAssumption /\ Mock!Init => Mock!TypeOK
<1> SUFFICES ASSUME Mock!MockProbeAssumption, Mock!Init PROVE Mock!TypeOK
  OBVIOUS
<1>1. 0 \in 0 .. MaxFailures /\ Mock!Old \in 0 .. Mock!Old
  BY DEF Mock!MockProbeAssumption, Mock!Old
<1>2. targets \in BOOLEAN /\ removed \in BOOLEAN
  BY Zenon DEF Mock!Init
<1> QED  BY <1>1, <1>2 DEF Mock!Init, Mock!TypeOK

LEMMA MockNext ==
  Mock!MockProbeAssumption /\ Mock!TypeOK /\ [Mock!Next]_Mock!vars => Mock!TypeOK'
<1> SUFFICES ASSUME Mock!MockProbeAssumption, Mock!TypeOK, [Mock!Next]_Mock!vars
             PROVE  Mock!TypeOK'
  OBVIOUS
<1>f. Mock!Failure => failures' \in 0 .. MaxFailures
  BY DEF Mock!MockProbeAssumption, Mock!TypeOK, Mock!Failure
<1>r. Mock!Refused => failures' \in 0 .. MaxFailures
  BY <1>f DEF Mock!Refused, Mock!TypeOK
<1>a. /\ None \notin MockIds
      /\ rows \subseteq MockIds /\ reported \subseteq {id} /\ id \in MockIds \cup {None}
      /\ id = None <=> pc = "register"
      /\ pc = "register" => reported = {}
      /\ pc \in {"register", "heartbeat", "spec", "report"}
      /\ targets \in BOOLEAN /\ removed \in BOOLEAN
      /\ hbAge \in 0 .. Mock!Old /\ specAge \in 0 .. Mock!Old /\ failures \in 0 .. MaxFailures
  BY DEF Mock!MockProbeAssumption, Mock!TypeOK
<1>g. ASSUME /\ rows' \subseteq MockIds /\ reported' \subseteq {id'}
             /\ id' \in MockIds \cup {None} /\ (id' = None <=> pc' = "register")
             /\ pc' = "register" => reported' = {}
             /\ pc' \in {"register", "heartbeat", "spec", "report"}
             /\ targets' \in BOOLEAN /\ removed' \in BOOLEAN
             /\ hbAge' \in 0 .. Mock!Old /\ specAge' \in 0 .. Mock!Old
             /\ failures' \in 0 .. MaxFailures
      PROVE  Mock!TypeOK'
  BY <1>g, Zenon DEF Mock!TypeOK
<1>o. 0 \in 0 .. Mock!Old
  BY DEF Mock!Old
<1>1. CASE Mock!RegisterOk
  <2>1. rows' \subseteq MockIds /\ id' \in MockIds /\ pc' = "heartbeat" /\ reported' = {}
    BY <1>1, <1>a DEF Mock!RegisterOk, Mock!NewRow
  <2>2. id' # None
    BY <1>a, <2>1
  <2> QED  BY <1>1, <1>a, <1>g, <2>1, <2>2, Zenon DEF Mock!RegisterOk
<1>2. CASE Mock!RegisterFails
  <2>1. rows' \subseteq MockIds
    BY <1>2, <1>a DEF Mock!RegisterFails, Mock!NewRow
  <2> QED  BY <1>2, <1>a, <1>f, <1>g, <2>1, Zenon DEF Mock!RegisterFails
<1>3. CASE Mock!Heartbeat
  BY <1>3, <1>a, <1>r, <1>g, <1>o, Zenon
     DEF Mock!Heartbeat, Mock!HeartbeatOk, Mock!HeartbeatFails, Mock!HeartbeatSkip
<1>4. CASE Mock!FetchSpec
  BY <1>4, <1>a, <1>r, <1>g, <1>o, Zenon
     DEF Mock!FetchSpec, Mock!SpecOk, Mock!SpecFails, Mock!SpecSkip
<1>5. CASE Mock!Report
  <2>1. /\ Mock!Sleep /\ pc = "report" /\ reported' \subseteq {id} /\ failures' \in 0 .. MaxFailures
    BY <1>5, <1>a, <1>r DEF Mock!Report, Mock!ReportOk, Mock!ReportFails, Mock!ReportNone
  <2>2. hbAge' \in 0 .. Mock!Old /\ specAge' \in 0 .. Mock!Old
    BY <2>1, <1>a DEF Mock!Sleep, Mock!Old
  <2> QED  BY <2>1, <2>2, <1>a, <1>g, Zenon DEF Mock!Sleep
<1>6. CASE Mock!RemoveProbe
  <2>1. rows' \subseteq MockIds /\ removed' \in BOOLEAN
    BY <1>6, <1>a, Zenon DEF Mock!RemoveProbe
  <2> QED  BY <1>6, <1>a, <1>f, <1>g, <2>1, Zenon DEF Mock!RemoveProbe
<1>7. CASE UNCHANGED Mock!vars
  BY <1>7, <1>a, <1>g, Zenon DEF Mock!vars
<1> QED  BY <1>1, <1>2, <1>3, <1>4, <1>5, <1>6, <1>7 DEF Mock!Next

--------------------------------------------------------------------------------
(* The composition.  A behaviour of Callers is one of each of its parts.    *)

LEMMA PartsBehave == CallersSpec => Spec /\ Page!Spec /\ Mock!Spec
<1>1. CallersInit => Init /\ Page!Init /\ Mock!Init
  BY DEF CallersInit
<1>2. [CallersNext]_allVars => [Next]_vars
  BY DEF CallersNext, allVars, updateVars, vars, server, client
<1>3. [CallersNext]_allVars => [Page!Next]_Page!vars
  BY DEF CallersNext, allVars, pageVars, Page!vars
<1>4. [CallersNext]_allVars => [Mock!Next]_Mock!vars
  BY DEF CallersNext, allVars, mockVars, Mock!vars
<1> QED
  BY <1>1, <1>2, <1>3, <1>4, PTL DEF CallersSpec, Spec, Page!Spec, Mock!Spec

(* The three programs keep their types: an update in progress (Update-Self) *)
(* has a running script and an offer, commands and answers of the page are  *)
(* whole, and a mock that is past its registration (run_probe) has an id    *)
(* and reports under it only.                                               *)
THEOREM CallersTypesCorrect == CallersSpec => []TypesOK
<1>1. Page!Spec => []Page!TypeOK
  BY PageAssumption, PageInit, PageNext, PTL DEF Page!Spec
<1>2. Mock!Spec => []Mock!TypeOK
  BY MockAssumption, MockInit, MockNext, PTL DEF Mock!Spec
<1>3. TypeOK /\ Page!TypeOK /\ Mock!TypeOK => TypesOK
  BY DEF TypesOK
<1> QED  BY <1>1, <1>2, <1>3, UpdateTypeCorrect, PartsBehave, PTL

================================================================================
