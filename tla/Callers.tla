-------------------------------- MODULE Callers --------------------------------
(***************************************************************************)
(* Programs that call the coordinator: the client that replaces itself, the *)
(* table of the admin page, and the mock client.  They share no state in    *)
(* the models, so a behaviour moves one of them and the others rest in      *)
(* their initial state.                                                     *)
(***************************************************************************)
EXTENDS SelfUpdate

CONSTANTS
  PageIds, Slots, MaxChanges,    \* AdminPage
  MockIds, MaxFailures           \* MockProbe

VARIABLES
  part,                                                        \* what moves
  table, page, fetch, cmd, changes,                            \* AdminPage
  rows, reported, pc, id, targets, hbAge, specAge, failures, removed  \* MockProbe

Page == INSTANCE AdminPage WITH Ids <- PageIds

Mock == INSTANCE MockProbe WITH Ids <- MockIds

ASSUME PageAssumption == Page!AdminPageAssumption
ASSUME MockAssumption == Mock!MockProbeAssumption

pageVars == <<table, page, fetch, cmd, changes>>
mockVars == <<rows, reported, pc, id, targets, hbAge, specAge, failures, removed>>
updateVars ==
  <<copy, info, deploys, announced, script, running, step, offer, sent, faults>>
allVars ==
  <<part,
    copy, info, deploys, announced, script, running, step, offer, sent, faults,
    table, page, fetch, cmd, changes,
    rows, reported, pc, id, targets, hbAge, specAge, failures, removed>>

CallersInit ==
  /\ part \in {"update", "page", "mock"}
  /\ Init /\ Page!Init /\ Mock!Init
  /\ part # "page" => Page!Empty(table)

CallersNext ==
  \/ part = "update" /\ Next /\ UNCHANGED <<part, pageVars, mockVars>>
  \/ part = "page" /\ Page!Next /\ UNCHANGED <<part, updateVars, mockVars>>
  \/ part = "mock" /\ Mock!Next /\ UNCHANGED <<part, updateVars, pageVars>>

(* The fairness of SelfUpdate, AdminPage and MockProbe, for the part that   *)
(* moves.                                                                   *)
UpdateFairness ==
  /\ WF_updateVars(part = "update" /\ Update)
  /\ \A w \in Workers : /\ WF_updateVars(part = "update" /\ Restart(w))
                       /\ SF_updateVars(part = "update" /\ Heartbeat(w))

PageFairness ==
  \A s \in Slots : /\ WF_pageVars(part = "page" /\ Page!Ask(s))
                       /\ SF_pageVars(part = "page" /\ Page!Serve(s))
                       /\ WF_pageVars(part = "page" /\ Page!Render(s))

MockFairness ==
  /\ WF_mockVars(part = "mock" /\ Mock!Next) /\ SF_mockVars(part = "mock" /\ Mock!RegisterOk)
  /\ SF_mockVars(part = "mock" /\ Mock!HeartbeatOk)
  /\ SF_mockVars(part = "mock" /\ Mock!SpecOk /\ targets')
  /\ SF_mockVars(part = "mock" /\ Mock!ReportOk)

CallersSpec == CallersInit /\ [][CallersNext]_allVars /\ UpdateFairness /\ PageFairness /\ MockFairness

--------------------------------------------------------------------------------
(* Properties; those of SelfUpdate are used under their own names.          *)

(* Type invariants of the three parts.                                       *)
TypesOK == TypeOK /\ Page!TypeOK /\ Mock!TypeOK

(* The probes table comes to show what is registered.                       *)
PageCatchesUp == Page!PageCatchesUp

(* The mock reports again and again.                                        *)
KeepsReporting == part = "mock" => Mock!KeepsReporting

================================================================================
