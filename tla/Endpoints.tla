------------------------------- MODULE Endpoints -------------------------------
(***************************************************************************)
(* What the coordinator does besides taking results: its configuration and  *)
(* the form that edits it, the two graphs of the dashboards and the         *)
(* assignment of peers.  These parts share no state in the models, so a     *)
(* behaviour moves one of them and the others rest in their initial state.  *)
(* The parts are instantiated with their theorems.                          *)
(***************************************************************************)
EXTENDS ConfigStore

CONSTANTS
  GraphIds, Sites, Window, MaxClock,                       \* PeerGraph
  Probes, Meas, Ips, Hosts, Paths, Filters, MaxChanges,    \* TraceGraph
  Names, File,                                             \* ConfigForm
  PeerIds, Nets, Garbled, Inside, Outside, Counts,         \* PeerAssignment
  Askers, Clients, Days

VARIABLES
  part,                                                    \* what moves
  table, site, nkn, hb, series, now, nodes, edges, calm,   \* PeerGraph
  live, newest, req, changes, seen,                        \* TraceGraph
  stored, cards, untouched, chosen,                        \* ConfigForm
  rows, count, day, luck, home, spec                       \* PeerAssignment

Graph == INSTANCE PeerGraphProofs WITH Ids <- GraphIds

Trace == INSTANCE TraceGraphProofs

Form == INSTANCE ConfigForm

Peers == INSTANCE PeerAssignmentProofs WITH Ids <- PeerIds

ASSUME GraphAssumption == Graph!PeerGraphAssumption
ASSUME TraceAssumption == Trace!TraceGraphAssumption
ASSUME FormAssumption == Form!ConfigFormAssumption
ASSUME PeersAssumption == Peers!PeerAssignmentAssumption

graphVars == <<table, site, nkn, hb, series, now, nodes, edges, calm>>
traceVars == <<live, newest, req, changes, seen>>
formVars == <<stored, cards, untouched, chosen>>
peerVars == <<rows, count, day, luck, home, spec>>
allVars == <<part, vars, graphVars, traceVars, formVars, peerVars>>

EndpointsInit ==
  /\ part \in {"config", "graph", "trace", "form", "peers"}
  /\ Init /\ Graph!Init /\ Trace!Init /\ Form!Init /\ Peers!Init
  /\ part # "trace" => Trace!Stored = {}

EndpointsNext ==
  \/ part = "config" /\ Next /\ UNCHANGED <<part, graphVars, traceVars, formVars, peerVars>>
  \/ part = "graph" /\ Graph!Next /\ UNCHANGED <<part, vars, traceVars, formVars, peerVars>>
  \/ part = "trace" /\ Trace!Next /\ UNCHANGED <<part, vars, graphVars, formVars, peerVars>>
  \/ part = "form" /\ Form!Next /\ UNCHANGED <<part, vars, graphVars, traceVars, peerVars>>
  \/ part = "peers" /\ Peers!Next /\ UNCHANGED <<part, vars, graphVars, traceVars, formVars>>

EndpointsSpec == EndpointsInit /\ [][EndpointsNext]_allVars

--------------------------------------------------------------------------------
(* Properties; those of ConfigStore are used under their own names.         *)

(* Type invariants of the five parts.                                       *)
TypesOK == TypeOK /\ Graph!TypeOK /\ Trace!TypeOK /\ Form!TypeOK /\ Peers!TypeOK

(* The peer graph shows every measured pair of active probes.               *)
CalmPanelIsComplete == Graph!CalmPanelIsComplete

(* The edges of the traceroute graph come from newest paths.                *)
EdgesWereNewest == Trace!EdgesWereNewest

(* The names of its hops come from clients.                                 *)
NamesWereReported == Trace!NamesWereReported

(* Without changes it is exactly the union of the newest paths.             *)
CalmGraphIsExact == Trace!CalmGraphIsExact

(* A removal from the form takes no complete card before the chosen one.    *)
RemoveTakesNoneBefore == Form!RemoveTakesNoneBefore

(* A registered peer that was handed out keeps what it was measured at.     *)
PeersKeepAnAddress == Peers!PeersKeepAnAddress

================================================================================
