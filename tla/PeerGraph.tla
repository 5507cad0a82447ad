------------------------------- MODULE PeerGraph -------------------------------
(***************************************************************************)
(* The Node Graph panel of the peer dashboard: one refresh asks for         *)
(* /peer-graph/nodes and for /peer-graph/edges, each in a request of its    *)
(* own, and the second awaits VictoriaMetrics before it answers.  Probes    *)
(* register, send heartbeats, are removed and measure each other meanwhile. *)
(* A series in VictoriaMetrics names the probe that measured and the SITE   *)
(* of the one that was measured.                                            *)
(*                                                                          *)
(* Reading the clock and reading the table are one step of a request: the   *)
(* table and the clock can change between the two requests, and the checked *)
(* property speaks of refreshes in which neither does.  Colours, labels and *)
(* round-trip times are left out: an edge is drawn for a pair that has any  *)
(* series.                                                                  *)
(***************************************************************************)
EXTENDS Naturals, Sequences, FiniteSets, SequencesExt, Filter

CONSTANTS
  Ids,          \* probe ids
  Sites,        \* site names
  Window,       \* active_within_minutes
  MaxClock,     \* bound on the clock
  None

PeerGraphAssumption ==
  Window \in Nat \ {0} /\ MaxClock \in Nat /\ None \notin Ids \cup Sites \cup Nat

VARIABLES
  table,        \* ids in table probes, newest first (list_probes)
  site,         \* site_name of a probe, or None: never registered
  nkn,          \* last_classification is "nkn"
  hb,           \* last_heartbeat_at, or None
  series,       \* pairs <<p, q>>: p measured q lately
  now,
  nodes,        \* the nodes answered in this refresh, or None
  edges,        \* the request for edges in this refresh
  calm          \* history: nothing changed since the panel's refresh began

probes == <<table, site, nkn, hb>>
vars == <<probes, series, now, nodes, edges, calm>>

Unasked == [step |-> "idle", active |-> {}, named |-> [s \in Sites |-> None],
            shown |-> {}]

Init ==
  /\ table = <<>>
  /\ site = [p \in Ids |-> None]
  /\ nkn = [p \in Ids |-> FALSE]
  /\ hb = [p \in Ids |-> None]
  /\ series = {} /\ now = 0
  /\ nodes = None
  /\ edges = Unasked
  /\ calm = TRUE

Registered(p) == p \in ToSet(table)

Idle == nodes = None /\ edges.step = "idle"

Changed == calm' = Idle /\ UNCHANGED <<nodes, edges>>

--------------------------------------------------------------------------------
(* Probes                                                                   *)

Register(p, s) ==
  /\ site[p] = None
  /\ table' = <<p>> \o table
  /\ site' = [site EXCEPT ![p] = s]
  /\ Changed /\ UNCHANGED <<nkn, hb, series, now>>

Heartbeat(p, c) ==
  /\ Registered(p)
  /\ hb' = [hb EXCEPT ![p] = now] /\ nkn' = [nkn EXCEPT ![p] = c]
  /\ Changed /\ UNCHANGED <<table, site, series, now>>

RemoveProbe(p) ==
  /\ Registered(p)
  /\ table' = At(table, {i \in DOMAIN table : table[i] # p})
  /\ nkn' = [nkn EXCEPT ![p] = FALSE] /\ hb' = [hb EXCEPT ![p] = None]
  /\ Changed /\ UNCHANGED <<site, series, now>>

Removed(p) == site[p] # None /\ ~Registered(p)

(* A peer result is stored, also one about a probe that has been removed    *)
(* and is still in a cached specification.                                  *)
Measure(p, q) ==
  /\ p # q /\ Registered(p) /\ <<p, q>> \notin series
  /\ hb[q] # None \/ Removed(q)
  /\ series' = series \cup {<<p, q>>}
  /\ Changed /\ UNCHANGED <<probes, now>>

(* The last result of a series is older than 15 minutes.                    *)
Expire(s) ==
  /\ s \in series /\ series' = series \ {s}
  /\ Changed /\ UNCHANGED <<probes, now>>

Tick ==
  /\ now < MaxClock /\ now' = now + 1
  /\ Changed /\ UNCHANGED <<probes, series>>

--------------------------------------------------------------------------------
(* The panel                                                                *)

Cutoff == IF now < Window THEN 0 ELSE now - Window

(* get_graph_nodes: classified as NKN, heartbeat not before cutoff.         *)
ActiveNodes == {p \in ToSet(table) : nkn[p] /\ hb[p] # None /\ hb[p] >= Cutoff}

Nodes ==
  /\ nodes = None /\ nodes' = ActiveNodes
  /\ UNCHANGED <<probes, series, now, edges, calm>>

(* Bug: the limit of the window is outside it here and inside it there.     *)
ActiveEnds_Strict_Bug ==
  {p \in ToSet(table) : nkn[p] /\ hb[p] # None /\ hb[p] > Cutoff}

(* get_graph_edges: the same conditions, in a loop of its own.              *)
ActiveEnds == {p \in ToSet(table) : nkn[p] /\ hb[p] # None /\ hb[p] >= Cutoff}

(* site_to_id: of several active probes of a site the oldest remains.       *)
Named(s) ==
  LET row(p) == CHOOSE i \in DOMAIN table : table[i] = p
      same == {p \in ActiveEnds : site[p] = s}
  IN IF same = {} THEN None ELSE CHOOSE p \in same : \A q \in same : row(q) <= row(p)

(* The table is read; the handler then awaits VictoriaMetrics.              *)
EdgesQuery ==
  /\ edges.step = "idle"
  /\ edges' = [edges EXCEPT !.step = "vm", !.active = ActiveEnds,
                            !.named = [s \in Sites |-> Named(s)]]
  /\ UNCHANGED <<probes, series, now, nodes, calm>>

EdgesAnswer ==
  /\ edges.step = "vm"
  /\ edges' = [edges EXCEPT !.step = "done", !.shown =
       {<<m[1], edges.named[site[m[2]]]>> : m \in {s \in series :
           LET to == edges.named[site[s[2]]]
           IN to # None /\ to # s[1] /\ {s[1], to} \subseteq edges.active}}]
  /\ UNCHANGED <<probes, series, now, nodes, calm>>

(* VictoriaMetrics does not answer in time: no edges.                       *)
EdgesFail ==
  /\ edges.step = "vm"
  /\ edges' = [edges EXCEPT !.step = "failed"]
  /\ UNCHANGED <<probes, series, now, nodes, calm>>

Refresh ==
  /\ nodes # None /\ edges.step \in {"done", "failed"}
  /\ nodes' = None /\ edges' = Unasked /\ calm' = TRUE
  /\ UNCHANGED <<probes, series, now>>

Next ==
  \/ \E p \in Ids : \/ RemoveProbe(p)
                    \/ \E s \in Sites : Register(p, s)
                    \/ \E c \in BOOLEAN : Heartbeat(p, c)
                    \/ \E q \in Ids : Measure(p, q)
  \/ \E s \in series : Expire(s)
  \/ Tick
  \/ Nodes \/ EdgesQuery \/ EdgesAnswer \/ EdgesFail \/ Refresh

Spec == Init /\ [][Next]_vars

--------------------------------------------------------------------------------
(* Properties                                                               *)

(* Type invariant.                                                          *)
TypeOK ==
  /\ table \in Seq(Ids) /\ IsInjective(table)
  /\ site \in [Ids -> Sites \cup {None}]
  /\ nkn \in [Ids -> BOOLEAN] /\ hb \in [Ids -> 0 .. MaxClock \cup {None}]
  /\ series \subseteq Ids \X Ids
  /\ now \in 0 .. MaxClock
  /\ nodes = None \/ nodes \subseteq Ids
  /\ edges \in [step : {"idle", "vm", "done", "failed"}, active : SUBSET Ids,
               named : [Sites -> Ids \cup {None}], shown : SUBSET (Ids \X Ids)]
  /\ calm \in BOOLEAN

Answered == nodes # None /\ edges.step = "done"

(* Nodes and edges are filtered by two pieces of code.  When nothing        *)
(* changed between the two requests, two probes the panel shows are joined  *)
(* if one measured the other, unless another of them has the same site name.*)
CalmPanelIsComplete ==
  Answered /\ calm =>
    \A s \in series :
      /\ {s[1], s[2]} \subseteq nodes
      /\ \A p \in nodes \ {s[2]} : site[p] # site[s[2]]
      => s \in edges.shown

--------------------------------------------------------------------------------
(* What the source says and the code does not keep                          *)

(* The docstring of get_graph_edges: every end of an edge MUST be in the    *)
(* table of nodes, or Grafana's panel crashes.                              *)
PanelIsWhole ==
  Answered => \A e \in edges.shown : {e[1], e[2]} \subseteq nodes

(* No run checks this one, TLC refutes it (see the README).                 *)
(* An edge ends at a probe that its source measured.                        *)
EdgeEndsAtMeasured ==
  Answered /\ calm => edges.shown \subseteq series

================================================================================
