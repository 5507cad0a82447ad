------------------------------- MODULE TraceGraph -------------------------------
(***************************************************************************)
(* The traceroute graph of the admin API.  The handlers run in the thread   *)
(* pool: they list the pairs (probe, measurement) with their newest path,   *)
(* then read each pair's newest path in a transaction of its own, and for   *)
(* the nodes list and read everything a second time to put host names on    *)
(* the hops.  New paths arrive and probes are removed in between.  The      *)
(* endpoint for edges stops after the first pass.                           *)
(*                                                                          *)
(* Pairs are read in any order here (the code orders them by site name).    *)
(* Titles, colours and hop numbers are left out.                            *)
(***************************************************************************)
EXTENDS Naturals, Sequences, FiniteSets, SequencesExt

CONSTANTS
  Probes,       \* probe ids
  Meas,         \* traceroute measurements
  Ips,          \* addresses of hops
  Hosts,        \* host names that clients report for hops
  Paths,        \* paths that clients report
  Filters,      \* values of the filter by site
  MaxChanges,   \* bound on changes while a request is served
  None

(* A reported path: addresses, and a name or None for each.                 *)
Path == UNION {[ips : [1 .. n -> Ips], hosts : [1 .. n -> Hosts \cup {None}]] : n \in 1 .. 3}

Pairs == Probes \X Meas

(* What a filter lists: names of sites and the first 8 digits of ids.       *)
Labels == {"site", "id"} \X Probes

TraceGraphAssumption ==
  /\ Paths \subseteq Path /\ Filters \subseteq SUBSET Labels
  /\ MaxChanges \in Nat /\ None \notin Hosts \cup Paths /\ None \notin Filters

VARIABLES
  live,         \* rows of table probes
  newest,       \* newest row of traceroute_paths of each pair, or None
  req,          \* the request being served
  changes,      \* changes since the request began
  seen          \* history: <<pair, path>> newest at some time of the request

vars == <<live, newest, req, changes, seen>>

Idle == [phase |-> "idle", only |-> None, todo |-> {}, probes |-> {}, ends |-> {},
         edges |-> {}, names |-> [i \in Ips |-> None]]

Stored == {pr \in Pairs : newest[pr] # None}

Init ==
  /\ live = Probes
  /\ newest \in [Pairs -> {None} \cup Paths]
  /\ req = Idle
  /\ changes = 0 /\ seen = {}

--------------------------------------------------------------------------------
(* Changes of the tables                                                    *)

Resting == req.phase \in {"idle", "done"}

Changed ==
  /\ changes < MaxChanges
  /\ changes' = IF Resting THEN 0 ELSE changes + 1
  /\ req' = IF Resting THEN Idle ELSE req

NewPath(pr, p) ==
  /\ newest' = [newest EXCEPT ![pr] = p]
  /\ seen' = IF Resting THEN {} ELSE seen \cup {<<pr, p>>}
  /\ Changed /\ UNCHANGED live

(* delete_probe takes the paths along, a sweep leaves them.                 *)
DeleteProbe(i) ==
  /\ i \in live /\ live' = live \ {i}
  /\ newest' = [pr \in Pairs |-> IF pr[1] = i THEN None ELSE newest[pr]]
  /\ seen' = IF Resting THEN {} ELSE seen
  /\ Changed

SweepProbe(i) ==
  /\ i \in live /\ live' = live \ {i}
  /\ seen' = IF Resting THEN {} ELSE seen
  /\ Changed /\ UNCHANGED newest

--------------------------------------------------------------------------------
(* The request                                                              *)

(* list_traceroute_pairs joins the site name; of a probe without a row the  *)
(* id stands in for it.                                                     *)
Label(i) == IF i \in live THEN <<"site", i>> ELSE <<"id", i>>

Listed(only) == {pr \in Stored : only = None \/ Label(pr[1]) \in only}

Ask(only) ==
  /\ Resting
  /\ req' = [Idle EXCEPT !.phase = "paths", !.only = only, !.todo = Listed(only),
                         !.probes = {pr[1] : pr \in Listed(only)}]
  /\ changes' = 0
  /\ seen' = {<<pr, newest[pr]>> : pr \in Stored}
  /\ UNCHANGED <<live, newest>>

(* The edges of one path: from the probe to its first hop, and on.          *)
Links(i, p) == {<<IF k = 1 THEN i ELSE p.ips[k - 1], p.ips[k]>> : k \in DOMAIN p.ips}

ReadPath_PrevKept_Bug(pr) ==
  /\ req.phase = "paths" /\ pr \in req.todo
  /\ LET from == IF req.ends = {} THEN pr[1] ELSE CHOOSE i \in req.ends : TRUE
     IN req' = IF newest[pr] = None
               THEN [req EXCEPT !.todo = @ \ {pr}]
               ELSE [req EXCEPT !.todo = @ \ {pr}, !.edges = @ \cup Links(from, newest[pr]),
                                !.ends = @ \cup {Last(newest[pr].ips)}]
  /\ UNCHANGED <<live, newest, changes, seen>>

ReadPath(pr) ==
  /\ req.phase = "paths" /\ pr \in req.todo
  /\ req' = IF newest[pr] = None
            THEN [req EXCEPT !.todo = @ \ {pr}]
            ELSE [req EXCEPT !.todo = @ \ {pr}, !.edges = @ \cup Links(pr[1], newest[pr]),
                             !.ends = @ \cup {Last(newest[pr].ips)}]
  /\ UNCHANGED <<live, newest, changes, seen>>

(* _apply_path_hosts_to_nodes lists the pairs again.                        *)
AskNames ==
  /\ req.phase = "paths" /\ req.todo = {}
  /\ req' = [req EXCEPT !.phase = "names", !.todo = Listed(req.only)]
  /\ UNCHANGED <<live, newest, changes, seen>>

Hops == {e[2] : e \in req.edges}

Named_Overwrite_Bug(names, p) ==
  [i \in Ips |-> IF i \in Hops /\ \E k \in DOMAIN p.ips : p.ips[k] = i
                 THEN p.hosts[CHOOSE k \in DOMAIN p.ips : p.ips[k] = i] ELSE names[i]]

Named_NextHop_Bug(names, p) ==
  [i \in Ips |-> IF i \in Hops /\ names[i] = None /\ \E k \in 2 .. Len(p.ips) : p.ips[k - 1] = i
                 THEN p.hosts[CHOOSE k \in 2 .. Len(p.ips) : p.ips[k - 1] = i] ELSE names[i]]

(* A hop of the graph takes the first name that is reported for it.         *)
Named(names, p) ==
  LET at(i) == {k \in DOMAIN p.ips : p.ips[k] = i /\ p.hosts[k] # None}
  IN [i \in Ips |-> IF i \in Hops /\ names[i] = None /\ at(i) # {}
                    THEN p.hosts[CHOOSE k \in at(i) : \A j \in at(i) : k <= j]
                    ELSE names[i]]

ReadNames(pr) ==
  /\ req.phase = "names" /\ pr \in req.todo
  /\ req' = [req EXCEPT !.todo = @ \ {pr},
                        !.names = IF newest[pr] = None THEN @ ELSE Named(@, newest[pr])]
  /\ UNCHANGED <<live, newest, changes, seen>>

Answer ==
  /\ req.phase = "names" /\ req.todo = {}
  /\ req' = [req EXCEPT !.phase = "done"]
  /\ UNCHANGED <<live, newest, changes, seen>>

Next ==
  \/ \E pr \in Pairs : \/ ReadPath(pr) \/ ReadNames(pr)
                       \/ \E p \in Paths : NewPath(pr, p)
  \/ \E i \in Probes : DeleteProbe(i) \/ SweepProbe(i)
  \/ \E only \in Filters \cup {None} : Ask(only)
  \/ AskNames \/ Answer

Spec == Init /\ [][Next]_vars

--------------------------------------------------------------------------------
(* Properties                                                               *)

(* Type invariant.                                                          *)
TypeOK ==
  /\ live \subseteq Probes
  /\ newest \in [Pairs -> {None} \cup Paths]
  /\ DOMAIN req = DOMAIN Idle /\ req.phase \in {"idle", "paths", "names", "done"}
  /\ req.todo \subseteq Pairs /\ req.probes \subseteq Probes /\ req.ends \subseteq Ips
  /\ req.edges \subseteq (Probes \cup Ips) \X Ips
  /\ req.names \in [Ips -> Hosts \cup {None}]
  /\ changes \in 0 .. MaxChanges
  /\ seen \subseteq Pairs \X Paths

(* Whatever happens during the request, an edge is a step of a path that    *)
(* was the newest of its pair while the request was served, and starts at a *)
(* probe of the graph or at the hop before it: paths are never mixed up.    *)
EdgesWereNewest ==
  \A e \in req.edges :
    \E s \in seen : s[1][1] \in req.probes /\ e \in Links(s[1][1], s[2])

(* A hop shows a name only if some client reported it for that address.     *)
NamesWereReported ==
  \A i \in Ips : req.names[i] # None =>
    \E s \in seen : \E k \in DOMAIN s[2].ips : s[2].ips[k] = i /\ s[2].hosts[k] = req.names[i]

(* When nothing changed the two passes agree with each other and with the   *)
(* tables: the graph is the union of the newest paths, and a hop has a name *)
(* exactly when one of these paths has one for it.                          *)
CalmGraphIsExact ==
  req.phase = "done" /\ changes = 0 /\ req.only = None =>
    /\ req.edges = UNION {Links(pr[1], newest[pr]) : pr \in Stored}
    /\ \A i \in Ips : req.names[i] # None <=>
         \E pr \in Stored : \E k \in DOMAIN newest[pr].ips :
           newest[pr].ips[k] = i /\ newest[pr].hosts[k] # None

================================================================================
