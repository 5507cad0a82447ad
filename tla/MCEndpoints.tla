------------------------------ MODULE MCEndpoints ------------------------------
(* A small instance of Endpoints for TLC.                                   *)
EXTENDS Endpoints, TLC

CONSTANTS
  MaxSeries,    \* bound on what the probes have measured of each other
  ip1, ip2, ip3, h1, h2, m1, m2, m3, t1, t2

ASSUME SeriesBound == MaxSeries \in Nat

(* A path with a loop, a path without names, and two paths that name the    *)
(* same hop differently.                                                    *)
P(ips, hosts) == [ips |-> ips, hosts |-> hosts]

MCPaths == { P(<<ip1, ip2, ip1>>, <<None, h1, h2>>), P(<<ip2, ip3>>, <<h2, None>>), P(<<ip3>>, <<None>>) }

(* A site, a removed probe that is named by its id, and both.               *)
MCFilters == {{<<"site", t1>>}, {<<"id", t1>>}, {<<"site", t1>>, <<"id", t2>>}}

(* Three measurements in the file, one of which has a label.                *)
MCFile == << [name |-> m1, more |-> FALSE], [name |-> m2, more |-> TRUE],
             [name |-> m3, more |-> FALSE] >>

(* The panel's properties speak of calm refreshes only, and every state in  *)
(* which a refresh can begin is reached without one that is not calm.       *)
Explored == calm /\ Cardinality(series) <= MaxSeries

Symmetry == Permutations(GraphIds) \cup Permutations(Sites)

================================================================================
