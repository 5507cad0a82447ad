--------------------------- MODULE MCPeerAssignment ---------------------------
(* Instances of PeerAssignment for TLC: one probe's assignment is looked    *)
(* at, with every outcome of the shuffle.                                   *)
EXTENDS PeerAssignment, TLC

CONSTANTS asker

(* One of them makes the difference in Remaining negative.                  *)
MCCounts == {-1, 1}

(* The class and the role of the asker do not enter its own assignment:     *)
(* they are changed, and what follows from there is left out.               *)
Explored == Registered(asker) => Row(asker).class = "unknown" /\ Row(asker).role = "probe"

Symmetry == Permutations(Ids \ {asker}) \cup Permutations(Nets)

================================================================================
