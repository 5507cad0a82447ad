----------------------------- MODULE PeerAssignment -----------------------------
(***************************************************************************)
(* Which probes measure each other: the columns of table probes that        *)
(* assign_peers reads, the handlers that write them, and the specification  *)
(* a client has cached.  A client asks for its specification before its     *)
(* first heartbeat and keeps it until it expires.                           *)
(*                                                                          *)
(* An address is its /24; Garbled stands for one that ip_network refuses.   *)
(* random.shuffle with the seed "id-date" permutes a list of a given length *)
(* always in the same way: the permutation is drawn once for each probe,    *)
(* day and length.  Intervals, ids of measurements and the built-in part of *)
(* the specification are left out.                                          *)
(***************************************************************************)
EXTENDS Integers, Sequences, FiniteSets, SequencesExt, Filter

CONSTANTS
  Ids,          \* probe ids
  Nets,         \* /24 networks
  Garbled,      \* an address that is none
  Inside,       \* public addresses in nkn_public_ip_ranges
  Outside,      \* public addresses of other networks
  Counts,       \* values of peer_count_per_probe; nothing refuses a negative one
  Askers,       \* the probes whose assignment is looked at
  Clients,      \* those whose cached specification is
  Days,
  None

ASSUME PeerAssignmentAssumption ==
  /\ Clients \subseteq Askers /\ Askers \subseteq Ids /\ IsFiniteSet(Ids)
  /\ Counts \subseteq Int /\ Days \in Nat
  /\ Garbled \notin Nets /\ None \notin Ids \cup Nets \cup Inside \cup Outside

Addresses == Nets \cup {Garbled}

VARIABLES
  rows,         \* list_probes: rows, the newest first
  count,        \* peer_count_per_probe of the configuration in force
  day,          \* the date the coordinator sees
  luck,         \* the permutations of random.shuffle
  home,         \* where a probe really is: its /24, or None: not installed
  spec          \* the peers in the specification a client has cached, or None

vars == <<rows, count, day, luck, home, spec>>

Permutation(n) == {f \in [1 .. n -> 1 .. n] : IsInjective(f)}

Lengths == 0 .. Cardinality(Ids) - 1

Row(p) == rows[CHOOSE i \in DOMAIN rows : rows[i].id = p]

Registered(p) == \E i \in DOMAIN rows : rows[i].id = p

Init ==
  /\ rows = <<>> /\ count \in Counts /\ day = 0
  /\ luck \in {l \in [Askers \X (0 .. Days) \X Lengths -> UNION {Permutation(n) : n \in Lengths}] :
                 \A k \in DOMAIN l : l[k] \in Permutation(k[3])}
  /\ home = [p \in Ids |-> None]
  /\ spec = [p \in Clients |-> None]

--------------------------------------------------------------------------------
(* The selection                                                            *)

(* classify_public_ip; None is a lookup that failed.                        *)
Classified(ip) ==
  IF ip = None THEN "unknown" ELSE IF ip \in Inside THEN "nkn" ELSE "external"

(* _subnets_of *)
Subnets(row) == row.local \ {Garbled}

(* Bug: a probe is not left out of its own peers.                           *)
Eligible_Own_Bug(me, row) ==
  /\ row.local # {} /\ row.class = "nkn"
  /\ Subnets(row) \cap Subnets(me) = {}

(* The filter of assign_peers.  No statement of the program clears enabled. *)
Eligible(me, row) ==
  /\ row.id # me.id
  /\ row.local # {} /\ row.class = "nkn"
  /\ Subnets(row) \cap Subnets(me) = {}

Anchors(me) ==
  At(rows, {i \in DOMAIN rows : Eligible(me, rows[i]) /\ rows[i].role = "anchor"})

Candidates(me) ==
  At(rows, {i \in DOMAIN rows : Eligible(me, rows[i]) /\ rows[i].role # "anchor"})

Shuffled(p, s) == [i \in DOMAIN s |-> s[luck[<<p, day, Len(s)>>][i]]]

(* The slice s[:n]: of a negative n as many as it says are cut off the end. *)
Prefix(s, n) == [i \in DOMAIN s \cap 1 .. (IF n < 0 THEN Len(s) + n ELSE n) |-> s[i]]

(* Bug: without max(0, ..).                                                 *)
Remaining_Uncut_Bug(me) == count - Len(Anchors(me))

Remaining(me) == Max({0, count - Len(Anchors(me))})

IdsOf(s) == {s[i].id : i \in DOMAIN s}

Assigned(p) ==
  LET me == Row(p)
  IN IdsOf(Anchors(me)) \cup IdsOf(Prefix(Shuffled(p, Candidates(me)), Remaining(me)))

--------------------------------------------------------------------------------
(* The handlers                                                             *)

(* A probe is installed somewhere and registers; a class that is NULL has   *)
(* the effect of "unknown".                                                 *)
Register(p, n) ==
  /\ home[p] = None
  /\ home' = [home EXCEPT ![p] = n]
  /\ rows' = << [id |-> p, local |-> {}, class |-> "unknown", role |-> "probe"] >> \o rows
  /\ UNCHANGED <<count, day, luck, spec>>

Update(p, row) ==
  rows' = [i \in DOMAIN rows |-> IF rows[i].id = p THEN row ELSE rows[i]]

(* Bug: list_probes orders the rows by their last heartbeat.                *)
Heartbeat_Reorders_Bug(p, local, ip) ==
  /\ Registered(p)
  /\ LET row == [Row(p) EXCEPT !.local = IF local = {} THEN @ ELSE local, !.class = Classified(ip)]
     IN rows' = <<row>> \o SelectSeq(rows, LAMBDA r : r.id # p)
  /\ UNCHANGED <<count, day, luck, home, spec>>

(* Bug: no COALESCE.                                                        *)
Heartbeat_Erases_Bug(p, local, ip) ==
  /\ Registered(p)
  /\ Update(p, [Row(p) EXCEPT !.local = local, !.class = Classified(ip)])
  /\ UNCHANGED <<count, day, luck, home, spec>>

(* update_heartbeat_meta: the class is overwritten, the addresses only by   *)
(* a heartbeat that has some.  Where a probe is, it reports.                *)
Heartbeat(p, local, ip) ==
  /\ Registered(p)
  /\ Update(p, [Row(p) EXCEPT !.local = IF local = {} THEN @ ELSE local,
                              !.class = Classified(ip)])
  /\ UNCHANGED <<count, day, luck, home, spec>>

SetRole(p, role) ==
  /\ Registered(p) /\ Update(p, [Row(p) EXCEPT !.role = role])
  /\ UNCHANGED <<count, day, luck, home, spec>>

DeleteProbe(p) ==
  /\ Registered(p) /\ rows' = At(rows, {i \in DOMAIN rows : rows[i].id # p})
  /\ UNCHANGED <<count, day, luck, home, spec>>

GetSpec(p) ==
  /\ Registered(p) /\ spec' = [spec EXCEPT ![p] = Assigned(p)]
  /\ UNCHANGED <<rows, count, day, luck, home>>

(* A configuration is saved and in force from the next specification on.    *)
Configure(n) ==
  /\ n # count /\ count' = n
  /\ UNCHANGED <<rows, day, luck, home, spec>>

Midnight ==
  /\ day < Days /\ day' = day + 1
  /\ UNCHANGED <<rows, count, luck, home, spec>>

Reports(p) == {{}, {Garbled}, {home[p]}}

Next ==
  \/ \E p \in Ids : \/ \E n \in Nets : Register(p, n)
                    \/ \E local \in Reports(p), ip \in {None} \cup Inside \cup Outside :
                         Heartbeat(p, local, ip)
                    \/ \E role \in {"probe", "anchor"} : SetRole(p, role)
                    \/ DeleteProbe(p)
  \/ \E p \in Clients : GetSpec(p)
  \/ \E n \in Counts : Configure(n)
  \/ Midnight

Spec == Init /\ [][Next]_vars

--------------------------------------------------------------------------------
(* Properties                                                               *)

TableRow ==
  [id : Ids, local : SUBSET Addresses, class : {"nkn", "external", "unknown"},
   role : {"probe", "anchor"}]

(* Type invariant; a probe has one row.                                     *)
TypeOK ==
  /\ rows \in Seq(TableRow) /\ IsInjective([i \in DOMAIN rows |-> rows[i].id])
  /\ count \in Counts /\ day \in 0 .. Days
  /\ home \in [Ids -> Nets \cup {None}]
  /\ \A p \in Clients : spec[p] = None \/ spec[p] \subseteq Ids \ {p}

Others(p) == LET me == Row(p) IN {i \in DOMAIN rows : Eligible(me, rows[i])}

(* Every probe gets as many peers as are configured or as there are; the    *)
(* anchors among them all, even when they are more than that.  When the     *)
(* number is negative it counts as none.                                    *)
AssignmentIsFull ==
  \A p \in {q \in Askers : Registered(q)} :
    LET all == Others(p)
        anchors == {i \in all : rows[i].role = "anchor"}
        assigned == Assigned(p)
    IN /\ {rows[i].id : i \in anchors} \subseteq assigned
       /\ Cardinality(assigned) =
            Max({Cardinality(anchors), Min({Cardinality(all), count})})

(* The peers of a probe rotate by the day and by nothing else: a heartbeat  *)
(* that repeats what is known, or any step that leaves the eligible probes, *)
(* their roles and the configured number alone, keeps today's assignment.   *)
OnlyDaysRotate ==
  [][day' = day /\ count' = count =>
       \A p \in Askers :
         /\ Registered(p) /\ Registered(p)'
         /\ {rows[i] : i \in Others(p)} = {rows[i] : i \in Others(p)}'
         => Assigned(p)' = Assigned(p)]_vars

(* A peer that was handed out keeps what stands in last_local_ipv4, as long *)
(* as it is registered: heartbeats in which the client found none of its    *)
(* addresses do not erase those it had.  That what stands there parses as   *)
(* an address is not said: Garbled stays as well.                           *)
PeersKeepAnAddress ==
  \A p \in Clients : spec[p] # None =>
    \A q \in spec[p] : Registered(q) => Row(q).local # {}

--------------------------------------------------------------------------------
(* What the documents say and the code does not keep: no run checks these,  *)
(* TLC refutes each of them (see the README).                               *)

(* The docstring of assign_peers: anchors are always included, only the     *)
(* others are filtered.                                                     *)
AnchorsAlwaysIncluded ==
  \A p \in Askers, i \in DOMAIN rows :
    Registered(p) /\ rows[i].role = "anchor" /\ rows[i].id # p => rows[i].id \in Assigned(p)

(* The specification of the peer assignment: no peers in one's own /24.     *)
PeersAreElsewhere ==
  \A p \in Clients : spec[p] # None => \A q \in spec[p] : home[q] # home[p]

(* It speaks of probes on NKN: others are given no peers.                   *)
OnlyNknProbesHavePeers ==
  \A p \in Askers : Registered(p) /\ Assigned(p) # {} => Row(p).class = "nkn"

================================================================================
