---------------------------- MODULE PeerGraphProofs ----------------------------
(* Proofs about PeerGraph, for every value of its constants that satisfies  *)
(* its assumption.                                                          *)
EXTENDS PeerGraph, SequenceProofs

(* Who has a row was registered under a site name, and nobody measures      *)
(* itself.                                                                  *)
TableInv ==
  /\ \A p \in Ids : Registered(p) => site[p] # None
  /\ \A s \in series : s[1] # s[2]

(* The end that an edge for the series s would have.                        *)
End(s) == edges.named[site[s[2]]]

Drawable(s) == End(s) # None /\ End(s) # s[1] /\ {s[1], End(s)} \subseteq edges.active

(* What the two requests read is still true when nothing has changed.       *)
CalmInv ==
  calm =>
    /\ nodes # None => nodes = ActiveNodes
    /\ edges.step # "idle" => /\ edges.active = ActiveEnds
                              /\ \A s \in Sites : edges.named[s] = Named(s)
    /\ edges.step = "done" => \A s \in series : Drawable(s) => <<s[1], End(s)>> \in edges.shown

--------------------------------------------------------------------------------
(* The table                                                                *)

LEMMA TableFacts ==
  ASSUME TypeOK
  PROVE  /\ table \in Seq(Ids) /\ DOMAIN table \in SUBSET Nat
         /\ \A i, j \in DOMAIN table : table[i] = table[j] => i = j
         /\ ToSet(table) \subseteq Ids
         /\ \A p : Registered(p) <=> \E i \in DOMAIN table : table[i] = p
BY DEF TypeOK, IsInjective, Registered, ToSet

(* Registering puts a row on top of the table.                              *)
LEMMA RegisterFacts ==
  ASSUME TypeOK, TableInv, NEW p \in Ids, NEW s \in Sites, site[p] = None, table' = <<p>> \o table
  PROVE  /\ table' \in Seq(Ids) /\ IsInjective(table')
         /\ \A q : Registered(q)' <=> Registered(q) \/ q = p
<1>1. table \in Seq(Ids) /\ <<p>> \in Seq(Ids)
  BY TableFacts
<1>2. IsInjective(<<p>>) /\ Range(<<p>>) = {p}
  BY DEF IsInjective, Range
<1>3. IsInjective(table) /\ Range(table) \cap {p} = {}
  BY TableFacts DEF TypeOK, TableInv, Range
<1>4. table' \in Seq(Ids) /\ Range(table') = {p} \cup Range(table)
  <2>1. <<p>> \o table \in Seq(Ids) /\ Range(<<p>> \o table) = Range(<<p>>) \cup Range(table)
    BY <1>1, ConcatRange
  <2> QED  BY <1>2, <2>1
<1>5. IsInjective(table')
  BY <1>1, <1>2, <1>3, ConcatInjective
<1>6. \A q : Registered(q)' <=> q \in Range(table')
  BY DEF Registered, ToSet, Range
<1>7. \A q : Registered(q) <=> q \in Range(table)
  BY DEF Registered, ToSet, Range
<1> QED  BY <1>4, <1>5, <1>6, <1>7

LEMMA RemoveFacts ==
  ASSUME TypeOK, NEW p \in Ids, RemoveProbe(p)
  PROVE  /\ table' \in Seq(Ids) /\ IsInjective(table')
         /\ \A q : Registered(q)' => Registered(q)
<1> DEFINE I == {i \in DOMAIN table : table[i] # p}
<1>1. table \in Seq(Ids) /\ I \in SUBSET DOMAIN table /\ table' = At(table, I)
  BY DEF TypeOK, RemoveProbe
<1>2. \A i, j \in I : table[i] = table[j] => i = j
  BY TableFacts
<1> HIDE DEF I
<1>3. table' \in Seq(Ids) /\ IsInjective(table')
  BY <1>1, <1>2, AtFacts, AtInjective
<1>4. Range(table') = {table[i] : i \in I}
  BY <1>1, AtRange
<1>5. \A q : Registered(q)' <=> q \in Range(table')
  BY DEF Registered, ToSet, Range
<1>6. \A q : Registered(q) <=> \E i \in DOMAIN table : table[i] = q
  BY TableFacts
<1> QED  BY <1>1, <1>3, <1>4, <1>5, <1>6

(* The greatest of a finite set of numbers.                                 *)
LEMMA GreatestExists ==
  ASSUME NEW I \in SUBSET Nat, IsFiniteSet(I), I # {}
  PROVE  \E i \in I : \A j \in I : j <= i
<1>1. Cardinality(I) \in Nat /\ Cardinality(I) # 0
  BY FS_CardinalityType, FS_EmptySet
<1> DEFINE n == Cardinality(I)
           i == Place(I, n)
<1>2. n \in 1 .. n
  BY <1>1
<1>3. i \in I /\ Rank(I, i) = n
  BY <1>2, PlaceIsThere
<1>4. ASSUME NEW j \in I
      PROVE  j <= i
  <2>1. i \in Nat /\ j \in Nat
    BY <1>3
  <2>2. ~(i < j)
    <3>1. Rank(I, j) \in 1 .. n
      BY RankRange
    <3>2. i < j => Rank(I, i) \in Nat /\ Rank(I, i) < Rank(I, j)
      BY <1>3, RankIncreases
    <3> HIDE DEF i
    <3> QED  BY <1>1, <1>3, <3>1, <3>2
  <2> HIDE DEF i
  <2> QED  BY <2>1, <2>2
<1> QED  BY <1>3, <1>4

(* The probe that stands for a site: an active one of that name.            *)
LEMMA NamedFacts ==
  ASSUME TypeOK, NEW s
  PROVE  LET same == {p \in ActiveEnds : site[p] = s}
         IN IF same = {} THEN Named(s) = None ELSE Named(s) \in same
<1> DEFINE row(p) == CHOOSE i \in DOMAIN table : table[i] = p
           same == {p \in ActiveEnds : site[p] = s}
           I == {row(p) : p \in same}
<1>1. CASE same = {}
  BY <1>1 DEF Named
<1>2. CASE same # {}
  <2>1. \A p \in same : row(p) \in DOMAIN table
    BY TableFacts DEF ActiveEnds, ToSet
  <2>2. I \in SUBSET DOMAIN table /\ I # {}
    BY <1>2, <2>1
  <2>3. I \in SUBSET Nat /\ IsFiniteSet(I)
    <3> HIDE DEF I
    <3> QED  BY <2>2, TableFacts, AtFacts
  <2>4. PICK i \in I : \A j \in I : j <= i
    <3> HIDE DEF I
    <3> QED  BY <2>2, <2>3, GreatestExists
  <2>5. \E p \in same : \A q \in same : row(q) <= row(p)
    <3>1. PICK p \in same : i = row(p)
      OBVIOUS
    <3>2. \A q \in same : row(q) \in I
      OBVIOUS
    <3> HIDE DEF same, row, I
    <3> QED  BY <2>4, <3>1, <3>2
  <2>6. Named(s) = CHOOSE p \in same : \A q \in same : row(q) <= row(p)
    BY <1>2 DEF Named
  <2> HIDE DEF same, row
  <2> QED  BY <1>2, <2>5, <2>6 DEF same
<1> QED  BY <1>1, <1>2

LEMMA ActiveFacts ==
  ASSUME TypeOK
  PROVE  /\ ActiveNodes \subseteq Ids /\ ActiveEnds \subseteq Ids
         /\ [s \in Sites |-> Named(s)] \in [Sites -> Ids \cup {None}]
<1>1. ActiveNodes \subseteq Ids /\ ActiveEnds \subseteq Ids
  BY TableFacts DEF ActiveNodes, ActiveEnds
<1>2. \A s \in Sites : Named(s) \in Ids \cup {None}
  BY <1>1, NamedFacts
<1> QED  BY <1>1, <1>2

--------------------------------------------------------------------------------
(* Types and rows                                                           *)

LEMMA TypeInit == PeerGraphAssumption /\ Init => TypeOK /\ TableInv
<1> SUFFICES ASSUME PeerGraphAssumption, Init PROVE TypeOK /\ TableInv
  OBVIOUS
<1>1. table \in Seq(Ids) /\ IsInjective(table)
  BY DEF Init, IsInjective
<1>2. calm \in BOOLEAN /\ nkn \in [Ids -> BOOLEAN]
  BY DEF Init
<1>3. now \in 0 .. MaxClock
  BY DEF Init, PeerGraphAssumption
<1>4. TypeOK
  BY <1>1, <1>2, <1>3 DEF Init, TypeOK, Unasked
<1>5. TableInv
  BY DEF Init, TableInv, Registered, ToSet
<1> QED  BY <1>4, <1>5

LEMMA CalmTyped == ASSUME Changed PROVE calm' \in BOOLEAN
BY DEF Changed, Idle

(* The two steps of the request for edges, field by field.                  *)
LEMMA QueryFacts ==
  ASSUME TypeOK, EdgesQuery
  PROVE  /\ edges'.step = "vm" /\ edges'.active = ActiveEnds /\ edges'.shown = edges.shown
         /\ edges'.named = [s \in Sites |-> Named(s)]
         /\ edges' \in [step : {"idle", "vm", "done", "failed"}, active : SUBSET Ids,
                        named : [Sites -> Ids \cup {None}], shown : SUBSET (Ids \X Ids)]
<1> DEFINE named == [s \in Sites |-> Named(s)]
<1>1. /\ edges.step = "idle"
      /\ edges' = [edges EXCEPT !.step = "vm", !.active = ActiveEnds, !.named = named]
  BY DEF EdgesQuery
<1>2. edges \in [step : {"idle", "vm", "done", "failed"}, active : SUBSET Ids,
                 named : [Sites -> Ids \cup {None}], shown : SUBSET (Ids \X Ids)]
  BY DEF TypeOK
<1>3. ActiveEnds \in SUBSET Ids /\ named \in [Sites -> Ids \cup {None}]
  BY ActiveFacts
<1> HIDE DEF named
<1>4. /\ edges'.step = "vm" /\ edges'.active = ActiveEnds /\ edges'.shown = edges.shown
      /\ edges'.named = named
      /\ edges' \in [step : {"idle", "vm", "done", "failed"}, active : SUBSET Ids,
                     named : [Sites -> Ids \cup {None}], shown : SUBSET (Ids \X Ids)]
  BY <1>1, <1>2, <1>3
<1> QED  BY <1>4 DEF named

Answer == {<<s[1], End(s)>> : s \in {x \in series : Drawable(x)}}

LEMMA AnswerFacts ==
  ASSUME TypeOK, EdgesAnswer
  PROVE  /\ edges'.step = "done" /\ edges'.active = edges.active /\ edges'.named = edges.named
         /\ edges'.shown = Answer /\ edges.step = "vm"
         /\ edges' \in [step : {"idle", "vm", "done", "failed"}, active : SUBSET Ids,
                        named : [Sites -> Ids \cup {None}], shown : SUBSET (Ids \X Ids)]
<1>1. edges' = [edges EXCEPT !.step = "done", !.shown = Answer] /\ edges.step = "vm"
  BY DEF EdgesAnswer, Answer, End, Drawable
<1>2. edges \in [step : {"idle", "vm", "done", "failed"}, active : SUBSET Ids,
                 named : [Sites -> Ids \cup {None}], shown : SUBSET (Ids \X Ids)]
  BY DEF TypeOK
<1>3. Answer \in SUBSET (Ids \X Ids)
  <2>1. \A s \in series : Drawable(s) => s[1] \in Ids /\ End(s) \in Ids
    BY <1>2 DEF Drawable, TypeOK
  <2> QED  BY <2>1 DEF Answer
<1> QED  BY <1>1, <1>2, <1>3

LEMMA TypeNext ==
  ASSUME PeerGraphAssumption, TypeOK, TableInv, [Next]_vars
  PROVE  TypeOK' /\ TableInv'
<1> USE DEF probes
<1>1. ASSUME NEW p \in Ids, NEW s \in Sites, Register(p, s)
      PROVE  TypeOK' /\ TableInv'
  <2>1. /\ table' \in Seq(Ids) /\ IsInjective(table')
        /\ \A q : Registered(q)' <=> Registered(q) \/ q = p
    BY <1>1, RegisterFacts DEF Register
  <2>2. site' = [site EXCEPT ![p] = s] /\ UNCHANGED <<nkn, hb, series, now, nodes, edges>>
    BY <1>1 DEF Register, Changed
  <2>3. calm' \in BOOLEAN
    BY <1>1, CalmTyped DEF Register
  <2>4. TypeOK'
    BY <2>1, <2>2, <2>3 DEF TypeOK
  <2>5. \A q \in Ids : site'[q] = IF q = p THEN s ELSE site[q]
    BY <2>2 DEF TypeOK
  <2>6. s # None
    BY DEF PeerGraphAssumption
  <2> QED  BY <2>1, <2>2, <2>4, <2>5, <2>6 DEF TableInv
<1>2. ASSUME NEW p \in Ids, NEW c \in BOOLEAN, Heartbeat(p, c)
      PROVE  TypeOK' /\ TableInv'
  <2>1. /\ hb' = [hb EXCEPT ![p] = now] /\ nkn' = [nkn EXCEPT ![p] = c]
        /\ UNCHANGED <<table, site, series, now, nodes, edges>>
    BY <1>2 DEF Heartbeat, Changed
  <2>2. calm' \in BOOLEAN
    BY <1>2, CalmTyped DEF Heartbeat
  <2>3. hb' \in [Ids -> 0 .. MaxClock \cup {None}] /\ nkn' \in [Ids -> BOOLEAN]
    BY <2>1 DEF TypeOK
  <2> QED  BY <2>1, <2>2, <2>3 DEF TypeOK, TableInv, Registered
<1>3. ASSUME NEW p \in Ids, RemoveProbe(p)
      PROVE  TypeOK' /\ TableInv'
  <2>1. /\ table' \in Seq(Ids) /\ IsInjective(table')
        /\ \A q : Registered(q)' => Registered(q)
    BY <1>3, RemoveFacts
  <2>2. /\ hb' = [hb EXCEPT ![p] = None] /\ nkn' = [nkn EXCEPT ![p] = FALSE]
        /\ UNCHANGED <<site, series, now, nodes, edges>>
    BY <1>3 DEF RemoveProbe, Changed
  <2>3. calm' \in BOOLEAN
    BY <1>3, CalmTyped DEF RemoveProbe
  <2>4. hb' \in [Ids -> 0 .. MaxClock \cup {None}] /\ nkn' \in [Ids -> BOOLEAN]
    BY <2>2 DEF TypeOK
  <2> QED  BY <2>1, <2>2, <2>3, <2>4 DEF TypeOK, TableInv
<1>4. ASSUME NEW p \in Ids, NEW q \in Ids, Measure(p, q)
      PROVE  TypeOK' /\ TableInv'
  <2>1. /\ series' = series \cup {<<p, q>>} /\ p # q
        /\ UNCHANGED <<table, site, nkn, hb, now, nodes, edges>>
    BY <1>4 DEF Measure, Changed
  <2>2. calm' \in BOOLEAN
    BY <1>4, CalmTyped DEF Measure
  <2> QED  BY <2>1, <2>2 DEF TypeOK, TableInv, Registered
<1>5. ASSUME NEW s \in series, Expire(s)
      PROVE  TypeOK' /\ TableInv'
  <2>1. series' \subseteq series /\ UNCHANGED <<table, site, nkn, hb, now, nodes, edges>>
    BY <1>5 DEF Expire, Changed
  <2>2. calm' \in BOOLEAN
    BY <1>5, CalmTyped DEF Expire
  <2> QED  BY <2>1, <2>2 DEF TypeOK, TableInv, Registered
<1>6. CASE Tick
  <2>1. now' \in 0 .. MaxClock /\ UNCHANGED <<table, site, nkn, hb, series, nodes, edges>>
    BY <1>6 DEF Tick, Changed, TypeOK, PeerGraphAssumption
  <2>2. calm' \in BOOLEAN
    BY <1>6, CalmTyped DEF Tick
  <2> QED  BY <2>1, <2>2 DEF TypeOK, TableInv, Registered
<1>7. CASE Nodes
  BY <1>7, ActiveFacts DEF Nodes, TypeOK, TableInv, Registered
<1>8. CASE EdgesQuery
  <2>1. UNCHANGED <<table, site, nkn, hb, series, now, nodes, calm>>
    BY <1>8 DEF EdgesQuery
  <2> QED  BY <1>8, <2>1, QueryFacts DEF TypeOK, TableInv, Registered
<1>9. CASE EdgesAnswer
  <2>1. UNCHANGED <<table, site, nkn, hb, series, now, nodes, calm>>
    BY <1>9 DEF EdgesAnswer
  <2> QED  BY <1>9, <2>1, AnswerFacts DEF TypeOK, TableInv, Registered
<1>10. CASE EdgesFail
  BY <1>10 DEF EdgesFail, TypeOK, TableInv, Registered
<1>11. CASE Refresh
  BY <1>11 DEF Refresh, Unasked, TypeOK, TableInv, Registered
<1>12. CASE UNCHANGED vars
  BY <1>12 DEF vars, TypeOK, TableInv, Registered
<1> QED  BY <1>1, <1>2, <1>3, <1>4, <1>5, <1>6, <1>7, <1>8, <1>9, <1>10, <1>11, <1>12 DEF Next

--------------------------------------------------------------------------------
(* What was read                                                            *)

LEMMA Resets == ASSUME Refresh
                PROVE  nodes' = None /\ edges'.step = "idle" /\ calm' = TRUE
BY DEF Refresh, Unasked

(* A step of the panel leaves alone what the filters and Named read.        *)
LEMMA SameReading ==
  ASSUME UNCHANGED <<probes, now>>
  PROVE  ActiveNodes' = ActiveNodes /\ ActiveEnds' = ActiveEnds /\ \A s : Named(s)' = Named(s)
BY DEF probes, ActiveNodes, ActiveEnds, Named, Cutoff

LEMMA CalmNext ==
  ASSUME TypeOK, CalmInv, [Next]_vars
  PROVE  CalmInv'
<1> SUFFICES ASSUME calm' PROVE CalmInv'
  BY DEF CalmInv
<1>1. ASSUME Changed
      PROVE  CalmInv'
  <2>1. nodes' = None /\ edges'.step = "idle"
    BY <1>1 DEF Changed, Idle
  <2> QED  BY <2>1 DEF CalmInv
<1>2. CASE Nodes
  <2>1. nodes' = ActiveNodes /\ UNCHANGED <<probes, series, now, edges, calm>>
    BY <1>2 DEF Nodes
  <2>2. ActiveNodes' = ActiveNodes /\ ActiveEnds' = ActiveEnds /\ \A s : Named(s)' = Named(s)
    BY <2>1, SameReading
  <2>3. site' = site
    BY <2>1 DEF probes
  <2> QED  BY <2>1, <2>2, <2>3 DEF CalmInv, Drawable, End
<1>3. CASE EdgesQuery
  <2>1. UNCHANGED <<probes, series, now, nodes, calm>>
    BY <1>3 DEF EdgesQuery
  <2>2. ActiveNodes' = ActiveNodes /\ ActiveEnds' = ActiveEnds /\ \A s : Named(s)' = Named(s)
    BY <2>1, SameReading
  <2>3. /\ edges'.step = "vm" /\ edges'.active = ActiveEnds
        /\ \A s \in Sites : edges'.named[s] = Named(s)
    BY <1>3, QueryFacts
  <2> QED  BY <2>1, <2>2, <2>3 DEF CalmInv
<1>4. CASE EdgesAnswer
  <2>1. UNCHANGED <<probes, series, now, nodes, calm>> /\ site' = site
    BY <1>4 DEF EdgesAnswer, probes
  <2>2. ActiveNodes' = ActiveNodes /\ ActiveEnds' = ActiveEnds /\ \A s : Named(s)' = Named(s)
    BY <2>1, SameReading
  <2>3. /\ edges'.active = edges.active /\ edges'.named = edges.named /\ edges'.shown = Answer
        /\ edges.step = "vm"
    BY <1>4, AnswerFacts
  <2>4. \A s \in series' : /\ Drawable(s)' <=> Drawable(s)
                           /\ End(s)' = End(s)
                           /\ Drawable(s) => <<s[1], End(s)>> \in Answer
    BY <2>1, <2>3 DEF Drawable, End, Answer
  <2> QED  BY <2>1, <2>2, <2>3, <2>4 DEF CalmInv
<1>5. CASE EdgesFail
  <2>1. UNCHANGED <<probes, series, now, nodes, calm>>
    BY <1>5 DEF EdgesFail
  <2>2. ActiveNodes' = ActiveNodes /\ ActiveEnds' = ActiveEnds /\ \A s : Named(s)' = Named(s)
    BY <2>1, SameReading
  <2>3. /\ edges.step = "vm" /\ edges'.step = "failed" /\ edges'.active = edges.active
        /\ edges'.named = edges.named
    BY <1>5 DEF EdgesFail, TypeOK
  <2> QED  BY <2>1, <2>2, <2>3 DEF CalmInv
<1>6. CASE Refresh
  BY <1>6, Resets DEF CalmInv
<1>7. CASE UNCHANGED vars
  <2>1. UNCHANGED <<probes, site, series, now, nodes, edges, calm>>
    BY <1>7 DEF vars, probes
  <2>2. ActiveNodes' = ActiveNodes /\ ActiveEnds' = ActiveEnds /\ \A s : Named(s)' = Named(s)
    BY <2>1, SameReading
  <2> QED  BY <2>1, <2>2 DEF CalmInv, Drawable, End
<1> QED  BY <1>1, <1>2, <1>3, <1>4, <1>5, <1>6, <1>7
     DEF Next, Register, Heartbeat, RemoveProbe, Measure, Expire, Tick

PanelInv == TypeOK /\ TableInv /\ CalmInv

LEMMA PanelAlways ==
  ASSUME PeerGraphAssumption
  PROVE  Spec => []PanelInv
<1>1. Init => PanelInv
  BY TypeInit DEF Init, Unasked, CalmInv, PanelInv
<1>2. PanelInv /\ [Next]_vars => PanelInv'
  BY TypeNext, CalmNext DEF PanelInv
<1> QED  BY <1>1, <1>2, PTL DEF Spec

(* For every number of probes, sites and minutes.                           *)
THEOREM PanelTypeCorrect ==
  ASSUME PeerGraphAssumption
  PROVE  Spec => []TypeOK
<1>1. PanelInv => TypeOK
  BY DEF PanelInv
<1> QED  BY <1>1, PanelAlways, PTL

(* When nothing changed between the two requests the edges join every       *)
(* measured pair of shown probes whose names are their own.                 *)
THEOREM CalmPanelsAreComplete ==
  ASSUME PeerGraphAssumption
  PROVE  Spec => []CalmPanelIsComplete
<1>1. PanelInv => CalmPanelIsComplete
  <2> SUFFICES ASSUME PanelInv, Answered, calm, NEW s \in series, {s[1], s[2]} \subseteq nodes,
                      \A p \in nodes \ {s[2]} : site[p] # site[s[2]]
               PROVE  s \in edges.shown
    BY DEF CalmPanelIsComplete
  <2>0. TypeOK
    BY DEF PanelInv
  <2>1. /\ nodes = ActiveNodes /\ edges.active = ActiveEnds
        /\ \A x \in Sites : edges.named[x] = Named(x)
        /\ \A x \in series : Drawable(x) => <<x[1], End(x)>> \in edges.shown
    BY DEF PanelInv, CalmInv, Answered
  <2>1a. ActiveNodes = ActiveEnds
    BY DEF ActiveNodes, ActiveEnds
  <2>2. s \in Ids \X Ids /\ s[1] # s[2] /\ s = <<s[1], s[2]>>
    BY DEF PanelInv, TypeOK, TableInv
  <2>3. site[s[2]] \in Sites
    <3>1. Registered(s[2]) /\ s[2] \in Ids
      BY <2>1, <2>2 DEF ActiveNodes, Registered
    <3> QED  BY <3>1 DEF PanelInv, TypeOK, TableInv
  <2>4. Named(site[s[2]]) = s[2]
    <3>1. {p \in ActiveEnds : site[p] = site[s[2]]} = {s[2]}
      BY <2>1, <2>1a
    <3> QED  BY <2>0, <3>1, NamedFacts
  <2>5. End(s) = s[2]
    BY <2>1, <2>3, <2>4 DEF End
  <2>6. s[2] # None
    BY <2>2 DEF PeerGraphAssumption
  <2>7. Drawable(s)
    BY <2>1, <2>2, <2>5, <2>6, <2>1a DEF Drawable
  <2> QED  BY <2>1, <2>2, <2>5, <2>7
<1> QED  BY <1>1, PanelAlways, PTL

================================================================================
