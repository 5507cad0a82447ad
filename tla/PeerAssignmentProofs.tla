------------------------- MODULE PeerAssignmentProofs -------------------------
(* Proofs about PeerAssignment, for every value of its constants.           *)
EXTENDS PeerAssignment, SequenceProofs

(* Every probe, day and length has its permutation.                         *)
LuckOK ==
  /\ DOMAIN luck = Askers \X (0 .. Days) \X Lengths
  /\ \A k \in DOMAIN luck : luck[k] \in Permutation(k[3])

(* Whoever has a row is installed somewhere, and so is every probe that was *)
(* handed out as a peer: a probe registers once.                            *)
HomeOK ==
  /\ spec \in [Clients -> {None} \cup SUBSET Ids]
  /\ \A p \in Ids : Registered(p) => home[p] # None
  /\ \A p \in Clients : spec[p] # None => \A q \in spec[p] : home[q] # None

--------------------------------------------------------------------------------
(* The table                                                                *)

LEMMA Constants ==
  /\ Clients \subseteq Askers /\ Askers \subseteq Ids /\ IsFiniteSet(Ids)
  /\ Counts \subseteq Int /\ Days \in Nat /\ Cardinality(Ids) \in Nat
  /\ Garbled \notin Nets /\ None \notin Nets
BY PeerAssignmentAssumption, FS_CardinalityType

(* A probe has one row.                                                     *)
LEMMA RowFacts ==
  ASSUME TypeOK
  PROVE  /\ DOMAIN rows \in SUBSET Nat
         /\ \A i \in DOMAIN rows : rows[i] \in TableRow
         /\ \A i, j \in DOMAIN rows : rows[i].id = rows[j].id => i = j
         /\ \A i \in DOMAIN rows : Registered(rows[i].id) /\ Row(rows[i].id) = rows[i]
         /\ \A p : Registered(p) => \E i \in DOMAIN rows : rows[i].id = p /\ Row(p) = rows[i]
<1>1. rows \in Seq(TableRow)
  BY DEF TypeOK
<1>2. DOMAIN rows \in SUBSET Nat /\ \A i \in DOMAIN rows : rows[i] \in TableRow
  BY <1>1
<1>3. \A i, j \in DOMAIN rows : rows[i].id = rows[j].id => i = j
  BY DEF TypeOK, IsInjective
<1>4. ASSUME NEW i \in DOMAIN rows
      PROVE  Registered(rows[i].id) /\ Row(rows[i].id) = rows[i]
  BY <1>3 DEF Registered, Row
<1>5. ASSUME NEW p, Registered(p)
      PROVE  \E i \in DOMAIN rows : rows[i].id = p /\ Row(p) = rows[i]
  BY <1>4, <1>5 DEF Registered
<1> QED  BY <1>2, <1>3, <1>4, <1>5

(* What the handlers do to the table: they put a row on top, change one, or *)
(* take one out; the order of the others stays.                             *)
LEMMA UpdateFacts ==
  ASSUME TypeOK, NEW p \in Ids, NEW row \in TableRow, row.id = p, Update(p, row)
  PROVE  /\ rows' \in Seq(TableRow) /\ DOMAIN rows' = DOMAIN rows
         /\ \A i \in DOMAIN rows : rows'[i] = IF rows[i].id = p THEN row ELSE rows[i]
         /\ \A i \in DOMAIN rows : rows'[i].id = rows[i].id
<1>1. rows \in Seq(TableRow)
  BY DEF TypeOK
<1>2. /\ DOMAIN rows' = DOMAIN rows
      /\ \A i \in DOMAIN rows : rows'[i] = IF rows[i].id = p THEN row ELSE rows[i]
  BY DEF Update
<1>3. rows' \in Seq(TableRow)
  BY <1>1 DEF Update
<1> QED  BY <1>2, <1>3

LEMMA RegisterFacts ==
  ASSUME TypeOK, NEW p \in Ids, NEW n \in Nets, Register(p, n)
  PROVE  /\ rows' \in Seq(TableRow) /\ DOMAIN rows' = 1 .. Len(rows) + 1
         /\ Len(rows) \in Nat /\ DOMAIN rows = 1 .. Len(rows)
         /\ rows'[1] = [id |-> p, local |-> {}, class |-> "unknown", role |-> "probe"]
         /\ \A i \in 2 .. Len(rows) + 1 : i - 1 \in DOMAIN rows /\ rows'[i] = rows[i - 1]
<1> DEFINE new == [id |-> p, local |-> {}, class |-> "unknown", role |-> "probe"]
<1>1. rows \in Seq(TableRow) /\ rows' = <<new>> \o rows
  BY DEF TypeOK, Register
<1>2. new \in TableRow
  BY DEF TableRow
<1> HIDE DEF new
<1>3. <<new>> \in Seq(TableRow) /\ Len(<<new>>) = 1 /\ <<new>>[1] = new
  BY <1>2
<1>4. rows' \in Seq(TableRow) /\ Len(rows') = Len(rows) + 1
  BY <1>1, <1>3
<1>5. rows'[1] = new
  BY <1>1, <1>3
<1>6. \A i \in 2 .. Len(rows) + 1 : i - 1 \in DOMAIN rows /\ rows'[i] = rows[i - 1]
  BY <1>1, <1>3
<1> QED  BY <1>1, <1>4, <1>5, <1>6 DEF new

LEMMA DeleteFacts ==
  ASSUME TypeOK, NEW p \in Ids, DeleteProbe(p)
  PROVE  LET I == {i \in DOMAIN rows : rows[i].id # p}
         IN /\ I \in SUBSET Nat /\ IsFiniteSet(I) /\ rows' \in Seq(TableRow)
            /\ DOMAIN rows' = 1 .. Cardinality(I)
            /\ \A k \in DOMAIN rows' : Place(I, k) \in I /\ rows'[k] = rows[Place(I, k)]
            /\ \A k, l \in DOMAIN rows' : k < l => Place(I, k) < Place(I, l)
<1> DEFINE I == {i \in DOMAIN rows : rows[i].id # p}
<1>1. rows \in Seq(TableRow) /\ I \in SUBSET DOMAIN rows /\ rows' = At(rows, I)
  BY DEF TypeOK, DeleteProbe
<1> HIDE DEF I
<1>2. /\ I \in SUBSET Nat /\ IsFiniteSet(I) /\ rows' \in Seq(TableRow)
      /\ DOMAIN rows' = 1 .. Cardinality(I)
      /\ \A k \in 1 .. Cardinality(I) : rows'[k] = rows[Place(I, k)]
  BY <1>1, AtFacts
<1>3. \A k \in DOMAIN rows' : Place(I, k) \in I
  BY <1>2, PlaceIsThere
<1>4. \A k, l \in DOMAIN rows' : k < l => Place(I, k) < Place(I, l)
  BY <1>2, PlacesIncrease
<1> QED  BY <1>2, <1>3, <1>4 DEF I

--------------------------------------------------------------------------------
(* The selection                                                            *)

AnchorPlaces(p) == {i \in Others(p) : rows[i].role = "anchor"}

CandidatePlaces(p) == {i \in Others(p) : rows[i].role # "anchor"}

Fewer(m, n) == IF m <= n THEN m ELSE n

LEMMA MaxOfTwo == \A m, n \in Int : Max({m, n}) = IF m >= n THEN m ELSE n
BY DEF Max

LEMMA MinOfTwo == \A m, n \in Int : Min({m, n}) = Fewer(m, n)
BY DEF Min, Fewer

(* As many values as places, when no two places have the same.              *)
LEMMA ImageSize ==
  ASSUME NEW I, IsFiniteSet(I), NEW T, NEW f \in [I -> T],
         \A i, j \in I : f[i] = f[j] => i = j,
         \A x \in T : \E i \in I : f[i] = x
  PROVE  IsFiniteSet(T) /\ Cardinality(T) = Cardinality(I)
<1>1. f \in Injection(I, T) /\ f \in Surjection(I, T)
  BY DEF Injection, Surjection, IsInjective
<1>2. f \in Bijection(I, T)
  BY <1>1 DEF Bijection
<1> QED  BY <1>2, FS_Bijection DEF ExistsBijection

LEMMA DisjointUnion ==
  ASSUME NEW S, IsFiniteSet(S), NEW T, IsFiniteSet(T), S \cap T = {}
  PROVE  IsFiniteSet(S \cup T) /\ Cardinality(S \cup T) = Cardinality(S) + Cardinality(T)
<1>1. IsFiniteSet(S \cup T)
  BY FS_Union
<1>2. Cardinality(S \cup T) = Cardinality(S) + Cardinality(T) - Cardinality(S \cap T)
  BY FS_Union
<1>3. Cardinality(S \cap T) = 0
  BY FS_EmptySet
<1>4. Cardinality(S) \in Nat /\ Cardinality(T) \in Nat
  BY FS_CardinalityType
<1> QED  BY <1>1, <1>2, <1>3, <1>4

LEMMA PlacesFacts ==
  ASSUME TypeOK, NEW p \in Askers, Registered(p)
  PROVE  /\ rows \in Seq(TableRow) /\ Others(p) \in SUBSET DOMAIN rows
         /\ IsFiniteSet(Others(p)) /\ Cardinality(Others(p)) \in Lengths
         /\ \A i \in Others(p) : rows[i].id \in Ids \ {p}
         /\ Anchors(Row(p)) = At(rows, AnchorPlaces(p))
         /\ Candidates(Row(p)) = At(rows, CandidatePlaces(p))
         /\ AnchorPlaces(p) \in SUBSET DOMAIN rows /\ CandidatePlaces(p) \in SUBSET DOMAIN rows
         /\ AnchorPlaces(p) \cap CandidatePlaces(p) = {}
         /\ AnchorPlaces(p) \cup CandidatePlaces(p) = Others(p)
<1> DEFINE ids == {rows[i].id : i \in Others(p)}
<1>1. rows \in Seq(TableRow) /\ Others(p) \in SUBSET DOMAIN rows
  BY DEF TypeOK, Others
<1>2. Row(p).id = p
  BY RowFacts
<1>3. \A i \in Others(p) : rows[i].id \in Ids \ {p}
  BY <1>2, RowFacts DEF Others, Eligible, TableRow
<1>4. IsFiniteSet(Others(p))
  BY <1>1, AtFacts
<1>5. Cardinality(ids) = Cardinality(Others(p)) /\ IsFiniteSet(ids)
  <2> DEFINE f == [i \in Others(p) |-> rows[i].id]
  <2>1. f \in [Others(p) -> ids] /\ \A x \in ids : \E i \in Others(p) : f[i] = x
    OBVIOUS
  <2>2. \A i, j \in Others(p) : f[i] = f[j] => i = j
    BY <1>1, RowFacts
  <2> HIDE DEF f, ids
  <2> QED  BY <1>4, <2>1, <2>2, ImageSize
<1>6. ids \in SUBSET (Ids \ {p}) /\ p \in Ids
  BY <1>3, Constants
<1> HIDE DEF ids
<1>7. Cardinality(Others(p)) \in Lengths
  <2>1. IsFiniteSet(Ids \ {p}) /\ Cardinality(Ids \ {p}) = Cardinality(Ids) - 1
    BY <1>6, Constants, FS_RemoveElement
  <2>2. Cardinality(ids) <= Cardinality(Ids \ {p}) /\ Cardinality(ids) \in Nat
    BY <1>5, <1>6, <2>1, FS_Subset, FS_CardinalityType
  <2> QED  BY <1>5, <2>1, <2>2, Constants DEF Lengths
<1>8. /\ Anchors(Row(p)) = At(rows, AnchorPlaces(p))
      /\ Candidates(Row(p)) = At(rows, CandidatePlaces(p))
  <2>1. /\ AnchorPlaces(p) = {i \in DOMAIN rows : Eligible(Row(p), rows[i]) /\ rows[i].role = "anchor"}
        /\ CandidatePlaces(p) = {i \in DOMAIN rows : Eligible(Row(p), rows[i]) /\ rows[i].role # "anchor"}
    BY DEF AnchorPlaces, CandidatePlaces, Others
  <2> QED  BY <2>1 DEF Anchors, Candidates
<1> QED  BY <1>1, <1>3, <1>4, <1>7, <1>8 DEF AnchorPlaces, CandidatePlaces

(* The assignment: all anchors and so many of the candidates, whatever the  *)
(* shuffle did.                                                             *)
LEMMA AssignedFacts ==
  ASSUME TypeOK, LuckOK, NEW p \in Askers, Registered(p)
  PROVE  \E J \in SUBSET CandidatePlaces(p) :
           /\ Cardinality(J) = Fewer(Cardinality(CandidatePlaces(p)), Remaining(Row(p)))
           /\ Assigned(p) = {rows[i].id : i \in AnchorPlaces(p) \cup J}
<1> DEFINE A == AnchorPlaces(p)
           C == CandidatePlaces(p)
           n == Cardinality(C)
           m == Remaining(Row(p))
           f == luck[<<p, day, n>>]
           k == Fewer(n, m)
           J == {Place(C, f[i]) : i \in 1 .. k}
<1>1. /\ rows \in Seq(TableRow) /\ A \in SUBSET DOMAIN rows /\ C \in SUBSET DOMAIN rows
      /\ C \in SUBSET Others(p) /\ IsFiniteSet(Others(p)) /\ Cardinality(Others(p)) \in Lengths
      /\ Anchors(Row(p)) = At(rows, A) /\ Candidates(Row(p)) = At(rows, C)
  BY PlacesFacts
<1>2. /\ A \in SUBSET Nat /\ IsFiniteSet(A) /\ Cardinality(A) \in Nat
      /\ Len(At(rows, A)) = Cardinality(A) /\ DOMAIN At(rows, A) = 1 .. Cardinality(A)
      /\ Range(At(rows, A)) = {rows[i] : i \in A}
  BY <1>1, AtFacts, AtRange
<1>3. /\ C \in SUBSET Nat /\ IsFiniteSet(C) /\ n \in Nat
      /\ Len(At(rows, C)) = n /\ DOMAIN At(rows, C) = 1 .. n
      /\ \A i \in 1 .. n : At(rows, C)[i] = rows[Place(C, i)]
  BY <1>1, AtFacts
<1>4. m \in Nat
  BY <1>1, <1>2, Constants, MaxOfTwo DEF Remaining, TypeOK
<1>5. f \in [1 .. n -> 1 .. n] /\ \A i, j \in 1 .. n : f[i] = f[j] => i = j
  <2>1. n \in Lengths
    BY <1>1, <1>3, FS_Subset, Constants DEF Lengths
  <2>2. <<p, day, n>> \in DOMAIN luck
    BY <2>1 DEF LuckOK, TypeOK
  <2>3. f \in Permutation(n)
    BY <2>2 DEF LuckOK
  <2> QED  BY <2>3 DEF Permutation, IsInjective
<1> HIDE DEF A, C, n, m, f
<1>6. k \in 0 .. n /\ 1 .. n \cap 1 .. m = 1 .. k
  BY <1>3, <1>4 DEF Fewer
<1>7. \A i \in 1 .. n : Place(C, i) \in C /\ Rank(C, Place(C, i)) = i
  BY <1>3, PlaceIsThere DEF n
<1>8. J \in SUBSET C /\ Cardinality(J) = k
  <2> DEFINE g == [i \in 1 .. k |-> Place(C, f[i])]
  <2>1. \A i \in 1 .. k : f[i] \in 1 .. n
    BY <1>5, <1>6
  <2>2. \A i, j \in 1 .. k : g[i] = g[j] => i = j
    BY <1>5, <1>6, <1>7, <2>1
  <2>3. IsFiniteSet(1 .. k) /\ Cardinality(1 .. k) = k
    BY <1>6, FS_Interval
  <2>4. g \in [1 .. k -> J] /\ \A x \in J : \E i \in 1 .. k : g[i] = x
    OBVIOUS
  <2> HIDE DEF g, J, k
  <2>5. Cardinality(J) = k
    BY <2>2, <2>3, <2>4, ImageSize
  <2> QED  BY <1>7, <2>1, <2>5 DEF J
<1>9. IdsOf(Anchors(Row(p))) = {rows[i].id : i \in A}
  <2>1. \A x : (\E i \in DOMAIN At(rows, A) : At(rows, A)[i] = x) <=> \E i \in A : rows[i] = x
    BY <1>2 DEF Range
  <2> QED  BY <1>1, <2>1 DEF IdsOf
<1>10. IdsOf(Prefix(Shuffled(p, Candidates(Row(p))), Remaining(Row(p)))) = {rows[i].id : i \in J}
  <2> DEFINE s == At(rows, C)
             t == [i \in 1 .. n |-> s[f[i]]]
  <2>1. Shuffled(p, Candidates(Row(p))) = t
    BY <1>1, <1>3 DEF Shuffled, f
  <2>2. Prefix(t, m) = [i \in 1 .. k |-> t[i]]
    <3>1. (IF m < 0 THEN Len(t) + m ELSE m) = m
      BY <1>4
    <3>2. Prefix(t, m) = [i \in DOMAIN t \cap 1 .. m |-> t[i]]
      BY <3>1, Zenon DEF Prefix
    <3> QED  BY <1>6, <3>2
  <2>3. \A i \in 1 .. k : t[i] = rows[Place(C, f[i])]
    BY <1>3, <1>5, <1>6
  <2> HIDE DEF t, k
  <2>4. IdsOf([i \in 1 .. k |-> t[i]]) = {rows[Place(C, f[i])].id : i \in 1 .. k}
    BY <2>3 DEF IdsOf
  <2> QED  BY <2>1, <2>2, <2>4 DEF m
<1>11. Assigned(p) = {rows[i].id : i \in A \cup J}
  BY <1>9, <1>10 DEF Assigned
<1> QED  BY <1>8, <1>11 DEF A, C, n, m

--------------------------------------------------------------------------------
(* The invariant                                                            *)

PeersInv == TypeOK /\ LuckOK /\ HomeOK

LEMMA InvInit == Init => PeersInv
<1> SUFFICES ASSUME Init PROVE PeersInv
  OBVIOUS
<1>1. rows \in Seq(TableRow) /\ IsInjective([i \in DOMAIN rows |-> rows[i].id])
  BY DEF Init, IsInjective
<1>2. TypeOK
  BY <1>1, Constants DEF Init, TypeOK
<1>3. LuckOK
  BY DEF Init, LuckOK
<1>4. HomeOK
  BY DEF Init, HomeOK, Registered
<1> QED  BY <1>2, <1>3, <1>4 DEF PeersInv

(* An update keeps the ids.                                                 *)
LEMMA UpdateKeeps ==
  ASSUME PeersInv, NEW p \in Ids, NEW row \in TableRow, row.id = p, Update(p, row),
         UNCHANGED <<count, day, luck, home, spec>>
  PROVE  PeersInv'
<1>1. /\ TypeOK /\ rows' \in Seq(TableRow) /\ DOMAIN rows' = DOMAIN rows
      /\ \A i \in DOMAIN rows : rows'[i].id = rows[i].id
  BY UpdateFacts DEF PeersInv
<1>2. TypeOK'
  BY <1>1 DEF TypeOK, IsInjective
<1>3. \A q : Registered(q)' <=> Registered(q)
  BY <1>1 DEF Registered
<1>4. HomeOK'
  BY <1>3 DEF HomeOK, PeersInv
<1> QED  BY <1>2, <1>4 DEF PeersInv, LuckOK

LEMMA HeartbeatRow ==
  ASSUME PeersInv, NEW p \in Ids, Registered(p), NEW local \in Reports(p),
         NEW ip \in {None} \cup Inside \cup Outside
  PROVE  [Row(p) EXCEPT !.local = IF local = {} THEN @ ELSE local,
                        !.class = Classified(ip)] \in TableRow
<1>1. Row(p) \in TableRow
  BY RowFacts DEF PeersInv
<1>2. home[p] \in Nets
  BY DEF PeersInv, TypeOK, HomeOK
<1>3. local \in SUBSET Addresses
  BY <1>2 DEF Reports, Addresses
<1>4. Classified(ip) \in {"nkn", "external", "unknown"}
  BY DEF Classified
<1> QED  BY <1>1, <1>3, <1>4 DEF TableRow

LEMMA GivenOut ==
  ASSUME PeersInv, NEW p \in Askers, Registered(p)
  PROVE  /\ Assigned(p) \subseteq Ids \ {p}
         /\ \A q \in Assigned(p) : /\ home[q] # None
                                   /\ Registered(q) /\ Row(q).local # {}
<1>1. PICK J \in SUBSET CandidatePlaces(p) :
        Assigned(p) = {rows[i].id : i \in AnchorPlaces(p) \cup J}
  BY AssignedFacts DEF PeersInv
<1>2. AnchorPlaces(p) \cup J \subseteq Others(p)
  BY DEF AnchorPlaces, CandidatePlaces
<1>3. \A i \in Others(p) : /\ i \in DOMAIN rows /\ rows[i].local # {}
                           /\ rows[i].id \in Ids \ {p}
  BY PlacesFacts DEF PeersInv, Others, Eligible
<1>4. \A i \in Others(p) : Registered(rows[i].id) /\ Row(rows[i].id) = rows[i]
  BY <1>3, RowFacts DEF PeersInv
<1> QED  BY <1>1, <1>2, <1>3, <1>4 DEF PeersInv, HomeOK

LEMMA InvNext == PeersInv /\ [Next]_vars => PeersInv'
<1> SUFFICES ASSUME PeersInv, [Next]_vars PROVE PeersInv'
  OBVIOUS
<1>0. TypeOK /\ LuckOK /\ HomeOK
  BY DEF PeersInv
<1>1. ASSUME NEW p \in Ids, NEW n \in Nets, Register(p, n)
      PROVE  PeersInv'
  <2>1. /\ rows' \in Seq(TableRow) /\ DOMAIN rows' = 1 .. Len(rows) + 1
        /\ Len(rows) \in Nat /\ DOMAIN rows = 1 .. Len(rows)
        /\ rows'[1] = [id |-> p, local |-> {}, class |-> "unknown", role |-> "probe"]
        /\ \A i \in 2 .. Len(rows) + 1 : i - 1 \in DOMAIN rows /\ rows'[i] = rows[i - 1]
    BY <1>0, <1>1, RegisterFacts
  <2>r. rows'[1].id = p
    BY <2>1
  <2>2. home[p] = None /\ home' = [home EXCEPT ![p] = n] /\ UNCHANGED <<count, day, luck, spec>>
    BY <1>1 DEF Register
  <2>3. ~Registered(p)
    BY <2>2, <1>0 DEF HomeOK
  <2>4. \A i \in DOMAIN rows : rows[i].id # p
    BY <2>3 DEF Registered
  <2>5. ASSUME NEW i \in DOMAIN rows', NEW j \in DOMAIN rows', rows'[i].id = rows'[j].id
        PROVE  i = j
    <3>1. CASE i = 1 \/ j = 1
      BY <3>1, <2>1, <2>r, <2>4, <2>5
    <3>2. CASE i # 1 /\ j # 1
      <4>1. /\ i \in 2 .. Len(rows) + 1 /\ j \in 2 .. Len(rows) + 1
        BY <3>2, <2>1
      <4>2. rows[i - 1].id = rows[j - 1].id /\ i - 1 \in DOMAIN rows /\ j - 1 \in DOMAIN rows
        BY <4>1, <2>1, <2>5
      <4>3. i - 1 = j - 1
        BY <4>2, <1>0, RowFacts
      <4> QED  BY <4>1, <4>3
    <3> QED  BY <3>1, <3>2
  <2>6. IsInjective([i \in DOMAIN rows' |-> rows'[i].id])
    BY <2>5 DEF IsInjective
  <2>7. home' \in [Ids -> Nets \cup {None}]
    BY <2>2, <1>0 DEF TypeOK
  <2>8. TypeOK'
    BY <2>1, <2>2, <2>6, <2>7, <1>0 DEF TypeOK
  <2>9. \A q : Registered(q)' => Registered(q) \/ q = p
    <3> SUFFICES ASSUME NEW q, NEW i \in DOMAIN rows', rows'[i].id = q
                 PROVE  Registered(q) \/ q = p
      BY DEF Registered
    <3>1. CASE i = 1
      BY <3>1, <2>r
    <3>2. CASE i # 1
      BY <3>2, <2>1 DEF Registered
    <3> QED  BY <3>1, <3>2
  <2>10. \A q \in Ids : home'[q] = IF q = p THEN n ELSE home[q]
    BY <2>2, <1>0 DEF TypeOK
  <2>11. HomeOK'
    <3>1. \A q \in Ids : Registered(q)' => home'[q] # None
      BY <2>9, <2>10, <1>0, Constants DEF HomeOK
    <3>2. ASSUME NEW c \in Clients, spec'[c] # None, NEW q \in spec'[c]
          PROVE  home'[q] # None
      <4>1. q \in Ids /\ home[q] # None
        BY <3>2, <2>2, <1>0 DEF HomeOK, TypeOK
      <4> QED  BY <4>1, <2>10, Constants
    <3> QED  BY <3>1, <3>2, <2>2, <1>0 DEF HomeOK
  <2> QED  BY <2>8, <2>11, <2>2, <1>0 DEF PeersInv, LuckOK
<1>2. ASSUME NEW p \in Ids, NEW local \in Reports(p),
             NEW ip \in {None} \cup Inside \cup Outside, Heartbeat(p, local, ip)
      PROVE  PeersInv'
  <2> DEFINE row == [Row(p) EXCEPT !.local = IF local = {} THEN @ ELSE local,
                                   !.class = Classified(ip)]
  <2>1. Registered(p) /\ Update(p, row) /\ UNCHANGED <<count, day, luck, home, spec>>
    BY <1>2 DEF Heartbeat
  <2>2. row \in TableRow
    BY <2>1, HeartbeatRow
  <2>3. row.id = p
    BY <2>1, <1>0, RowFacts DEF TableRow
  <2> HIDE DEF row
  <2> QED  BY <2>1, <2>2, <2>3, UpdateKeeps
<1>3. ASSUME NEW p \in Ids, NEW role \in {"probe", "anchor"}, SetRole(p, role)
      PROVE  PeersInv'
  <2> DEFINE row == [Row(p) EXCEPT !.role = role]
  <2>1. Registered(p) /\ Update(p, row) /\ UNCHANGED <<count, day, luck, home, spec>>
    BY <1>3 DEF SetRole
  <2>2. row \in TableRow /\ row.id = p
    BY <2>1, <1>0, RowFacts DEF TableRow
  <2> HIDE DEF row
  <2> QED  BY <2>1, <2>2, UpdateKeeps
<1>4. ASSUME NEW p \in Ids, DeleteProbe(p)
      PROVE  PeersInv'
  <2> DEFINE I == {i \in DOMAIN rows : rows[i].id # p}
  <2>0. /\ I \in SUBSET Nat /\ rows' \in Seq(TableRow)
        /\ \A k \in DOMAIN rows' : Place(I, k) \in I /\ rows'[k] = rows[Place(I, k)]
        /\ \A k, l \in DOMAIN rows' : k < l => Place(I, k) < Place(I, l)
    BY <1>0, <1>4, DeleteFacts
  <2>1. \A k \in DOMAIN rows' : /\ k \in Nat /\ Place(I, k) \in Nat
                                /\ Place(I, k) \in DOMAIN rows /\ rows'[k] = rows[Place(I, k)]
    BY <2>0
  <2>2. UNCHANGED <<count, day, luck, home, spec>>
    BY <1>4 DEF DeleteProbe
  <2> HIDE DEF I
  <2>3. ASSUME NEW k \in DOMAIN rows', NEW l \in DOMAIN rows', rows'[k].id = rows'[l].id
        PROVE  k = l
    <3>1. Place(I, k) = Place(I, l) /\ Place(I, k) \in Nat
      <4>1. rows[Place(I, k)].id = rows[Place(I, l)].id
        BY <2>1, <2>3
      <4> QED  BY <4>1, <2>1, <1>0, RowFacts
    <3>2. ~(k < l) /\ ~(l < k) /\ k \in Nat /\ l \in Nat
      BY <3>1, <2>0, <2>1
    <3> QED  BY <3>2
  <2>4. TypeOK'
    BY <2>0, <2>2, <2>3, <1>0 DEF TypeOK, IsInjective
  <2>5. \A q : Registered(q)' => Registered(q)
    BY <2>1 DEF Registered
  <2> QED  BY <2>2, <2>4, <2>5, <1>0 DEF PeersInv, LuckOK, HomeOK
<1>5. ASSUME NEW p \in Clients, GetSpec(p)
      PROVE  PeersInv'
  <2>1. /\ Registered(p) /\ spec' = [spec EXCEPT ![p] = Assigned(p)]
        /\ UNCHANGED <<rows, count, day, luck, home>> /\ p \in Askers
    BY <1>5, Constants DEF GetSpec
  <2>2. Assigned(p) \subseteq Ids \ {p} /\ \A q \in Assigned(p) : home[q] # None
    BY <2>1, GivenOut
  <2>3. \A c \in Clients : spec'[c] = IF c = p THEN Assigned(p) ELSE spec[c]
    BY <2>1, <1>0 DEF HomeOK
  <2>4. TypeOK'
    BY <2>1, <2>2, <2>3, <1>0 DEF TypeOK
  <2>5. spec' \in [Clients -> {None} \cup SUBSET Ids]
    BY <2>1, <2>2, <1>0 DEF HomeOK
  <2>6. \A q : Registered(q)' <=> Registered(q)
    BY <2>1 DEF Registered
  <2>7. HomeOK'
    BY <2>1, <2>2, <2>3, <2>5, <2>6, <1>0 DEF HomeOK
  <2> QED  BY <2>1, <2>4, <2>7, <1>0 DEF PeersInv, LuckOK
<1>6. CASE Midnight
  <2>1. day' \in 0 .. Days /\ UNCHANGED <<rows, count, luck, home, spec>>
    BY <1>6, <1>0, Constants DEF Midnight, TypeOK
  <2> QED  BY <2>1, <1>0 DEF PeersInv, TypeOK, LuckOK, HomeOK, Registered
<1>7. ASSUME NEW n \in Counts, Configure(n)
      PROVE  PeersInv'
  BY <1>7, <1>0 DEF Configure, PeersInv, TypeOK, LuckOK, HomeOK, Registered
<1>8. CASE UNCHANGED vars
  BY <1>8, <1>0 DEF vars, PeersInv, TypeOK, LuckOK, HomeOK, Registered
<1> QED  BY <1>1, <1>2, <1>3, <1>4, <1>5, <1>6, <1>7, <1>8 DEF Next

LEMMA InvAlways == Spec => []PeersInv
BY InvInit, InvNext, PTL DEF Spec

(* For every set of probes, networks and permutations: one row for each     *)
(* probe, and no probe is its own peer.                                     *)
THEOREM PeersTypeCorrect ==
  ASSUME PeerAssignmentAssumption
  PROVE  Spec => []TypeOK
<1>1. PeersInv => TypeOK
  BY DEF PeersInv
<1> QED  BY <1>1, InvAlways, PTL

--------------------------------------------------------------------------------
(* How many peers                                                           *)

LEMMA FullNow == PeersInv => AssignmentIsFull
<1> SUFFICES ASSUME PeersInv, NEW p \in Askers, Registered(p)
             PROVE  LET all == Others(p)
                        anchors == {i \in all : rows[i].role = "anchor"}
                    IN /\ {rows[i].id : i \in anchors} \subseteq Assigned(p)
                       /\ Cardinality(Assigned(p)) =
                            Max({Cardinality(anchors), Min({Cardinality(all), count})})
  BY DEF AssignmentIsFull
<1> DEFINE A == AnchorPlaces(p)
           C == CandidatePlaces(p)
<1>1. TypeOK /\ LuckOK
  BY DEF PeersInv
<1>2. PICK J \in SUBSET C : /\ Cardinality(J) = Fewer(Cardinality(C), Remaining(Row(p)))
                            /\ Assigned(p) = {rows[i].id : i \in A \cup J}
  BY <1>1, AssignedFacts
<1>3. /\ rows \in Seq(TableRow) /\ A \in SUBSET DOMAIN rows /\ C \in SUBSET DOMAIN rows
      /\ IsFiniteSet(Others(p)) /\ A \cap C = {} /\ A \cup C = Others(p)
      /\ Anchors(Row(p)) = At(rows, A) /\ {i \in Others(p) : rows[i].role = "anchor"} = A
  BY <1>1, PlacesFacts DEF AnchorPlaces
<1> HIDE DEF A, C
<1>4. /\ IsFiniteSet(A) /\ IsFiniteSet(C) /\ IsFiniteSet(J)
      /\ Cardinality(A) \in Nat /\ Cardinality(C) \in Nat /\ Cardinality(J) \in Nat
      /\ Len(At(rows, A)) = Cardinality(A)
  BY <1>3, AtFacts
<1>5. Cardinality(A \cup J) = Cardinality(A) + Cardinality(J) /\ IsFiniteSet(A \cup J)
  <2>1. A \cap J = {}
    BY <1>3
  <2> QED  BY <1>4, <2>1, DisjointUnion
<1>6. Cardinality(Others(p)) = Cardinality(A) + Cardinality(C)
  BY <1>3, <1>4, DisjointUnion
<1>7. Cardinality(Assigned(p)) = Cardinality(A \cup J)
  <2> DEFINE f == [i \in A \cup J |-> rows[i].id]
             T == {rows[i].id : i \in A \cup J}
  <2>1. f \in [A \cup J -> T] /\ \A x \in T : \E i \in A \cup J : f[i] = x
    OBVIOUS
  <2>2. \A i, j \in A \cup J : f[i] = f[j] => i = j
    BY <1>1, <1>3, RowFacts
  <2> HIDE DEF f
  <2>3. Cardinality(T) = Cardinality(A \cup J)
    <3> HIDE DEF T
    <3> QED  BY <1>5, <2>1, <2>2, ImageSize
  <2> QED  BY <1>2, <2>3
<1>8. Remaining(Row(p)) = IF Cardinality(A) >= count THEN 0 ELSE count - Cardinality(A)
  <2>1. Remaining(Row(p)) = Max({0, count - Cardinality(A)})
    BY <1>3, <1>4 DEF Remaining
  <2>2. count \in Int
    BY <1>1, Constants DEF TypeOK
  <2> QED  BY <2>1, <2>2, <1>4, MaxOfTwo
<1>9. Cardinality(Assigned(p)) = Max({Cardinality(A), Min({Cardinality(Others(p)), count})})
  <2> DEFINE a == Cardinality(A)
             c == Cardinality(C)
  <2>1. Cardinality(Assigned(p)) = a + Fewer(c, IF a >= count THEN 0 ELSE count - a)
    BY <1>2, <1>5, <1>7, <1>8
  <2>2. a \in Nat /\ c \in Nat /\ count \in Int /\ Cardinality(Others(p)) = a + c
    BY <1>1, <1>4, <1>6, Constants DEF TypeOK
  <2> HIDE DEF a, c
  <2>3. Min({a + c, count}) = Fewer(a + c, count) /\ Fewer(a + c, count) \in Int
    BY <2>2, MinOfTwo DEF Fewer
  <2>4. Max({a, Fewer(a + c, count)}) = IF a >= Fewer(a + c, count) THEN a ELSE Fewer(a + c, count)
    BY <2>2, <2>3, MaxOfTwo
  <2>5. a + Fewer(c, IF a >= count THEN 0 ELSE count - a) = Max({a, Fewer(a + c, count)})
    BY <2>2, <2>4 DEF Fewer
  <2>6. Cardinality(Assigned(p)) = Max({a, Min({Cardinality(Others(p)), count})})
    BY <2>1, <2>2, <2>3, <2>5
  <2> QED  BY <2>6 DEF a
<1>10. {rows[i].id : i \in A} \subseteq Assigned(p)
  BY <1>2
<1> QED  BY <1>3, <1>9, <1>10

(* For every number of probes and of configured peers: every probe gets all *)
(* eligible anchors, and others until the number is reached or none is      *)
(* left.                                                                    *)
THEOREM AssignmentsAreFull == Spec => []AssignmentIsFull
BY FullNow, InvAlways, PTL

--------------------------------------------------------------------------------
(* The addresses of peers                                                   *)

(* PeersKeepAnAddress, said of the rows.                                    *)
AddressInv ==
  \A c \in Clients : spec[c] # None =>
    \A i \in DOMAIN rows : rows[i].id \in spec[c] => rows[i].local # {}

LEMMA AddressNow == PeersInv /\ AddressInv => PeersKeepAnAddress
BY RowFacts DEF PeersInv, AddressInv, PeersKeepAnAddress

LEMMA UpdateKeepsAddress ==
  ASSUME PeersInv, AddressInv, NEW p \in Ids, Registered(p), NEW row \in TableRow,
         row.id = p, Row(p).local # {} => row.local # {}, Update(p, row), UNCHANGED spec
  PROVE  AddressInv'
<1>1. \A i \in DOMAIN rows : rows'[i].id = rows[i].id /\ DOMAIN rows' = DOMAIN rows
  BY UpdateFacts DEF PeersInv
<1>2. ASSUME NEW i \in DOMAIN rows, rows[i].local # {}
      PROVE  rows'[i].local # {}
  <2>1. rows'[i] = IF rows[i].id = p THEN row ELSE rows[i]
    BY UpdateFacts DEF PeersInv
  <2>2. rows[i].id = p => Row(p) = rows[i]
    BY RowFacts DEF PeersInv
  <2> QED  BY <1>2, <2>1, <2>2
<1>3. DOMAIN rows' = DOMAIN rows
  BY UpdateFacts DEF PeersInv
<1> QED  BY <1>1, <1>2, <1>3 DEF AddressInv

LEMMA AddressNext == PeersInv /\ AddressInv /\ [Next]_vars => AddressInv'
<1> SUFFICES ASSUME PeersInv, AddressInv, [Next]_vars PROVE AddressInv'
  OBVIOUS
<1>0. TypeOK /\ HomeOK
  BY DEF PeersInv
<1>1. ASSUME NEW p \in Ids, NEW n \in Nets, Register(p, n)
      PROVE  AddressInv'
  <2>1. /\ DOMAIN rows' = 1 .. Len(rows) + 1 /\ Len(rows) \in Nat
        /\ rows'[1] = [id |-> p, local |-> {}, class |-> "unknown", role |-> "probe"]
        /\ \A i \in 2 .. Len(rows) + 1 : i - 1 \in DOMAIN rows /\ rows'[i] = rows[i - 1]
    BY <1>0, <1>1, RegisterFacts
  <2>2. \A i \in DOMAIN rows' : rows'[i].id = p \/ \E j \in DOMAIN rows : rows'[i] = rows[j]
    <3> TAKE i \in DOMAIN rows'
    <3>1. CASE i = 1
      BY <3>1, <2>1
    <3>2. CASE i # 1
      BY <3>2, <2>1
    <3> QED  BY <3>1, <3>2
  <2>3. home[p] = None /\ spec' = spec
    BY <1>1 DEF Register
  <2>4. \A c \in Clients : spec[c] # None => p \notin spec[c]
    BY <2>3, <1>0 DEF HomeOK
  <2> QED  BY <2>2, <2>3, <2>4 DEF AddressInv
<1>2. ASSUME NEW p \in Ids, NEW local \in Reports(p),
             NEW ip \in {None} \cup Inside \cup Outside, Heartbeat(p, local, ip)
      PROVE  AddressInv'
  <2> DEFINE row == [Row(p) EXCEPT !.local = IF local = {} THEN @ ELSE local,
                                   !.class = Classified(ip)]
  <2>1. Registered(p) /\ Update(p, row) /\ spec' = spec
    BY <1>2 DEF Heartbeat
  <2>2. row \in TableRow
    BY <2>1, HeartbeatRow
  <2>3. row.id = p /\ (Row(p).local # {} => row.local # {})
    BY <2>1, <1>0, RowFacts DEF TableRow
  <2> HIDE DEF row
  <2> QED  BY <2>1, <2>2, <2>3, UpdateKeepsAddress
<1>3. ASSUME NEW p \in Ids, NEW role \in {"probe", "anchor"}, SetRole(p, role)
      PROVE  AddressInv'
  <2> DEFINE row == [Row(p) EXCEPT !.role = role]
  <2>1. Registered(p) /\ Update(p, row) /\ spec' = spec
    BY <1>3 DEF SetRole
  <2>2. row \in TableRow /\ row.id = p /\ row.local = Row(p).local
    BY <2>1, <1>0, RowFacts DEF TableRow
  <2> HIDE DEF row
  <2> QED  BY <2>1, <2>2, UpdateKeepsAddress
<1>4. ASSUME NEW p \in Ids, DeleteProbe(p)
      PROVE  AddressInv'
  <2>1. \A k \in DOMAIN rows' : \E i \in DOMAIN rows : rows'[k] = rows[i]
    BY <1>0, <1>4, DeleteFacts
  <2> QED  BY <1>4, <2>1 DEF AddressInv, DeleteProbe
<1>5. ASSUME NEW p \in Clients, GetSpec(p)
      PROVE  AddressInv'
  <2>1. /\ Registered(p) /\ spec' = [spec EXCEPT ![p] = Assigned(p)]
        /\ rows' = rows /\ p \in Askers
    BY <1>5, Constants DEF GetSpec
  <2>2. \A q \in Assigned(p) : Row(q).local # {}
    BY <2>1, GivenOut
  <2>3. \A i \in DOMAIN rows : rows[i].id \in Assigned(p) => rows[i].local # {}
    BY <2>2, <1>0, RowFacts
  <2>4. \A c \in Clients : spec'[c] = IF c = p THEN Assigned(p) ELSE spec[c]
    BY <2>1, <1>0 DEF HomeOK
  <2> QED  BY <2>1, <2>3, <2>4 DEF AddressInv
<1>6. CASE Midnight \/ (\E n \in Counts : Configure(n)) \/ UNCHANGED vars
  BY <1>6 DEF AddressInv, Midnight, Configure, vars
<1> QED  BY <1>1, <1>2, <1>3, <1>4, <1>5, <1>6 DEF Next

(* A peer that was handed out has, as long as it has a row, an address: no  *)
(* heartbeat takes it away, and the row of a probe that was deleted does    *)
(* not come back.                                                           *)
THEOREM PeersHaveAnAddress ==
  ASSUME PeerAssignmentAssumption
  PROVE  Spec => []PeersKeepAnAddress
<1>1. Init => AddressInv
  BY DEF Init, AddressInv
<1> QED  BY <1>1, AddressNext, AddressNow, InvAlways, PTL DEF Spec

--------------------------------------------------------------------------------
(* The rotation                                                             *)

(* No step moves the rows of two probes past each other.                    *)
OrderKept ==
  \A i, k \in DOMAIN rows, j, l \in DOMAIN rows' :
    rows[i].id = rows'[j].id /\ rows[k].id = rows'[l].id /\ i < k => j < l

LEMMA UpdateKeepsOrder ==
  ASSUME TypeOK, NEW p \in Ids, NEW row \in TableRow, row.id = p, Update(p, row)
  PROVE  OrderKept
<1> SUFFICES ASSUME NEW i \in DOMAIN rows, NEW k \in DOMAIN rows,
                    NEW j \in DOMAIN rows', NEW l \in DOMAIN rows',
                    rows[i].id = rows'[j].id, rows[k].id = rows'[l].id, i < k
             PROVE  j < l
  BY DEF OrderKept
<1>1. j \in DOMAIN rows /\ l \in DOMAIN rows /\ rows'[j].id = rows[j].id /\ rows'[l].id = rows[l].id
  BY UpdateFacts
<1>2. i = j /\ k = l
  BY <1>1, RowFacts
<1> QED  BY <1>2

LEMMA NextKeepsOrder == PeersInv /\ [Next]_vars => OrderKept
<1> SUFFICES ASSUME PeersInv, [Next]_vars PROVE OrderKept
  OBVIOUS
<1>0. TypeOK
  BY DEF PeersInv
<1>1. ASSUME NEW p \in Ids, NEW n \in Nets, Register(p, n)
      PROVE  OrderKept
  <2> SUFFICES ASSUME NEW i \in DOMAIN rows, NEW k \in DOMAIN rows,
                      NEW j \in DOMAIN rows', NEW l \in DOMAIN rows',
                      rows[i].id = rows'[j].id, rows[k].id = rows'[l].id, i < k
               PROVE  j < l
    BY DEF OrderKept
  <2>1. /\ DOMAIN rows' = 1 .. Len(rows) + 1 /\ Len(rows) \in Nat
        /\ DOMAIN rows = 1 .. Len(rows)
        /\ rows'[1] = [id |-> p, local |-> {}, class |-> "unknown", role |-> "probe"]
        /\ \A x \in 2 .. Len(rows) + 1 : x - 1 \in DOMAIN rows /\ rows'[x] = rows[x - 1]
    BY <1>0, <1>1, RegisterFacts
  <2>2. \A x \in DOMAIN rows : rows[x].id # p
    BY <1>1 DEF Register, PeersInv, HomeOK, Registered
  <2>3. j \in 2 .. Len(rows) + 1 /\ l \in 2 .. Len(rows) + 1
    <3>1. rows'[1].id = p
      BY <2>1
    <3>2. j # 1 /\ l # 1
      BY <2>2, <3>1
    <3> QED  BY <2>1, <3>2
  <2>4. rows[j - 1].id = rows[i].id /\ rows[l - 1].id = rows[k].id
    BY <2>1, <2>3
  <2>5. j - 1 = i /\ l - 1 = k
    BY <1>0, <2>1, <2>3, <2>4, RowFacts
  <2> QED  BY <2>1, <2>3, <2>5
<1>2. ASSUME NEW p \in Ids, NEW local \in Reports(p),
             NEW ip \in {None} \cup Inside \cup Outside, Heartbeat(p, local, ip)
      PROVE  OrderKept
  <2> DEFINE row == [Row(p) EXCEPT !.local = IF local = {} THEN @ ELSE local,
                                   !.class = Classified(ip)]
  <2>1. Registered(p) /\ Update(p, row)
    BY <1>2 DEF Heartbeat
  <2>2. row \in TableRow
    BY <2>1, HeartbeatRow
  <2>3. row.id = p
    BY <2>1, <1>0, RowFacts DEF TableRow
  <2> HIDE DEF row
  <2> QED  BY <1>0, <2>1, <2>2, <2>3, UpdateKeepsOrder
<1>3. ASSUME NEW p \in Ids, NEW role \in {"probe", "anchor"}, SetRole(p, role)
      PROVE  OrderKept
  <2> DEFINE row == [Row(p) EXCEPT !.role = role]
  <2>1. Registered(p) /\ Update(p, row)
    BY <1>3 DEF SetRole
  <2>2. row \in TableRow /\ row.id = p
    BY <2>1, <1>0, RowFacts DEF TableRow
  <2> HIDE DEF row
  <2> QED  BY <1>0, <2>1, <2>2, UpdateKeepsOrder
<1>4. ASSUME NEW p \in Ids, DeleteProbe(p)
      PROVE  OrderKept
  <2> SUFFICES ASSUME NEW i \in DOMAIN rows, NEW k \in DOMAIN rows,
                      NEW j \in DOMAIN rows', NEW l \in DOMAIN rows',
                      rows[i].id = rows'[j].id, rows[k].id = rows'[l].id, i < k
               PROVE  j < l
    BY DEF OrderKept
  <2> DEFINE I == {x \in DOMAIN rows : rows[x].id # p}
  <2>1. /\ I \in SUBSET Nat /\ DOMAIN rows' = 1 .. Cardinality(I)
        /\ \A x \in DOMAIN rows' : Place(I, x) \in I /\ rows'[x] = rows[Place(I, x)]
        /\ \A x, y \in DOMAIN rows' : x < y => Place(I, x) < Place(I, y)
    BY <1>0, <1>4, DeleteFacts
  <2>2. Place(I, j) \in DOMAIN rows /\ Place(I, l) \in DOMAIN rows
    BY <2>1
  <2>3. Place(I, j) = i /\ Place(I, l) = k
    <3>1. rows[Place(I, j)].id = rows[i].id /\ rows[Place(I, l)].id = rows[k].id
      BY <2>1
    <3> QED  BY <1>0, <2>2, <3>1, RowFacts
  <2> HIDE DEF I
  <2>4. j \in Int /\ l \in Int /\ i \in Nat /\ k \in Nat
    BY <2>1, <1>0, RowFacts
  <2>5. ~(l < j) /\ l # j
    BY <2>1, <2>3, <2>4
  <2> QED  BY <2>4, <2>5
<1>5. CASE rows' = rows
  BY <1>0, <1>5, RowFacts DEF OrderKept
<1>6. \/ \E p \in Ids, n \in Nets : Register(p, n)
      \/ \E p \in Ids : \E local \in Reports(p), ip \in {None} \cup Inside \cup Outside :
           Heartbeat(p, local, ip)
      \/ \E p \in Ids, role \in {"probe", "anchor"} : SetRole(p, role)
      \/ \E p \in Ids : DeleteProbe(p)
      \/ rows' = rows
  BY DEF Next, GetSpec, Midnight, Configure, vars
<1> QED  BY <1>1, <1>2, <1>3, <1>4, <1>5, <1>6

(* The rows at two sets of places, when they are the same rows.             *)
LEMMA SameRows ==
  ASSUME PeersInv, PeersInv', OrderKept,
         NEW I \in SUBSET DOMAIN rows, NEW J \in SUBSET DOMAIN rows',
         \A i \in I : \E j \in J : rows'[j] = rows[i],
         \A j \in J : \E i \in I : rows[i] = rows'[j]
  PROVE  At(rows, I) = At(rows', J)
<1>1. TypeOK /\ TypeOK'
  BY DEF PeersInv
<1>2. rows \in Seq(TableRow) /\ rows' \in Seq(TableRow)
  BY <1>1 DEF TypeOK
<1>3. \A i, j \in I : rows[i] = rows[j] => i = j
  BY <1>1, RowFacts
<1>4. \A i, j \in J : rows'[i] = rows'[j] => i = j
  BY <1>1 DEF TypeOK, IsInjective
<1>5. \A i, k \in I, j, l \in J : rows[i] = rows'[j] /\ rows[k] = rows'[l] /\ i < k => j < l
  BY DEF OrderKept
<1> QED  BY <1>2, <1>3, <1>4, <1>5, AtUnique

LEMMA SameAssignment ==
  ASSUME PeersInv, PeersInv', OrderKept, UNCHANGED <<count, day, luck>>,
         NEW p \in Askers, Registered(p), Registered(p)',
         {rows[i] : i \in Others(p)} = {rows[i] : i \in Others(p)}'
  PROVE  Assigned(p)' = Assigned(p)
<1>1. TypeOK /\ TypeOK'
  BY DEF PeersInv
<1> DEFINE A == AnchorPlaces(p)
           C == CandidatePlaces(p)
           me == Row(p)
<1>2. /\ A \in SUBSET DOMAIN rows /\ C \in SUBSET DOMAIN rows
      /\ Anchors(me) = At(rows, A) /\ Candidates(me) = At(rows, C)
  BY <1>1, PlacesFacts
<1>3. /\ A' \in SUBSET DOMAIN rows' /\ C' \in SUBSET DOMAIN rows'
      /\ Anchors(me)' = At(rows', A') /\ Candidates(me)' = At(rows', C')
  BY DEF Anchors, Candidates, AnchorPlaces, CandidatePlaces, Others
<1>4. /\ \A i \in A : \E j \in A' : rows'[j] = rows[i]
      /\ \A j \in A' : \E i \in A : rows[i] = rows'[j]
      /\ \A i \in C : \E j \in C' : rows'[j] = rows[i]
      /\ \A j \in C' : \E i \in C : rows[i] = rows'[j]
  <2> DEFINE O == Others(p)
  <2>1. /\ A = {i \in O : rows[i].role = "anchor"} /\ C = {i \in O : rows[i].role # "anchor"}
        /\ A' = {i \in O' : rows'[i].role = "anchor"} /\ C' = {i \in O' : rows'[i].role # "anchor"}
    BY DEF AnchorPlaces, CandidatePlaces
  <2>2. {rows[i] : i \in O} = {rows'[i] : i \in O'}
    OBVIOUS
  <2> HIDE DEF O
  <2>3. \A i \in O : \E j \in O' : rows'[j] = rows[i]
    <3> TAKE i \in O
    <3>1. rows[i] \in {rows'[j] : j \in O'}
      BY <2>2
    <3> QED  BY <3>1
  <2>4. \A j \in O' : \E i \in O : rows[i] = rows'[j]
    <3> TAKE j \in O'
    <3>1. rows'[j] \in {rows[i] : i \in O}
      BY <2>2
    <3> QED  BY <3>1
  <2> HIDE DEF A, C
  <2> QED  BY <2>1, <2>3, <2>4
<1> HIDE DEF A, C
<1>5. At(rows, A) = At(rows', A') /\ At(rows, C) = At(rows', C')
  BY <1>2, <1>3, <1>4, SameRows
<1>6. Anchors(me)' = Anchors(me) /\ Candidates(me)' = Candidates(me)
  BY <1>2, <1>3, <1>5
<1>7. Remaining(me)' = Remaining(me)
  BY <1>6 DEF Remaining
<1>8. Shuffled(p, Candidates(me))' = Shuffled(p, Candidates(me))
  BY <1>6 DEF Shuffled
<1> QED  BY <1>6, <1>7, <1>8 DEF Assigned, Prefix, IdsOf

(* Whatever the permutations are: the peers of a probe change at midnight,  *)
(* with the configured number or with the eligible probes and their roles,  *)
(* and never otherwise.                                                     *)
THEOREM PeersRotateByDay == Spec => OnlyDaysRotate
<1>1. ASSUME PeersInv, PeersInv', [Next]_vars
      PROVE  [day' = day /\ count' = count =>
                \A p \in Askers :
                  /\ Registered(p) /\ Registered(p)'
                  /\ {rows[i] : i \in Others(p)} = {rows[i] : i \in Others(p)}'
                  => Assigned(p)' = Assigned(p)]_vars
  <2>1. OrderKept
    BY <1>1, NextKeepsOrder
  <2>2. luck' = luck
    BY <1>1 DEF Next, Register, Heartbeat, SetRole, DeleteProbe, GetSpec, Midnight, Configure, vars
  <2> QED  BY <1>1, <2>1, <2>2, SameAssignment
<1> QED  BY <1>1, InvAlways, PTL DEF Spec, OnlyDaysRotate

================================================================================
