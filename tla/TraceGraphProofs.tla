--------------------------- MODULE TraceGraphProofs ---------------------------
(* Proofs about TraceGraph, for every value of its constants that satisfies *)
(* its assumption.                                                          *)
EXTENDS TraceGraph, TLAPS

HasName(p, i) == \E k \in DOMAIN p.ips : p.ips[k] = i /\ p.hosts[k] # None

(* While a request is served, what is newest has been newest; and the pairs *)
(* it has yet to read belong to probes of the graph.                        *)
ServingInv ==
  /\ ~Resting => \A pr \in Stored : <<pr, newest[pr]>> \in seen
  /\ req.phase = "paths" => \A pr \in req.todo : pr[1] \in req.probes

(* The request without a filter, as long as nothing has changed: the pairs  *)
(* that were read make up the graph, in each of the two passes.             *)
CalmInv ==
  changes = 0 /\ req.only = None =>
    /\ req.phase \in {"paths", "names"} => req.todo \subseteq Stored
    /\ req.phase = "paths" =>
         /\ req.edges = UNION {Links(pr[1], newest[pr]) : pr \in Stored \ req.todo}
         /\ \A i \in Ips : req.names[i] = None
    /\ req.phase \in {"names", "done"} =>
         /\ req.edges = UNION {Links(pr[1], newest[pr]) : pr \in Stored}
         /\ \A i \in Ips : req.names[i] # None <=>
              \E pr \in Stored \ req.todo : HasName(newest[pr], i)
    /\ req.phase = "done" => req.todo = {}

Steps ==
  [phase : {"idle", "paths", "names", "done"}, only : {None} \cup Filters,
   todo : SUBSET Pairs, probes : SUBSET Probes, ends : SUBSET Ips,
   edges : SUBSET ((Probes \cup Ips) \X Ips), names : [Ips -> Hosts \cup {None}]]

(* TypeOK, said of the request as a record.                                 *)
TypeInv ==
  /\ live \subseteq Probes
  /\ newest \in [Pairs -> {None} \cup Paths]
  /\ req \in Steps
  /\ changes \in 0 .. MaxChanges
  /\ seen \subseteq Pairs \X Paths

--------------------------------------------------------------------------------
(* Paths                                                                    *)

LEMMA PathFacts ==
  ASSUME TraceGraphAssumption, NEW p \in Paths
  PROVE  \E n \in 1 .. 3 : /\ p.ips \in [1 .. n -> Ips] /\ p.hosts \in [1 .. n -> Hosts \cup {None}]
                           /\ Last(p.ips) \in Ips
<1>1. PICK n \in 1 .. 3 :
        p \in [ips : [1 .. n -> Ips], hosts : [1 .. n -> Hosts \cup {None}]]
  BY DEF TraceGraphAssumption, Path
<1>2. p.ips \in [1 .. n -> Ips] /\ p.hosts \in [1 .. n -> Hosts \cup {None}]
  BY <1>1
<1>3. p.ips \in Seq(Ips) /\ Len(p.ips) = n
  BY <1>2
<1>4. Last(p.ips) \in Ips
  BY <1>2, <1>3 DEF Last
<1> QED  BY <1>2, <1>4

LEMMA LinksFacts ==
  ASSUME TraceGraphAssumption, NEW p \in Paths, NEW i \in Probes
  PROVE  /\ Links(i, p) \subseteq (Probes \cup Ips) \X Ips
         /\ \A k \in DOMAIN p.ips : \E e \in Links(i, p) : e[2] = p.ips[k]
<1>1. PICK n \in 1 .. 3 : p.ips \in [1 .. n -> Ips]
  BY PathFacts
<1>2. \A k \in 1 .. n : p.ips[k] \in Ips /\ (k # 1 => p.ips[k - 1] \in Ips)
  BY <1>1
<1>3. DOMAIN p.ips = 1 .. n
  BY <1>1
<1> DEFINE link(k) == <<IF k = 1 THEN i ELSE p.ips[k - 1], p.ips[k]>>
<1>4. \A k \in 1 .. n : link(k) \in (Probes \cup Ips) \X Ips /\ link(k)[2] = p.ips[k]
  BY <1>2
<1>5. Links(i, p) = {link(k) : k \in 1 .. n}
  BY <1>3 DEF Links
<1> HIDE DEF link
<1> QED  BY <1>3, <1>4, <1>5

(* A hop keeps its name; without one it takes one of the path, if it is in  *)
(* the graph and the path has one for it.                                   *)
LEMMA NamedFacts ==
  ASSUME TraceGraphAssumption, NEW p \in Paths, NEW names \in [Ips -> Hosts \cup {None}]
  PROVE  /\ Named(names, p) \in [Ips -> Hosts \cup {None}]
         /\ \A i \in Ips :
              IF names[i] # None THEN Named(names, p)[i] = names[i]
              ELSE IF i \in Hops /\ HasName(p, i)
              THEN /\ Named(names, p)[i] # None
                   /\ \E k \in DOMAIN p.ips : p.ips[k] = i /\ p.hosts[k] = Named(names, p)[i]
              ELSE Named(names, p)[i] = None
<1>1. PICK n \in 1 .. 3 : p.ips \in [1 .. n -> Ips] /\ p.hosts \in [1 .. n -> Hosts \cup {None}]
  BY PathFacts
<1> DEFINE at(i) == {k \in DOMAIN p.ips : p.ips[k] = i /\ p.hosts[k] # None}
           first(i) == CHOOSE k \in at(i) : \A j \in at(i) : k <= j
<1>2. \A i : at(i) # {} <=> HasName(p, i)
  BY DEF HasName
<1>3. ASSUME NEW i, at(i) # {}
      PROVE  first(i) \in at(i)
  <2>1. at(i) \subseteq 1 .. 3
    BY <1>1
  <2> HIDE DEF at
  <2>2. \E k \in at(i) : \A j \in at(i) : k <= j
    <3>1. CASE 1 \in at(i)
      BY <2>1, <3>1
    <3>2. CASE 1 \notin at(i) /\ 2 \in at(i)
      BY <2>1, <3>2
    <3>3. CASE 1 \notin at(i) /\ 2 \notin at(i)
      BY <2>1, <3>3, <1>3
    <3> QED  BY <3>1, <3>2, <3>3
  <2> QED  BY <2>2
<1>4. Named(names, p) = [i \in Ips |-> IF i \in Hops /\ names[i] = None /\ at(i) # {}
                                       THEN p.hosts[first(i)] ELSE names[i]]
  BY DEF Named
<1> HIDE DEF first
<1>5. ASSUME NEW i \in Ips, at(i) # {}
      PROVE  /\ p.hosts[first(i)] \in Hosts /\ p.hosts[first(i)] # None
             /\ \E k \in DOMAIN p.ips : p.ips[k] = i /\ p.hosts[k] = p.hosts[first(i)]
  BY <1>1, <1>3, <1>5
<1> HIDE DEF at
<1>6. \A i \in Ips : Named(names, p)[i] =
         IF i \in Hops /\ names[i] = None /\ at(i) # {} THEN p.hosts[first(i)] ELSE names[i]
  BY <1>4
<1>7. Named(names, p) \in [Ips -> Hosts \cup {None}]
  BY <1>4, <1>5
<1> QED  BY <1>2, <1>5, <1>6, <1>7

--------------------------------------------------------------------------------
(* Types                                                                    *)

LEMMA IdleIsStep == TraceGraphAssumption => Idle \in Steps
BY DEF Idle, Steps

LEMMA TypeNow == TypeInv => TypeOK
BY DEF TypeInv, TypeOK, Steps, Idle

LEMMA StoredFacts ==
  ASSUME TraceGraphAssumption, TypeInv
  PROVE  /\ Stored \subseteq Pairs /\ \A only : Listed(only) \subseteq Stored
         /\ Listed(None) = Stored
         /\ \A pr \in Stored : newest[pr] \in Paths
BY DEF Stored, Listed, TypeInv

LEMMA TypeInit == ASSUME TraceGraphAssumption, Init PROVE TypeInv
BY IdleIsStep DEF Init, TypeInv, TraceGraphAssumption

(* The two reads, field by field.                                           *)
LEMMA ReadPathFacts ==
  ASSUME TraceGraphAssumption, TypeInv, NEW pr \in Pairs, ReadPath(pr)
  PROVE  /\ req' \in Steps /\ req.phase = "paths" /\ pr \in req.todo
         /\ req'.phase = req.phase /\ req'.only = req.only /\ req'.todo = req.todo \ {pr}
         /\ req'.probes = req.probes /\ req'.names = req.names
         /\ req'.edges = IF newest[pr] = None THEN req.edges
                         ELSE req.edges \cup Links(pr[1], newest[pr])
         /\ UNCHANGED <<live, newest, changes, seen>>
<1>1. newest[pr] = None \/ newest[pr] \in Paths
  BY DEF TypeInv
<1>2. pr[1] \in Probes
  BY DEF Pairs
<1>3. req \in Steps
  BY DEF TypeInv
<1>4. CASE newest[pr] = None
  BY <1>3, <1>4 DEF ReadPath, Steps
<1>5. CASE newest[pr] # None
  <2>1. /\ Links(pr[1], newest[pr]) \subseteq (Probes \cup Ips) \X Ips
        /\ Last(newest[pr].ips) \in Ips
    BY <1>1, <1>2, <1>5, LinksFacts, PathFacts
  <2> QED  BY <1>3, <1>5, <2>1 DEF ReadPath, Steps
<1> QED  BY <1>4, <1>5

LEMMA ReadNamesFacts ==
  ASSUME TraceGraphAssumption, TypeInv, NEW pr \in Pairs, ReadNames(pr)
  PROVE  /\ req' \in Steps /\ req.phase = "names" /\ pr \in req.todo
         /\ req'.phase = req.phase /\ req'.only = req.only /\ req'.todo = req.todo \ {pr}
         /\ req'.probes = req.probes /\ req'.edges = req.edges
         /\ req'.names = IF newest[pr] = None THEN req.names
                         ELSE Named(req.names, newest[pr])
         /\ UNCHANGED <<live, newest, changes, seen>>
<1>1. newest[pr] = None \/ newest[pr] \in Paths
  BY DEF TypeInv
<1>2. req \in Steps /\ req.names \in [Ips -> Hosts \cup {None}]
  BY DEF TypeInv, Steps
<1> DEFINE names == IF newest[pr] = None THEN req.names ELSE Named(req.names, newest[pr])
<1>3. names \in [Ips -> Hosts \cup {None}]
  BY <1>1, <1>2, NamedFacts
<1>4. /\ req' = [req EXCEPT !.todo = req.todo \ {pr}, !.names = names]
      /\ req.phase = "names" /\ pr \in req.todo /\ UNCHANGED <<live, newest, changes, seen>>
  BY DEF ReadNames
<1> HIDE DEF names
<1>5. /\ req' \in Steps /\ req'.phase = req.phase /\ req'.only = req.only
      /\ req'.todo = req.todo \ {pr} /\ req'.probes = req.probes
      /\ req'.edges = req.edges /\ req'.names = names
  BY <1>2, <1>3, <1>4 DEF Steps
<1> QED  BY <1>4, <1>5 DEF names

(* A change of the tables makes a request that rests idle.                  *)
LEMMA ChangedFacts ==
  ASSUME TraceGraphAssumption, TypeInv, Changed
  PROVE  /\ req' \in Steps /\ changes' \in 0 .. MaxChanges
         /\ Resting => req' = Idle
         /\ ~Resting => req' = req /\ changes' # 0
BY IdleIsStep DEF TypeInv, Changed, TraceGraphAssumption

LEMMA TypeNext == ASSUME TraceGraphAssumption, TypeInv, [Next]_vars PROVE TypeInv'
<1>1. ASSUME NEW pr \in Pairs, NEW p \in Paths, NewPath(pr, p)
      PROVE  TypeInv'
  BY <1>1, ChangedFacts DEF NewPath, TypeInv
<1>2. ASSUME NEW i \in Probes, DeleteProbe(i)
      PROVE  TypeInv'
  BY <1>2, ChangedFacts DEF DeleteProbe, TypeInv
<1>3. ASSUME NEW i \in Probes, SweepProbe(i)
      PROVE  TypeInv'
  BY <1>3, ChangedFacts DEF SweepProbe, TypeInv
<1>4. ASSUME NEW only \in Filters \cup {None}, Ask(only)
      PROVE  TypeInv'
  <2>1. Listed(only) \subseteq Pairs /\ {pr[1] : pr \in Listed(only)} \subseteq Probes
    BY StoredFacts DEF Pairs
  <2>2. req' \in Steps
    BY <1>4, <2>1, IdleIsStep DEF Ask, Steps
  <2>3. seen' \subseteq Pairs \X Paths
    BY <1>4, StoredFacts DEF Ask
  <2> QED  BY <1>4, <2>2, <2>3 DEF Ask, TypeInv, TraceGraphAssumption
<1>5. ASSUME NEW pr \in Pairs, ReadPath(pr) \/ ReadNames(pr)
      PROVE  TypeInv'
  <2>1. req' \in Steps /\ UNCHANGED <<live, newest, changes, seen>>
    BY <1>5, ReadPathFacts, ReadNamesFacts
  <2> QED  BY <2>1 DEF TypeInv
<1>6. CASE AskNames
  <2>1. Listed(req.only) \subseteq Pairs
    BY StoredFacts
  <2> QED  BY <1>6, <2>1 DEF AskNames, TypeInv, Steps
<1>7. CASE Answer
  BY <1>7 DEF Answer, TypeInv, Steps
<1>8. CASE UNCHANGED vars
  BY <1>8 DEF vars, TypeInv
<1> QED  BY <1>1, <1>2, <1>3, <1>4, <1>5, <1>6, <1>7, <1>8 DEF Next

--------------------------------------------------------------------------------
(* What was newest                                                          *)

LEMMA ServingInit == Init => ServingInv
BY DEF Init, ServingInv, Resting, Idle

LEMMA ServingNext ==
  ASSUME TraceGraphAssumption, TypeInv, ServingInv, [Next]_vars
  PROVE  ServingInv'
<1>0. Idle.phase = "idle"
  BY DEF Idle
<1>1. ASSUME NEW pr \in Pairs, NEW p \in Paths, NewPath(pr, p)
      PROVE  ServingInv'
  <2>1. Resting => req'.phase = "idle"
    BY <1>0, <1>1, ChangedFacts DEF NewPath
  <2>2. ~Resting => req' = req /\ seen' = seen \cup {<<pr, p>>}
    BY <1>1, ChangedFacts DEF NewPath
  <2>3. \A x \in Pairs : newest'[x] = IF x = pr THEN p ELSE newest[x]
    BY <1>1 DEF NewPath, TypeInv
  <2> QED  BY <2>1, <2>2, <2>3 DEF ServingInv, Resting, Stored
<1>2. ASSUME NEW i \in Probes, DeleteProbe(i)
      PROVE  ServingInv'
  <2>1. Resting => req'.phase = "idle"
    BY <1>0, <1>2, ChangedFacts DEF DeleteProbe
  <2>2. ~Resting => req' = req /\ seen' = seen
    BY <1>2, ChangedFacts DEF DeleteProbe
  <2>3. \A x \in Pairs : newest'[x] = IF x[1] = i THEN None ELSE newest[x]
    BY <1>2 DEF DeleteProbe, TypeInv
  <2> QED  BY <2>1, <2>2, <2>3 DEF ServingInv, Resting, Stored
<1>3. ASSUME NEW i \in Probes, SweepProbe(i)
      PROVE  ServingInv'
  <2>1. Resting => req'.phase = "idle"
    BY <1>0, <1>3, ChangedFacts DEF SweepProbe
  <2>2. /\ ~Resting => req' = req /\ seen' = seen
        /\ newest' = newest
    BY <1>3, ChangedFacts DEF SweepProbe
  <2> QED  BY <2>1, <2>2 DEF ServingInv, Resting, Stored
<1>4. ASSUME NEW only, Ask(only)
      PROVE  ServingInv'
  <2>1. /\ req'.todo = Listed(only) /\ req'.probes = {pr[1] : pr \in Listed(only)}
        /\ newest' = newest /\ seen' = {<<pr, newest[pr]>> : pr \in Stored}
    BY <1>4 DEF Ask, Idle
  <2> QED  BY <2>1 DEF ServingInv, Stored
<1>5. ASSUME NEW pr \in Pairs, ReadPath(pr) \/ ReadNames(pr)
      PROVE  ServingInv'
  <2>1. /\ req'.phase = req.phase /\ req'.todo \subseteq req.todo /\ req'.probes = req.probes
        /\ UNCHANGED <<newest, seen>>
    BY <1>5, ReadPathFacts, ReadNamesFacts
  <2> QED  BY <2>1 DEF ServingInv, Resting, Stored
<1>6. CASE AskNames \/ Answer
  <2>1. req'.phase \in {"names", "done"} /\ ~Resting /\ UNCHANGED <<newest, seen>>
    BY <1>6 DEF AskNames, Answer, Resting, TypeInv, Steps
  <2> QED  BY <2>1 DEF ServingInv, Stored
<1>7. CASE UNCHANGED vars
  BY <1>7 DEF vars, ServingInv, Resting, Stored
<1> QED  BY <1>1, <1>2, <1>3, <1>4, <1>5, <1>6, <1>7 DEF Next

(* What a step that changes the tables, or begins or ends a pass, does to   *)
(* the answer.                                                              *)
LEMMA AnswerFacts ==
  ASSUME TraceGraphAssumption, TypeInv, [Next]_vars
  PROVE  \/ \E pr \in Pairs : ReadPath(pr) \/ ReadNames(pr)
         \/ req'.edges = {} /\ \A i \in Ips : req'.names[i] = None
         \/ /\ req'.edges = req.edges /\ req'.names = req.names /\ req'.probes = req.probes
            /\ seen \subseteq seen'
<1>0. Idle.edges = {} /\ \A i \in Ips : Idle.names[i] = None
  BY DEF Idle
<1>1. ASSUME Changed, Resting => seen' = {}, ~Resting => seen \subseteq seen'
      PROVE  \/ req'.edges = {} /\ \A i \in Ips : req'.names[i] = None
             \/ /\ req' = req /\ seen \subseteq seen'
  BY <1>0, <1>1, ChangedFacts
<1>2. \A pr \in Pairs, p \in Paths : NewPath(pr, p) =>
        Changed /\ (Resting => seen' = {}) /\ (~Resting => seen \subseteq seen')
  BY DEF NewPath
<1>3. \A i \in Probes : DeleteProbe(i) \/ SweepProbe(i) =>
        Changed /\ (Resting => seen' = {}) /\ (~Resting => seen \subseteq seen')
  BY DEF DeleteProbe, SweepProbe
<1>4. ASSUME NEW only, Ask(only)
      PROVE  req'.edges = {} /\ \A i \in Ips : req'.names[i] = None
  BY <1>4 DEF Ask, Idle
<1>5. CASE AskNames \/ Answer \/ UNCHANGED vars
  BY <1>5 DEF AskNames, Answer, vars, TypeInv, Steps
<1> QED  BY <1>1, <1>2, <1>3, <1>4, <1>5 DEF Next

LEMMA EdgesNext ==
  ASSUME TraceGraphAssumption, TypeInv, ServingInv, EdgesWereNewest, [Next]_vars
  PROVE  EdgesWereNewest'
<1>1. ASSUME NEW pr \in Pairs, ReadPath(pr)
      PROVE  EdgesWereNewest'
  <2>1. /\ req'.edges = IF newest[pr] = None THEN req.edges
                        ELSE req.edges \cup Links(pr[1], newest[pr])
        /\ req'.probes = req.probes /\ seen' = seen /\ req.phase = "paths" /\ pr \in req.todo
    BY <1>1, ReadPathFacts
  <2>2. newest[pr] # None => <<pr, newest[pr]>> \in seen /\ pr[1] \in req.probes
    BY <2>1 DEF ServingInv, Resting, Stored
  <2>3. newest[pr] # None =>
          \A e \in Links(pr[1], newest[pr]) :
            \E s \in seen : s[1][1] \in req.probes /\ e \in Links(s[1][1], s[2])
    <3> SUFFICES ASSUME newest[pr] # None, NEW e \in Links(pr[1], newest[pr])
                 PROVE  \E s \in seen : s[1][1] \in req.probes /\ e \in Links(s[1][1], s[2])
      OBVIOUS
    <3> DEFINE s == <<pr, newest[pr]>>
    <3>1. s \in seen /\ s[1] = pr /\ s[2] = newest[pr]
      BY <2>2
    <3> HIDE DEF s
    <3> QED  BY <2>2, <3>1
  <2>4. \A e \in req'.edges : e \in req.edges \/ (newest[pr] # None /\ e \in Links(pr[1], newest[pr]))
    BY <2>1
  <2> QED  BY <2>1, <2>3, <2>4 DEF EdgesWereNewest, Links
<1>2. ASSUME NEW pr \in Pairs, ReadNames(pr)
      PROVE  EdgesWereNewest'
  BY <1>2, ReadNamesFacts DEF EdgesWereNewest, Links
<1>3. CASE req'.edges = {}
  BY <1>3 DEF EdgesWereNewest
<1>4. CASE req'.edges = req.edges /\ req'.probes = req.probes /\ seen \subseteq seen'
  BY <1>4 DEF EdgesWereNewest, Links
<1> QED  BY <1>1, <1>2, <1>3, <1>4, AnswerFacts

LEMMA NamesNext ==
  ASSUME TraceGraphAssumption, TypeInv, ServingInv, NamesWereReported, [Next]_vars
  PROVE  NamesWereReported'
<1>1. ASSUME NEW pr \in Pairs, ReadNames(pr)
      PROVE  NamesWereReported'
  <2>1. /\ req'.names = IF newest[pr] = None THEN req.names
                        ELSE Named(req.names, newest[pr])
        /\ seen' = seen /\ req.phase = "names"
    BY <1>1, ReadNamesFacts
  <2>2. CASE newest[pr] = None
    BY <2>1, <2>2 DEF NamesWereReported
  <2>3. CASE newest[pr] # None
    <3> DEFINE s == <<pr, newest[pr]>>
               p == newest[pr]
    <3>1. s \in seen /\ p \in Paths /\ s[2] = p
      BY <2>1, <2>3 DEF ServingInv, Resting, Stored, TypeInv
    <3>2. req.names \in [Ips -> Hosts \cup {None}]
      BY DEF TypeInv, Steps
    <3> HIDE DEF s, p
    <3>3. \A i \in Ips :
            \/ req.names[i] # None /\ Named(req.names, p)[i] = req.names[i]
            \/ Named(req.names, p)[i] = None
            \/ \E k \in DOMAIN p.ips : p.ips[k] = i /\ p.hosts[k] = Named(req.names, p)[i]
      BY <3>1, <3>2, NamedFacts
    <3>4. req'.names = Named(req.names, p)
      BY <2>1, <2>3 DEF p
    <3> QED  BY <2>1, <3>1, <3>3, <3>4 DEF NamesWereReported
  <2> QED  BY <2>2, <2>3
<1>2. ASSUME NEW pr \in Pairs, ReadPath(pr)
      PROVE  NamesWereReported'
  <2>1. req'.names = req.names /\ seen' = seen
    BY <1>2, ReadPathFacts
  <2> QED  BY <2>1 DEF NamesWereReported
<1>3. CASE \A i \in Ips : req'.names[i] = None
  BY <1>3 DEF NamesWereReported
<1>4. CASE req'.names = req.names /\ seen \subseteq seen'
  BY <1>4 DEF NamesWereReported
<1> QED  BY <1>1, <1>2, <1>3, <1>4, AnswerFacts

LEMMA ServingAlways ==
  ASSUME TraceGraphAssumption
  PROVE  Spec => [](TypeInv /\ ServingInv)
<1>1. Init => TypeInv /\ ServingInv
  BY TypeInit, ServingInit
<1>2. TypeInv /\ ServingInv /\ [Next]_vars => (TypeInv /\ ServingInv)'
  BY TypeNext, ServingNext
<1> QED  BY <1>1, <1>2, PTL DEF Spec

(* For every set of probes, paths and changes.                              *)
THEOREM TraceTypeCorrect ==
  ASSUME TraceGraphAssumption
  PROVE  Spec => []TypeOK
BY ServingAlways, TypeNow, PTL

(* Whatever changes while a request is served: its edges are steps of paths *)
(* that were newest meanwhile, and start where those paths have them start. *)
THEOREM EdgesAreNewest ==
  ASSUME TraceGraphAssumption
  PROVE  Spec => []EdgesWereNewest
<1>1. Init => EdgesWereNewest
  BY DEF Init, EdgesWereNewest, Idle
<1>2. TypeInv /\ ServingInv /\ EdgesWereNewest /\ [Next]_vars => EdgesWereNewest'
  BY EdgesNext
<1> QED  BY <1>1, <1>2, ServingAlways, PTL DEF Spec

(* And its names were reported for the hops that show them.                 *)
THEOREM NamesAreReported ==
  ASSUME TraceGraphAssumption
  PROVE  Spec => []NamesWereReported
<1>1. Init => NamesWereReported
  BY DEF Init, NamesWereReported, Idle
<1>2. TypeInv /\ ServingInv /\ NamesWereReported /\ [Next]_vars => NamesWereReported'
  BY NamesNext
<1> QED  BY <1>1, <1>2, ServingAlways, PTL DEF Spec

--------------------------------------------------------------------------------
(* Without changes                                                          *)

(* The graph of the pairs in S.                                             *)
Drawn(S) == UNION {Links(pr[1], newest[pr]) : pr \in S}

LEMMA DrawnFacts ==
  /\ Drawn({}) = {}
  /\ \A S, pr : Drawn(S \cup {pr}) = Drawn(S) \cup Links(pr[1], newest[pr])
BY DEF Drawn

LEMMA CalmNext ==
  ASSUME TraceGraphAssumption, TypeInv, CalmInv, [Next]_vars
  PROVE  CalmInv'
<1> SUFFICES ASSUME changes' = 0, req'.only = None, req'.phase # "idle"
             PROVE  CalmInv'
  BY DEF CalmInv
<1>1. ASSUME Changed
      PROVE  FALSE
  <2>1. Idle.phase = "idle"
    BY DEF Idle
  <2> QED  BY <1>1, <2>1, ChangedFacts
<1>2. ASSUME NEW only, Ask(only)
      PROVE  CalmInv'
  <2>1. /\ req'.phase = "paths" /\ req'.only = only /\ req'.todo = Listed(only)
        /\ req'.edges = {} /\ newest' = newest /\ \A i \in Ips : req'.names[i] = None
    BY <1>2 DEF Ask, Idle
  <2>2. req'.todo = Stored /\ Stored' = Stored
    BY <2>1, StoredFacts DEF Stored
  <2> QED  BY <2>1, <2>2 DEF CalmInv
<1>3. ASSUME NEW pr \in Pairs, ReadPath(pr)
      PROVE  CalmInv'
  <2>1. /\ req.phase = "paths" /\ pr \in req.todo /\ req'.phase = "paths"
        /\ req'.only = req.only /\ req'.todo = req.todo \ {pr} /\ req'.names = req.names
        /\ req'.edges = IF newest[pr] = None THEN req.edges
                        ELSE req.edges \cup Links(pr[1], newest[pr])
        /\ UNCHANGED <<newest, changes>>
    BY <1>3, ReadPathFacts
  <2>2. /\ req.todo \subseteq Stored /\ req.edges = Drawn(Stored \ req.todo)
        /\ \A i \in Ips : req.names[i] = None
    BY <2>1 DEF CalmInv, Drawn
  <2>3. Stored \ (req.todo \ {pr}) = (Stored \ req.todo) \cup {pr} /\ newest[pr] # None
    BY <2>1, <2>2 DEF Stored
  <2>4. req'.edges = Drawn(Stored \ req'.todo)
    <3>1. Drawn((Stored \ req.todo) \cup {pr}) = Drawn(Stored \ req.todo) \cup Links(pr[1], newest[pr])
      BY DrawnFacts
    <3>2. Stored \ req'.todo = (Stored \ req.todo) \cup {pr}
      BY <2>1, <2>3
    <3>3. req'.edges = Drawn(Stored \ req.todo) \cup Links(pr[1], newest[pr])
      BY <2>1, <2>2, <2>3
    <3> QED  BY <3>1, <3>2, <3>3
  <2>5. Stored' = Stored
    BY <2>1 DEF Stored
  <2>6. Drawn(Stored \ req'.todo) =
          UNION {Links(x[1], newest'[x]) : x \in Stored' \ req'.todo}
    BY <2>1, <2>5 DEF Drawn
  <2> QED  BY <2>1, <2>2, <2>4, <2>5, <2>6 DEF CalmInv, Links
<1>4. CASE AskNames
  <2>1. /\ req.phase = "paths" /\ req.todo = {} /\ req'.phase = "names" /\ req'.only = req.only
        /\ req'.todo = Listed(req.only) /\ req'.edges = req.edges /\ req'.names = req.names
        /\ UNCHANGED <<newest, changes>>
    BY <1>4 DEF AskNames, TypeInv, Steps
  <2>2. /\ req.edges = Drawn(Stored) /\ \A i \in Ips : req.names[i] = None
    BY <2>1 DEF CalmInv, Drawn
  <2>3. req'.todo = Stored /\ Stored' = Stored
    BY <2>1, StoredFacts DEF Stored
  <2>4. Drawn(Stored) = UNION {Links(x[1], newest'[x]) : x \in Stored'}
    BY <2>1, <2>3 DEF Drawn
  <2> QED  BY <2>1, <2>2, <2>3, <2>4 DEF CalmInv, Links
<1>5. ASSUME NEW pr \in Pairs, ReadNames(pr)
      PROVE  CalmInv'
  <2> DEFINE p == newest[pr]
  <2>1. /\ req.phase = "names" /\ pr \in req.todo /\ req'.phase = "names"
        /\ req'.only = req.only /\ req'.todo = req.todo \ {pr} /\ req'.edges = req.edges
        /\ req'.names = IF p = None THEN req.names ELSE Named(req.names, p)
        /\ UNCHANGED <<newest, changes>>
    BY <1>5, ReadNamesFacts
  <2>2. /\ req.todo \subseteq Stored /\ req.edges = Drawn(Stored)
        /\ \A i \in Ips : req.names[i] # None <=> \E x \in Stored \ req.todo : HasName(newest[x], i)
    BY <2>1 DEF CalmInv, Drawn
  <2>3. /\ Stored \ (req.todo \ {pr}) = (Stored \ req.todo) \cup {pr} /\ pr \in Stored
        /\ p # None /\ p \in Paths /\ Stored' = Stored
    BY <2>1, <2>2 DEF Stored, TypeInv
  <2>4. \A i \in Ips : HasName(p, i) => i \in Hops
    <3> SUFFICES ASSUME NEW i \in Ips, NEW k \in DOMAIN p.ips, p.ips[k] = i
                 PROVE  i \in Hops
      BY DEF HasName
    <3>1. PICK e \in Links(pr[1], p) : e[2] = i
      <4>1. pr[1] \in Probes
        BY DEF Pairs
      <4> QED  BY <4>1, <2>3, LinksFacts
    <3>2. e \in Drawn(Stored)
      BY <2>3, <3>1 DEF Drawn
    <3> QED  BY <2>2, <3>1, <3>2 DEF Hops
  <2>5. req.names \in [Ips -> Hosts \cup {None}]
    BY DEF TypeInv, Steps
  <2>6. \A i \in Ips : req'.names[i] # None <=> req.names[i] # None \/ HasName(p, i)
    <3>1. req'.names = Named(req.names, p)
      BY <2>1, <2>3
    <3> HIDE DEF p
    <3>2. \A i \in Ips :
            IF req.names[i] # None THEN Named(req.names, p)[i] = req.names[i]
            ELSE IF i \in Hops /\ HasName(p, i) THEN Named(req.names, p)[i] # None
            ELSE Named(req.names, p)[i] = None
      BY <2>3, <2>5, NamedFacts
    <3> QED  BY <2>4, <3>1, <3>2
  <2>7. \A i \in Ips : req'.names[i] # None <=>
          \E x \in Stored' \ req'.todo : HasName(newest'[x], i)
    BY <2>1, <2>2, <2>3, <2>6
  <2>8. req'.edges = UNION {Links(x[1], newest'[x]) : x \in Stored'}
    BY <2>1, <2>2, <2>3 DEF Drawn
  <2> QED  BY <2>1, <2>2, <2>3, <2>7, <2>8 DEF CalmInv, Links, HasName
<1>6. CASE Answer
  <2>1. /\ req.phase = "names" /\ req.todo = {} /\ req'.phase = "done" /\ req'.only = req.only
        /\ req'.todo = req.todo /\ req'.edges = req.edges /\ req'.names = req.names
        /\ UNCHANGED <<newest, changes>>
    BY <1>6 DEF Answer, TypeInv, Steps
  <2>2. /\ req.edges = Drawn(Stored)
        /\ \A i \in Ips : req.names[i] # None <=> \E x \in Stored \ req.todo : HasName(newest[x], i)
    BY <2>1 DEF CalmInv, Drawn
  <2>3. Stored' = Stored
    BY <2>1 DEF Stored
  <2>4. Drawn(Stored) = UNION {Links(x[1], newest'[x]) : x \in Stored'}
    BY <2>1, <2>3 DEF Drawn
  <2> QED  BY <2>1, <2>2, <2>3, <2>4 DEF CalmInv, Links, HasName
<1>7. CASE UNCHANGED vars
  <2>1. UNCHANGED <<newest, req, changes>>
    BY <1>7 DEF vars
  <2>2. Stored' = Stored
    BY <2>1 DEF Stored
  <2>3. \A S : UNION {Links(x[1], newest'[x]) : x \in S} = UNION {Links(x[1], newest[x]) : x \in S}
    BY <2>1
  <2> QED  BY <2>1, <2>2, <2>3 DEF CalmInv, Links, HasName
<1>8. \A pr, p, i : NewPath(pr, p) \/ DeleteProbe(i) \/ SweepProbe(i) => Changed
  BY DEF NewPath, DeleteProbe, SweepProbe
<1> QED  BY <1>1, <1>2, <1>3, <1>4, <1>5, <1>6, <1>7, <1>8 DEF Next

(* The two passes of a request agree when nothing changes between them,     *)
(* whatever loops the paths have and however many share a hop.              *)
THEOREM CalmGraphsAreExact ==
  ASSUME TraceGraphAssumption
  PROVE  Spec => []CalmGraphIsExact
<1>1. Init => CalmInv
  BY DEF Init, CalmInv, Idle
<1>2. TypeInv /\ ServingInv /\ CalmInv /\ [Next]_vars => CalmInv'
  BY CalmNext
<1>3. CalmInv => CalmGraphIsExact
  <2> SUFFICES ASSUME CalmInv, req.phase = "done", changes = 0, req.only = None
               PROVE  CalmGraphIsExact
    BY DEF CalmGraphIsExact
  <2>1. /\ req.edges = UNION {Links(pr[1], newest[pr]) : pr \in Stored}
        /\ \A i \in Ips : req.names[i] # None <=>
             \E pr \in Stored \ req.todo : HasName(newest[pr], i)
        /\ req.todo = {}
    BY DEF CalmInv
  <2> QED  BY <2>1 DEF CalmGraphIsExact, HasName
<1> QED  BY <1>1, <1>2, <1>3, ServingAlways, PTL DEF Spec

================================================================================
