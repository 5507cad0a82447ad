---------------------------- MODULE EndpointsProofs ----------------------------
(* Proofs about ConfigStore, ConfigForm and their composition with the      *)
(* graphs and the peers, for every value of their constants.                *)
EXTENDS Endpoints, SequenceProofs

(* The configuration, for every number of tabs and entries.                 *)

LEMMA TypeInit == Init => TypeOK
<1>1. Default \in Contents /\ MaxFaults \in Nat
  BY ConfigStoreAssumption
<1>2. Init => killed \in BOOLEAN /\ dirty \in BOOLEAN
  BY Zenon DEF Init
<1>4. Init => faults \in 0 .. MaxFaults
  BY <1>1 DEF Init
<1>3. Init => \A d \in Drafts : put[d] = None
  BY DEF Init
<1> QED  BY <1>1, <1>2, <1>3, <1>4, Zenon DEF Init, TypeOK

LEMMA PutIsNotNone == \A x \in Put : x # None
  BY ConfigStoreAssumption

LEMMA OpenType ==
  ASSUME TypeOK, NEW d \in Drafts, NEW w \in Workers, Open(d, w)
  PROVE  TypeOK'
<1>1. draft[d] \in Contents /\ mem' = mem /\ Up(w)
  BY DEF TypeOK, Open
<1>2. [worker |-> w, body |-> draft[d]] \in Put
  BY <1>1 DEF Put
<1>3. put' \in [Drafts -> {None} \cup Put] /\ {} \in Contents
  BY <1>2 DEF Open, Opened, TypeOK, Contents
<1>4. \A e \in Drafts : put'[e] # None => mem'[put'[e].worker] # None
  BY <1>1 DEF Open, Opened, TypeOK, Up
<1>5. /\ draft' \in [Drafts -> {None} \cup Contents] /\ faults' \in 0 .. MaxFaults
      /\ killed' \in BOOLEAN /\ dirty' \in BOOLEAN /\ acked' \in Contents
  BY Zenon DEF Open, Opened, TypeOK
<1>6. file' \in {None} \cup Contents /\ mem' \in [Workers -> {None} \cup Contents]
  BY <1>1, <1>3 DEF Open, Opened, TypeOK
<1> QED  BY <1>3, <1>4, <1>5, <1>6 DEF TypeOK, Up

LEMMA WriteType ==
  ASSUME TypeOK, NEW d \in Drafts, Write(d)
  PROVE  TypeOK'
<1>1. put[d].worker \in Workers /\ put[d].body \in Contents
  BY DEF Write, TypeOK, Put
<1>2. put' \in [Drafts -> {None} \cup Put] /\ mem' \in [Workers -> {None} \cup Contents]
  BY <1>1 DEF Write, TypeOK
<1>3. ASSUME NEW e \in Drafts, put'[e] # None PROVE mem'[put'[e].worker] # None
  <2>1. put'[e] = put[e] /\ Up(put[e].worker) /\ put[e].worker \in Workers
    BY <1>3 DEF Write, TypeOK, Put
  <2>2. put[d].body # None
    BY <1>1, ConfigStoreAssumption
  <2> QED  BY <1>1, <2>1, <2>2 DEF Write, TypeOK, Up
<1>4. /\ draft' \in [Drafts -> {None} \cup Contents] /\ faults' \in 0 .. MaxFaults
      /\ killed' \in BOOLEAN /\ dirty' \in BOOLEAN
  BY Zenon DEF Write, TypeOK
<1>5. file' \in {None} \cup Contents /\ acked' \in Contents
  BY <1>1 DEF Write
<1> QED  BY <1>2, <1>3, <1>4, <1>5 DEF TypeOK, Up

LEMMA CutType ==
  ASSUME TypeOK, NEW d \in Drafts, Cut(d)
  PROVE  /\ put' \in [Drafts -> {None} \cup Put]
         /\ file' \in {None} \cup Contents /\ faults' \in 0 .. MaxFaults
         /\ \A e \in Drafts : put'[e] # None => put'[e] = put[e] /\ e # d
<1>1. put[d].body \in Contents
  BY DEF Cut, TypeOK, Put
<1>2. file' \in {None} \cup Contents
  BY <1>1 DEF Cut, Contents
<1>3. faults' \in 0 .. MaxFaults
  BY ConfigStoreAssumption DEF Cut, TypeOK
<1> QED  BY <1>2, <1>3 DEF Cut, TypeOK

(* A worker runs one PUT at a time.                                         *)
OnePut ==
  \A d, e \in Drafts :
    put[d] # None /\ put[e] # None /\ put[d].worker = put[e].worker => d = e

(* With one worker: while a PUT is open the file is empty; otherwise, and   *)
(* as long as nothing went wrong, the file is the one of the last PUT.      *)
FileInv ==
  /\ \A d \in Drafts : put[d] # None => Valid(put[d].body) /\ file = {}
  /\ Valid(acked)
  /\ ~dirty /\ Quiet => file = acked
  /\ ~dirty => \A w \in Workers : Up(w) => mem[w] = acked

LEMMA StopStartType ==
  ASSUME TypeOK, OnePut, NEW w \in Workers, Stop(w) \/ Start(w)
  PROVE  TypeOK'
<1>1. mem' \in [Workers -> {None} \cup Contents]
  BY DEF Stop, Start, TypeOK
<1>2. ASSUME NEW d \in Drafts, put[d] # None PROVE mem'[put[d].worker] # None
  <2>1. put[d].worker # w /\ put[d].worker \in Workers /\ Up(put[d].worker)
    BY <1>2 DEF Stop, Start, Busy, TypeOK, Put, Up
  <2> QED  BY <2>1 DEF Stop, Start, TypeOK, Up
<1>3. UNCHANGED <<file, draft, put, faults, killed, dirty, acked>>
  BY DEF Stop, Start
<1> QED  BY <1>1, <1>2, <1>3, Zenon DEF TypeOK, Up

LEMMA TypeStep == TypeOK /\ OnePut /\ [Next]_vars => TypeOK' /\ OnePut'
<1> SUFFICES ASSUME TypeOK, OnePut, [Next]_vars PROVE TypeOK' /\ OnePut'
  OBVIOUS
<1>1. ASSUME NEW d \in Drafts, Load(d) PROVE TypeOK' /\ OnePut'
  BY <1>1 DEF Load, TypeOK, OnePut, Up
<1>2. ASSUME NEW d \in Drafts, NEW e \in Entries, Edit(d, e) PROVE TypeOK' /\ OnePut'
  <2>1. draft' \in [Drafts -> {None} \cup Contents]
    BY <1>2 DEF Edit, TypeOK, Contents
  <2> QED  BY <1>2, <2>1 DEF Edit, TypeOK, OnePut, Up
<1>3. ASSUME NEW d \in Drafts, NEW w \in Workers, Open(d, w) PROVE TypeOK' /\ OnePut'
  <2>1. OnePut'
    BY <1>3 DEF Open, Opened, OnePut, Busy, TypeOK
  <2> QED  BY <1>3, <2>1, OpenType
<1>4. ASSUME NEW d \in Drafts, Write(d) PROVE TypeOK' /\ OnePut'
  <2>1. OnePut'
    BY <1>4 DEF Write, OnePut, TypeOK
  <2> QED  BY <1>4, <2>1, WriteType
<1>5. ASSUME NEW d \in Drafts, Cut(d) PROVE OnePut'
  BY <1>5, CutType DEF OnePut
<1>6. ASSUME NEW d \in Drafts, WriteFails(d) PROVE TypeOK'
  BY <1>6, CutType DEF WriteFails, Cut, TypeOK, Up
<1>7. ASSUME NEW d \in Drafts, Kill(d) PROVE TypeOK'
  <2>1. mem' \in [Workers -> {None} \cup Contents] /\ put[d].worker \in Workers
    BY <1>7 DEF Kill, Cut, TypeOK, Put
  <2>2. ASSUME NEW e \in Drafts, put'[e] # None PROVE mem'[put'[e].worker] # None
    <3>1. put'[e] = put[e] /\ e # d /\ put[e].worker \in Workers /\ Up(put[e].worker)
      BY <1>7, <2>2, CutType DEF Kill, TypeOK, Put
    <3>2. put[e].worker # put[d].worker
      BY <1>7, <2>2, <3>1 DEF OnePut, Kill, Cut
    <3> QED  BY <1>7, <3>1, <3>2 DEF Kill, TypeOK, Up
  <2>3. /\ put' \in [Drafts -> {None} \cup Put] /\ file' \in {None} \cup Contents
        /\ faults' \in 0 .. MaxFaults
    BY <1>7, CutType DEF Kill
  <2>4. /\ draft' \in [Drafts -> {None} \cup Contents] /\ killed' \in BOOLEAN
        /\ dirty' \in BOOLEAN /\ acked' \in Contents
    BY <1>7, Zenon DEF Kill, Cut, TypeOK
  <2>5. TypeOK'
    BY <2>1, <2>2, <2>3, <2>4, Zenon DEF TypeOK, Up
  <2> QED  BY <1>5, <1>7, <2>5 DEF Kill
<1>8. ASSUME NEW w \in Workers, Stop(w) \/ Start(w) PROVE TypeOK' /\ OnePut'
  BY <1>8, StopStartType DEF Stop, Start, OnePut
<1>9. CASE HostEdit
  BY <1>9, ConfigStoreAssumption DEF HostEdit, TypeOK, OnePut, Up
<1>10. CASE UNCHANGED vars
  BY <1>10 DEF vars, TypeOK, OnePut, Up
<1> QED
  BY <1>1, <1>2, <1>3, <1>4, <1>5, <1>6, <1>7, <1>8, <1>9, <1>10 DEF Next, WriteFails, Kill

LEMMA OnePutInit == Init => OnePut
  BY DEF Init, OnePut

(* A worker that stays up changes its configuration only to the one of a    *)
(* PUT that is answered in that step (put_config, put_config_json), with    *)
(* any number of workers and whatever fails.                                *)
THEOREM OnlySavedIsServed == Spec => ServedWasSaved
<1> DEFINE Swap == \A w \in Workers : Up(w) /\ Up(w)' /\ mem'[w] # mem[w]
                     => mem'[w] = acked' /\ put' # put
<1>1. TypeOK /\ [Next]_vars => [Swap]_vars
  <2> SUFFICES ASSUME TypeOK, [Next]_vars, NEW w \in Workers, Up(w), Up(w)', mem'[w] # mem[w]
               PROVE  mem'[w] = acked' /\ put' # put
    BY DEF Swap
  <2>1. ASSUME NEW d \in Drafts, Write(d) PROVE mem'[w] = acked' /\ put' # put
    BY <2>1 DEF Write, TypeOK
  <2>2. ASSUME NEW d \in Drafts, Kill(d) PROVE FALSE
    BY <2>2 DEF Kill, TypeOK, Up
  <2>3. ASSUME NEW v \in Workers, Stop(v) \/ Start(v) PROVE FALSE
    BY <2>3 DEF Stop, Start, TypeOK, Up
  <2>4. CASE UNCHANGED mem
    BY <2>4
  <2> QED
    BY <2>1, <2>2, <2>3, <2>4 DEF Next, Load, Edit, Open, WriteFails, HostEdit, vars
<1> QED
  BY <1>1, TypeInit, OnePutInit, TypeStep, PTL DEF Spec, ServedWasSaved

--------------------------------------------------------------------------------
(* The configuration with the one worker process of the delivered image     *)

OneWorker == \E w : Workers = {w}

LEMMA FileInit == Init => FileInv
  BY ConfigStoreAssumption DEF Init, FileInv, Quiet

LEMMA FileStep ==
  ASSUME OneWorker
  PROVE  TypeOK /\ OnePut /\ FileInv /\ [Next]_vars => FileInv'
<1> SUFFICES ASSUME TypeOK, OnePut, FileInv, [Next]_vars PROVE FileInv'
  OBVIOUS
<1>w. PICK w : Workers = {w}
  BY DEF OneWorker
<1>a. \A d \in Drafts : put[d] # None => put[d] \in Put /\ put[d].worker = w /\ Up(w)
  BY <1>w DEF TypeOK, Put
<1>b. \A d, e \in Drafts : put[d] # None /\ put[e] # None => d = e
  BY <1>a DEF OnePut
<1>1. ASSUME NEW d \in Drafts, Load(d) PROVE FileInv'
  BY <1>1 DEF Load, FileInv, Quiet, Up
<1>2. ASSUME NEW d \in Drafts, NEW e \in Entries, Edit(d, e) PROVE FileInv'
  BY <1>2 DEF Edit, FileInv, Quiet, Up
<1>3. ASSUME NEW d \in Drafts, NEW v \in Workers, Open(d, v) PROVE FileInv'
  <2>1. draft[d] \in Contents /\ Valid(draft[d]) /\ v = w /\ file' = {}
    BY <1>3, <1>w DEF Open, Opened, TypeOK
  <2>2. [worker |-> v, body |-> draft[d]] # None
    BY <1>3, <2>1, PutIsNotNone DEF Put
  <2>3. ~Quiet'
    BY <1>3, <2>2 DEF Open, Opened, TypeOK, Quiet
  <2>4. \A e \in Drafts : put'[e] # None => Valid(put'[e].body)
    BY <1>3, <2>1 DEF Open, Opened, TypeOK, FileInv
  <2> QED  BY <1>3, <2>1, <2>3, <2>4 DEF Open, Opened, FileInv, Up
<1>4. ASSUME NEW d \in Drafts, Write(d) PROVE FileInv'
  <2>1. put[d] # None /\ Valid(put[d].body) /\ file = {} /\ put[d].worker = w
    BY <1>4, <1>a DEF Write, FileInv
  <2>2. file' = put[d].body /\ acked' = put[d].body /\ mem'[w] = put[d].body
    BY <1>4, <1>w, <2>1 DEF Write, TypeOK
  <2>3. \A e \in Drafts : put'[e] = None
    BY <1>4, <1>b, <2>1 DEF Write, TypeOK
  <2> QED  BY <1>w, <2>1, <2>2, <2>3 DEF FileInv, Up
<1>5. ASSUME NEW d \in Drafts, Cut(d) PROVE FileInv'
  <2>1. \A e \in Drafts : put'[e] = None
    BY <1>5, <1>b DEF Cut, TypeOK
  <2> QED  BY <1>5, <2>1 DEF Cut, FileInv
<1>6. ASSUME NEW v \in Workers, Stop(v) PROVE FileInv'
  <2>1. v = w /\ \A e \in Drafts : put[e] = None
    BY <1>6, <1>w, <1>a DEF Stop, Busy
  <2> QED  BY <1>6, <1>w, <2>1 DEF Stop, FileInv, Quiet, Up, TypeOK
<1>7. ASSUME NEW v \in Workers, Start(v) PROVE FileInv'
  <2>1. v = w /\ \A e \in Drafts : put[e] = None
    BY <1>7, <1>w, <1>a DEF Start
  <2>2. ~dirty => file = acked
    BY <2>1 DEF FileInv, Quiet
  <2> QED  BY <1>7, <1>w, <2>1, <2>2 DEF Start, FileInv, Quiet, Up, TypeOK
<1>8. CASE HostEdit
  BY <1>8 DEF HostEdit, FileInv, Quiet
<1>9. CASE UNCHANGED vars
  BY <1>9 DEF vars, FileInv, Quiet, Up
<1> QED
  BY <1>1, <1>2, <1>3, <1>4, <1>5, <1>6, <1>7, <1>8, <1>9 DEF Next, WriteFails, Kill

LEMMA FileAlways ==
  ASSUME OneWorker
  PROVE  Spec => [](TypeOK /\ FileInv)
  BY TypeInit, OnePutInit, TypeStep, FileInit, FileStep, PTL DEF Spec

(* With one worker, a save that was answered 200 is on disk as it was sent, *)
(* whatever other tabs saved before it (put_config writes without an await  *)
(* between its checks and its answer).                                      *)
THEOREM SavedStays == ASSUME OneWorker PROVE Spec => []SavedIsOnDisk
<1>1. FileInv => SavedIsOnDisk
  BY DEF FileInv, SavedIsOnDisk
<1> QED  BY <1>1, FileAlways, PTL

(* With one worker, file and memory agree whenever no save is under way and *)
(* nothing went wrong since the last one: the hot reload of put_config.     *)
THEOREM ReloadIsHot == ASSUME OneWorker PROVE Spec => []HotReloaded
<1>1. FileInv => HotReloaded
  BY DEF FileInv, HotReloaded
<1> QED  BY <1>1, FileAlways, PTL

(* With one worker, and as long as nothing went wrong since the last save,  *)
(* the worker serves a configuration that passed put_config's checks.       *)
THEOREM ValidIsServed == ASSUME OneWorker PROVE Spec => []ServedIsValid
<1>1. FileInv => ServedIsValid
  BY DEF FileInv, ServedIsValid
<1> QED  BY <1>1, FileAlways, PTL

--------------------------------------------------------------------------------
(* The form                                                                 *)

(* No name twice.                                                           *)
Distinct(s) == \A i, j \in DOMAIN s : s[i].name = s[j].name => i = j

(* Form!TypeOK, said of the places.                                         *)
FormInv ==
  /\ stored \in Seq(Form!Measurement) /\ Distinct(stored)
  /\ cards \in Seq(Form!Card) /\ Distinct(cards)
  /\ untouched \in BOOLEAN
  /\ chosen \in Names \cup {None}

LEMMA DistinctIsInjective ==
  ASSUME NEW S, NEW s \in Seq(S)
  PROVE  Distinct(s) <=> Form!IsInjective([i \in DOMAIN s |-> s[i].name])
BY DEF Distinct, Form!IsInjective

LEMMA FormTypeNow == FormInv <=> Form!TypeOK
<1>1. stored \in Seq(Form!Measurement) =>
        (Distinct(stored) <=> Form!IsInjective([i \in DOMAIN stored |-> stored[i].name]))
  BY DistinctIsInjective
<1>2. cards \in Seq(Form!Card) =>
        (Distinct(cards) <=> Form!IsInjective([i \in DOMAIN cards |-> cards[i].name]))
  BY DistinctIsInjective
<1> QED  BY <1>1, <1>2, Zenon DEF FormInv, Form!TypeOK

(* Some of the elements of s, none of them twice.                           *)
LEMMA PickedIsDistinct ==
  ASSUME NEW S, NEW T, NEW s \in Seq(S), NEW t \in Seq(T), Distinct(s),
         NEW g \in [DOMAIN t -> DOMAIN s], \A k, l \in DOMAIN t : g[k] = g[l] => k = l,
         \A k \in DOMAIN t : t[k].name = s[g[k]].name
  PROVE  Distinct(t)
BY DEF Distinct

(* The form's At is the one the lemmas of SequenceProofs are about.         *)
LEMMA FormAt ==
  ASSUME NEW s, NEW I
  PROVE  Form!At(s, I) = At(s, I)
BY DEF Form!At, Form!Place, Form!Rank, Form!Cardinality, At, Place, Rank, Cardinality

LEMMA CollectedFacts ==
  ASSUME NEW s \in Seq(Form!Card), Distinct(s)
  PROVE  /\ Form!Collected(s) \in Seq(Form!Card) /\ Distinct(Form!Collected(s))
         /\ \A k \in DOMAIN Form!Collected(s) : \E i \in DOMAIN s : Form!Collected(s)[k] = s[i]
<1> DEFINE I == {i \in DOMAIN s : s[i].filled}
           t == At(s, I)
<1>1. I \in SUBSET DOMAIN s /\ Form!Collected(s) = t
  BY FormAt DEF Form!Collected
<1> HIDE DEF I
<1>2. /\ I \in SUBSET Nat /\ IsFiniteSet(I) /\ Cardinality(I) \in Nat
      /\ t \in Seq(Form!Card) /\ DOMAIN t = 1 .. Cardinality(I)
      /\ \A k \in 1 .. Cardinality(I) : t[k] = s[Place(I, k)]
  BY <1>1, AtFacts
<1>3. \A k \in 1 .. Cardinality(I) : Place(I, k) \in I /\ Rank(I, Place(I, k)) = k
  BY <1>2, PlaceIsThere
<1> HIDE DEF t
<1> DEFINE g == [k \in DOMAIN t |-> Place(I, k)]
<1>4. g \in [DOMAIN t -> DOMAIN s]
  BY <1>1, <1>2, <1>3
<1>5. \A k, l \in DOMAIN t : g[k] = g[l] => k = l
  BY <1>2, <1>3
<1>6. \A k \in DOMAIN t : t[k] = s[g[k]]
  BY <1>2
<1> HIDE DEF g
<1>7. Distinct(t)
  BY <1>2, <1>4, <1>5, <1>6, PickedIsDistinct
<1> QED  BY <1>1, <1>2, <1>4, <1>6, <1>7

(* All elements but one.                                                    *)
LEMMA RemovedFacts ==
  ASSUME NEW s \in Seq(Form!Card), Distinct(s), NEW i \in DOMAIN s
  PROVE  /\ Form!RemoveAt(s, i) \in Seq(Form!Card) /\ Distinct(Form!RemoveAt(s, i))
         /\ Form!NamesOf(Form!RemoveAt(s, i)) = Form!NamesOf(s) \ {s[i].name}
<1> DEFINE t == Form!RemoveAt(s, i)
           g == [k \in DOMAIN t |-> IF k < i THEN k ELSE k + 1]
<1>1. Len(s) \in Nat /\ i \in 1 .. Len(s)
  OBVIOUS
<1>2. /\ t \in Seq(Form!Card) /\ DOMAIN t = 1 .. Len(s) - 1
      /\ \A k \in DOMAIN t : t[k] = s[IF k < i THEN k ELSE k + 1]
  <2>1. /\ SubSeq(s, 1, i - 1) \in Seq(Form!Card) /\ Len(SubSeq(s, 1, i - 1)) = i - 1
        /\ SubSeq(s, i + 1, Len(s)) \in Seq(Form!Card) /\ Len(SubSeq(s, i + 1, Len(s))) = Len(s) - i
        /\ \A k \in 1 .. i - 1 : SubSeq(s, 1, i - 1)[k] = s[k]
        /\ \A k \in 1 .. Len(s) - i : SubSeq(s, i + 1, Len(s))[k] = s[i + k]
    BY <1>1
  <2> DEFINE u == SubSeq(s, 1, i - 1)
             v == SubSeq(s, i + 1, Len(s))
  <2>2. t = u \o v
    BY DEF Form!RemoveAt
  <2>u. /\ u \in Seq(Form!Card) /\ v \in Seq(Form!Card) /\ Len(u) = i - 1 /\ Len(v) = Len(s) - i
    BY <2>1
  <2> HIDE DEF u, v, t
  <2>w. /\ u \o v \in Seq(Form!Card) /\ Len(u \o v) = Len(u) + Len(v)
        /\ \A k \in 1 .. Len(u) + Len(v) :
             (u \o v)[k] = IF k <= Len(u) THEN u[k] ELSE v[k - Len(u)]
    BY <2>u
  <2>3. u \o v \in Seq(Form!Card) /\ Len(u \o v) = Len(s) - 1
    BY <1>1, <2>u, <2>w
  <2>4. \A k \in 1 .. Len(s) - 1 :
          (u \o v)[k] = IF k < i THEN u[k] ELSE v[k - (i - 1)]
    <3> SUFFICES ASSUME NEW k \in 1 .. Len(s) - 1
                 PROVE  (u \o v)[k] = IF k < i THEN u[k] ELSE v[k - (i - 1)]
      OBVIOUS
    <3>1. k \in 1 .. Len(u) + Len(v) /\ (k <= Len(u) <=> k < i)
      BY <1>1, <2>u
    <3>2. (u \o v)[k] = IF k <= Len(u) THEN u[k] ELSE v[k - Len(u)]
      BY <2>w, <3>1
    <3> QED  BY <2>u, <3>1, <3>2
  <2>5. \A k \in 1 .. Len(s) - 1 : k >= i => v[k - (i - 1)] = s[k + 1]
    <3> SUFFICES ASSUME NEW k \in 1 .. Len(s) - 1, k >= i PROVE v[k - (i - 1)] = s[k + 1]
      OBVIOUS
    <3>1. k - (i - 1) \in 1 .. Len(s) - i /\ i + (k - (i - 1)) = k + 1
      BY <1>1
    <3> QED  BY <2>1, <3>1 DEF v
  <2>6. \A k \in 1 .. Len(s) - 1 : k < i => u[k] = s[k]
    BY <1>1, <2>1 DEF u
  <2>7. DOMAIN t = 1 .. Len(s) - 1
    BY <1>1, <2>2, <2>3
  <2>8. \A k \in 1 .. Len(s) - 1 : t[k] = s[IF k < i THEN k ELSE k + 1]
    <3> SUFFICES ASSUME NEW k \in 1 .. Len(s) - 1
                 PROVE  t[k] = s[IF k < i THEN k ELSE k + 1]
      OBVIOUS
    <3>1. CASE k < i
      BY <2>2, <2>4, <2>6, <3>1
    <3>2. CASE k >= i
      <4>1. ~(k < i)
        BY <1>1, <3>2
      <4> QED  BY <2>2, <2>4, <2>5, <3>2, <4>1
    <3> QED  BY <1>1, <3>1, <3>2
  <2> QED  BY <2>2, <2>3, <2>7, <2>8
<1> HIDE DEF t
<1>3. g \in [DOMAIN t -> DOMAIN s]
  BY <1>1, <1>2
<1>4. \A k, l \in DOMAIN t : g[k] = g[l] => k = l
  BY <1>1, <1>2
<1>5. \A k \in DOMAIN t : t[k] = s[g[k]] /\ g[k] # i
  BY <1>1, <1>2
<1>6. \A j \in DOMAIN s : j # i => \E k \in DOMAIN t : g[k] = j
  <2> SUFFICES ASSUME NEW j \in DOMAIN s, j # i PROVE \E k \in DOMAIN t : g[k] = j
    OBVIOUS
  <2>1. CASE j < i
    <3>1. j \in DOMAIN t /\ g[j] = j
      BY <1>1, <1>2, <2>1
    <3> QED  BY <3>1
  <2>2. CASE j > i
    <3>1. j - 1 \in DOMAIN t /\ g[j - 1] = j
      BY <1>1, <1>2, <2>2
    <3> QED  BY <3>1
  <2> QED  BY <1>1, <2>1, <2>2
<1> HIDE DEF g
<1>7. Distinct(t)
  <2>1. \A k \in DOMAIN t : t[k].name = s[g[k]].name
    BY <1>5
  <2>2. \A k, l \in DOMAIN t : t[k].name = t[l].name => g[k] = g[l]
    BY <1>3, <2>1 DEF Distinct
  <2> QED  BY <1>4, <2>2 DEF Distinct
<1>8. Form!NamesOf(t) = Form!NamesOf(s) \ {s[i].name}
  <2>1. \A k \in DOMAIN t : t[k].name \in Form!NamesOf(s) \ {s[i].name}
    BY <1>3, <1>5 DEF Form!NamesOf, Distinct
  <2>2. \A j \in DOMAIN s : s[j].name # s[i].name => s[j].name \in Form!NamesOf(t)
    BY <1>5, <1>6 DEF Form!NamesOf
  <2> QED  BY <2>1, <2>2 DEF Form!NamesOf
<1> QED  BY <1>2, <1>7, <1>8 DEF t

LEMMA RenderedFacts ==
  ASSUME NEW s \in Seq(Form!Measurement), Distinct(s)
  PROVE  Form!Rendered(s) \in Seq(Form!Card) /\ Distinct(Form!Rendered(s))
<1>1. \A i \in DOMAIN s : [name |-> s[i].name, filled |-> TRUE] \in Form!Card
  <2>1. \A i \in DOMAIN s : s[i] \in Form!Measurement
    OBVIOUS
  <2> QED  BY <2>1 DEF Form!Measurement, Form!Card
<1> QED  BY <1>1 DEF Form!Rendered, Distinct

LEMMA FormInit == Form!ConfigFormAssumption /\ Form!Init => FormInv
<1> SUFFICES ASSUME Form!ConfigFormAssumption, Form!Init PROVE FormInv
  OBVIOUS
<1>1. File \in Seq(Form!Measurement) /\ Distinct(File)
  BY DistinctIsInjective DEF Form!ConfigFormAssumption
<1>2. /\ Form!Rendered(File) \in Seq(Form!Card) /\ Distinct(Form!Rendered(File))
  BY <1>1, RenderedFacts
<1> QED  BY <1>1, <1>2 DEF Form!Init, FormInv

(* The cards on the page after a click on a remove button.                  *)
LEMMA RemoveCardFacts ==
  ASSUME FormInv, NEW i \in DOMAIN cards, Form!RemoveCard(i)
  PROVE  /\ cards' \in Seq(Form!Card) /\ Distinct(cards')
         /\ LET t == Form!Collected(cards)
            IN IF i \in DOMAIN t THEN Form!NamesOf(cards') = Form!NamesOf(t) \ {t[i].name}
                                 ELSE cards' = t
<1> DEFINE t == Form!Collected(cards)
<1>1. t \in Seq(Form!Card) /\ Distinct(t)
  BY CollectedFacts DEF FormInv
<1>2. cards' = Form!Splice(t, i)
  BY DEF Form!RemoveCard
<1> HIDE DEF t
<1>3. CASE i \in DOMAIN t
  <2>1. cards' = Form!RemoveAt(t, i)
    BY <1>2, <1>3 DEF Form!Splice
  <2>2. /\ Form!RemoveAt(t, i) \in Seq(Form!Card) /\ Distinct(Form!RemoveAt(t, i))
        /\ Form!NamesOf(Form!RemoveAt(t, i)) = Form!NamesOf(t) \ {t[i].name}
    BY <1>1, <1>3, RemovedFacts
  <2> QED  BY <1>3, <2>1, <2>2 DEF t
<1>4. CASE i \notin DOMAIN t
  <2>1. cards' = t
    BY <1>2, <1>4 DEF Form!Splice
  <2> QED  BY <1>1, <1>4, <2>1 DEF t
<1> QED  BY <1>3, <1>4

LEMMA FormNext == FormInv /\ [Form!Next]_Form!vars => FormInv'
<1> SUFFICES ASSUME FormInv, [Form!Next]_Form!vars PROVE FormInv'
  OBVIOUS
<1>c. Form!Collected(cards) \in Seq(Form!Card) /\ Distinct(Form!Collected(cards))
  BY CollectedFacts DEF FormInv
<1>1. CASE Form!Load
  <2>1. Form!Rendered(stored) \in Seq(Form!Card) /\ Distinct(Form!Rendered(stored))
    BY RenderedFacts DEF FormInv
  <2> QED  BY <1>1, <2>1 DEF Form!Load, FormInv
<1>2. CASE Form!Save
  <2> DEFINE s == Form!Collected(cards)
             t == [i \in DOMAIN s |-> [name |-> s[i].name, more |-> FALSE]]
  <2>1. s \in Seq(Form!Card) /\ Distinct(s)
    BY <1>c
  <2>2. stored' = t \/ stored' = stored
    BY <1>2 DEF Form!Save
  <2> HIDE DEF s
  <2>3. \A i \in DOMAIN s : [name |-> s[i].name, more |-> FALSE] \in Form!Measurement
    <3>1. \A i \in DOMAIN s : s[i] \in Form!Card
      BY <2>1
    <3> QED  BY <3>1 DEF Form!Card, Form!Measurement
  <2>4. t \in Seq(Form!Measurement) /\ Distinct(t)
    BY <2>1, <2>3 DEF Distinct
  <2> QED  BY <1>2, <2>2, <2>4 DEF Form!Save, FormInv
<1>3. ASSUME NEW n \in Names, Form!Add(n) PROVE FormInv'
  <2> DEFINE s == Form!Collected(cards)
             c == [name |-> n, filled |-> FALSE]
             t == Append(s, c)
  <2>1. /\ s \in Seq(Form!Card) /\ Distinct(s) /\ c \in Form!Card
        /\ \A k \in DOMAIN s : s[k].name # n
    <3>1. \A i \in DOMAIN cards : cards[i].name # n
      BY <1>3 DEF Form!Add, Form!NamesOf
    <3>2. \A k \in DOMAIN s : \E i \in DOMAIN cards : s[k] = cards[i]
      BY CollectedFacts DEF FormInv
    <3>3. c \in Form!Card
      BY DEF Form!Card
    <3> QED  BY <1>c, <3>1, <3>2, <3>3
  <2>2. cards' = t /\ c.name = n
    BY <1>3 DEF Form!Add
  <2> HIDE DEF s, c
  <2>3. /\ t \in Seq(Form!Card) /\ DOMAIN t = 1 .. Len(s) + 1 /\ t[Len(s) + 1] = c
        /\ \A k \in 1 .. Len(s) : t[k] = s[k]
    BY <2>1
  <2> HIDE DEF t
  <2>4. \A k, l \in DOMAIN t : t[k].name = t[l].name => k = l
    <3>1. \A k \in DOMAIN t : k \in DOMAIN s \/ k = Len(s) + 1
      BY <2>1, <2>3
    <3>2. \A k \in DOMAIN s : t[k] = s[k] /\ s[k].name # n
      BY <2>1, <2>3
    <3> QED  BY <2>1, <2>2, <2>3, <3>1, <3>2 DEF Distinct
  <2> QED  BY <1>3, <2>2, <2>3, <2>4 DEF Form!Add, Form!Touched, FormInv, Distinct
<1>4. ASSUME NEW i \in DOMAIN cards, Form!Type(i) PROVE FormInv'
  <2>1. cards[i] \in Form!Card /\ cards' = [cards EXCEPT ![i].filled = ~@]
    BY <1>4 DEF Form!Type, FormInv
  <2>2. [cards[i] EXCEPT !.filled = ~@] \in Form!Card
    BY <2>1 DEF Form!Card
  <2>3. cards' \in Seq(Form!Card) /\ DOMAIN cards' = DOMAIN cards
    BY <2>1, <2>2 DEF FormInv
  <2>4. \A k \in DOMAIN cards : cards[k] \in Form!Card /\ cards'[k].name = cards[k].name
    <3> SUFFICES ASSUME NEW k \in DOMAIN cards
                 PROVE  cards[k] \in Form!Card /\ cards'[k].name = cards[k].name
      OBVIOUS
    <3>1. cards[k] \in Form!Card
      BY DEF FormInv
    <3>2. CASE k = i
      <4>1. cards'[k] = [cards[i] EXCEPT !.filled = ~@]
        BY <2>1, <3>2 DEF FormInv
      <4> QED  BY <2>1, <3>2, <4>1 DEF Form!Card
    <3>3. CASE k # i
      BY <2>1, <3>1, <3>3
    <3> QED  BY <3>2, <3>3
  <2>5. Distinct(cards')
    BY <2>3, <2>4 DEF FormInv, Distinct
  <2> QED  BY <1>4, <2>3, <2>5 DEF Form!Type, Form!Touched, FormInv
<1>5. ASSUME NEW i \in DOMAIN cards, Form!ChangeType(i) PROVE FormInv'
  BY <1>5, <1>c DEF Form!ChangeType, Form!Touched, FormInv
<1>6. ASSUME NEW i \in DOMAIN cards, Form!RemoveCard(i) PROVE FormInv'
  <2>1. cards[i].name \in Names
    <3>1. cards[i] \in Form!Card
      BY DEF FormInv
    <3> QED  BY <3>1 DEF Form!Card
  <2> QED  BY <1>6, <2>1, RemoveCardFacts DEF Form!RemoveCard, FormInv
<1>7. CASE UNCHANGED Form!vars
  BY <1>7 DEF Form!vars, FormInv
<1> QED  BY <1>1, <1>2, <1>3, <1>4, <1>5, <1>6, <1>7 DEF Form!Next

LEMMA FormAlways == Form!ConfigFormAssumption /\ Form!Spec => []FormInv
BY FormInit, FormNext, PTL DEF Form!Spec

LEMMA FormTypeCorrect ==
  ASSUME Form!ConfigFormAssumption
  PROVE  Form!Spec => []Form!TypeOK
BY FormAlways, FormTypeNow, PTL

(* Where the card stands that takes the place i once the incomplete ones    *)
(* are left out.                                                            *)
LEMMA CollectedPlaces ==
  ASSUME FormInv, NEW i \in DOMAIN cards
  PROVE  LET t == Form!Collected(cards)
         IN /\ i \in DOMAIN t => \E p \in DOMAIN cards : i <= p /\ t[i] = cards[p]
            /\ (\A k \in DOMAIN cards : k <= i => cards[k].filled)
                 => i \in DOMAIN t /\ t[i] = cards[i]
<1> DEFINE I == {k \in DOMAIN cards : cards[k].filled}
           t == At(cards, I)
<1>1. cards \in Seq(Form!Card) /\ DOMAIN cards = 1 .. Len(cards) /\ Len(cards) \in Nat
  BY DEF FormInv
<1>2. /\ I \in SUBSET DOMAIN cards /\ Form!Collected(cards) = t
      /\ \A k \in DOMAIN cards : cards[k].filled => k \in I
  BY FormAt DEF Form!Collected
<1> HIDE DEF I
<1>3. I \in SUBSET (Nat \ {0}) /\ i \in Nat
  BY <1>1, <1>2
<1>4. /\ IsFiniteSet(I) /\ DOMAIN t = 1 .. Cardinality(I)
      /\ \A k \in 1 .. Cardinality(I) : t[k] = cards[Place(I, k)]
  BY <1>1, <1>2, AtFacts
<1> HIDE DEF t
<1>5. ASSUME i \in DOMAIN t
      PROVE  \E p \in DOMAIN cards : i <= p /\ t[i] = cards[p]
  <2>1. Place(I, i) \in I /\ i <= Place(I, i)
    BY <1>3, <1>4, <1>5, PlaceNotBefore
  <2> QED  BY <1>2, <1>4, <1>5, <2>1
<1>6. ASSUME \A k \in DOMAIN cards : k <= i => cards[k].filled
      PROVE  i \in DOMAIN t /\ t[i] = cards[i]
  <2>1. 1 .. i \subseteq I /\ i \in I
    BY <1>1, <1>2, <1>6
  <2>2. i \in 1 .. Cardinality(I) /\ Place(I, i) = i
    BY <1>3, <1>4, <2>1, PlaceUnmoved
  <2> QED  BY <1>4, <2>2
<1> QED  BY <1>2, <1>5, <1>6

LEMMA RemovalTakesNoneBefore ==
  ASSUME FormInv, NEW i \in DOMAIN cards, Form!RemoveCard(i)
  PROVE  LET gone == Form!NamesOf(Form!Collected(cards)) \ Form!NamesOf(cards')
         IN /\ cards[i].name = chosen'
            /\ \A k \in DOMAIN cards : k < i => cards[k].name \notin gone
            /\ \A m, n \in gone : m = n
            /\ (\A k \in DOMAIN cards : k <= i => cards[k].filled) => gone = {chosen'}
<1> DEFINE t == Form!Collected(cards)
           gone == Form!NamesOf(t) \ Form!NamesOf(cards')
<1>1. cards[i].name = chosen'
  BY DEF Form!RemoveCard
<1>2. \A k, l \in DOMAIN cards : cards[k].name = cards[l].name => k = l
  BY DEF FormInv, Distinct
<1>3. DOMAIN cards \subseteq Nat
  BY DEF FormInv
<1>4. /\ i \in DOMAIN t => \E p \in DOMAIN cards : i <= p /\ t[i] = cards[p]
      /\ (\A k \in DOMAIN cards : k <= i => cards[k].filled) => i \in DOMAIN t /\ t[i] = cards[i]
  BY CollectedPlaces
<1>5. IF i \in DOMAIN t THEN Form!NamesOf(cards') = Form!NamesOf(t) \ {t[i].name} ELSE cards' = t
  BY RemoveCardFacts
<1>6. i \in DOMAIN t => t[i].name \in Form!NamesOf(t)
  BY DEF Form!NamesOf
<1> HIDE DEF t
<1>7. CASE i \in DOMAIN t
  <2>1. gone = {t[i].name}
    BY <1>5, <1>6, <1>7
  <2>2. PICK p \in DOMAIN cards : i <= p /\ t[i] = cards[p]
    BY <1>4, <1>7
  <2>3. \A k \in DOMAIN cards : k < i => k # p
    BY <1>3, <2>2
  <2>4. \A k \in DOMAIN cards : k < i => cards[k].name # t[i].name
    BY <1>2, <2>2, <2>3
  <2> QED  BY <1>1, <1>4, <2>1, <2>4 DEF t
<1>8. CASE i \notin DOMAIN t
  <2>1. gone = {}
    BY <1>5, <1>8
  <2> QED  BY <1>1, <1>4, <1>8, <2>1 DEF t
<1> QED  BY <1>7, <1>8

LEMMA RemovalsTakeNoneBefore ==
  ASSUME Form!ConfigFormAssumption
  PROVE  Form!Spec => Form!RemoveTakesNoneBefore
<1> DEFINE Fine ==
      \E i \in DOMAIN cards :
        LET gone == Form!NamesOf(Form!Collected(cards)) \ Form!NamesOf(cards')
        IN /\ cards[i].name = chosen'
           /\ \A k \in DOMAIN cards : k < i => cards[k].name \notin gone
           /\ \A m, n \in gone : m = n
           /\ (\A k \in DOMAIN cards : k <= i => cards[k].filled) => gone = {chosen'}
<1>1. ASSUME FormInv, [Form!Next]_Form!vars
      PROVE  [chosen' # None => Fine]_Form!vars
  <2>1. ASSUME NEW i \in DOMAIN cards, Form!RemoveCard(i)
        PROVE  Fine
    BY <1>1, <2>1, RemovalTakesNoneBefore
  <2>2. ASSUME \/ Form!Load \/ Form!Save \/ \E n \in Names : Form!Add(n)
               \/ \E i \in DOMAIN cards : Form!Type(i) \/ Form!ChangeType(i)
        PROVE  chosen' = None
    BY <2>2 DEF Form!Load, Form!Save, Form!Add, Form!Type, Form!ChangeType, Form!Touched
  <2> HIDE DEF Fine
  <2> QED  BY <1>1, <2>1, <2>2 DEF Form!Next
<1> QED  BY <1>1, FormAlways, PTL DEF Form!Spec, Form!RemoveTakesNoneBefore

--------------------------------------------------------------------------------
(* The composition.  A behaviour of Endpoints is one of each of its parts,  *)
(* so it has what was proved about them.                                    *)

LEMMA PartsBehave ==
  EndpointsSpec => Spec /\ Graph!Spec /\ Trace!Spec /\ Form!Spec /\ Peers!Spec
<1>1. EndpointsInit => Init /\ Graph!Init /\ Trace!Init /\ Form!Init /\ Peers!Init
  BY DEF EndpointsInit
<1>2. [EndpointsNext]_allVars => [Next]_vars
  BY DEF EndpointsNext, allVars, vars
<1>3. [EndpointsNext]_allVars => [Graph!Next]_Graph!vars
  BY DEF EndpointsNext, allVars, graphVars, Graph!vars, Graph!probes
<1>4. [EndpointsNext]_allVars => [Trace!Next]_Trace!vars
  BY DEF EndpointsNext, allVars, traceVars, Trace!vars
<1>5. [EndpointsNext]_allVars => [Form!Next]_Form!vars
  BY DEF EndpointsNext, allVars, formVars, Form!vars
<1>6. [EndpointsNext]_allVars => [Peers!Next]_Peers!vars
  BY DEF EndpointsNext, allVars, peerVars, Peers!vars
<1> QED
  BY <1>1, <1>2, <1>3, <1>4, <1>5, <1>6, PTL
     DEF EndpointsSpec, Spec, Graph!Spec, Trace!Spec, Form!Spec, Peers!Spec

(* The configuration, the form, the graphs and the peers keep their types:  *)
(* among other things an open PUT has a live worker (put_config), no name   *)
(* is twice on the form (collectMeasurements), and no probe in the table    *)
(* peers are chosen from (list_probes).                                     *)
THEOREM EndpointsTypesCorrect == EndpointsSpec => []TypesOK
<1>1. Spec => []TypeOK
  BY TypeInit, OnePutInit, TypeStep, PTL DEF Spec
<1>2. Graph!Spec => []Graph!TypeOK
  BY GraphAssumption, Graph!PanelTypeCorrect
<1>3. Trace!Spec => []Trace!TypeOK
  BY TraceAssumption, Trace!TraceTypeCorrect
<1>4. Form!Spec => []Form!TypeOK
  BY FormAssumption, FormTypeCorrect
<1>5. Peers!Spec => []Peers!TypeOK
  BY PeersAssumption, Peers!PeersTypeCorrect
<1>6. TypeOK /\ Graph!TypeOK /\ Trace!TypeOK /\ Form!TypeOK /\ Peers!TypeOK => TypesOK
  BY DEF TypesOK
<1> QED  BY <1>1, <1>2, <1>3, <1>4, <1>5, <1>6, PartsBehave, PTL

(* When nothing changed between the two requests of a panel                 *)
(* (get_graph_nodes, get_graph_edges), no measured pair of shown probes     *)
(* lacks its edge, unless another one bears the name of the measured site.  *)
THEOREM PanelsAreComplete == EndpointsSpec => []CalmPanelIsComplete
<1>1. Graph!Spec => []Graph!CalmPanelIsComplete
  BY GraphAssumption, Graph!CalmPanelsAreComplete
<1>2. Graph!CalmPanelIsComplete => CalmPanelIsComplete
  BY DEF CalmPanelIsComplete
<1> QED  BY <1>1, <1>2, PartsBehave, PTL

(* However paths arrive and probes go while _build_traceroute_graph reads   *)
(* pair by pair, each edge is a step of a path that was newest meanwhile.   *)
THEOREM GraphEdgesAreNewest == EndpointsSpec => []EdgesWereNewest
<1>1. Trace!Spec => []Trace!EdgesWereNewest
  BY TraceAssumption, Trace!EdgesAreNewest
<1>2. Trace!EdgesWereNewest => EdgesWereNewest
  BY DEF EdgesWereNewest
<1> QED  BY <1>1, <1>2, PartsBehave, PTL

(* The second pass of _build_traceroute_graph names a hop only as such a    *)
(* path did.                                                                *)
THEOREM GraphNamesAreReported == EndpointsSpec => []NamesWereReported
<1>1. Trace!Spec => []Trace!NamesWereReported
  BY TraceAssumption, Trace!NamesAreReported
<1>2. Trace!NamesWereReported => NamesWereReported
  BY DEF NamesWereReported
<1> QED  BY <1>1, <1>2, PartsBehave, PTL

(* When nothing changes, the two passes yield exactly the links and names   *)
(* of the newest paths.                                                     *)
THEOREM GraphsAreExact == EndpointsSpec => []CalmGraphIsExact
<1>1. Trace!Spec => []Trace!CalmGraphIsExact
  BY TraceAssumption, Trace!CalmGraphsAreExact
<1>2. Trace!CalmGraphIsExact => CalmGraphIsExact
  BY DEF CalmGraphIsExact
<1> QED  BY <1>1, <1>2, PartsBehave, PTL

(* Whatever incomplete cards collectMeasurements leaves out, the click on a *)
(* remove button takes one complete card at most and none before the one it *)
(* stands on, and that one if all up to it are complete.                    *)
THEOREM FormRemovalsTakeNoneBefore == EndpointsSpec => RemoveTakesNoneBefore
<1>1. Form!Spec => Form!RemoveTakesNoneBefore
  BY FormAssumption, RemovalsTakeNoneBefore
<1> QED  BY <1>1, PartsBehave, PTL DEF RemoveTakesNoneBefore

(* Heartbeats without addresses (update_heartbeat_meta) do not take the     *)
(* address of a probe that was handed out as a peer.                        *)
THEOREM PeersKeepAddresses == EndpointsSpec => []PeersKeepAnAddress
<1>1. Peers!Spec => []Peers!PeersKeepAnAddress
  BY PeersAssumption, Peers!PeersHaveAnAddress
<1>2. Peers!PeersKeepAnAddress => PeersKeepAnAddress
  BY DEF PeersKeepAnAddress
<1> QED  BY <1>1, <1>2, PartsBehave, PTL

================================================================================
