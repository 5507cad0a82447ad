--------------------------- MODULE ProbeClientProofs ---------------------------
(* Proofs about ProbeClient, for every value of its constants.              *)
EXTENDS ProbeClient, SequenceProofs

Flushing == pc \in {"flushSend", "flushWrite"}

(* A process that asks for an id has none, its probe is gone, or its token  *)
(* could not be decrypted.                                                  *)
IdentityInv ==
  /\ IdentityIsSaved
  /\ pc = "register" => config = None \/ config \notin rows \/ ~plain

(* The results of a round are in $results only until they are reported; a   *)
(* flush runs when they have been, or when there are none.                  *)
BatchInv ==
  /\ pc \notin {"flush", "flushSend", "flushWrite", "send", "append"} => batch = <<>>
  /\ pc \in {"flush", "flushSend", "flushWrite"} => Range(batch) \subseteq stored

(* What a flush will not write back is stored or expired.                   *)
FlushInv ==
  Flushing => \A k \in Range(lines) : k \in Range(rest) \cup stored \/ Expired(k)

(* A torn end of the file costs results at the next append only: one when   *)
(* the last line is cut, two when it only lacks its newline.                *)
Owed == IF tail = "whole" THEN 0 ELSE IF tail = "cut" THEN 1 ELSE 2

LossInv == Cardinality(Lost) + Owed <= crashes * (MaxBatch + 1)

(* As long as nothing was killed no result is in two places at once.        *)
CleanInv ==
  crashes = 0 =>
    /\ tail = "whole" /\ IsInjective(lines) /\ IsInjective(batch)
    /\ pc \in {"send", "append"} => Range(batch) \cap (Range(lines) \cup acked) = {}
    /\ IF Flushing THEN IsInjective(rest) /\ acked \cap Range(rest) = {}
       ELSE acked \cap Range(lines) = {}

--------------------------------------------------------------------------------
(* Types                                                                    *)

LEMMA Constants ==
  /\ None \notin Ids /\ MaxBatch \in Nat \ {0} /\ BatchSize \in Nat \ {0}
  /\ ReadErrors \in BOOLEAN
  /\ Retention \in Nat /\ MaxResults \in Nat /\ MaxClock \in Nat /\ MaxCrashes \in Nat
BY ProbeClientAssumption

LEMMA TypeInit == Init => TypeOK
<1>1. <<>> \in Seq(0 .. MaxClock) /\ <<>> \in Seq(Results) /\ Len(<<>>) = 0
  OBVIOUS
<1>2. 0 \in 0 .. MaxClock /\ 0 \in 0 .. MaxCrashes /\ 0 <= MaxResults /\ 0 <= MaxBatch
  BY Constants
<1> SUFFICES ASSUME Init PROVE TypeOK
  OBVIOUS
<1>3. pc \in Places /\ tail \in Tails /\ tail # "open" /\ due \subseteq Timers \cup {"flush"}
  BY DEF Init, Places, Tails
<1>4. known \in BOOLEAN
  BY Zenon DEF Init
<1> QED
  BY <1>1, <1>2, <1>3, <1>4 DEF Init, TypeOK

(* The readable lines after p results of the batch were appended.           *)
LEMMA AppendedFacts ==
  ASSUME TypeOK, NEW p \in 0 .. Len(batch)
  PROVE  /\ Appended(p) \in Seq(Results)
         /\ Range(IF tail = "open" THEN Front(lines) ELSE lines) \subseteq Range(Appended(p))
         /\ Range(Appended(p)) \subseteq Range(lines) \cup Range(batch)
<1> DEFINE kept == IF tail = "open" THEN Front(lines) ELSE lines
<1>1. /\ lines \in Seq(Results) /\ batch \in Seq(Results) /\ tail \in {"whole", "cut", "open"}
      /\ tail = "open" => lines # <<>>
  BY DEF TypeOK, Tails
<1>2. kept \in Seq(Results) /\ Range(kept) \subseteq Range(lines)
  BY <1>1, FrontRange
<1>3. CASE p = 0
  BY <1>1, <1>2, <1>3 DEF Appended
<1>4. CASE p # 0
  <2> DEFINE from == IF tail = "whole" THEN 1 ELSE 2
             new == SubSeq(batch, from, p)
  <2>1. from \in 1 .. Len(batch) + 1 /\ p \in 1 .. Len(batch)
    BY <1>1, <1>4
  <2>2. new \in Seq(Results) /\ Range(new) = {batch[i] : i \in from .. p}
    <3> HIDE DEF from
    <3> QED  BY <1>1, <2>1, SubSeqRange
  <2>3. {batch[i] : i \in from .. p} \subseteq Range(batch)
    BY <1>1, <2>1, RangeOf
  <2>4. Appended(p) = kept \o new
    BY <1>1, <1>4 DEF Appended
  <2> HIDE DEF kept, new
  <2>5. Appended(p) \in Seq(Results) /\ Range(Appended(p)) = Range(kept) \cup Range(new)
    BY <1>2, <2>2, <2>4, ConcatRange
  <2> QED  BY <1>2, <2>2, <2>3, <2>5 DEF kept
<1> QED  BY <1>3, <1>4

LEMMA AppendType ==
  ASSUME TypeOK, PartialAppend
  PROVE  lines' \in Seq(Results) /\ tail' \in Tails /\ (tail' = "open" => lines' # <<>>)
<1> PICK p \in 0 .. Len(batch) :
    \/ /\ lines' = Appended(p)
       /\ tail' = IF p = 0 THEN tail ELSE "whole"
    \/ /\ p < Len(batch)
       /\ lines' = IF p = 0 /\ tail = "open" THEN Front(lines) ELSE Appended(p)
       /\ tail' = "cut"
    \/ /\ p < Len(batch)
       /\ p > 0 \/ tail = "whole"
       /\ lines' = Append(Appended(p), batch[p + 1])
       /\ tail' = "open"
  BY DEF PartialAppend
<1>1. /\ lines \in Seq(Results) /\ batch \in Seq(Results) /\ tail \in Tails
      /\ tail = "open" => lines # <<>>
      /\ Appended(p) \in Seq(Results)
  BY AppendedFacts DEF TypeOK
<1>2. p = 0 => Appended(p) = lines
  BY DEF Appended
<1>3. tail = "open" => Front(lines) \in Seq(Results)
  BY <1>1, FrontRange
<1>4. p < Len(batch) => batch[p + 1] \in Results
  BY <1>1
<1>5. p < Len(batch) => /\ Append(Appended(p), batch[p + 1]) \in Seq(Results)
                        /\ Append(Appended(p), batch[p + 1]) # <<>>
  BY <1>1, <1>4, AppendRange
<1> QED  BY <1>1, <1>2, <1>3, <1>5 DEF Tails

LEMMA SaveType ==
  ASSUME TypeOK, pc = "append", SaveResultsToBuffer
  PROVE  lines' \in Seq(Results) /\ tail' \in Tails /\ (tail' = "open" => lines' # <<>>)
<1>1. Len(batch) \in 0 .. Len(batch) /\ (batch = <<>> => Len(batch) = 0)
  BY DEF TypeOK
<1>2. lines' \in Seq(Results)
  BY <1>1, AppendedFacts DEF SaveResultsToBuffer
<1>3. batch = <<>> => lines' = lines
  BY <1>1 DEF SaveResultsToBuffer, Appended
<1> QED  BY <1>2, <1>3 DEF SaveResultsToBuffer, TypeOK, Tails

LEMMA FlushTypes ==
  ASSUME TypeOK
  PROVE  /\ At(lines, {i \in DOMAIN lines : ~Expired(lines[i])}) \in Seq(Results)
         /\ FlushBatch \in Seq(Results) /\ AfterBatch \in Seq(Results)
         /\ Range(rest) = Range(FlushBatch) \cup Range(AfterBatch)
         /\ Range(FlushBatch) \subseteq Results
         /\ IsInjective(rest) => /\ IsInjective(AfterBatch)
                                 /\ Range(FlushBatch) \cap Range(AfterBatch) = {}
<1>1. lines \in Seq(Results) /\ rest \in Seq(Results) /\ Len(rest) \in Nat
  BY DEF TypeOK
<1>2. At(lines, {i \in DOMAIN lines : ~Expired(lines[i])}) \in Seq(Results)
  BY <1>1, AtFacts
<1> DEFINE n == IF Len(rest) < BatchSize THEN Len(rest) ELSE BatchSize
<1>3. n \in 0 .. Len(rest) /\ FlushBatch = SubSeq(rest, 1, n)
  BY <1>1, Constants DEF FlushBatch
<1>4. AfterBatch = SubSeq(rest, n + 1, Len(rest))
  <2>1. CASE n = BatchSize
    BY <2>1 DEF AfterBatch
  <2>2. CASE n = Len(rest) /\ Len(rest) < BatchSize
    <3>1. SubSeq(rest, BatchSize + 1, Len(rest)) = <<>>
      BY <1>1, <2>2, Constants
    <3>2. SubSeq(rest, n + 1, Len(rest)) = <<>>
      BY <1>1, <2>2
    <3> QED  BY <3>1, <3>2 DEF AfterBatch
  <2> QED  BY <2>1, <2>2
<1> HIDE DEF n
<1>5. FlushBatch \in Seq(Results) /\ AfterBatch \in Seq(Results)
  BY <1>1, <1>3, <1>4
<1>6. Range(FlushBatch) \subseteq Results
  BY <1>5, RangeOf
<1> QED  BY <1>1, <1>2, <1>3, <1>4, <1>5, <1>6, SplitRange

(* What is measured in a round.                                             *)
LEMMA MeasureFacts ==
  ASSUME TypeOK, Measure
  PROVE  /\ born' \in Seq(0 .. MaxClock) /\ Len(born') <= MaxResults
         /\ Results \subseteq Results' /\ \A r \in Results : born'[r] = born[r]
         /\ batch' \in Seq(Results') /\ Len(batch') <= MaxBatch
         /\ Range(batch') = Results' \ Results /\ IsInjective(batch')
<1> DEFINE n == Len(born)
<1>1. born \in Seq(0 .. MaxClock) /\ n \in Nat /\ n <= MaxResults /\ now \in 0 .. MaxClock
  BY DEF TypeOK
<1> PICK k \in (IF n < MaxResults THEN 1..MaxBatch ELSE {0}) :
       /\ n + k <= MaxResults
       /\ batch' = [i \in 1..k |-> n + i]
       /\ born' = born \o [i \in 1..k |-> now]
  BY DEF Measure
<1>2. k \in Nat /\ k <= MaxBatch
  BY Constants
<1>3. [i \in 1..k |-> now] \in Seq(0 .. MaxClock) /\ Len([i \in 1..k |-> now]) = k
  BY <1>1, <1>2
<1>4. born' \in Seq(0 .. MaxClock) /\ Len(born') = n + k
  BY <1>1, <1>3
<1>5. \A r \in Results : born'[r] = born[r]
  BY <1>1, <1>3 DEF Results
<1>6. Results = 1 .. n /\ Results' = 1 .. n + k
  BY <1>4 DEF Results
<1>7. batch' \in Seq(Results') /\ Len(batch') = k
  BY <1>1, <1>2, <1>6
<1>8. IsInjective(batch')
  BY <1>1, <1>2 DEF IsInjective
<1>9. Range(batch') = Results' \ Results
  <2>1. Range(batch') \subseteq Results' \ Results
    BY <1>1, <1>2, <1>6 DEF Range
  <2>2. ASSUME NEW r \in Results' \ Results
        PROVE  r \in Range(batch')
    <3>1. r - n \in 1 .. k /\ n + (r - n) = r
      BY <1>1, <1>2, <1>6
    <3> QED  BY <3>1 DEF Range
  <2> QED  BY <2>1, <2>2
<1> QED  BY <1>1, <1>2, <1>4, <1>5, <1>6, <1>7, <1>8, <1>9

LEMMA TypeNext == TypeOK /\ [Next]_vars => TypeOK'
<1> SUFFICES ASSUME TypeOK, [Next]_vars
             PROVE  TypeOK'
  OBVIOUS
<1> USE DEF server, disk, memory, history, Goto, Reset, FlushDone
<1>e. <<>> \in Seq(Results) /\ Len(<<>>) = 0 /\ Range(<<>>) = {} /\ MaxBatch \in Nat
  BY Constants DEF Range
<1>r. /\ Range(batch) \subseteq Results /\ Range(lines) \subseteq Results
      /\ Range(rest) \subseteq Results
  BY RangeOf DEF TypeOK
<1>p. {"off", "register", "saveConfig", "flush", "flushSend", "flushWrite", "spec",
       "heartbeat", "measure", "send", "append"} = Places
  BY DEF Places
<1>t. Timers \subseteq {"spec", "heartbeat", "measure"} /\ "whole" \in Tails
  BY DEF Timers, Tails
<1>c. crashes < MaxCrashes /\ crashes' = crashes + 1 => crashes' \in 0 .. MaxCrashes
  BY Constants DEF TypeOK
<1>n. Terminate => /\ batch' \in Seq(Results) /\ Len(batch') <= MaxBatch /\ rest' \in Seq(Results)
                   /\ pc' \in Places /\ due' \subseteq Timers \cup {"flush"}
                   /\ id' = None
  BY <1>e, <1>p DEF Terminate
<1>k. Terminate => known' \in BOOLEAN /\ plain' \in BOOLEAN
  BY Zenon DEF Terminate
<1>1. CASE Start
  <2>1. plain' \in BOOLEAN
    BY <1>1, Zenon DEF Start
  <2> QED  BY <1>1, <2>1, <1>p DEF Start, TypeOK, Results
<1>2. CASE RegisterOk
  <2>1. plain' \in BOOLEAN
    BY <1>2, Zenon DEF RegisterOk
  <2> QED  BY <1>2, <2>1, <1>p DEF RegisterOk, TypeOK, Results, Fresh
<1>3. CASE RegisterFails
  <2>1. Terminate /\ UNCHANGED <<stored, disk, now, born, history>>
    BY <1>3 DEF RegisterFails
  <2>2. rows' \subseteq issued' /\ issued' \subseteq Ids /\ issued \subseteq issued'
    BY <1>3 DEF RegisterFails, TypeOK, Fresh
  <2> QED  BY <2>1, <2>2, <1>n, <1>k DEF TypeOK, Results
<1>4. CASE SaveConfig
  BY <1>4, <1>p DEF SaveConfig, TypeOK, Results
<1>5. CASE Unauthorized
  BY <1>5, <1>p, <1>e, <1>r DEF Unauthorized, TypeOK, Results
<1>6. CASE FlushRead
  <2>1. rest' \in Seq(Results)
    BY <1>6, FlushTypes DEF FlushRead
  <2> QED  BY <1>6, <2>1, <1>p DEF FlushRead, TypeOK, Results
<1>7. CASE FlushReadFails
  <2>1. lines' \in Seq(Results) /\ tail' \in Tails /\ (tail' = "open" => lines' # <<>>)
    BY <1>7, <1>e, <1>t DEF FlushReadFails, TypeOK
  <2>2. /\ batch' \in Seq(Results) /\ Len(batch') <= MaxBatch
        /\ pc' \in Places /\ due' \subseteq Timers \cup {"flush"} /\ crashes' \in 0 .. MaxCrashes
    BY <1>7, <1>e, <1>p, <1>c DEF FlushReadFails, TypeOK
  <2> QED  BY <1>7, <2>1, <2>2 DEF FlushReadFails, TypeOK, Results
<1>8. CASE FlushAcked
  <2>1. rest' \in Seq(Results) /\ stored' \cup acked' \subseteq Results
    BY <1>8, FlushTypes DEF FlushAcked, TypeOK
  <2> QED  BY <1>8, <2>1, <1>p DEF FlushAcked, TypeOK, Results
<1>9. CASE FlushFails
  <2>1. stored' \subseteq Results
    BY <1>9, FlushTypes DEF FlushFails, TypeOK
  <2> QED  BY <1>9, <2>1, <1>p DEF FlushFails, TypeOK, Results
<1>10. CASE FlushWrite
  BY <1>10, <1>p, <1>e, <1>t DEF FlushWrite, TypeOK, Results
<1>11. CASE FlushWriteFails
  <2>0. /\ batch' = batch \/ batch' = <<>>
        /\ pc' \in {"spec", "append"} /\ rest' = <<>>
    BY <1>11 DEF FlushWriteFails
  <2>1. /\ batch' \in Seq(Results) /\ Len(batch') <= MaxBatch /\ rest' \in Seq(Results)
        /\ pc' \in Places
    <3>1. batch \in Seq(Results) /\ Len(batch) <= MaxBatch /\ Len(<<>>) <= MaxBatch
      BY <1>e DEF TypeOK
    <3> QED  BY <2>0, <3>1, <1>e, <1>p
  <2>2. due' \subseteq Timers \cup {"flush"} /\ crashes' \in 0 .. MaxCrashes
    BY <1>11, <1>c DEF FlushWriteFails, TypeOK
  <2> QED  BY <1>11, <2>1, <2>2 DEF FlushWriteFails, TypeOK, Results
<1>12. CASE SpecSkip \/ SpecFails \/ HeartbeatSkip \/ MeasureNone
  BY <1>12, <1>p DEF SpecSkip, SpecFails, HeartbeatSkip, MeasureNone, TypeOK, Results
<1>13. CASE SpecFetched \/ HeartbeatDone
  BY <1>13, <1>p DEF SpecFetched, HeartbeatDone, TypeOK, Results
<1>14. CASE HeartbeatUpdates
  <2>1. Terminate /\ UNCHANGED <<server, disk, now, born, history>>
    BY <1>14 DEF HeartbeatUpdates
  <2> QED  BY <2>1, <1>n, <1>k DEF TypeOK, Results
<1>15. CASE Measure
  <2>1. Results \subseteq Results'
    BY <1>15, MeasureFacts
  <2>2. \A s \in Seq(Results) : s \in Seq(Results')
    BY <2>1
  <2>3. lines' = lines /\ lines \in Seq(Results) /\ rest' = rest /\ rest \in Seq(Results)
    BY <1>15 DEF Measure, TypeOK
  <2>4. lines' \in Seq(Results') /\ rest' \in Seq(Results')
    BY <2>2, <2>3
  <2>5. stored' \cup acked' \cup refused' \subseteq Results'
    BY <1>15, <2>1 DEF Measure, TypeOK
  <2>6. /\ born' \in Seq(0 .. MaxClock) /\ Len(born') <= MaxResults
        /\ batch' \in Seq(Results') /\ Len(batch') <= MaxBatch
    BY <1>15, MeasureFacts
  <2> QED  BY <1>15, <2>4, <2>5, <2>6, <1>p DEF Measure, TypeOK
<1>16. CASE SendAcked
  BY <1>16, <1>p, <1>r DEF SendAcked, TypeOK, Results
<1>17. CASE SendFails
  BY <1>17, <1>p, <1>r DEF SendFails, TypeOK, Results
<1>18. CASE SaveResultsToBuffer
  <2>1. lines' \in Seq(Results) /\ tail' \in Tails /\ (tail' = "open" => lines' # <<>>)
    BY <1>18, SaveType DEF SaveResultsToBuffer
  <2>2. batch' \in Seq(Results) /\ Len(batch') <= MaxBatch /\ pc' \in Places
    BY <1>18, <1>e, <1>p DEF SaveResultsToBuffer
  <2> QED  BY <1>18, <2>1, <2>2 DEF SaveResultsToBuffer, TypeOK, Results
<1>19. CASE AppendFails
  <2>1. lines' \in Seq(Results) /\ tail' \in Tails /\ (tail' = "open" => lines' # <<>>)
    BY <1>19, AppendType DEF AppendFails
  <2> QED  BY <1>19, <2>1, <1>p, <1>e, <1>c DEF AppendFails, TypeOK, Results
<1>20. CASE Kill
  <2>1. lines' \in Seq(Results) /\ tail' \in Tails /\ (tail' = "open" => lines' # <<>>)
    BY <1>20, AppendType DEF Kill, TypeOK
  <2>2. config' \in issued \cup {None}
    BY <1>20 DEF Kill, TypeOK
  <2>3. Terminate /\ crashes' \in 0 .. MaxCrashes /\ UNCHANGED <<server, now, born, acked, refused>>
    BY <1>20, <1>c DEF Kill
  <2> QED  BY <2>1, <2>2, <2>3, <1>n, <1>k DEF TypeOK, Results
<1>21. CASE DeleteProbe
  BY <1>21 DEF DeleteProbe, TypeOK, Results
<1>22. CASE Tick
  BY <1>22, Constants DEF Tick, TypeOK, Results
<1>23. CASE UNCHANGED vars
  BY <1>23 DEF vars, TypeOK, Results
<1> QED
  BY <1>1, <1>2, <1>3, <1>4, <1>5, <1>6, <1>7, <1>8, <1>9, <1>10, <1>11, <1>12, <1>13,
     <1>14, <1>15, <1>16, <1>17, <1>18, <1>19, <1>20, <1>21, <1>22, <1>23
  DEF Next, Running, Flush, Loop

(* The type invariant, and with it the bounds on what the client holds: a   *)
(* round's results fit the batch, and a file that ends in a line without    *)
(* newline has such a line.                                                 *)
THEOREM ClientTypeCorrect == Spec => []TypeOK
<1> QED  BY TypeInit, TypeNext, PTL DEF Spec

--------------------------------------------------------------------------------
(* The identity                                                             *)

LEMMA IdentityNext == TypeOK /\ IdentityInv /\ [Next]_vars => IdentityInv'
<1> SUFFICES ASSUME TypeOK, IdentityInv, [Next]_vars
             PROVE  IdentityInv'
  OBVIOUS
<1> USE DEF server, disk, memory, history, Goto, IdentityInv, IdentityIsSaved
<1>1. CASE Start
  BY <1>1 DEF Start
<1>2. CASE RegisterOk \/ SaveConfig
  BY <1>2 DEF RegisterOk, SaveConfig
<1>3. CASE RegisterFails \/ HeartbeatUpdates \/ Kill
  BY <1>3 DEF RegisterFails, HeartbeatUpdates, Kill, Terminate
<1>4. CASE Unauthorized
  BY <1>4 DEF Unauthorized
<1>5. CASE Flush
  BY <1>5 DEF Flush, FlushRead, FlushReadFails, FlushAcked, FlushFails, FlushWrite, FlushWriteFails
<1>6. CASE SpecSkip \/ SpecFetched \/ SpecFails \/ HeartbeatSkip \/ HeartbeatDone
  BY <1>6 DEF SpecSkip, SpecFetched, SpecFails, HeartbeatSkip, HeartbeatDone
<1>7. CASE MeasureNone \/ Measure \/ SendAcked \/ SendFails
  BY <1>7 DEF MeasureNone, Measure, SendAcked, SendFails
<1>8. CASE SaveResultsToBuffer \/ AppendFails
  BY <1>8 DEF SaveResultsToBuffer, AppendFails
<1>9. CASE DeleteProbe \/ Tick \/ UNCHANGED vars
  BY <1>9 DEF DeleteProbe, Tick, vars
<1> QED
  BY <1>1, <1>2, <1>3, <1>4, <1>5, <1>6, <1>7, <1>8, <1>9 DEF Next, Running, Loop

LEMMA IdentityAlways == Spec => []IdentityInv
<1>1. Init => IdentityInv
  BY DEF Init, IdentityInv, IdentityIsSaved
<1> QED  BY <1>1, IdentityNext, ClientTypeCorrect, PTL DEF Spec

(* Register-Probe saves before it returns: a client at work finds the same  *)
(* id after a restart, whenever it is killed.                               *)
THEOREM IdentityOutlivesKills == Spec => []IdentityIsSaved
<1>1. IdentityInv => IdentityIsSaved
  BY DEF IdentityInv
<1> QED  BY <1>1, IdentityAlways, PTL

(* No sequence of failures, kills and restarts makes a client ask for       *)
(* another id whose probe the coordinator knows and whose token it could    *)
(* read: a failed request, a lost answer or a torn write never costs the    *)
(* identity (Test-IsAuthError, Register-Probe).                             *)
THEOREM RegistersWhenNeeded == Spec => RegistersOnlyWhenNeeded
<1>1. ASSUME IdentityInv, [Next]_vars
      PROVE  [issued' # issued => config = None \/ config \notin rows \/ ~plain]_vars
  <2> SUFFICES ASSUME issued' # issued, Next
               PROVE  config = None \/ config \notin rows \/ ~plain
    BY <1>1 DEF vars, server
  <2>1. RegisterOk \/ RegisterFails
    BY DEF Next, Running, Flush, Loop, server, Start, SaveConfig, Unauthorized,
           FlushRead, FlushReadFails, FlushAcked, FlushFails, FlushWrite, FlushWriteFails,
           SpecSkip, SpecFetched, SpecFails, HeartbeatSkip, HeartbeatDone, HeartbeatUpdates,
           MeasureNone, Measure, SendAcked, SendFails, SaveResultsToBuffer, AppendFails,
           Kill, DeleteProbe, Tick
  <2>2. pc = "register"
    BY <2>1 DEF RegisterOk, RegisterFails
  <2> QED  BY <1>1, <2>2 DEF IdentityInv
<1> QED  BY <1>1, IdentityAlways, PTL DEF Spec, RegistersOnlyWhenNeeded

--------------------------------------------------------------------------------
(* The batch and the flush                                                  *)

LEMMA BatchNext == TypeOK /\ BatchInv /\ [Next]_vars => BatchInv'
<1> SUFFICES ASSUME TypeOK, BatchInv, [Next]_vars
             PROVE  BatchInv'
  OBVIOUS
<1> USE DEF server, disk, memory, history, Goto, BatchInv
<1>e. Range(<<>>) = {}
  BY DEF Range
<1>1. CASE Start \/ RegisterOk \/ SaveConfig
  BY <1>1, <1>e DEF Start, RegisterOk, SaveConfig
<1>2. CASE RegisterFails \/ HeartbeatUpdates \/ Kill
  BY <1>2 DEF RegisterFails, HeartbeatUpdates, Kill, Terminate
<1>3. CASE Unauthorized
  BY <1>3 DEF Unauthorized
<1>4. CASE FlushRead \/ FlushAcked \/ FlushFails
  BY <1>4 DEF FlushRead, FlushAcked, FlushFails
<1>5. CASE FlushReadFails \/ FlushWrite \/ FlushWriteFails
  BY <1>5 DEF FlushReadFails, FlushWrite, FlushWriteFails
<1>6. CASE SpecSkip \/ SpecFetched \/ SpecFails \/ HeartbeatSkip \/ HeartbeatDone
  BY <1>6 DEF SpecSkip, SpecFetched, SpecFails, HeartbeatSkip, HeartbeatDone
<1>7. CASE MeasureNone \/ Measure \/ SendAcked \/ SendFails
  BY <1>7 DEF MeasureNone, Measure, SendAcked, SendFails
<1>8. CASE SaveResultsToBuffer \/ AppendFails
  BY <1>8 DEF SaveResultsToBuffer, AppendFails
<1>9. CASE DeleteProbe \/ Tick \/ UNCHANGED vars
  BY <1>9 DEF DeleteProbe, Tick, vars
<1> QED
  BY <1>1, <1>2, <1>3, <1>4, <1>5, <1>6, <1>7, <1>8, <1>9 DEF Next, Running, Flush, Loop

(* What is read is stored or kept; what has expired stays expired.          *)
LEMMA ExpiredStays ==
  ASSUME TypeOK, [Next]_vars, NEW k \in Results
  PROVE  Expired(k) => Expired(k)'
<1>1. \/ now' = now /\ born' = born
      \/ now' = now + 1 /\ born' = born
      \/ now' = now /\ Measure
  BY DEF Next, Running, Flush, Loop, history, memory, server, vars, Start, RegisterOk,
         RegisterFails, SaveConfig, Unauthorized, FlushRead, FlushReadFails, FlushAcked,
         FlushFails, FlushWrite, FlushWriteFails, SpecSkip, SpecFetched, SpecFails,
         HeartbeatSkip, HeartbeatDone, HeartbeatUpdates, MeasureNone, Measure, SendAcked,
         SendFails, SaveResultsToBuffer, AppendFails, Kill, DeleteProbe, Tick
<1>2. born[k] \in Nat /\ now \in Nat /\ Retention \in Nat
  BY Constants DEF TypeOK, Results
<1>3. born'[k] = born[k]
  BY <1>1, MeasureFacts
<1> QED  BY <1>1, <1>2, <1>3 DEF Expired

LEMMA FlushNext == TypeOK /\ FlushInv /\ [Next]_vars => FlushInv'
<1> SUFFICES ASSUME TypeOK, FlushInv, [Next]_vars, Flushing',
                    NEW k \in Range(lines')
             PROVE  k \in (Range(rest) \cup stored)' \/ Expired(k)'
  BY DEF FlushInv
<1> USE DEF server, disk, memory, history, Goto, Flushing
<1>1. CASE FlushRead
  <2> DEFINE I == {i \in DOMAIN lines : ~Expired(lines[i])}
  <2>1. Range(rest') = {lines[i] : i \in I}
    BY <1>1, AtRange DEF FlushRead, TypeOK
  <2>2. lines' = lines /\ k \in Range(lines) /\ k \in Results
    BY <1>1, RangeOf DEF FlushRead, TypeOK
  <2>3. PICK i \in DOMAIN lines : k = lines[i]
    BY <2>2 DEF Range
  <2>4. i \in I => k \in Range(rest')
    BY <2>1, <2>3
  <2> QED  BY <2>2, <2>3, <2>4, ExpiredStays
<1>2. CASE ~FlushRead
  <2>1. Flushing /\ UNCHANGED lines /\ stored \subseteq stored'
    BY <1>2 DEF Next, Running, Flush, Loop, vars, Start, RegisterOk, Terminate,
           RegisterFails, SaveConfig, Unauthorized, FlushRead, FlushReadFails, FlushAcked,
           FlushFails, FlushWrite, FlushWriteFails, SpecSkip, SpecFetched, SpecFails,
           HeartbeatSkip, HeartbeatDone, HeartbeatUpdates, MeasureNone, Measure, SendAcked,
           SendFails, SaveResultsToBuffer, AppendFails, Kill, DeleteProbe, Tick
  <2>2. k \in Results /\ (k \in Range(rest) \cup stored \/ Expired(k))
    BY <2>1, RangeOf DEF FlushInv, TypeOK
  <2>3. Range(rest) \cup stored \subseteq Range(rest') \cup stored'
    <3>1. CASE FlushAcked
      BY <3>1, FlushTypes DEF FlushAcked
    <3>2. CASE ~FlushAcked
      <4>1. rest' = rest
        BY <1>2, <2>1, <3>2 DEF Next, Running, Flush, Loop, vars, Start, RegisterOk, Terminate,
               RegisterFails, SaveConfig, Unauthorized, FlushReadFails,
               FlushFails, FlushWrite, FlushWriteFails, SpecSkip, SpecFetched, SpecFails,
               HeartbeatSkip, HeartbeatDone, HeartbeatUpdates, MeasureNone, Measure, SendAcked,
               SendFails, SaveResultsToBuffer, AppendFails, Kill, DeleteProbe, Tick
      <4> QED  BY <2>1, <4>1
    <3> QED  BY <3>1, <3>2
  <2> QED  BY <2>2, <2>3, ExpiredStays
<1> QED  BY <1>1, <1>2

LEMMA BatchAndFlushAlways == Spec => [](TypeOK /\ BatchInv /\ FlushInv)
<1>1. Init => BatchInv /\ FlushInv
  BY DEF Init, BatchInv, FlushInv, Flushing
<1> QED  BY <1>1, BatchNext, FlushNext, ClientTypeCorrect, PTL DEF Spec

(* Actions that leave buffer.jsonl as it is.                                *)
LEMMA LinesChange ==
  ASSUME [Next]_vars
  PROVE  \/ UNCHANGED <<lines, tail>>
         \/ FlushReadFails \/ FlushWrite \/ SaveResultsToBuffer
         \/ (AppendFails \/ Kill) /\ pc = "append" /\ PartialAppend
BY DEF Next, Running, Flush, Loop, vars, disk, Start, RegisterOk,
       RegisterFails, SaveConfig, Unauthorized, FlushRead, FlushAcked,
       FlushFails, FlushWriteFails, SpecSkip, SpecFetched, SpecFails,
       HeartbeatSkip, HeartbeatDone, HeartbeatUpdates, MeasureNone, Measure, SendAcked,
       SendFails, AppendFails, Kill, DeleteProbe, Tick

(* An append that stops anywhere keeps all terminated lines.                *)
LEMMA AppendKeeps ==
  ASSUME TypeOK, PartialAppend
  PROVE  Range(IF tail = "open" THEN Front(lines) ELSE lines) \subseteq Range(lines')
<1> DEFINE kept == IF tail = "open" THEN Front(lines) ELSE lines
<1> PICK p \in 0 .. Len(batch) :
    \/ /\ lines' = Appended(p)
       /\ tail' = IF p = 0 THEN tail ELSE "whole"
    \/ /\ p < Len(batch)
       /\ lines' = IF p = 0 /\ tail = "open" THEN Front(lines) ELSE Appended(p)
       /\ tail' = "cut"
    \/ /\ p < Len(batch)
       /\ p > 0 \/ tail = "whole"
       /\ lines' = Append(Appended(p), batch[p + 1])
       /\ tail' = "open"
  BY DEF PartialAppend
<1>1. Appended(p) \in Seq(Results) /\ Range(kept) \subseteq Range(Appended(p))
  BY AppendedFacts
<1>2. p < Len(batch) => batch[p + 1] \in Results
  BY DEF TypeOK
<1>3. p < Len(batch) =>
        Range(Append(Appended(p), batch[p + 1])) = Range(Appended(p)) \cup {batch[p + 1]}
  BY <1>1, <1>2, AppendRange
<1>4. p = 0 /\ tail = "open" => kept = Front(lines)
  OBVIOUS
<1> HIDE DEF kept
<1>5. Range(kept) \subseteq Range(lines')
  BY <1>1, <1>3, <1>4
<1> QED  BY <1>5 DEF kept

(* As long as the file can be read, a terminated line stays in it until its *)
(* result is stored or has expired, whatever else fails or is killed.       *)
THEOREM BufferedIsKept ==
  ASSUME ~ReadErrors
  PROVE  Spec => BufferKept
<1>1. ASSUME TypeOK, FlushInv, [Next]_vars
      PROVE  [\A k \in Range(IF tail = "open" THEN Front(lines) ELSE lines) :
                k \in Range(lines') \/ k \in stored' \/ Expired(k)]_vars
  <2> SUFFICES ASSUME NEW k \in Range(IF tail = "open" THEN Front(lines) ELSE lines)
               PROVE  k \in Range(lines') \/ k \in stored' \/ Expired(k)
    OBVIOUS
  <2>1. k \in Range(lines)
    BY <1>1, FrontRange DEF TypeOK
  <2>2. CASE UNCHANGED <<lines, tail>>
    BY <2>1, <2>2
  <2>3. CASE FlushReadFails
    BY <2>3 DEF FlushReadFails
  <2>4. CASE FlushWrite
    BY <1>1, <2>1, <2>4 DEF FlushWrite, FlushInv, Flushing, server
  <2>5. CASE SaveResultsToBuffer
    <3>1. Len(batch) \in 0 .. Len(batch) /\ lines' = Appended(Len(batch))
      BY <1>1, <2>5 DEF SaveResultsToBuffer, TypeOK
    <3> QED  BY <1>1, <3>1, AppendedFacts
  <2>6. CASE PartialAppend
    BY <1>1, <2>6, AppendKeeps
  <2> QED  BY <1>1, <2>2, <2>3, <2>4, <2>5, <2>6, LinesChange
<1> QED  BY <1>1, BatchAndFlushAlways, PTL DEF Spec, BufferKept

--------------------------------------------------------------------------------
(* What is lost                                                             *)

(* A set of results not larger than a bound.                                *)
Small(X, n) == IsFiniteSet(X) /\ Cardinality(X) <= n

LEMMA SmallSets == Small({}, 0) /\ \A x : Small({x}, 1)
<1>1. Small({}, 0)
  <2>1. IsFiniteSet({}) /\ Cardinality({}) = 0
    BY FS_EmptySet
  <2> QED  BY <2>1 DEF Small
<1>2. ASSUME NEW x PROVE Small({x}, 1)
  <2>1. IsFiniteSet({x}) /\ Cardinality({x}) = 1
    BY FS_Singleton
  <2> QED  BY <2>1 DEF Small
<1> QED  BY <1>1, <1>2

LEMMA SmallUnion ==
  ASSUME NEW X, NEW Y, NEW m \in Nat, NEW n \in Nat, Small(X, m), Small(Y, n)
  PROVE  Small(X \cup Y, m + n)
<1>1. /\ IsFiniteSet(X \cup Y)
      /\ Cardinality(X \cup Y) = Cardinality(X) + Cardinality(Y) - Cardinality(X \cap Y)
  BY FS_Union DEF Small
<1>2. IsFiniteSet(X \cap Y)
  BY FS_Intersection DEF Small
<1>3. Cardinality(X) \in Nat /\ Cardinality(Y) \in Nat /\ Cardinality(X \cap Y) \in Nat
  BY <1>2, FS_CardinalityType DEF Small
<1> QED  BY <1>1, <1>3 DEF Small

LEMMA SmallSubset ==
  ASSUME NEW Y, NEW X \in SUBSET Y, NEW n \in Nat, Small(Y, n)
  PROVE  Small(X, n)
<1>1. IsFiniteSet(X) /\ Cardinality(X) <= Cardinality(Y)
  BY FS_Subset DEF Small
<1>2. Cardinality(X) \in Nat /\ Cardinality(Y) \in Nat
  BY <1>1, FS_CardinalityType DEF Small
<1> QED  BY <1>1, <1>2 DEF Small

LEMMA SmallBatch ==
  ASSUME TypeOK
  PROVE  /\ Small(Range(batch), MaxBatch)
         /\ \A b \in Range(batch) : Small(Range(batch) \ {b}, MaxBatch - 1)
<1>1. batch \in Seq(Results) /\ Len(batch) <= MaxBatch /\ MaxBatch \in Nat \ {0}
  BY Constants DEF TypeOK
<1>2. IsFiniteSet(Range(batch)) /\ Cardinality(Range(batch)) \in 0 .. Len(batch)
  BY <1>1, RangeSize
<1>3. \A b \in Range(batch) : /\ IsFiniteSet(Range(batch) \ {b})
                              /\ Cardinality(Range(batch) \ {b}) = Cardinality(Range(batch)) - 1
  BY <1>2, FS_RemoveElement
<1> QED  BY <1>1, <1>2, <1>3 DEF Small

LEMMA LostIsFinite ==
  ASSUME TypeOK
  PROVE  IsFiniteSet(Lost) /\ Cardinality(Lost) \in Nat
<1>1. IsFiniteSet(Results)
  <2>1. Len(born) \in Nat
    BY DEF TypeOK
  <2> QED  BY <2>1, FS_Interval DEF Results
<1>2. Lost \in SUBSET Results
  BY DEF Lost
<1>3. IsFiniteSet(Lost)
  BY <1>1, <1>2, FS_Subset
<1> QED  BY <1>3, FS_CardinalityType

(* A step that loses at most n more results, and makes up for them.         *)
LEMMA LossStep ==
  ASSUME TypeOK, LossInv, NEW X, NEW n \in Nat, Small(X, n),
         Lost' \subseteq Lost \cup X,
         \/ crashes' = crashes + 1 /\ n + Owed' <= Owed + MaxBatch + 1
         \/ crashes' = crashes /\ n + Owed' <= Owed
  PROVE  LossInv'
<1>1. Cardinality(Lost) \in Nat /\ Small(Lost, Cardinality(Lost))
  BY LostIsFinite DEF Small
<1>2. Small(Lost \cup X, Cardinality(Lost) + n)
  BY <1>1, SmallUnion
<1>3. Small(Lost', Cardinality(Lost) + n)
  BY <1>1, <1>2, SmallSubset
<1>n. Cardinality(Lost') \in Nat
  BY <1>3, FS_CardinalityType DEF Small
<1>o. Owed \in Nat /\ Owed' \in Nat /\ MaxBatch \in Nat
  BY Constants DEF Owed
<1>4. /\ MaxBatch \in Nat /\ crashes \in Nat
      /\ (crashes + 1) * (MaxBatch + 1) = crashes * (MaxBatch + 1) + (MaxBatch + 1)
      /\ crashes * (MaxBatch + 1) \in Nat
  BY Constants DEF TypeOK
<1> DEFINE c == crashes * (MaxBatch + 1)
<1> DEFINE d == crashes' * (MaxBatch + 1)
<1>5. \/ d = c + MaxBatch + 1 /\ n + Owed' <= Owed + MaxBatch + 1
      \/ d = c /\ n + Owed' <= Owed
  <2>1. CASE crashes' = crashes + 1 /\ n + Owed' <= Owed + MaxBatch + 1
    <3>1. d = (crashes + 1) * (MaxBatch + 1)
      BY <2>1, Zenon
    <3>2. d = c + MaxBatch + 1
      BY <1>4, <3>1
    <3> QED  BY <2>1, <3>2
  <2>2. CASE crashes' = crashes /\ n + Owed' <= Owed
    BY <2>2
  <2> QED  BY <2>1, <2>2
<1>6. Cardinality(Lost) + Owed <= c /\ Cardinality(Lost') <= Cardinality(Lost) + n
  BY <1>3 DEF LossInv, Small
<1>7. c \in Nat
  BY <1>4
<1> HIDE DEF c, d
<1>8. Cardinality(Lost') + Owed' <= d
  <2>1. \A k, l, o, p, q \in Nat :
          k <= l + n /\ l + o <= c => /\ n + p <= o => k + p <= c
                                      /\ n + p <= o + q + 1 => k + p <= c + q + 1
    BY <1>7
  <2>2. Cardinality(Lost') <= Cardinality(Lost) + n
    BY <1>6
  <2>3. Cardinality(Lost) + Owed <= c
    BY <1>6
  <2>4. /\ n + Owed' <= Owed => Cardinality(Lost') + Owed' <= c
        /\ n + Owed' <= Owed + MaxBatch + 1 => Cardinality(Lost') + Owed' <= c + MaxBatch + 1
    BY <1>1, <1>o, <1>n, <2>1, <2>2, <2>3
  <2> QED  BY <1>5, <2>4
<1> QED  BY <1>8 DEF LossInv, d

(* A step that takes no result away loses none, and costs nothing when the  *)
(* end of the file is not made worse.                                       *)
LEMMA NothingLost ==
  ASSUME TypeOK, LossInv, [Next]_vars,
         Results' \subseteq Results \cup Range(batch'),
         \A k \in Results : k \in Range(batch) \cup Range(lines) \cup stored \cup refused
           => k \in (Range(batch) \cup Range(lines) \cup stored \cup refused)' \/ Expired(k),
         Owed' <= Owed, crashes' \in {crashes, crashes + 1}
  PROVE  LossInv'
<1>1. Lost' \subseteq Lost \cup {}
  <2> SUFFICES ASSUME NEW k \in Lost'
               PROVE  k \in Lost
    OBVIOUS
  <2>1. /\ k \in Results'
        /\ k \notin (Range(batch) \cup Range(lines) \cup stored \cup refused)'
        /\ ~Expired(k)'
    BY DEF Lost, Buffered
  <2>2. k \in Results /\ ~Expired(k)
    BY <2>1, ExpiredStays
  <2>3. k \notin Range(batch) \cup Range(lines) \cup stored \cup refused
    BY <2>1, <2>2
  <2> QED  BY <2>2, <2>3 DEF Lost, Buffered
<1>2. Small({}, 0)
  BY SmallSets
<1>3. Owed \in Nat /\ Owed' \in Nat /\ MaxBatch \in Nat /\ crashes \in Nat
  BY Constants DEF Owed, TypeOK
<1>4. \/ crashes' = crashes + 1 /\ 0 + Owed' <= Owed + MaxBatch + 1
      \/ crashes' = crashes /\ 0 + Owed' <= Owed
  <2>1. \A o, p, q \in Nat : p <= o => 0 + p <= o /\ 0 + p <= o + q + 1
    OBVIOUS
  <2>2. 0 + Owed' <= Owed /\ 0 + Owed' <= Owed + MaxBatch + 1
    BY <1>3, <2>1
  <2> QED  BY <2>2
<1> QED  BY <1>1, <1>2, <1>4, LossStep

(* What an interrupted append can lose: results of the batch, all but one   *)
(* when it leaves a line without newline, and the line that the end of the  *)
(* file had made.                                                           *)
LEMMA AppendLoss ==
  ASSUME TypeOK, PartialAppend
  PROVE  \E X : \E n \in Nat :
           /\ Small(X, n) /\ n + Owed' <= Owed + MaxBatch + 1
           /\ Range(batch) \cup Range(lines) \subseteq Range(lines') \cup X
<1> DEFINE kept == IF tail = "open" THEN Front(lines) ELSE lines
           torn == IF tail = "open" THEN {Last(lines)} ELSE {}
           one == IF tail = "open" THEN 1 ELSE 0
<1>1. /\ lines \in Seq(Results) /\ batch \in Seq(Results)
      /\ tail \in {"whole", "cut", "open"} /\ (tail = "open" => lines # <<>>)
      /\ MaxBatch \in Nat \ {0}
  BY Constants DEF TypeOK, Tails
<1>2. Range(lines) \subseteq Range(kept) \cup torn
  BY <1>1, FrontRange
<1>3. Small(torn, one)
  BY SmallSets
<1>o. Owed \in Nat /\ one \in Nat /\ one <= Owed
  BY <1>1 DEF Owed
<1>4. Range(kept) \subseteq Range(lines')
  BY AppendKeeps
<1>5. \/ tail' # "open"
      \/ lines' = lines /\ tail' = tail
      \/ \E b \in Range(batch) : b \in Range(lines')
  <2> PICK p \in 0 .. Len(batch) :
      \/ /\ lines' = Appended(p)
         /\ tail' = IF p = 0 THEN tail ELSE "whole"
      \/ /\ p < Len(batch)
         /\ lines' = IF p = 0 /\ tail = "open" THEN Front(lines) ELSE Appended(p)
         /\ tail' = "cut"
      \/ /\ p < Len(batch)
         /\ p > 0 \/ tail = "whole"
         /\ lines' = Append(Appended(p), batch[p + 1])
         /\ tail' = "open"
    BY DEF PartialAppend
  <2>1. CASE lines' = Appended(p) /\ tail' = IF p = 0 THEN tail ELSE "whole"
    BY <2>1 DEF Appended
  <2>2. CASE p < Len(batch) /\ lines' = Append(Appended(p), batch[p + 1])
    <3>1. batch[p + 1] \in Results /\ batch[p + 1] \in Range(batch)
      BY <1>1, <2>2 DEF Range
    <3>2. Range(lines') = Range(Appended(p)) \cup {batch[p + 1]}
      BY <2>2, <3>1, AppendedFacts, AppendRange
    <3> QED  BY <3>1, <3>2
  <2> QED  BY <2>1, <2>2
<1> HIDE DEF kept, torn, one
<1>6. CASE tail' # "open"
  <2> DEFINE X == Range(batch) \cup torn
  <2>1. Small(X, MaxBatch + one)
    BY <1>1, <1>3, <1>o, SmallBatch, SmallUnion
  <2>2. Owed' \in {0, 1}
    <3>1. tail' \in {"whole", "cut", "open"}
      BY AppendType DEF Tails
    <3> QED  BY <1>6, <3>1 DEF Owed
  <2>3. (MaxBatch + one) + Owed' <= Owed + MaxBatch + 1 /\ MaxBatch + one \in Nat
    <3>1. \A m, i, o \in Nat : i <= o =>
            (m + i) + 0 <= o + m + 1 /\ (m + i) + 1 <= o + m + 1 /\ m + i \in Nat
      OBVIOUS
    <3> QED  BY <1>1, <1>o, <2>2, <3>1
  <2>4. Range(batch) \cup Range(lines) \subseteq Range(lines') \cup X
    BY <1>2, <1>4
  <2> QED  BY <2>1, <2>3, <2>4
<1>7. CASE lines' = lines /\ tail' = tail
  <2>1. Owed' = Owed
    BY <1>7 DEF Owed
  <2>2. MaxBatch \in Nat /\ MaxBatch + Owed' <= Owed + MaxBatch + 1
    BY <1>1, <1>o, <2>1
  <2> QED  BY <1>7, <2>2, SmallBatch
<1>8. ASSUME NEW b \in Range(batch), b \in Range(lines')
      PROVE  \E X : \E n \in Nat :
               /\ Small(X, n) /\ n + Owed' <= Owed + MaxBatch + 1
               /\ Range(batch) \cup Range(lines) \subseteq Range(lines') \cup X
  <2> DEFINE X == (Range(batch) \ {b}) \cup torn
  <2>0. MaxBatch - 1 \in Nat /\ Small(Range(batch) \ {b}, MaxBatch - 1)
    BY <1>1, SmallBatch
  <2>1. Small(X, MaxBatch - 1 + one)
    BY <1>3, <1>o, <2>0, SmallUnion
  <2>2. Owed' \in {0, 1, 2}
    BY DEF Owed
  <2>3. (MaxBatch - 1 + one) + Owed' <= Owed + MaxBatch + 1 /\ MaxBatch - 1 + one \in Nat
    <3>1. \A m \in Nat \ {0}, i, o \in Nat, p \in {0, 1, 2} : i <= o =>
            (m - 1 + i) + p <= o + m + 1 /\ m - 1 + i \in Nat
      OBVIOUS
    <3> QED  BY <1>1, <1>o, <2>2, <3>1
  <2>4. Range(batch) \cup Range(lines) \subseteq Range(lines') \cup X
    BY <1>2, <1>4, <1>8
  <2> QED  BY <2>1, <2>3, <2>4
<1> QED  BY <1>5, <1>6, <1>7, <1>8


(* A complete append: only the torn end of the file costs anything.         *)
LEMMA SaveLoss ==
  ASSUME TypeOK, SaveResultsToBuffer
  PROVE  \E X : /\ Small(X, Owed - Owed') /\ Owed - Owed' \in Nat
                /\ Range(batch) \cup Range(lines) \subseteq Range(lines') \cup X
<1>1. /\ lines \in Seq(Results) /\ batch \in Seq(Results) /\ Len(batch) \in Nat
      /\ tail \in {"whole", "cut", "open"} /\ (tail = "open" => lines # <<>>)
  BY DEF TypeOK, Tails
<1>2. lines' = Appended(Len(batch)) /\ tail' = IF batch = <<>> THEN tail ELSE "whole"
  BY DEF SaveResultsToBuffer
<1>3. CASE batch = <<>>
  <2>1. lines' = lines /\ Owed' = Owed
    BY <1>2, <1>3 DEF Appended, Owed
  <2>2. Range(batch) = {} /\ Owed - Owed' = 0
    BY <1>3, <2>1 DEF Range, Owed
  <2> QED  BY <2>1, <2>2, SmallSets
<1>4. CASE batch # <<>>
  <2> DEFINE rem == SubSeq(batch, 2, Len(batch))
             first == {batch[1]}
  <2>1. Len(batch) \in 1 .. Len(batch) /\ batch[1] \in Results
    BY <1>1, <1>4
  <2>2. rem \in Seq(Results) /\ Range(rem) = {batch[i] : i \in 2 .. Len(batch)}
    BY <1>1, <2>1, SubSeqRange
  <2>3. Range(batch) \subseteq first \cup Range(rem)
    BY <1>1, <2>1, <2>2, RangeOf
  <2>4. Owed' = 0
    BY <1>2, <1>4 DEF Owed
  <2>5. Small(first, 1)
    BY SmallSets
  <2> HIDE DEF rem, first
  <2>6. CASE tail = "whole"
    <3>1. lines' = lines \o SubSeq(batch, 1, Len(batch))
      BY <1>2, <2>1, <2>6 DEF Appended
    <3>2. SubSeq(batch, 1, Len(batch)) = batch
      BY <1>1
    <3>3. Range(lines') = Range(lines) \cup Range(batch)
      <4>1. lines' = lines \o batch
        BY <3>1, <3>2
      <4>2. Range(lines \o batch) = Range(lines) \cup Range(batch)
        BY <1>1, ConcatRange
      <4> QED  BY <4>1, <4>2
    <3>4. Owed = 0
      BY <2>6 DEF Owed
    <3>5. Owed - Owed' = 0
      BY <2>4, <3>4
    <3> QED  BY <3>3, <3>5, SmallSets
  <2>7. CASE tail = "cut"
    <3>1. lines' = lines \o rem
      BY <1>2, <2>1, <2>7 DEF Appended, rem
    <3>2. Range(lines') = Range(lines) \cup Range(rem)
      BY <1>1, <2>2, <3>1, ConcatRange
    <3>3. Owed - Owed' = 1
      BY <2>4, <2>7 DEF Owed
    <3> QED  BY <2>3, <2>5, <3>2, <3>3
  <2>8. CASE tail = "open"
    <3>1. lines' = Front(lines) \o rem
      BY <1>2, <2>1, <2>8 DEF Appended, rem
    <3>2. /\ Front(lines) \in Seq(Results)
          /\ Range(lines) = Range(Front(lines)) \cup {Last(lines)}
      BY <1>1, <2>8, FrontRange
    <3>3. Range(lines') = Range(Front(lines)) \cup Range(rem)
      BY <2>2, <3>1, <3>2, ConcatRange
    <3>4. Small({Last(lines)}, 1)
      BY SmallSets
    <3>5. Small(first \cup {Last(lines)}, 1 + 1)
      BY <2>5, <3>4, SmallUnion
    <3>6. Owed - Owed' = 1 + 1
      BY <2>4, <2>8 DEF Owed
    <3>7. Range(batch) \cup Range(lines) \subseteq Range(lines') \cup (first \cup {Last(lines)})
      BY <2>3, <3>2, <3>3
    <3> QED  BY <3>5, <3>6, <3>7
  <2> QED  BY <1>1, <2>6, <2>7, <2>8
<1> QED  BY <1>3, <1>4

LEMMA LossNext ==
  ASSUME ~ReadErrors, TypeOK, BatchInv, FlushInv, LossInv, [Next]_vars
  PROVE  LossInv'
<1> USE DEF server, disk, memory, history, Goto
<1> DEFINE Held == Range(batch) \cup Range(lines) \cup stored \cup refused
<1>e. Range(<<>>) = {}
  BY DEF Range
<1>o. UNCHANGED tail => Owed' <= Owed
  BY DEF Owed
<1>1. CASE Start \/ RegisterOk \/ SaveConfig \/ RegisterFails \/ HeartbeatUpdates \/ Unauthorized
  <2>1. /\ UNCHANGED <<lines, tail, born, crashes, stored>>
        /\ Range(batch) \cup refused \subseteq Range(batch') \cup refused'
    BY <1>1, <1>e DEF Start, RegisterOk, SaveConfig, RegisterFails, HeartbeatUpdates,
                      Unauthorized, Terminate, BatchInv
  <2> QED  BY <2>1, <1>o, NothingLost DEF Results
<1>2. CASE FlushRead \/ FlushAcked \/ FlushFails
  <2>1. /\ UNCHANGED <<lines, tail, born, crashes, batch, refused>>
        /\ stored \subseteq stored'
    BY <1>2 DEF FlushRead, FlushAcked, FlushFails
  <2> QED  BY <2>1, <1>o, NothingLost DEF Results
<1>3. CASE FlushReadFails
  BY <1>3 DEF FlushReadFails
<1>4. CASE FlushWrite
  <2>1. /\ Range(batch) \subseteq stored /\ lines' = rest /\ tail' = "whole"
        /\ UNCHANGED <<stored, refused, born, crashes>>
    BY <1>4 DEF FlushWrite, BatchInv
  <2>2. \A k \in Range(lines) : k \in Range(lines') \cup stored \/ Expired(k)
    BY <1>4, <2>1 DEF FlushWrite, FlushInv, Flushing
  <2>3. Owed' <= Owed
    BY <2>1 DEF Owed
  <2> QED  BY <2>1, <2>2, <2>3, NothingLost DEF Results
<1>5. CASE FlushWriteFails
  <2>1. /\ Range(batch) \subseteq stored /\ crashes' = crashes + 1
        /\ UNCHANGED <<lines, tail, stored, refused, born>>
    BY <1>5 DEF FlushWriteFails, BatchInv
  <2> QED  BY <2>1, <1>o, NothingLost DEF Results
<1>6. CASE SpecSkip \/ SpecFetched \/ SpecFails \/ HeartbeatSkip \/ HeartbeatDone \/ MeasureNone
  <2>1. UNCHANGED <<lines, tail, born, crashes, batch, stored, refused>>
    BY <1>6 DEF SpecSkip, SpecFetched, SpecFails, HeartbeatSkip, HeartbeatDone, MeasureNone
  <2> QED  BY <2>1, <1>o, NothingLost DEF Results
<1>7. CASE Measure
  <2>1. /\ batch = <<>> /\ UNCHANGED <<lines, tail, crashes, stored, refused>>
    BY <1>7 DEF Measure, BatchInv
  <2>2. Range(batch') = Results' \ Results
    BY <1>7, MeasureFacts
  <2> QED  BY <2>1, <2>2, <1>e, <1>o, NothingLost
<1>8. CASE SendAcked \/ SendFails
  <2>1. /\ UNCHANGED <<lines, tail, born, crashes, batch, refused>>
        /\ stored \subseteq stored'
    BY <1>8 DEF SendAcked, SendFails
  <2> QED  BY <2>1, <1>o, NothingLost DEF Results
<1>9. CASE SaveResultsToBuffer
  <2>1. PICK X : /\ Small(X, Owed - Owed') /\ Owed - Owed' \in Nat
                 /\ Range(batch) \cup Range(lines) \subseteq Range(lines') \cup X
    BY <1>9, SaveLoss
  <2>2. UNCHANGED <<stored, refused, born, crashes>>
    BY <1>9 DEF SaveResultsToBuffer
  <2>3. Lost' \subseteq Lost \cup X
    <3> SUFFICES ASSUME NEW k \in Lost', k \notin X
                 PROVE  k \in Lost
      OBVIOUS
    <3>1. k \in Results /\ ~Expired(k)
      BY <2>2, ExpiredStays DEF Lost, Results
    <3> QED  BY <2>1, <2>2, <3>1 DEF Lost, Buffered
  <2>4. crashes' = crashes /\ (Owed - Owed') + Owed' <= Owed
    BY <2>1, <2>2 DEF Owed
  <2> QED  BY <2>1, <2>3, <2>4, LossStep
<1>10. CASE (AppendFails \/ Kill) /\ pc = "append"
  <2>1. PICK X : \E n \in Nat :
                 /\ Small(X, n) /\ n + Owed' <= Owed + MaxBatch + 1
                 /\ Range(batch) \cup Range(lines) \subseteq Range(lines') \cup X
    BY <1>10, AppendLoss DEF AppendFails, Kill
  <2>2. UNCHANGED <<stored, refused, born>> /\ crashes' = crashes + 1
    BY <1>10 DEF AppendFails, Kill
  <2>3. Lost' \subseteq Lost \cup X
    <3> SUFFICES ASSUME NEW k \in Lost', k \notin X
                 PROVE  k \in Lost
      OBVIOUS
    <3>1. k \in Results /\ ~Expired(k)
      BY <2>2, ExpiredStays DEF Lost, Results
    <3> QED  BY <2>1, <2>2, <3>1 DEF Lost, Buffered
  <2> QED  BY <2>1, <2>2, <2>3, LossStep
<1>11. CASE Kill /\ pc # "append"
  <2>1. UNCHANGED <<lines, tail, stored, refused, born>> /\ crashes' = crashes + 1
    BY <1>11 DEF Kill
  <2>2. Lost' \subseteq Lost \cup Range(batch)
    <3> SUFFICES ASSUME NEW k \in Lost', k \notin Range(batch)
                 PROVE  k \in Lost
      OBVIOUS
    <3>1. k \in Results /\ ~Expired(k)
      BY <2>1, ExpiredStays DEF Lost, Results
    <3> QED  BY <2>1, <3>1 DEF Lost, Buffered
  <2>3. MaxBatch \in Nat /\ Owed' = Owed /\ Owed \in Nat
    BY <2>1, Constants DEF Owed
  <2>4. MaxBatch + Owed' <= Owed + MaxBatch + 1
    BY <2>3
  <2> QED  BY <2>1, <2>2, <2>3, <2>4, SmallBatch, LossStep
<1>12. CASE DeleteProbe \/ Tick \/ UNCHANGED vars
  <2>1. UNCHANGED <<lines, tail, born, crashes, batch, stored, refused>>
    BY <1>12 DEF DeleteProbe, Tick, vars
  <2> QED  BY <2>1, <1>o, NothingLost DEF Results
<1> QED
  BY <1>1, <1>2, <1>3, <1>4, <1>5, <1>6, <1>7, <1>8, <1>9, <1>10, <1>11, <1>12
  DEF Next, Running, Flush, Loop, AppendFails

LEMMA LossInit == Init => LossInv
<1> SUFFICES ASSUME Init PROVE LossInv
  OBVIOUS
<1>1. Lost = {} /\ Owed = 0 /\ crashes = 0
  BY DEF Init, Lost, Results, Owed
<1>2. 0 * (MaxBatch + 1) = 0 /\ Cardinality({}) = 0
  BY Constants, FS_EmptySet
<1> QED  BY <1>1, <1>2 DEF LossInv

(* Only kills and disk errors lose results: each at most a round and one    *)
(* more, however many rounds, flushes, restarts and failed calls there are. *)
THEOREM OnlyCrashesLose ==
  ASSUME ~ReadErrors
  PROVE  Spec => []LossNeedsCrash
<1>1. TypeOK /\ LossInv => LossNeedsCrash
  <2> SUFFICES ASSUME TypeOK, LossInv PROVE LossNeedsCrash
    OBVIOUS
  <2>1. Cardinality(Lost) \in Nat /\ Owed \in Nat
    BY LostIsFinite DEF Owed
  <2>2. crashes \in Nat /\ MaxBatch \in Nat
    BY Constants DEF TypeOK
  <2>3. crashes * (MaxBatch + 1) \in Nat
    BY <2>2
  <2> QED  BY <2>1, <2>3 DEF LossInv, LossNeedsCrash
<1>2. TypeOK /\ BatchInv /\ FlushInv /\ LossInv /\ [Next]_vars => LossInv'
  BY LossNext
<1> QED  BY <1>1, <1>2, LossInit, BatchAndFlushAlways, PTL DEF Spec

--------------------------------------------------------------------------------
(* What was answered                                                        *)

LEMMA CleanNext == TypeOK /\ CleanInv /\ [Next]_vars => CleanInv'
<1> SUFFICES ASSUME TypeOK, CleanInv, [Next]_vars, crashes' = 0
             PROVE  CleanInv'
  BY DEF CleanInv
<1> USE DEF server, disk, memory, history, Goto, Flushing
<1>0. crashes = 0
  <2>1. crashes' = crashes \/ crashes' = crashes + 1
    BY DEF Next, Running, Flush, Loop, vars, Start, RegisterOk,
       RegisterFails, SaveConfig, Unauthorized, FlushRead, FlushReadFails, FlushAcked,
       FlushFails, FlushWrite, FlushWriteFails, SpecSkip, SpecFetched, SpecFails,
       HeartbeatSkip, HeartbeatDone, HeartbeatUpdates, MeasureNone, Measure, SendAcked,
       SendFails, SaveResultsToBuffer, AppendFails, Kill, DeleteProbe, Tick
  <2>2. crashes \in Nat
    BY Constants DEF TypeOK
  <2> QED  BY <2>1, <2>2
<1>c. ~(FlushReadFails \/ FlushWriteFails \/ AppendFails \/ Kill)
  BY <1>0 DEF FlushReadFails, FlushWriteFails, AppendFails, Kill
<1>i. /\ tail = "whole" /\ IsInjective(lines) /\ IsInjective(batch)
      /\ pc \in {"send", "append"} => Range(batch) \cap (Range(lines) \cup acked) = {}
      /\ Flushing => IsInjective(rest) /\ acked \cap Range(rest) = {}
      /\ ~Flushing => acked \cap Range(lines) = {}
  BY <1>0 DEF CleanInv
<1>e. Range(<<>>) = {} /\ IsInjective(<<>>)
  BY DEF Range, IsInjective
<1>1. CASE Start \/ RegisterOk \/ SaveConfig \/ RegisterFails \/ HeartbeatUpdates \/ Unauthorized
  BY <1>1, <1>i, <1>e DEF CleanInv, Start, RegisterOk, SaveConfig, RegisterFails,
                         HeartbeatUpdates, Unauthorized, Terminate
<1>2. CASE FlushRead
  <2> DEFINE I == {i \in DOMAIN lines : ~Expired(lines[i])}
  <2>1. lines \in Seq(Results) /\ I \in SUBSET DOMAIN lines /\ rest' = At(lines, I)
    BY <1>2 DEF FlushRead, TypeOK
  <2>2. \A i, j \in I : lines[i] = lines[j] => i = j
    BY <1>i DEF IsInjective
  <2> HIDE DEF I
  <2>3. IsInjective(rest')
    BY <2>1, <2>2, AtInjective
  <2>4. Range(rest') \subseteq Range(lines)
    <3>1. Range(rest') = {lines[i] : i \in I}
      BY <2>1, AtRange
    <3>2. \A i \in I : i \in DOMAIN lines
      BY <2>1
    <3> QED  BY <3>1, <3>2 DEF Range
  <2> QED  BY <1>2, <1>i, <2>3, <2>4 DEF CleanInv, FlushRead
<1>3. CASE FlushAcked
  <2>1. IsInjective(rest') /\ (acked' \cap Range(rest')) = {}
    BY <1>3, <1>i, FlushTypes DEF FlushAcked
  <2>2. pc' \in {"flushSend", "flushWrite"} /\ UNCHANGED <<lines, tail, batch>>
    BY <1>3 DEF FlushAcked
  <2> QED  BY <1>i, <2>1, <2>2 DEF CleanInv
<1>4. CASE FlushFails
  BY <1>4, <1>i DEF CleanInv, FlushFails
<1>5. CASE FlushWrite
  BY <1>5, <1>i, <1>e DEF CleanInv, FlushWrite
<1>6. CASE SpecSkip \/ SpecFetched \/ SpecFails \/ HeartbeatSkip \/ HeartbeatDone \/ MeasureNone
  BY <1>6, <1>i DEF CleanInv, SpecSkip, SpecFetched, SpecFails, HeartbeatSkip, HeartbeatDone,
                    MeasureNone
<1>7. CASE Measure
  <2>1. Range(batch') = Results' \ Results /\ IsInjective(batch')
    BY <1>7, MeasureFacts
  <2>2. Range(lines) \cup acked \subseteq Results
    BY RangeOf DEF TypeOK
  <2>3. UNCHANGED <<lines, tail, acked>> /\ pc = "measure" /\ pc' = "send"
    BY <1>7 DEF Measure
  <2> QED  BY <1>i, <2>1, <2>2, <2>3 DEF CleanInv
<1>8. CASE SendAcked \/ SendFails
  BY <1>8, <1>i DEF CleanInv, SendAcked, SendFails
<1>9. CASE SaveResultsToBuffer
  <2>1. lines \in Seq(Results) /\ batch \in Seq(Results) /\ pc = "append"
    BY <1>9 DEF SaveResultsToBuffer, TypeOK
  <2>2. lines' = lines \o batch
    <3>1. CASE batch = <<>>
      BY <1>9, <2>1, <3>1 DEF SaveResultsToBuffer, Appended
    <3>2. CASE batch # <<>>
      <4>1. Len(batch) # 0 /\ SubSeq(batch, 1, Len(batch)) = batch
        BY <2>1, <3>2
      <4> QED  BY <1>9, <1>i, <4>1 DEF SaveResultsToBuffer, Appended
    <3> QED  BY <3>1, <3>2
  <2>3. Range(batch) \cap (Range(lines) \cup acked) = {} /\ acked \cap Range(lines) = {}
    BY <1>i, <2>1
  <2>4. IsInjective(lines') /\ Range(lines') = Range(lines) \cup Range(batch)
    BY <1>i, <2>1, <2>2, <2>3, ConcatInjective, ConcatRange
  <2>5. tail' = "whole" /\ batch' = <<>> /\ pc' = "spec" /\ acked' = acked
    BY <1>9, <1>i DEF SaveResultsToBuffer
  <2> QED  BY <2>3, <2>4, <2>5, <1>e DEF CleanInv
<1>10. CASE DeleteProbe \/ Tick \/ UNCHANGED vars
  BY <1>10, <1>i DEF CleanInv, DeleteProbe, Tick, vars
<1> QED
  BY <1>1, <1>2, <1>3, <1>4, <1>5, <1>6, <1>7, <1>8, <1>9, <1>10, <1>c
  DEF Next, Running, Flush, Loop

(* While nothing was killed and the disk works no result whose report was   *)
(* answered is in the buffer, so that none is sent a second time.           *)
THEOREM AnsweredStaysOut == Spec => []AnsweredIsNotResent
<1>1. Init => CleanInv
  BY DEF Init, CleanInv, Flushing, Range, IsInjective
<1>2. CleanInv => AnsweredIsNotResent
  BY DEF CleanInv, AnsweredIsNotResent, Flushing, Buffered
<1> QED  BY <1>1, <1>2, CleanNext, ClientTypeCorrect, PTL DEF Spec

================================================================================
