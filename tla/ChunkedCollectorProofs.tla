------------------------ MODULE ChunkedCollectorProofs ------------------------
(***************************************************************************)
(* ChunkedCollector for every number of spans, flushers and collects:      *)
(* nothing that was collected is sent twice, sent after it was dropped, or *)
(* lost without an error, the size of the queue is accounted for, and a    *)
(* lone flusher sends in order.                                            *)
(***************************************************************************)
EXTENDS ChunkedCollector, InductionLemmas, TLAPS

LEMMA TypeStep == TypeOK /\ [Next]_vars => TypeOK'
<1> SUFFICES ASSUME TypeOK, [Next]_vars PROVE TypeOK'
  OBVIOUS
<1> USE DEF TypeOK, queueVars
<1>1. ASSUME NEW i \in Item, CollectQueues(i) PROVE TypeOK'
  <2>1. i.size \in Nat /\ i.id \in 1..MaxCalls
    BY SizesAssumption DEF Item
  <2>2. queueSizeBytes' \in Nat /\ calls' \in 0..MaxCalls
    BY <1>1, <2>1, BoundAssumption DEF CollectQueues, Brings
  <2>3. lastErr' \in Error
    BY <1>1 DEF CollectQueues, Error
  <2>4. owed' \subseteq Item /\ pending' \subseteq Item
    BY <1>1 DEF CollectQueues
  <2>5. bg' \in {"unstarted", "waiting", "flushing", "exited"}
    BY <1>1 DEF CollectQueues, Brings, StartIfNeeded
  <2> QED
    BY <1>1, <2>2, <2>3, <2>4, <2>5 DEF CollectQueues
<1>2. ASSUME NEW i \in Item, CollectDrops(i) PROVE TypeOK'
  BY <1>2, BoundAssumption DEF CollectDrops, Brings, StartIfNeeded, Item
<1>3. ASSUME NEW f \in Flushers, TakeQueue(f), bg' \in {bg, "flushing"} PROVE TypeOK'
  BY <1>3 DEF TakeQueue, Idle, Error
<1>4. ASSUME NEW f \in Manual, ManualReturn(f) PROVE TypeOK'
  BY <1>4 DEF ManualReturn, Done, Idle, Error, Flushers
<1>5. ASSUME NEW f \in Flushers, NEW s \in Spans, Send(f, s) PROVE TypeOK'
  <2>1. PICK ok \in BOOLEAN, late \in BOOLEAN : Round(f, s, ok, late)
    BY <1>5, BoundAssumption DEF Send
  <2>2. Group(f, s) \subseteq Item /\ Rest(f, s) \subseteq Item
    BY DEF Group, Rest
  <2>3. flush[f].errs \in Error /\ flush[f].gone \subseteq Item
    OBVIOUS
  <2>4. lost' \subseteq Item /\ sent' \subseteq Item
    BY <2>1, <2>2 DEF Round
  <2>5. flush' \in [Flushers -> [on : BOOLEAN, batch : SUBSET Item,
                                errs : Error, gone : SUBSET Item]]
    BY <2>1, <2>2, <2>3 DEF Round, Error
  <2> QED
    BY <1>5, <2>4, <2>5 DEF Send
<1>6. CASE TimerReturn
  BY <1>6 DEF TimerReturn, Done, Idle, Error, Flushers
<1>7. CASE Exit \/ Stop \/ StopPanics \/ UNCHANGED vars
  BY <1>7 DEF Exit, Stop, StopPanics, vars
<1> QED
  BY <1>1, <1>2, <1>3, <1>4, <1>5, <1>6, <1>7
  DEF Next, ManualFlush, TimerFlush, Flushers

-----------------------------------------------------------------------------
(* A flusher between two flushes holds nothing.                            *)
IdleIsClean == \A f \in Flushers : ~flush[f].on => flush[f] = Idle

(* The inductive invariant: OnePlace and NothingVanishes rest on each      *)
(* other, since an item is new when its number is.                         *)
Inv == TypeOK /\ OnePlace /\ NothingVanishes /\ LossIsReported /\ IdleIsClean

LEMMA InitInv == Init => Inv
<1> SUFFICES ASSUME Init PROVE Inv
  OBVIOUS
<1>1. \A f \in Flushers : flush[f] = Idle
  BY DEF Init
<1>2. InBatch = {} /\ Everywhere = {}
  BY <1>1 DEF InBatch, Everywhere, Idle, Init
<1>3. TypeOK
  <2>1. {} \in Error
    BY DEF Error
  <2>2. Idle \in [on : BOOLEAN, batch : SUBSET Item, errs : Error, gone : SUBSET Item]
    BY <2>1 DEF Idle
  <2>3. flush \in [Flushers -> [on : BOOLEAN, batch : SUBSET Item,
                               errs : Error, gone : SUBSET Item]]
    BY <2>2 DEF Init
  <2>4. calls \in 0..MaxCalls /\ queueSizeBytes \in Nat
    BY BoundAssumption DEF Init
  <2> QED
    BY <2>1, <2>3, <2>4 DEF Init, TypeOK
<1>4. OnePlace
  BY <1>1, <1>2 DEF OnePlace, Idle, Init
<1>5. NothingVanishes
  <2>1. {i.id : i \in Everywhere} = {}
    BY <1>2
  <2>2. 1..calls = {}
    BY DEF Init
  <2> QED
    BY <2>1, <2>2 DEF NothingVanishes
<1>6. LossIsReported /\ IdleIsClean
  BY <1>1 DEF LossIsReported, IdleIsClean, Idle, Init
<1> QED
  BY <1>3, <1>4, <1>5, <1>6 DEF Inv

LEMMA NewItem ==
  ASSUME TypeOK, NothingVanishes, NEW i \in Item, Brings(i)
  PROVE  /\ i \notin Everywhere
         /\ {x.id : x \in Everywhere \cup {i}} = 1..calls'
<1>1. i.id = calls + 1 /\ calls' = calls + 1 /\ calls \in Nat
  BY BoundAssumption DEF Brings, TypeOK
<1>2. i.id \notin 1..calls
  BY <1>1
<1>3. i \notin Everywhere
  BY <1>2 DEF NothingVanishes
<1>4. {x.id : x \in Everywhere \cup {i}} = {x.id : x \in Everywhere} \cup {i.id}
  OBVIOUS
<1>5. (1..calls) \cup {calls + 1} = 1..(calls + 1)
  BY <1>1
<1> QED
  BY <1>1, <1>3, <1>4, <1>5 DEF NothingVanishes

LEMMA CollectQueuesInv ==
  ASSUME Inv, NEW i \in Item, CollectQueues(i)
  PROVE  OnePlace' /\ NothingVanishes' /\ LossIsReported' /\ IdleIsClean'
<1>1. Everywhere' = Everywhere \cup {i}
  BY DEF CollectQueues, Everywhere, InBatch
<1>2. i \notin Everywhere
  BY NewItem DEF Inv, CollectQueues
<1>3. NothingVanishes'
  BY <1>1, NewItem DEF Inv, CollectQueues, NothingVanishes
<1>4. OnePlace'
  BY <1>2 DEF Inv, CollectQueues, OnePlace, Everywhere, InBatch
<1>5. LossIsReported'
  BY DEF Inv, CollectQueues, LossIsReported
<1>6. IdleIsClean'
  BY DEF Inv, CollectQueues, IdleIsClean
<1> QED
  BY <1>3, <1>4, <1>5, <1>6

LEMMA CollectDropsInv ==
  ASSUME Inv, NEW i \in Item, CollectDrops(i)
  PROVE  OnePlace' /\ NothingVanishes' /\ LossIsReported' /\ IdleIsClean'
<1>1. Everywhere' = Everywhere \cup {i}
  BY DEF CollectDrops, Everywhere, InBatch
<1>2. i \notin Everywhere
  BY NewItem DEF Inv, CollectDrops
<1>3. NothingVanishes'
  BY <1>1, NewItem DEF Inv, CollectDrops, NothingVanishes
<1>4. OnePlace'
  BY <1>2 DEF Inv, CollectDrops, OnePlace, Everywhere, InBatch
<1>5. LossIsReported' /\ IdleIsClean'
  BY DEF Inv, CollectDrops, LossIsReported, IdleIsClean
<1> QED
  BY <1>3, <1>4, <1>5

LEMMA TakeQueueInv ==
  ASSUME Inv, NEW f \in Flushers, TakeQueue(f)
  PROVE  OnePlace' /\ NothingVanishes' /\ LossIsReported' /\ IdleIsClean'
<1>1. flush[f] = Idle
  BY DEF Inv, IdleIsClean, TakeQueue
<1>2. /\ flush'[f].batch = pending /\ flush'[f].on
      /\ flush'[f].errs = {} /\ flush'[f].gone = {}
      /\ \A g \in Flushers \ {f} : flush'[g] = flush[g]
      /\ pending' = {} /\ UNCHANGED <<lastErr, calls, sent, lost, owed>>
  BY DEF TakeQueue, Inv, TypeOK, Idle
<1>3. Everywhere' = Everywhere /\ InBatch' = InBatch \cup pending
  BY <1>1, <1>2 DEF Everywhere, InBatch, Idle
<1>4. NothingVanishes'
  BY <1>2, <1>3 DEF Inv, NothingVanishes
<1>5. OnePlace'
  <2>1. ASSUME NEW g \in Flushers, NEW h \in Flushers, g # h
        PROVE  flush'[g].batch \cap flush'[h].batch = {}
    BY <1>2, <2>1 DEF Inv, OnePlace, InBatch
  <2>2. (InBatch \cup pending) \cap (sent \cup lost) = {} /\ sent \cap lost = {}
    BY DEF Inv, OnePlace
  <2> QED
    BY <1>2, <1>3, <2>1, <2>2 DEF OnePlace
<1>6. LossIsReported' /\ IdleIsClean'
  BY <1>2 DEF Inv, LossIsReported, IdleIsClean
<1> QED
  BY <1>4, <1>5, <1>6

LEMMA SendInv ==
  ASSUME Inv, NEW f \in Flushers, NEW s \in Spans, Send(f, s)
  PROVE  OnePlace' /\ NothingVanishes' /\ LossIsReported' /\ IdleIsClean'
<1>1. PICK ok \in BOOLEAN, late \in BOOLEAN : Round(f, s, ok, late)
  BY BoundAssumption DEF Send
<1> DEFINE batch == flush[f].batch
           gone  == (IF ok THEN {} ELSE Group(f, s)) \cup (IF late THEN Rest(f, s) ELSE {})
           took  == IF ok THEN Group(f, s) ELSE {}
           left  == IF late THEN {} ELSE Rest(f, s)
<1>2. /\ batch = gone \cup took \cup left
      /\ gone \cap took = {} /\ gone \cap left = {} /\ took \cap left = {}
  BY DEF Group, Rest
<1>3. /\ flush'[f].batch = left /\ flush'[f].on
      /\ flush'[f].gone = flush[f].gone \cup gone
      /\ gone # {} => flush'[f].errs # {}
      /\ flush[f].errs \subseteq flush'[f].errs
      /\ \A g \in Flushers \ {f} : flush'[g] = flush[g]
  BY <1>1 DEF Round, Inv, TypeOK
<1>4. /\ lost' = lost \cup gone /\ sent' = sent \cup took
      /\ UNCHANGED <<pending, lastErr, calls, owed>>
  BY <1>1 DEF Round, Send, queueVars
<1> HIDE DEF gone, took, left
<1>5. InBatch = InBatch' \cup gone \cup took /\ InBatch' \cap (gone \cup took) = {}
  <2>1. \A g \in Flushers \ {f} : flush'[g].batch \cap (gone \cup took) = {}
    BY <1>2, <1>3 DEF Inv, OnePlace
  <2> QED
    BY <1>2, <1>3, <2>1 DEF InBatch
<1>6. NothingVanishes'
  <2>1. Everywhere' = Everywhere
    BY <1>4, <1>5 DEF Everywhere
  <2> QED
    BY <1>4, <2>1 DEF Inv, NothingVanishes
<1>7. OnePlace'
  <2>1. ASSUME NEW g \in Flushers, NEW h \in Flushers, g # h
        PROVE  flush'[g].batch \cap flush'[h].batch = {}
    BY <1>2, <1>3, <2>1 DEF Inv, OnePlace
  <2>2. InBatch' \cap (pending' \cup sent' \cup lost') = {}
    BY <1>4, <1>5 DEF Inv, OnePlace
  <2>3. pending' \cap (sent' \cup lost') = {} /\ sent' \cap lost' = {}
    BY <1>2, <1>4, <1>5 DEF Inv, OnePlace
  <2> QED
    BY <2>1, <2>2, <2>3 DEF OnePlace
<1>8. LossIsReported' /\ IdleIsClean'
  BY <1>3, <1>4 DEF Inv, LossIsReported, IdleIsClean
<1> QED
  BY <1>6, <1>7, <1>8

LEMMA DoneInv ==
  ASSUME Inv, NEW f \in Flushers, Done(f), UNCHANGED <<pending, calls, sent, lost>>
  PROVE  /\ OnePlace' /\ NothingVanishes' /\ IdleIsClean'
         /\ \A g \in Flushers : flush'[g].gone # {} => flush'[g].errs # {}
<1>1. /\ flush[f].batch = {} /\ flush'[f] = Idle
      /\ \A g \in Flushers \ {f} : flush'[g] = flush[g]
      /\ \A g \in Flushers : flush'[g].batch = flush[g].batch
  BY DEF Done, Inv, TypeOK, Idle
<1>2. InBatch' = InBatch
  BY <1>1 DEF InBatch
<1>3. OnePlace'
  BY <1>1, <1>2 DEF Inv, OnePlace
<1>4. NothingVanishes'
  BY <1>2 DEF Inv, NothingVanishes, Everywhere
<1> QED
  BY <1>1, <1>3, <1>4 DEF Inv, IdleIsClean, LossIsReported, Idle

LEMMA NextInv == Inv /\ [Next]_vars => Inv'
<1> SUFFICES ASSUME Inv, [Next]_vars
             PROVE  OnePlace' /\ NothingVanishes' /\ LossIsReported' /\ IdleIsClean'
  BY TypeStep DEF Inv
<1>1. ASSUME NEW i \in Item, CollectQueues(i) \/ CollectDrops(i)
      PROVE  OnePlace' /\ NothingVanishes' /\ LossIsReported' /\ IdleIsClean'
  BY <1>1, CollectQueuesInv, CollectDropsInv
<1>2. ASSUME NEW f \in Flushers, TakeQueue(f)
      PROVE  OnePlace' /\ NothingVanishes' /\ LossIsReported' /\ IdleIsClean'
  BY <1>2, TakeQueueInv
<1>3. ASSUME NEW f \in Manual, ManualReturn(f)
      PROVE  OnePlace' /\ NothingVanishes' /\ LossIsReported' /\ IdleIsClean'
  BY <1>3, DoneInv DEF ManualReturn, Flushers, queueVars, LossIsReported, Inv
<1>4. ASSUME NEW f \in Flushers, NEW s \in Spans, Send(f, s)
      PROVE  OnePlace' /\ NothingVanishes' /\ LossIsReported' /\ IdleIsClean'
  BY <1>4, SendInv
<1>5. CASE TimerReturn
  <2>1. "bg" \in Flushers
    BY DEF Flushers
  <2>2. owed' # {} => lastErr' # {}
    BY <1>5, <2>1 DEF TimerReturn, Inv, LossIsReported
  <2> QED
    BY <1>5, <2>1, <2>2, DoneInv DEF TimerReturn, queueVars, LossIsReported
<1>6. CASE Exit \/ Stop \/ StopPanics \/ UNCHANGED vars
  BY <1>6 DEF Exit, Stop, StopPanics, vars, queueVars, Inv, OnePlace, NothingVanishes,
     LossIsReported, IdleIsClean, Everywhere, InBatch
<1> QED
  BY <1>1, <1>2, <1>3, <1>4, <1>5, <1>6 DEF Next, ManualFlush, TimerFlush, Flushers

LEMMA Invariance == Spec => []Inv
  BY InitInv, NextInv, PTL DEF Spec

(* ChunkedCollector: its fields and the flushes under way keep their types.*)
THEOREM TypeCorrect == Spec => []TypeOK
<1>1. Inv => TypeOK
  BY DEF Inv
<1> QED
  BY <1>1, Invariance, PTL

(* Collect and Flush: an item is in the queue, in one batch, sent, or      *)
(* lost, and never in two of them: nothing is sent twice.                  *)
THEOREM SentAtMostOnce == Spec => []OnePlace
<1>1. Inv => OnePlace
  BY DEF Inv
<1> QED
  BY <1>1, Invariance, PTL

(* Collect and Flush: every item that Collect took is in one of them.      *)
THEOREM AllAccountedFor == Spec => []NothingVanishes
<1>1. Inv => NothingVanishes
  BY DEF Inv
<1> QED
  BY <1>1, Invariance, PTL

(* Flush and Collect: a loss in the background leaves an error in          *)
(* cc.lastErr until a Collect returns one.                                 *)
THEOREM NoSilentLoss == Spec => []LossIsReported
<1>1. Inv => LossIsReported
  BY DEF Inv
<1> QED
  BY <1>1, Invariance, PTL

-----------------------------------------------------------------------------
(* The refinement: a round of a flush takes two disjoint parts out of the  *)
(* batches, one that was sent and one that is lost.                        *)
Queued == pending \cup InBatch

LEMMA SendMoves ==
  ASSUME Inv, NEW f \in Flushers, NEW s \in Spans, Send(f, s)
  PROVE  \E took, gone \in SUBSET InBatch :
            /\ took \cap gone = {} /\ InBatch' = InBatch \ (took \cup gone)
            /\ sent' = sent \cup took /\ lost' = lost \cup gone /\ pending' = pending
<1>1. PICK ok \in BOOLEAN, late \in BOOLEAN : Round(f, s, ok, late)
  BY BoundAssumption DEF Send
<1> DEFINE gone == (IF ok THEN {} ELSE Group(f, s)) \cup (IF late THEN Rest(f, s) ELSE {})
           took == IF ok THEN Group(f, s) ELSE {}
           left == IF late THEN {} ELSE Rest(f, s)
<1>2. /\ flush[f].batch = gone \cup took \cup left
      /\ gone \cap took = {} /\ gone \cap left = {} /\ took \cap left = {}
  BY DEF Group, Rest
<1>3. flush'[f].batch = left /\ \A g \in Flushers \ {f} : flush'[g] = flush[g]
  BY <1>1 DEF Round, Inv, TypeOK
<1>4. sent' = sent \cup took /\ lost' = lost \cup gone /\ pending' = pending
  BY <1>1 DEF Round, Send, queueVars
<1> HIDE DEF gone, took, left
<1>5. \A g \in Flushers \ {f} : flush[g].batch \cap (gone \cup took) = {}
  BY <1>2 DEF Inv, OnePlace
<1>6. InBatch' = InBatch \ (took \cup gone) /\ took \subseteq InBatch /\ gone \subseteq InBatch
  BY <1>2, <1>3, <1>5 DEF InBatch
<1> QED
  BY <1>2, <1>4, <1>6

LEMMA StepRefines ==
  Inv /\ Next => Abstract!Next \/ UNCHANGED <<Queued, sent, lost>>
<1> SUFFICES ASSUME Inv, Next PROVE Abstract!Next \/ UNCHANGED <<Queued, sent, lost>>
  OBVIOUS
<1>1. ASSUME NEW i \in Item, Brings(i) PROVE i \in Abstract!New
  BY <1>1, NewItem DEF Abstract!New, Everywhere, Inv
<1>2. ASSUME NEW i \in Item, CollectQueues(i) PROVE Abstract!Next
  <2>1. Queued' = Queued \cup {i} /\ UNCHANGED <<sent, lost>> /\ i \in Abstract!New
    BY <1>1, <1>2 DEF CollectQueues, Queued, InBatch
  <2> QED
    BY <2>1 DEF Abstract!Next, Abstract!Accept, Queued
<1>3. ASSUME NEW i \in Item, CollectDrops(i) PROVE Abstract!Next
  <2>1. /\ i \in Abstract!New /\ pending' = {} /\ lost' = lost \cup pending \cup {i}
        /\ sent' = sent /\ InBatch' = InBatch
    BY <1>1, <1>3 DEF CollectDrops, InBatch
  <2>2. Queued' = Queued \ pending /\ pending \in SUBSET Queued
    BY <2>1 DEF Queued, Inv, OnePlace
  <2>3. Abstract!Reject(i, pending)
    BY <2>1, <2>2 DEF Abstract!Reject, Queued
  <2> QED
    BY <2>2, <2>3 DEF Abstract!Next, Queued
<1>4. ASSUME NEW f \in Flushers, TakeQueue(f) PROVE UNCHANGED <<Queued, sent, lost>>
  <2>1. flush[f] = Idle
    BY <1>4 DEF Inv, IdleIsClean, TakeQueue
  <2>2. /\ flush'[f].batch = pending /\ \A g \in Flushers \ {f} : flush'[g] = flush[g]
        /\ pending' = {} /\ UNCHANGED <<sent, lost>>
    BY <1>4 DEF TakeQueue, Inv, TypeOK, Idle
  <2>3. InBatch' = InBatch \cup pending
    BY <2>1, <2>2 DEF InBatch, Idle
  <2> QED
    BY <2>2, <2>3 DEF Queued
<1>5. ASSUME NEW f \in Flushers, NEW s \in Spans, Send(f, s) PROVE Abstract!Next
  <2>1. PICK took \in SUBSET InBatch, gone \in SUBSET InBatch :
            /\ took \cap gone = {} /\ InBatch' = InBatch \ (took \cup gone)
            /\ sent' = sent \cup took /\ lost' = lost \cup gone /\ pending' = pending
    BY <1>5, SendMoves
  <2>2. Queued' = Queued \ (took \cup gone)
    BY <2>1 DEF Queued, Inv, OnePlace
  <2>3. took \in SUBSET Queued /\ gone \in SUBSET Queued
    BY DEF Queued
  <2>4. Abstract!PassOnAndDrop(took, gone)
    BY <2>1, <2>2 DEF Abstract!PassOnAndDrop, Queued
  <2> QED
    BY <2>3, <2>4 DEF Abstract!Next, Queued
<1>6. ASSUME NEW f \in Flushers, Done(f), UNCHANGED <<pending, sent, lost>>
      PROVE  UNCHANGED <<Queued, sent, lost>>
  <2>1. \A g \in Flushers : flush'[g].batch = flush[g].batch
    BY <1>6 DEF Done, Inv, TypeOK, Idle
  <2> QED
    BY <1>6, <2>1 DEF Queued, InBatch
<1>7. CASE Exit \/ Stop \/ StopPanics
  BY <1>7 DEF Exit, Stop, StopPanics, queueVars, Queued, InBatch
<1> QED
  BY <1>2, <1>3, <1>4, <1>5, <1>6, <1>7
  DEF Next, ManualFlush, ManualReturn, TimerFlush, TimerReturn, Flushers, queueVars

(* ChunkedCollector implements AtMostOnce: an item is sent once at most,   *)
(* and never after it was dropped.                                         *)
THEOREM DeliversAtMostOnce == Spec => ImplementsAtMostOnce
<1>1. Init => Abstract!Init
  BY DEF Init, Abstract!Init, InBatch, Idle
<1>2. Inv /\ [Next]_vars => [Abstract!Next]_<<Queued, sent, lost>>
  <2>1. UNCHANGED vars => UNCHANGED <<Queued, sent, lost>>
    BY DEF vars, queueVars, Queued, InBatch
  <2> QED
    BY <2>1, StepRefines
<1> QED
  BY <1>1, <1>2, Invariance, PTL DEF Spec, ImplementsAtMostOnce, Abstract!Spec, Queued

-----------------------------------------------------------------------------
(* What a collection weighs, and the sum that MapThenSumSet stands for.    *)
weight == [i \in Item |-> i.size]

LEMMA WeightIsNat == \A i \in Item : weight[i] \in Nat /\ weight[i] = i.size
  BY SizesAssumption DEF weight, Item

LEMMA SumIsTotal ==
  ASSUME NEW S, S \subseteq Item, IsFiniteSet(S)
  PROVE  MapThenSumSet(LAMBDA i : i.size, S) = Total(S, weight)
<1> DEFINE next(it, s) == IF s = {} THEN 0
                          ELSE (CHOOSE x \in s : TRUE).size + it[s \ {CHOOSE x \in s : TRUE}]
           R(it)       == it = [s \in SUBSET S |-> next(it, s)]
<1>1. MapThenSumSet(LAMBDA i : i.size, S) = (CHOOSE it : R(it))[S]
  BY DEF MapThenSumSet, MapThenFoldSet
<1>2. ASSUME NEW it, NEW s \in SUBSET S PROVE next(it, s) = SumStep(it, s, weight)
  <2>1. s # {} => AnyOf(s) \in Item
    BY AnyIn
  <2> QED
    BY <2>1, WeightIsNat DEF SumStep, AnyOf
<1>3. \A it : R(it) <=> IsSum(it, S, weight)
  <2> HIDE DEF next
  <2> QED
    BY <1>2 DEF IsSum
<1>4. PICK jt \in [SUBSET S -> Nat] : IsSum(jt, S, weight) /\ Total(S, weight) = jt[S]
  BY TotalIsSum, WeightIsNat
<1> HIDE DEF R
<1>5. IsSum(CHOOSE it : R(it), S, weight)
  BY <1>3, <1>4
<1> QED
  BY <1>1, <1>4, <1>5, SumUnique

(* The queue is finite, so its size is a sum that a collection adds to.    *)
SizeInv ==
    /\ IsFiniteSet(pending)
    /\ queueSizeBytes = Total(pending, weight)
    /\ MaxQueueSize # 0 => queueSizeBytes <= MaxQueueSize

LEMMA EmptyQueueSize ==
  ASSUME pending' = {}, queueSizeBytes' = 0 PROVE SizeInv'
<1>1. IsFiniteSet({}) /\ Total({}, weight) = 0
  BY FS_EmptySet, TotalOfNone
<1> QED
  BY <1>1, SizesAssumption DEF SizeInv

LEMMA NextSizes == Inv /\ SizeInv /\ [Next]_vars => SizeInv'
<1> SUFFICES ASSUME Inv, SizeInv, [Next]_vars PROVE SizeInv'
  OBVIOUS
<1>1. ASSUME NEW i \in Item, CollectQueues(i) PROVE SizeInv'
  <2>1. i \notin pending /\ pending \subseteq Item
    BY <1>1, NewItem DEF CollectQueues, Inv, TypeOK, Everywhere
  <2>2. IsFiniteSet(pending \cup {i})
    BY FS_AddElement DEF SizeInv
  <2>3. Total(pending \cup {i}, weight) = queueSizeBytes + i.size
    <3>1. \A y \in pending \cup {i} : weight[y] \in Nat
      BY <2>1, WeightIsNat
    <3>2. Total(pending \cup {i}, weight) = Total(pending, weight) + weight[i]
      BY <2>1, <3>1, TotalAdd DEF SizeInv
    <3> QED
      BY <3>2, WeightIsNat DEF SizeInv
  <2>4. MaxQueueSize # 0 => queueSizeBytes + i.size <= MaxQueueSize
    <3>1. i.size \in Nat /\ queueSizeBytes \in Nat /\ MaxQueueSize \in Nat
      BY SizesAssumption DEF Inv, TypeOK, Item
    <3> QED
      BY <1>1, <3>1 DEF CollectQueues, TooLarge
  <2> QED
    BY <1>1, <2>2, <2>3, <2>4 DEF CollectQueues, SizeInv
<1>2. ASSUME NEW i \in Item, CollectDrops(i) PROVE SizeInv'
  BY <1>2, EmptyQueueSize DEF CollectDrops
<1>3. ASSUME NEW f \in Flushers, TakeQueue(f) PROVE SizeInv'
  BY <1>3, EmptyQueueSize DEF TakeQueue
<1>4. ASSUME UNCHANGED queueVars PROVE SizeInv'
  BY <1>4 DEF SizeInv, queueVars
<1> QED
  BY <1>1, <1>2, <1>3, <1>4 DEF Next, ManualFlush, ManualReturn, Send, TimerFlush, TimerReturn,
     Exit, Stop, StopPanics, Flushers, vars

(* ChunkedCollector: queueSizeBytes is the size of what is queued, and     *)
(* within MaxQueueSize, however flushes and collects interleave.           *)
THEOREM QueueSizeIsKept == Spec => []SizeAccounts
<1>1. Init => SizeInv
  <2>1. IsFiniteSet({}) /\ Total({}, weight) = 0
    BY FS_EmptySet, TotalOfNone
  <2> QED
    BY <2>1, SizesAssumption DEF Init, SizeInv
<1>2. Inv /\ SizeInv => SizeAccounts
  BY SumIsTotal DEF Inv, TypeOK, SizeInv, SizeAccounts
<1> QED
  BY <1>1, <1>2, NextSizes, Invariance, PTL DEF Spec

-----------------------------------------------------------------------------
(* With the background goroutine alone, the collections of a span were     *)
(* sent before those in the batch were made, and these before those in the *)
(* queue.                                                                  *)
Earlier(A, B) == \A i \in A, j \in B : i.span = j.span => i.id < j.id

OrderInv ==
    Manual = {} => /\ Earlier(sent, flush["bg"].batch)
                   /\ Earlier(sent \cup flush["bg"].batch, pending)

LEMMA NewestLast ==
  ASSUME Inv, NEW i \in Item, Brings(i)
  PROVE  Earlier(sent \cup flush["bg"].batch, {i})
<1>1. "bg" \in Flushers
  BY DEF Flushers
<1>2. sent \cup flush["bg"].batch \subseteq Everywhere
  BY <1>1 DEF Everywhere, InBatch
<1>3. \A j \in Everywhere : j.id \in 1..calls
  BY DEF Inv, NothingVanishes
<1>4. i.id = calls + 1 /\ calls \in Nat
  BY BoundAssumption DEF Brings, Inv, TypeOK
<1> QED
  BY <1>2, <1>3, <1>4 DEF Earlier

LEMMA NextInOrder == Inv /\ OrderInv /\ [Next]_vars => OrderInv'
<1> SUFFICES ASSUME Inv, OrderInv, [Next]_vars, Manual = {} PROVE OrderInv'
  BY DEF OrderInv
<1> DEFINE batch == flush["bg"].batch
<1>0. Flushers = {"bg"}
  BY DEF Flushers
<1>1. ASSUME NEW i \in Item, CollectQueues(i) PROVE OrderInv'
  BY <1>1, NewestLast DEF CollectQueues, OrderInv, Earlier
<1>2. ASSUME NEW i \in Item, CollectDrops(i) PROVE OrderInv'
  BY <1>2 DEF CollectDrops, OrderInv, Earlier
<1>3. CASE TimerFlush
  <2>1. flush'["bg"].batch = pending /\ sent' = sent /\ pending' = {}
    BY <1>0, <1>3 DEF TimerFlush, TakeQueue, Inv, TypeOK
  <2> QED
    BY <2>1 DEF OrderInv, Earlier
<1>4. ASSUME NEW s \in Spans, Send("bg", s) PROVE OrderInv'
  <2>1. PICK ok \in BOOLEAN, late \in BOOLEAN : Round("bg", s, ok, late)
    BY <1>4, BoundAssumption DEF Send
  <2>2. /\ flush'["bg"].batch \subseteq Rest("bg", s) /\ sent' \subseteq sent \cup Group("bg", s)
        /\ pending' = pending
    BY <1>0, <1>4, <2>1 DEF Round, Send, queueVars, Inv, TypeOK
  <2>3. Group("bg", s) \subseteq batch /\ Rest("bg", s) \subseteq batch
        /\ \A i \in Group("bg", s), j \in Rest("bg", s) : i.span # j.span
    BY DEF Group, Rest
  <2> QED
    BY <2>2, <2>3 DEF OrderInv, Earlier
<1>5. CASE TimerReturn
  <2>1. flush'["bg"].batch = {} /\ sent' = sent /\ pending' = pending
    BY <1>0, <1>5 DEF TimerReturn, Done, Idle, queueVars, Inv, TypeOK
  <2> QED
    BY <2>1 DEF OrderInv, Earlier
<1>6. CASE Exit \/ Stop \/ StopPanics \/ UNCHANGED vars
  BY <1>6 DEF Exit, Stop, StopPanics, vars, queueVars, OrderInv
<1> QED
  BY <1>0, <1>1, <1>2, <1>3, <1>4, <1>5, <1>6 DEF Next

(* Flush of the background goroutine, where nobody else flushes: the       *)
(* collections of a span reach the underlying Collector in their order.    *)
THEOREM SentInOrder == Spec => InOrder
<1>1. Init => OrderInv
  <2>1. "bg" \in Flushers
    BY DEF Flushers
  <2> QED
    BY <2>1 DEF Init, Idle, OrderInv, Earlier
<1>2. Inv /\ OrderInv /\ [Next]_vars =>
        [Manual = {} => \A i \in sent' \ sent, j \in sent : i.span = j.span => j.id < i.id]_vars
  <2> SUFFICES ASSUME Inv, OrderInv, Next, Manual = {}, NEW i \in sent' \ sent, NEW j \in sent,
                      i.span = j.span
               PROVE  j.id < i.id
    OBVIOUS
  <2>1. Flushers = {"bg"}
    BY DEF Flushers
  <2>2. sent' # sent
    OBVIOUS
  <2>3. PICK s \in Spans : Send("bg", s)
    BY <2>1, <2>2 DEF Next, CollectQueues, CollectDrops, TimerFlush, TakeQueue, TimerReturn,
       Exit, Stop, StopPanics
  <2>4. PICK ok \in BOOLEAN, late \in BOOLEAN : Round("bg", s, ok, late)
    BY <2>3, BoundAssumption DEF Send
  <2>5. i \in Group("bg", s)
    BY <2>4 DEF Round
  <2>6. i \in flush["bg"].batch
    BY <2>5 DEF Group
  <2> QED
    BY <2>6 DEF OrderInv, Earlier
<1> QED
  BY <1>1, <1>2, NextInOrder, Invariance, PTL DEF Spec, InOrder
=============================================================================
