-------------------------- MODULE DeleteStoreProofs --------------------------
(***************************************************************************)
(* The two stores that delete traces of the store they embed, for every    *)
(* set of traces.  RecentStore, for every number of callers and evicting   *)
(* goroutines and every MinEvictAge: what a Collect leaves recorded is at  *)
(* most twice MinEvictAge old.  LimitStore, for every Max: the store never *)
(* holds more than Max traces, provided that 0 is not a trace ID, and its  *)
(* ring and its set never disagree but in one slot.                        *)
(***************************************************************************)
EXTENDS RecentStore, LimitStore, InductionLemmas, SequenceTheorems, TLAPS

RInv == RTypeOK /\ EntriesAgeWithEviction

LEMMA RecentInitInv == RInit => RInv
  BY AgeAssumption, RestoredAssumption DEF RInit, RInv, RTypeOK, EntriesAgeWithEviction, Recorded

LEMMA OlderType == \A a \in 0..Horizon : Older(a) \in 0..Horizon
  BY AgeAssumption DEF Older

LEMMA FirstSeenFacts ==
  ASSUME RInv, NEW t \in IDs
  PROVE  /\ FirstSeen(t) \in [IDs -> 0..Horizon \cup {None}]
         /\ \A u \in IDs : FirstSeen(t)[u] # None => FirstSeen(t)[u] <= sinceEvicted + MinEvictAge
  BY AgeAssumption, NoneAssumption DEF RInv, RTypeOK, FirstSeen, EntriesAgeWithEviction, Recorded

(* The two outcomes of the locked part of Collect.                         *)
LEMMA EnterFacts ==
  ASSUME RInv, NEW c \in Callers, NEW t \in IDs, Enter(c, t)
  PROVE  /\ RTypeOK'
         /\ EntriesAgeWithEviction'
         /\ sinceEvicted' <= MinEvictAge
<1> DEFINE seen == FirstSeen(t)
<1>1. calls' \in [Callers -> IDs \cup {None}] /\ stored' \subseteq IDs
  BY DEF Enter, RInv, RTypeOK
<1>2. CASE EvictionDue /\ EvictBefore(seen)
  <2>1. evictions' \in [Evictors -> SUBSET IDs]
    BY <1>2 DEF EvictBefore, RInv, RTypeOK, Old
  <2>2. sinceEvicted' = 0 /\ 0 \in 0..Horizon /\ 0 <= MinEvictAge
    BY <1>2, AgeAssumption DEF EvictBefore
  <2>3. age' = [u \in IDs |-> IF seen[u] # None /\ seen[u] > MinEvictAge THEN None ELSE seen[u]]
    BY <1>2 DEF EvictBefore, Old
  <2>4. age' \in [IDs -> 0..Horizon \cup {None}]
    BY <2>3, FirstSeenFacts
  <2>5. \A u \in IDs : age'[u] # None => age'[u] <= MinEvictAge
    BY <2>3, FirstSeenFacts, AgeAssumption
  <2>6. EntriesAgeWithEviction'
    BY <2>2, <2>4, <2>5, AgeAssumption DEF EntriesAgeWithEviction, Recorded
  <2> QED
    BY <1>1, <2>1, <2>2, <2>4, <2>6 DEF RTypeOK
<1>3. CASE ~EvictionDue /\ age' = seen /\ UNCHANGED <<sinceEvicted, evictions>>
  <2>1. RTypeOK'
    BY <1>1, <1>3, FirstSeenFacts DEF RInv, RTypeOK
  <2>2. EntriesAgeWithEviction'
    BY <1>3, FirstSeenFacts DEF EntriesAgeWithEviction, Recorded
  <2>3. sinceEvicted' <= MinEvictAge
    BY <1>3, AgeAssumption DEF EvictionDue, RInv, RTypeOK
  <2> QED
    BY <2>1, <2>2, <2>3
<1> QED
  BY <1>2, <1>3 DEF Enter

LEMMA RecentNextInv == RInv /\ [RNext]_rvars => RInv'
<1> SUFFICES ASSUME RInv, [RNext]_rvars PROVE RInv'
  OBVIOUS
<1> USE DEF RInv
<1>1. CASE Tick
  <2>1. age' = [t \in IDs |-> IF age[t] = None THEN None ELSE Older(age[t])]
        /\ sinceEvicted' = Older(sinceEvicted)
    BY <1>1 DEF Tick
  <2>2. RTypeOK'
    BY <1>1, <2>1, OlderType DEF Tick, RTypeOK
  <2>3. ASSUME NEW t \in IDs, age'[t] # None
        PROVE  age'[t] <= sinceEvicted' + MinEvictAge
    <3>1. age[t] # None /\ age'[t] = Older(age[t]) /\ age[t] \in 0..Horizon
      BY <2>1, <2>3 DEF RTypeOK
    <3>2. age[t] <= sinceEvicted + MinEvictAge
      BY <3>1 DEF EntriesAgeWithEviction, Recorded
    <3> QED
      BY <2>1, <3>1, <3>2, AgeAssumption DEF Older, RTypeOK
  <2> QED
    BY <2>2, <2>3 DEF EntriesAgeWithEviction, Recorded
<1>2. ASSUME NEW c \in Callers, NEW t \in IDs, Enter(c, t) PROVE RInv'
  BY <1>2, EnterFacts
<1>3. ASSUME NEW c \in Callers, Store(c) PROVE RInv'
  BY <1>3 DEF Store, MayFail, RTypeOK, EntriesAgeWithEviction, Recorded
<1>4. ASSUME NEW g \in Evictors, Evict(g) PROVE RInv'
  BY <1>4 DEF Evict, MayFail, RTypeOK, EntriesAgeWithEviction, Recorded
<1>5. ASSUME NEW t \in IDs, RDelete(t) PROVE RInv'
  BY <1>5 DEF RDelete, DeleteStored, RTypeOK, EntriesAgeWithEviction, Recorded
<1>6. CASE UNCHANGED rvars
  BY <1>6 DEF rvars, RTypeOK, EntriesAgeWithEviction, Recorded
<1> QED
  BY <1>1, <1>2, <1>3, <1>4, <1>5, <1>6 DEF RNext

LEMMA RecentInvariance == RSpec => []RInv
  BY RecentInitInv, RecentNextInv, PTL DEF RSpec

(* RecentStore: the creation times, the evictions and the calls under way  *)
(* keep their types.                                                       *)
THEOREM RecentTypeCorrect == RSpec => []RTypeOK
<1>1. RInv => RTypeOK
  BY DEF RInv
<1> QED
  BY <1>1, RecentInvariance, PTL

(* evictBefore: an entry is never older than the time since the last       *)
(* eviction plus MinEvictAge, since the eviction would have taken it.      *)
THEOREM AgesBounded == RSpec => []EntriesAgeWithEviction
<1>1. RInv => EntriesAgeWithEviction
  BY DEF RInv
<1> QED
  BY <1>1, RecentInvariance, PTL

(* RecentStore.Collect: no entry that a Collect leaves is older than twice *)
(* MinEvictAge.                                                            *)
THEOREM RecentOnly == RSpec => KeepsOnlyRecent
<1>1. RInv /\ [RNext]_rvars =>
        [\A c \in Callers, t \in IDs : Enter(c, t) =>
            \A u \in IDs : age'[u] # None => age'[u] <= 2 * MinEvictAge]_rvars
  <2> SUFFICES ASSUME RInv, NEW c \in Callers, NEW t \in IDs, Enter(c, t),
                      NEW u \in IDs, age'[u] # None
               PROVE  age'[u] <= 2 * MinEvictAge
    OBVIOUS
  <2>1. RTypeOK' /\ EntriesAgeWithEviction' /\ sinceEvicted' <= MinEvictAge
    BY EnterFacts
  <2>2. age'[u] \in 0..Horizon /\ sinceEvicted' \in 0..Horizon
    BY <2>1 DEF RTypeOK
  <2>3. age'[u] <= sinceEvicted' + MinEvictAge
    BY <2>1 DEF EntriesAgeWithEviction, Recorded
  <2> QED
    BY <2>1, <2>2, <2>3, AgeAssumption
<1> QED
  BY <1>1, RecentInvariance, PTL DEF RSpec, KeepsOnlyRecent
-----------------------------------------------------------------------------
(* LimitStore.                                                             *)
LEMMA NextSlot == Max # 0 => (Max - 1) \in Slots /\ \A i \in Slots : (i + 1) % Max \in Slots
  BY MaxAssumption, SMT DEF Slots

LEMMA TypeStep == TypeOK /\ [Next]_vars => TypeOK'
<1> SUFFICES ASSUME TypeOK, [Next]_vars PROVE TypeOK'
  OBVIOUS
<1> USE DEF TypeOK
<1>1. ASSUME NEW t \in IDs, CollectKnown(t) PROVE TypeOK'
  BY <1>1 DEF CollectKnown, Underlying
<1>2. ASSUME NEW t \in IDs, CollectIntoFreeSlot(t) PROVE TypeOK'
  BY <1>2, NextSlot DEF CollectIntoFreeSlot, TakeSlot, Underlying
<1>3. ASSUME NEW t \in IDs, CollectEvicting(t) PROVE TypeOK'
  BY <1>3, NextSlot DEF CollectEvicting, TakeSlot, Underlying
<1>4. ASSUME NEW t \in IDs, EvictionFails(t) PROVE TypeOK'
  BY <1>4 DEF EvictionFails
<1>5. ASSUME NEW t \in IDs, Delete(t) PROVE TypeOK'
  BY <1>5 DEF Delete, DeleteStored
<1>6. CASE UNCHANGED vars
  BY <1>6 DEF vars
<1> QED
  BY <1>1, <1>2, <1>3, <1>4, <1>5, <1>6 DEF Next

(* Whatever fails underneath, ls.ring, ls.traces and the stored traces are *)
(* of the types that the code declares, and nextInsertIdx is in range.     *)
THEOREM LimitTypeCorrect == Spec => []TypeOK
<1>1. Init => TypeOK
  BY MaxAssumption DEF Init, TypeOK, Slots, Free
<1> QED
  BY <1>1, TypeStep, PTL DEF Spec

-----------------------------------------------------------------------------
(* The ring fills up from slot 0 before anything is evicted.               *)
Filling ==
    \/ \A i \in Slots : ring[i] # Free
    \/ \A i \in Slots : ring[i] # Free <=> i < nextInsertIdx

(* The inductive invariant.  NothingLeaks needs that a trace in ls.traces  *)
(* is in the ring, which needs that no trace has two slots, so that the    *)
(* slot of a new trace does not hide an old entry of it.                   *)
Inv == TypeOK /\ NothingLeaks /\ RingMatchesSet /\ Filling

(* Two facts about the ring with slot nextInsertIdx overwritten.           *)
LEMMA TakeSlotRing ==
  ASSUME TypeOK, Max # 0, NEW t \in IDs, TakeSlot(t)
  PROVE  /\ nextInsertIdx \in Slots
         /\ ring' \in [Slots -> IDs \cup {Free}]
         /\ ring'[nextInsertIdx] = t
         /\ \A i \in Slots \ {nextInsertIdx} : ring'[i] = ring[i]
  BY DEF TypeOK, TakeSlot

LEMMA InitInv == Init => Inv
  BY MaxAssumption DEF Init, Inv, TypeOK, NothingLeaks, RingMatchesSet, Filling, InRing, Slots, Free

LEMMA TakeSlotFilling ==
  ASSUME Inv, Max # 0, NEW t \in IDs, t # Free, TakeSlot(t)
  PROVE  Filling'
<1>1. nextInsertIdx \in Slots /\ ring'[nextInsertIdx] = t
      /\ \A i \in Slots \ {nextInsertIdx} : ring'[i] = ring[i]
  BY TakeSlotRing DEF Inv
<1>2. CASE \A i \in Slots : ring[i] # Free
  BY <1>1, <1>2 DEF Filling
<1>3. CASE \A i \in Slots : ring[i] # Free <=> i < nextInsertIdx
  <2>1. CASE nextInsertIdx = Max - 1
    <3>1. \A i \in Slots : i < nextInsertIdx \/ i = nextInsertIdx
      BY <2>1, MaxAssumption DEF Slots
    <3> QED
      BY <1>1, <1>3, <3>1 DEF Filling
  <2>2. CASE nextInsertIdx # Max - 1
    <3>1. nextInsertIdx' = nextInsertIdx + 1
      BY <1>1, <2>2, MaxAssumption, SMT DEF TakeSlot, Slots
    <3>2. \A i \in Slots : i < nextInsertIdx + 1 <=> i < nextInsertIdx \/ i = nextInsertIdx
      BY <1>1, MaxAssumption DEF Slots
    <3> QED
      BY <1>1, <1>3, <3>1, <3>2 DEF Filling
  <2> QED
    BY <2>1, <2>2
<1> QED
  BY <1>2, <1>3 DEF Inv, Filling

LEMMA NextInv ==
  ASSUME 0 \notin IDs, Inv, [Next]_vars
  PROVE  Inv'
<1> USE DEF NothingLeaks, RingMatchesSet, InRing
<1>t. TypeOK'
  BY TypeStep DEF Inv
<1>1. ASSUME NEW t \in IDs, CollectKnown(t) PROVE Inv'
  BY <1>1, <1>t DEF Inv, CollectKnown, Underlying, Filling
<1>2. ASSUME NEW t \in IDs, CollectIntoFreeSlot(t) PROVE Inv'
  <2>1. t # Free /\ Max # 0 /\ TakeSlot(t) /\ ring[nextInsertIdx] = Free /\ t \notin traces
        /\ traces' = traces \cup {t} /\ stored' \in {stored, stored \cup {t}}
    BY <1>2 DEF CollectIntoFreeSlot, Underlying, Free, Oldest
  <2>2. nextInsertIdx \in Slots /\ ring'[nextInsertIdx] = t
        /\ \A i \in Slots \ {nextInsertIdx} : ring'[i] = ring[i]
    BY <2>1, TakeSlotRing DEF Inv
  <2>3. \A i \in Slots : ring[i] # t
    BY <2>1 DEF Inv
  <2>4. RingMatchesSet'
    BY <2>1, <2>2, <2>3 DEF Inv
  <2>5. NothingLeaks'
    BY <2>1, <2>2 DEF Inv
  <2> QED
    BY <1>t, <2>1, <2>4, <2>5, TakeSlotFilling DEF Inv
<1>3. ASSUME NEW t \in IDs, CollectEvicting(t) PROVE Inv'
  <2>1. t # Free /\ Max # 0 /\ TakeSlot(t) /\ ring[nextInsertIdx] # Free /\ t \notin traces
        /\ traces' = (traces \ {ring[nextInsertIdx]}) \cup {t}
        /\ stored' \in {stored \ {ring[nextInsertIdx]}, (stored \ {ring[nextInsertIdx]}) \cup {t}}
    BY <1>3 DEF CollectEvicting, Underlying, Free, Oldest
  <2>2. nextInsertIdx \in Slots /\ ring'[nextInsertIdx] = t
        /\ \A i \in Slots \ {nextInsertIdx} : ring'[i] = ring[i]
    BY <2>1, TakeSlotRing DEF Inv
  <2>3. \A i \in Slots \ {nextInsertIdx} : ring[i] # t
    BY <2>1 DEF Inv
  <2>4. RingMatchesSet'
    BY <2>1, <2>2, <2>3 DEF Inv
  <2>5. NothingLeaks'
    BY <2>1, <2>2 DEF Inv
  <2> QED
    BY <1>t, <2>1, <2>4, <2>5, TakeSlotFilling DEF Inv
<1>4. ASSUME NEW t \in IDs, EvictionFails(t) PROVE Inv'
  <2>1. nextInsertIdx \in Slots
    BY <1>4 DEF Inv, TypeOK, EvictionFails
  <2> QED
    BY <1>4, <1>t, <2>1 DEF Inv, EvictionFails, Oldest, Filling
<1>5. ASSUME NEW t \in IDs, Delete(t) PROVE Inv'
  BY <1>5, <1>t DEF Inv, Delete, DeleteStored, Filling
<1>6. CASE UNCHANGED vars
  BY <1>6, <1>t DEF Inv, vars, Filling
<1> QED
  BY <1>1, <1>2, <1>3, <1>4, <1>5, <1>6 DEF Next

-----------------------------------------------------------------------------
LEMMA InRingBound == TypeOK => IsFiniteSet(InRing) /\ Cardinality(InRing) <= Max
<1> SUFFICES ASSUME TypeOK PROVE IsFiniteSet(InRing) /\ Cardinality(InRing) <= Max
  OBVIOUS
<1> DEFINE Values == {ring[i] : i \in Slots}
<1>1. IsFiniteSet(Slots) /\ Cardinality(Slots) = Max
  BY FS_Interval, MaxAssumption DEF Slots
<1>2. ring \in Surjection(Slots, Values)
  BY DEF TypeOK, Surjection
<1>3. IsFiniteSet(Values) /\ Cardinality(Values) <= Cardinality(Slots)
  BY <1>1, <1>2, FS_Surjection
<1>4. InRing \subseteq Values
  BY DEF InRing
<1>5. IsFiniteSet(InRing) /\ Cardinality(InRing) <= Cardinality(Values)
  BY <1>3, <1>4, FS_Subset
<1>6. Cardinality(InRing) \in Nat /\ Cardinality(Values) \in Nat
  BY <1>3, <1>5, FS_CardinalityType
<1> QED
  BY <1>1, <1>3, <1>5, <1>6, MaxAssumption

LEMMA LeakFreeBound == TypeOK /\ NothingLeaks => WithinCapacity
<1> SUFFICES ASSUME TypeOK, NothingLeaks PROVE Cardinality(stored) <= Max
  BY DEF WithinCapacity
<1>1. IsFiniteSet(InRing) /\ Cardinality(InRing) <= Max
  BY InRingBound
<1>2. IsFiniteSet(stored) /\ Cardinality(stored) <= Cardinality(InRing)
  BY <1>1, FS_Subset DEF NothingLeaks
<1>3. Cardinality(InRing) \in Nat /\ Cardinality(stored) \in Nat
  BY <1>1, <1>2, FS_CardinalityType
<1> QED
  BY <1>1, <1>2, <1>3, MaxAssumption

LEMMA Invariance == ASSUME 0 \notin IDs PROVE Spec => []Inv
<1>1. Inv /\ [Next]_vars => Inv'
  BY NextInv
<1> QED
  BY <1>1, InitInv, PTL DEF Spec

(* LimitStore.Collect: however often underlying calls fail and whatever is *)
(* deleted behind its back, the store never holds more than Max traces, if *)
(* no trace has the ID 0.                                                  *)
THEOREM NeverOverCapacity == ASSUME 0 \notin IDs PROVE Spec => []WithinCapacity
<1>1. Inv => WithinCapacity
  BY LeakFreeBound DEF Inv
<1> QED
  BY <1>1, Invariance, PTL

(* LimitStore.Collect: every trace with data has a slot from which it will *)
(* be evicted.                                                             *)
THEOREM NeverLeaks == ASSUME 0 \notin IDs PROVE Spec => []NothingLeaks
<1>1. Inv => NothingLeaks
  BY DEF Inv
<1> QED
  BY <1>1, Invariance, PTL

(* LimitStore.Collect: ls.ring and ls.traces agree but in the slot whose   *)
(* eviction failed.                                                        *)
THEOREM RingAndSetAgree == ASSUME 0 \notin IDs PROVE Spec => []RingMatchesSet
<1>1. Inv => RingMatchesSet
  BY DEF Inv
<1> QED
  BY <1>1, Invariance, PTL

LEMMA FullWhenEvicting ==
  ASSUME Inv, Max # 0, Oldest # Free
  PROVE  Free \notin {ring[i] : i \in Slots}
<1>1. nextInsertIdx \in Slots
  BY DEF Inv, TypeOK
<1>2. ~(nextInsertIdx < nextInsertIdx)
  BY <1>1, MaxAssumption DEF Slots
<1> QED
  BY <1>1, <1>2 DEF Inv, Filling, Oldest

(* LimitStore.Collect: a trace is forgotten only when every slot is taken. *)
THEOREM ForgetsLate == ASSUME 0 \notin IDs PROVE Spec => ForgetsOnlyWhenFull
<1>1. Inv /\ [Next]_vars =>
        [\A t \in traces : t \notin traces' => Free \notin {ring[i] : i \in Slots}]_vars
  <2> SUFFICES ASSUME Inv, Next, NEW t \in traces, t \notin traces'
               PROVE  Free \notin {ring[i] : i \in Slots}
    OBVIOUS
  <2>1. PICK u \in IDs : CollectEvicting(u) \/ EvictionFails(u)
    BY DEF Next, CollectKnown, CollectIntoFreeSlot, Delete
  <2> QED
    BY <2>1, FullWhenEvicting DEF CollectEvicting, EvictionFails
<1> QED
  BY <1>1, Invariance, PTL DEF Spec, ForgetsOnlyWhenFull

-----------------------------------------------------------------------------
(* The window is a piece of the ring: reading once around, what is not     *)
(* kept comes first.                                                       *)
Kept(d) ==
    /\ d \in 0..Max
    /\ \A k \in 1..d : Around[k] \notin traces
    /\ \A k \in (d + 1)..Max : Around[k] \in traces

From(d) == [j \in 1..(Max - d) |-> Around[d + j]]

LEMMA WindowIsPiece == ASSUME NEW d, Kept(d) PROVE window = From(d)
<1> DEFINE next(it, k) == IF k = 0 THEN <<>>
                          ELSE IF Around[k] \in traces THEN Append(it[k - 1], Around[k])
                          ELSE it[k - 1]
           R(it)   == it = [k \in 0..Max |-> next(it, k)]
           kept    == CHOOSE it : R(it)
           piece   == [k \in 0..Max |-> IF k <= d THEN <<>> ELSE [j \in 1..(k - d) |-> Around[d + j]]]
<1>0. Max \in Nat /\ d \in Nat /\ d <= Max
  BY MaxAssumption DEF Kept
<1>1. window = kept[Max]
  BY DEF window
<1>2. ASSUME NEW it, NEW k \in 0..Max, k # 0 => it[k - 1] = piece[k - 1]
      PROVE  next(it, k) = piece[k]
  <2>1. CASE k <= d
    <3>1. k # 0 => Around[k] \notin traces
      BY <1>0, <2>1 DEF Kept
    <3>2. k # 0 => it[k - 1] = <<>>
      BY <1>0, <1>2, <2>1
    <3>3. piece[k] = <<>>
      BY <1>0, <2>1
    <3> HIDE DEF piece
    <3> QED
      BY <3>1, <3>2, <3>3
  <2>2. CASE k = d + 1
    <3>1. Around[k] \in traces /\ k # 0
      BY <1>0, <2>2 DEF Kept
    <3>2. it[k - 1] = <<>>
      BY <1>0, <1>2, <2>2, <3>1
    <3>3. piece[k] = [j \in 1..1 |-> Around[d + j]]
      BY <1>0, <2>2
    <3>4. [j \in 1..1 |-> Around[d + j]] = <<Around[k]>>
      BY <1>0, <2>2
    <3> HIDE DEF piece
    <3> QED
      BY <3>1, <3>2, <3>3, <3>4
  <2>3. CASE k > d + 1
    <3>1. Around[k] \in traces /\ k # 0 /\ k - 1 \in 0..Max /\ ~(k - 1 <= d) /\ ~(k <= d)
      BY <1>0, <2>3 DEF Kept
    <3> DEFINE e == [j \in 1..((k - 1) - d) |-> Around[d + j]]
    <3>2. it[k - 1] = e
      BY <1>0, <1>2, <3>1
    <3>3. piece[k] = [j \in 1..(k - d) |-> Around[d + j]]
      BY <1>0, <3>1
    <3>4. Append(e, Around[k]) = [j \in 1..(k - d) |-> Around[d + j]]
      <4>1. (k - 1) - d \in Nat /\ ((k - 1) - d) + 1 = k - d /\ d + (k - d) = k
        BY <1>0, <2>3
      <4>2. Len(e) = (k - 1) - d /\ DOMAIN e = 1..((k - 1) - d)
        BY <4>1
      <4>3. \A j \in 1..(k - d) : j \in 1..((k - 1) - d) \/ j = k - d
        BY <1>0, <2>3
      <4> QED
        BY <4>1, <4>2, <4>3
    <3> HIDE DEF piece, e
    <3> QED
      BY <3>1, <3>2, <3>3, <3>4
  <2> QED
    BY <1>0, <2>1, <2>2, <2>3
<1>3. R(piece)
  <2>1. \A k \in 0..Max : next(piece, k) = piece[k]
    <3> HIDE DEF next, piece
    <3> QED
      BY <1>2
  <2>2. piece = [k \in 0..Max |-> piece[k]]
    OBVIOUS
  <2> HIDE DEF next, piece
  <2> QED
    BY <2>1, <2>2
<1>4. R(kept)
  <2> HIDE DEF R
  <2> QED
    BY <1>3
<1> HIDE DEF kept
<1>5. \A k \in 0..Max : kept[k] = next(kept, k)
  <2> HIDE DEF next
  <2> QED
    BY <1>4
<1>6. kept[Max] = piece[Max]
  <2> DEFINE Bad == {k \in 0..Max : kept[k] # piece[k]}
  <2> HIDE DEF next, piece
  <2> SUFFICES ASSUME Bad # {} PROVE FALSE
    BY <1>0
  <2>1. PICK k \in Bad : \A m \in Bad : k <= m
    <3>1. Bad \in SUBSET Nat
      BY <1>0
    <3> HIDE DEF Bad
    <3> QED
      BY <3>1, LeastNumber
  <2>2. k # 0 => k - 1 \in 0..Max /\ k - 1 \notin Bad
    BY <1>0, <2>1
  <2>3. k # 0 => kept[k - 1] = piece[k - 1]
    BY <2>2
  <2>4. next(kept, k) = piece[k]
    BY <1>2, <2>3
  <2> QED
    BY <1>5, <2>4
<1>7. piece[Max] = From(d)
  <2>1. CASE d = Max
    <3>1. From(d) = <<>>
      BY <1>0, <2>1 DEF From
    <3> QED
      BY <1>0, <2>1, <3>1
  <2>2. CASE d < Max
    BY <1>0, <2>2 DEF From
  <2> QED
    BY <1>0, <2>1, <2>2
<1> QED
  BY <1>1, <1>6, <1>7

(* Taking a slot moves every trace one place up the window.                *)
LEMMA Remainder ==
  ASSUME NEW n \in Nat \ {0}, NEW a \in Nat
  PROVE  /\ a < n => a % n = a
         /\ a >= n /\ a < n + n => a % n = a - n
BY SMT

Slot(i, k) == (i + k - 1) % Max

LEMMA SlotIs ==
  ASSUME Max # 0, NEW i \in Slots, NEW k \in 1..Max
  PROVE  Slot(i, k) = IF i + k <= Max THEN i + k - 1 ELSE i + k - 1 - Max
<1>1. Max \in Nat \ {0} /\ i \in Nat /\ i < Max /\ i + k - 1 \in Nat
  BY MaxAssumption DEF Slots
<1>2. CASE i + k <= Max
  <2>1. i + k - 1 < Max
    BY <1>1, <1>2
  <2> QED
    BY <1>1, <1>2, <2>1, Remainder DEF Slot
<1>3. CASE ~(i + k <= Max)
  <2> DEFINE a == i + k - 1
  <2>1. a \in Nat /\ a >= Max /\ a < Max + Max
    BY <1>1, <1>3
  <2> HIDE DEF a
  <2>2. a % Max = a - Max
    BY <1>1, <2>1, Remainder
  <2>3. Slot(i, k) = a % Max
    BY Zenon DEF Slot, a
  <2>4. Slot(i, k) = a - Max
    BY <2>2, <2>3
  <2> QED
    BY <1>1, <1>3, <2>4 DEF a
<1> QED
  BY <1>2, <1>3

LEMMA SlotsTurn ==
  ASSUME Max # 0, NEW i \in Slots, NEW j, j = (i + 1) % Max
  PROVE  /\ Slot(i, 1) = i /\ Slot(j, Max) = i
         /\ \A k \in 2..Max : Slot(i, k) # i /\ Slot(i, k) \in Slots
         /\ \A k \in 1..(Max - 1) : Slot(j, k) = Slot(i, k + 1)
<1>1. Max \in Nat \ {0} /\ i \in Nat /\ i < Max /\ j \in Slots
  BY NextSlot, MaxAssumption DEF Slots
<1>2. j = IF i + 1 = Max THEN 0 ELSE i + 1
  <2> DEFINE a == i + 1
  <2>1. a \in Nat /\ a <= Max /\ a < Max + Max /\ j = a % Max
    BY <1>1
  <2> HIDE DEF a
  <2>2. CASE a < Max
    <3>1. a % Max = a
      BY <1>1, <2>1, <2>2, Remainder
    <3>2. j = a /\ a # Max
      BY <1>1, <2>1, <2>2, <3>1
    <3> QED
      BY <3>2 DEF a
  <2>3. CASE a = Max
    <3>1. a % Max = a - Max
      BY <1>1, <2>1, <2>3, Remainder
    <3> QED
      BY <1>1, <2>1, <2>3, <3>1 DEF a
  <2> QED
    BY <1>1, <2>1, <2>2, <2>3
<1>3. Slot(i, 1) = i
  BY <1>1, SlotIs
<1>4. Slot(j, Max) = i
  BY <1>1, <1>2, SlotIs
<1>5. ASSUME NEW k \in 2..Max PROVE Slot(i, k) # i /\ Slot(i, k) \in Slots
  <2>1. Slot(i, k) = IF i + k <= Max THEN i + k - 1 ELSE i + k - 1 - Max
    BY <1>1, <1>5, SlotIs
  <2> QED
    BY <1>1, <2>1 DEF Slots
<1>6. ASSUME NEW k \in 1..(Max - 1) PROVE Slot(j, k) = Slot(i, k + 1)
  <2>1. k \in 1..Max /\ k + 1 \in 1..Max
    BY <1>1
  <2>2. Slot(i, k + 1) = IF i + (k + 1) <= Max THEN i + (k + 1) - 1 ELSE i + (k + 1) - 1 - Max
    BY <1>1, <2>1, SlotIs
  <2>3. Slot(j, k) = IF j + k <= Max THEN j + k - 1 ELSE j + k - 1 - Max
    BY <1>1, <2>1, SlotIs
  <2> QED
    BY <1>1, <1>2, <2>2, <2>3
<1> QED
  BY <1>3, <1>4, <1>5, <1>6

LEMMA AroundTurns ==
  ASSUME TypeOK, Max # 0, NEW t \in IDs, TakeSlot(t)
  PROVE  /\ Around'[Max] = t
         /\ \A k \in 1..(Max - 1) : Around'[k] = Around[k + 1]
<1>1. /\ nextInsertIdx \in Slots /\ ring'[nextInsertIdx] = t
      /\ \A i \in Slots \ {nextInsertIdx} : ring'[i] = ring[i]
      /\ Max \in Nat \ {0} /\ nextInsertIdx' = (nextInsertIdx + 1) % Max
  BY TakeSlotRing, MaxAssumption DEF TakeSlot
<1>2. \A k \in 1..Max : Around[k] = ring[Slot(nextInsertIdx, k)]
                       /\ Around'[k] = ring'[Slot(nextInsertIdx', k)]
  BY DEF Around, Slot
<1>3. /\ Slot(nextInsertIdx', Max) = nextInsertIdx
      /\ \A k \in 2..Max : Slot(nextInsertIdx, k) # nextInsertIdx /\ Slot(nextInsertIdx, k) \in Slots
      /\ \A k \in 1..(Max - 1) : Slot(nextInsertIdx', k) = Slot(nextInsertIdx, k + 1)
  BY <1>1, SlotsTurn
<1>4. Around'[Max] = t
  <2>1. Max \in 1..Max
    BY <1>1
  <2> QED
    BY <1>1, <1>2, <1>3, <2>1
<1>5. ASSUME NEW k \in 1..(Max - 1) PROVE Around'[k] = Around[k + 1]
  <2>1. k \in 1..Max /\ k + 1 \in 2..Max /\ k + 1 \in 1..Max
    BY <1>1
  <2>2. ring'[Slot(nextInsertIdx, k + 1)] = ring[Slot(nextInsertIdx, k + 1)]
    BY <1>1, <1>3, <2>1
  <2> QED
    BY <1>2, <1>3, <2>1, <2>2
<1> QED
  BY <1>4, <1>5

(* What RingMatchesSet says of the ring as it is read around.              *)
LEMMA AroundMatches ==
  ASSUME TypeOK, RingMatchesSet, Max # 0
  PROVE  /\ Around[1] = Oldest
         /\ \A k \in 2..Max : Around[k] # Free =>
                Around[k] # Oldest /\ Around[k] \in traces
<1>1. nextInsertIdx \in Slots /\ Max \in Nat \ {0}
  BY MaxAssumption DEF TypeOK
<1>2. \A k \in 1..Max : Around[k] = ring[Slot(nextInsertIdx, k)]
  BY DEF Around, Slot
<1>3. /\ Slot(nextInsertIdx, 1) = nextInsertIdx
      /\ \A k \in 2..Max : Slot(nextInsertIdx, k) # nextInsertIdx
                          /\ Slot(nextInsertIdx, k) \in Slots
  BY <1>1, SlotsTurn
<1>4. Around[1] = Oldest
  <2>1. 1 \in 1..Max
    BY <1>1
  <2> QED
    BY <1>2, <1>3, <2>1 DEF Oldest
<1>5. ASSUME NEW k \in 2..Max, Around[k] # Free PROVE Around[k] # Oldest /\ Around[k] \in traces
  <2>1. Around[k] = ring[Slot(nextInsertIdx, k)]
    BY <1>1, <1>2
  <2> QED
    BY <1>1, <1>3, <1>5, <2>1 DEF RingMatchesSet, Oldest
<1> QED
  BY <1>4, <1>5

Pieces == \A d \in 0..Max : Kept(d) => window = From(d)

LEMMA WindowPieces == Pieces
BY WindowIsPiece DEF Pieces

LEMMA NewWindowPieces == Pieces'
BY WindowPieces, PTL

LEMMA KeptTraces ==
  ASSUME TypeOK, NEW d, Kept(d)
  PROVE  /\ Len(window) = Max - d /\ DOMAIN window = 1..(Max - d)
         /\ \A j \in 1..(Max - d) : window[j] = Around[d + j] /\ window[j] \in traces
<1>1. Max \in Nat /\ d \in 0..Max
  BY MaxAssumption DEF Kept
<1>2. window = From(d)
  BY WindowIsPiece
<1>3. /\ DOMAIN From(d) = 1..(Max - d)
      /\ \A j \in 1..(Max - d) : From(d)[j] = Around[d + j]
  BY DEF From
<1>4. Len(From(d)) = Max - d
  BY <1>1 DEF From
<1>5. ASSUME NEW j \in 1..(Max - d) PROVE Around[d + j] \in traces
  <2>1. d + j \in (d + 1)..Max
    BY <1>1
  <2> QED
    BY <2>1 DEF Kept
<1> QED
  BY <1>2, <1>3, <1>4, <1>5

LEMMA NotInWindow ==
  ASSUME TypeOK, NEW d, Kept(d), NEW t, t \notin traces
  PROVE  ~Abstract!InWindow(t)
<1>1. \A j \in 1..Len(window) : window[j] \in traces
  BY KeptTraces
<1> QED
  BY <1>1 DEF Abstract!InWindow

(* The front of the window leaves it, or a new trace joins it at the end.  *)
LEMMA TailOfWindow == ASSUME Max # 0 PROVE Tail(From(0)) = From(1)
<1>1. Max \in Nat \ {0}
  BY MaxAssumption
<1>2. From(0) = [j \in 1..Max |-> Around[j]]
  BY <1>1 DEF From
<1>3. From(1) = [j \in 1..(Max - 1) |-> Around[1 + j]]
  BY DEF From
<1>4. Tail([j \in 1..Max |-> Around[j]]) = [j \in 1..(Max - 1) |-> Around[1 + j]]
  BY <1>1
<1> QED
  BY <1>2, <1>3, <1>4

LEMMA JoinsWindow ==
  ASSUME TypeOK, Max # 0, NEW t \in IDs, TakeSlot(t), NEW e \in 0..(Max - 1)
  PROVE  From(e)' = Append(From(e + 1), t)
<1>1. Max \in Nat \ {0} /\ e \in Nat /\ e < Max
  BY MaxAssumption
<1>2. Around'[Max] = t /\ \A k \in 1..(Max - 1) : Around'[k] = Around[k + 1]
  BY AroundTurns
<1> DEFINE n == Max - (e + 1)
<1>3. n \in Nat /\ Max - e = n + 1 /\ e + (n + 1) = Max
  BY <1>1
<1>4. From(e)' = [j \in 1..(n + 1) |-> Around'[e + j]]
  BY <1>3 DEF From
<1>5. From(e + 1) = [j \in 1..n |-> Around[(e + 1) + j]]
  BY <1>3 DEF From
<1>6. \A j \in 1..n : Around'[e + j] = Around[(e + 1) + j]
  <2> SUFFICES ASSUME NEW j \in 1..n PROVE Around'[e + j] = Around[(e + 1) + j]
    OBVIOUS
  <2>1. e + j \in 1..(Max - 1) /\ (e + j) + 1 = (e + 1) + j
    BY <1>1
  <2>2. Around'[e + j] = Around[(e + j) + 1]
    BY <1>2, <2>1
  <2> QED
    BY <2>1, <2>2
<1> DEFINE s  == [j \in 1..n |-> Around[(e + 1) + j]]
           s2 == [j \in 1..(n + 1) |-> Around'[e + j]]
<1> HIDE DEF n
<1>7. Len(s) = n /\ DOMAIN s = 1..n
  BY <1>3
<1>8. Append(s, t) = [j \in 1..(n + 1) |-> IF j = n + 1 THEN t ELSE s[j]]
  BY <1>3, <1>7
<1>9. ASSUME NEW j \in 1..(n + 1)
      PROVE  s2[j] = IF j = n + 1 THEN t ELSE s[j]
  <2>1. CASE j = n + 1
    BY <1>2, <1>3, <2>1
  <2>2. CASE j # n + 1
    <3>1. j \in 1..n
      BY <1>3, <2>2
    <3> QED
      BY <1>6, <2>2, <3>1
  <2> QED
    BY <2>1, <2>2
<1>10. s2 = [j \in 1..(n + 1) |-> IF j = n + 1 THEN t ELSE s[j]]
  <2>1. s2 = [j \in 1..(n + 1) |-> s2[j]]
    OBVIOUS
  <2> HIDE DEF s, s2
  <2> QED
    BY <1>9, <2>1
<1> QED
  BY <1>4, <1>5, <1>8, <1>10

LEMMA FreeSlotRefines ==
  ASSUME 0 \notin IDs, Inv, NEW t \in IDs, CollectIntoFreeSlot(t), NEW d, Kept(d)
  PROVE  d - 1 \in 0..Max /\ Kept(d - 1)' /\ Abstract!Admit(t)
<1>0. /\ Max \in Nat \ {0} /\ d \in Nat /\ d <= Max /\ TypeOK /\ RingMatchesSet
      /\ t \notin traces /\ traces' = traces \cup {t} /\ TakeSlot(t) /\ Oldest = Free
  BY MaxAssumption DEF CollectIntoFreeSlot, Kept, Inv
<1>1. Around'[Max] = t /\ \A k \in 1..(Max - 1) : Around'[k] = Around[k + 1]
  BY <1>0, AroundTurns
<1>2. /\ Around[1] \notin traces
      /\ \A k \in 2..Max : Around[k] \notin traces => Around[k] = Free
  BY <1>0, AroundMatches DEF TypeOK, Free
<1>3. d # 0
  <2>1. d = 0 => 1 \in (d + 1)..Max
    BY <1>0
  <2> QED
    BY <1>2, <2>1 DEF Kept
<1>4. ASSUME NEW k \in 1..(d - 1) PROVE Around'[k] \notin traces'
  <2>1. k \in 1..(Max - 1) /\ k + 1 \in 2..Max /\ k + 1 \in 1..d
    BY <1>0
  <2>2. Around'[k] = Around[k + 1] /\ Around[k + 1] \notin traces
    BY <1>1, <2>1 DEF Kept
  <2> QED
    BY <1>0, <1>2, <2>1, <2>2 DEF Free
<1>5. ASSUME NEW k \in d..Max PROVE Around'[k] \in traces'
  <2>1. CASE k = Max
    BY <1>0, <1>1, <2>1
  <2>2. CASE k # Max
    <3>1. k \in 1..(Max - 1) /\ k + 1 \in (d + 1)..Max
      BY <1>0, <1>3, <2>2
    <3> QED
      BY <1>0, <1>1, <3>1 DEF Kept
  <2> QED
    BY <2>1, <2>2
<1> DEFINE e == d - 1
<1>6. e \in 0..(Max - 1) /\ e \in 0..Max /\ e + 1 = d
  BY <1>0, <1>3
<1>7. Kept(e)'
  <2>1. \A k \in 1..e : Around'[k] \notin traces'
    BY <1>4
  <2>2. \A k \in (e + 1)..Max : Around'[k] \in traces'
    BY <1>5, <1>6
  <2> HIDE DEF e
  <2> QED
    BY <1>6, <2>1, <2>2 DEF Kept
<1> HIDE DEF e
<1>8. window' = Append(window, t)
  <2>1. window' = From(e)'
    BY <1>6, <1>7, NewWindowPieces DEF Pieces
  <2>2. From(e)' = Append(From(d), t)
    BY <1>0, <1>6, JoinsWindow
  <2> QED
    BY <2>1, <2>2, WindowIsPiece
<1>9. Len(window) # Max /\ ~Abstract!InWindow(t)
  BY <1>0, <1>3, KeptTraces, NotInWindow
<1> QED
  BY <1>6, <1>7, <1>8, <1>9 DEF Abstract!Admit, Abstract!Full, e

(* When the ring is full, at most its oldest trace is not kept.            *)
LEMMA FullRing ==
  ASSUME Inv, Max # 0, Oldest # Free, NEW d, Kept(d)
  PROVE  /\ d \in {0, 1}
         /\ \A k \in 2..Max : Around[k] \in traces /\ Around[k] # Oldest
<1>0. Max \in Nat \ {0} /\ d \in Nat /\ d <= Max /\ TypeOK /\ RingMatchesSet
  BY MaxAssumption DEF Kept, Inv
<1>1. \A i \in Slots : ring[i] # Free
  BY FullWhenEvicting
<1>2. \A k \in 2..Max : Around[k] # Free
  <2> SUFFICES ASSUME NEW k \in 2..Max PROVE Around[k] # Free
    OBVIOUS
  <2>1. Slot(nextInsertIdx, k) \in Slots /\ k \in 1..Max
    BY <1>0, SlotsTurn DEF TypeOK
  <2>2. Around[k] = ring[Slot(nextInsertIdx, k)]
    BY <2>1 DEF Around, Slot
  <2> QED
    BY <1>1, <2>1, <2>2
<1>3. \A k \in 2..Max : Around[k] \in traces /\ Around[k] # Oldest
  BY <1>0, <1>2, AroundMatches
<1>4. d \in {0, 1}
  <2>1. d >= 2 => d \in 2..Max /\ d \in 1..d
    BY <1>0
  <2>2. ~(d >= 2)
    BY <1>3, <2>1 DEF Kept
  <2> QED
    BY <1>0, <2>2
<1> QED
  BY <1>3, <1>4

LEMMA EvictingRefines ==
  ASSUME 0 \notin IDs, Inv, NEW t \in IDs, CollectEvicting(t), NEW d, Kept(d)
  PROVE  Kept(0)' /\ Abstract!Admit(t)
<1>0. /\ Max \in Nat \ {0} /\ TypeOK /\ t \notin traces /\ Oldest # Free
      /\ traces' = (traces \ {Oldest}) \cup {t} /\ TakeSlot(t)
  BY MaxAssumption DEF CollectEvicting, Inv
<1>1. Around'[Max] = t /\ \A k \in 1..(Max - 1) : Around'[k] = Around[k + 1]
  BY <1>0, AroundTurns
<1>2. d \in {0, 1} /\ \A k \in 2..Max : Around[k] \in traces /\ Around[k] # Oldest
  BY <1>0, FullRing
<1>3. ASSUME NEW k \in 1..Max PROVE Around'[k] \in traces'
  <2>1. CASE k = Max
    BY <1>0, <1>1, <2>1
  <2>2. CASE k # Max
    <3>1. k \in 1..(Max - 1) /\ k + 1 \in 2..Max
      BY <1>0, <2>2
    <3> QED
      BY <1>0, <1>1, <1>2, <3>1
  <2> QED
    BY <2>1, <2>2
<1>4. Kept(0)'
  <2>1. 0 \in 0..Max /\ 0 + 1 = 1 /\ 1..0 = {}
    BY <1>0
  <2> QED
    BY <1>3, <2>1 DEF Kept
<1>5. window' = Append(From(1), t)
  <2>1. 0 \in 0..Max /\ 0 \in 0..(Max - 1) /\ 0 + 1 = 1
    BY <1>0
  <2>2. From(0)' = Append(From(0 + 1), t)
    BY <1>0, <2>1, JoinsWindow
  <2>3. window' = From(0)'
    BY <1>4, <2>1, NewWindowPieces DEF Pieces
  <2> QED
    BY <2>1, <2>2, <2>3
<1>6. Len(window) = Max - d /\ ~Abstract!InWindow(t) /\ window = From(d)
  BY <1>0, KeptTraces, NotInWindow, WindowIsPiece
<1>7. CASE d = 0
  <2>1. Len(window) = Max /\ Tail(window) = From(1)
    BY <1>0, <1>6, <1>7, TailOfWindow
  <2> QED
    BY <1>4, <1>5, <1>6, <2>1 DEF Abstract!Admit, Abstract!Full
<1>8. CASE d = 1
  <2>1. Len(window) # Max /\ window = From(1)
    BY <1>0, <1>6, <1>8
  <2> QED
    BY <1>4, <1>5, <1>6, <2>1 DEF Abstract!Admit, Abstract!Full
<1> QED
  BY <1>2, <1>7, <1>8

LEMMA FailingRefines ==
  ASSUME Inv, NEW t \in IDs, EvictionFails(t), NEW d, Kept(d)
  PROVE  Kept(1)' /\ (Abstract!MakeRoom \/ UNCHANGED window)
<1>0. /\ Max \in Nat \ {0} /\ TypeOK /\ RingMatchesSet /\ Oldest # Free
      /\ traces' = traces \ {Oldest} /\ UNCHANGED <<ring, nextInsertIdx>>
  BY MaxAssumption DEF EvictionFails, Inv
<1>1. Around' = Around /\ Around[1] = Oldest
  BY <1>0, AroundMatches DEF Around
<1>2. d \in {0, 1} /\ \A k \in 2..Max : Around[k] \in traces /\ Around[k] # Oldest
  BY <1>0, FullRing
<1>3. Kept(1)'
  <2>1. 1 \in 0..Max /\ 1 + 1 = 2 /\ \A k \in 1..1 : k = 1
    BY <1>0
  <2> QED
    BY <1>0, <1>1, <1>2, <2>1 DEF Kept
<1>4. window' = From(1)
  <2>1. 1 \in 0..Max /\ From(1)' = From(1)
    BY <1>0, <1>1 DEF From
  <2> QED
    BY <1>3, <2>1, NewWindowPieces DEF Pieces
<1>5. Len(window) = Max - d /\ window = From(d)
  BY <1>0, KeptTraces, WindowIsPiece
<1>6. CASE d = 0
  <2>1. Len(window) = Max /\ Tail(window) = From(1) /\ window # <<>>
    BY <1>0, <1>5, <1>6, TailOfWindow
  <2> QED
    BY <1>3, <1>4, <2>1 DEF Abstract!MakeRoom, Abstract!Full
<1>7. CASE d = 1
  BY <1>3, <1>4, <1>5, <1>7
<1> QED
  BY <1>2, <1>6, <1>7

WindowInv == \E d \in 0..Max : Kept(d)

LEMMA StepRefines ==
  ASSUME 0 \notin IDs, Inv, WindowInv, [Next]_vars
  PROVE  WindowInv' /\ [Abstract!Next]_window
<1>1. PICK d \in 0..Max : Kept(d)
  BY DEF WindowInv
<1>2. ASSUME NEW t \in IDs, CollectIntoFreeSlot(t) PROVE WindowInv' /\ [Abstract!Next]_window
  BY <1>1, <1>2, FreeSlotRefines DEF WindowInv, Abstract!Next
<1>3. 0 \in 0..Max /\ (Max # 0 => 1 \in 0..Max)
  BY MaxAssumption
<1>4. ASSUME NEW t \in IDs, CollectEvicting(t) PROVE WindowInv' /\ [Abstract!Next]_window
  BY <1>1, <1>3, <1>4, EvictingRefines DEF WindowInv, Abstract!Next
<1>5. ASSUME NEW t \in IDs, EvictionFails(t) PROVE WindowInv' /\ [Abstract!Next]_window
  <2>1. 1 \in 0..Max
    BY <1>3, <1>5 DEF EvictionFails
  <2> QED
    BY <1>1, <1>5, <2>1, FailingRefines DEF WindowInv, Abstract!Next
<1>6. CASE UNCHANGED <<ring, nextInsertIdx, traces>>
  <2>1. Around' = Around
    BY <1>6 DEF Around
  <2>2. Kept(d)' /\ From(d)' = From(d)
    BY <1>1, <1>6, <2>1 DEF Kept, From
  <2>3. window' = window
    BY <1>1, <2>2, WindowIsPiece, NewWindowPieces DEF Pieces
  <2> QED
    BY <2>2, <2>3 DEF WindowInv
<1> QED
  BY <1>2, <1>4, <1>5, <1>6 DEF Next, CollectKnown, Delete, vars

(* LimitStore implements TraceWindow: first collected, first evicted, and  *)
(* nothing is evicted but to make room, whatever calls fail underneath.    *)
THEOREM EvictsOldestFirst == ASSUME 0 \notin IDs PROVE Spec => EvictsInOrder
<1>1. Init => WindowInv /\ Abstract!Init
  <2> SUFFICES ASSUME Init PROVE WindowInv /\ window = <<>>
    BY DEF Abstract!Init
  <2>1. Kept(Max)
    BY MaxAssumption DEF Init, Kept
  <2>2. From(Max) = <<>>
    BY MaxAssumption DEF From
  <2> QED
    BY <2>1, <2>2, WindowIsPiece DEF WindowInv, Kept
<1>2. Inv /\ WindowInv /\ [Next]_vars => WindowInv' /\ [Abstract!Next]_window
  BY StepRefines
<1> QED
  BY <1>1, <1>2, Invariance, PTL DEF Spec, EvictsInOrder, Abstract!Spec
=============================================================================
