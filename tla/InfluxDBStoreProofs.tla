------------------------- MODULE InfluxDBStoreProofs -------------------------
(***************************************************************************)
(* InfluxDBStore for every set of traces, spans and uploads, any size of   *)
(* the batch and any number of restarts: a point is passed on to the       *)
(* database once at most, and a listing agrees with Trace.                 *)
(***************************************************************************)
EXTENDS InfluxDBStore, InductionLemmas, TLAPS

F == taken["flusher"]
C == taken["closer"]

(* What an upload collects.                                                *)
PointOf(u, k) == [span |-> UploadOf[u][k], by |-> u]

LEMMA UploadPoint ==
  ASSUME NEW u \in Uploads, NEW k \in 1..Len(UploadOf[u])
  PROVE  PointOf(u, k) \in Point
<1>1. UploadOf[u] \in Seq(Spans)
  BY ConstantsAssumption
<1>2. UploadOf[u][k] \in Range(UploadOf[u])
  BY <1>1 DEF Range
<1> QED
  BY <1>2 DEF PointOf, Point

LEMMA UploadLength ==
  ASSUME NEW u \in Uploads
  PROVE  Len(UploadOf[u]) \in Nat \ {0}
<1>1. UploadOf[u] \in Seq(Spans) /\ UploadOf[u] # <<>>
  BY ConstantsAssumption
<1> QED
  BY <1>1

-----------------------------------------------------------------------------
(* Where an upload stands: the spans it has still to collect are new.      *)
Place ==
    \A u \in Uploads :
        /\ next[u] \in 1..Len(UploadOf[u])
        /\ uploadAt[u] = "start" => next[u] = 1

TypeInv == TypeOK /\ Place

LEMMA InitTypes == Init => TypeInv
<1> SUFFICES ASSUME Init PROVE TypeInv
  OBVIOUS
<1>1. TypeOK
  <2>1. 0 \in 0..MaxRestarts /\ 0 \in 0..Len(SetupSteps)
    <3>1. MaxRestarts \in Nat /\ Len(SetupSteps) = 5
      BY ConstantsAssumption DEF SetupSteps
    <3> QED
      BY <3>1
  <2>2. taken \in [Writers -> SUBSET Point]
    BY DEF Init
  <2> QED
    BY <2>1, <2>2 DEF Init, TypeOK
<1>2. Place
  BY UploadLength DEF Init, Place
<1> QED
  BY <1>1, <1>2 DEF TypeInv

LEMMA PointSizes ==
  ASSUME NEW p \in Point PROVE p.span \in Spans /\ PointSize[p.span] \in Nat
<1>1. p.span \in Spans
  <2>1. ASSUME NEW u \in Uploads, p \in [span : Range(UploadOf[u]), by : {u}]
        PROVE  p.span \in Spans
    <3>1. UploadOf[u] \in Seq(Spans)
      BY ConstantsAssumption
    <3>2. Range(UploadOf[u]) \subseteq Spans
      BY <3>1 DEF Range
    <3> QED
      BY <2>1, <3>2
  <2>2. CASE p \in [span : Recorded, by : {App}]
    BY <2>2, ConstantsAssumption
  <2> QED
    BY <2>1, <2>2 DEF Point
<1> QED
  BY <1>1, ConstantsAssumption

LEMMA CollectTypes ==
  ASSUME TypeOK, NEW p \in Point, Collect(p) \/ Refuse(p)
  PROVE  batch' \subseteq Point /\ batchSizeBytes' \in Nat /\ lost' \subseteq Point
<1>0. CASE Refuse(p)
  BY <1>0 DEF Refuse, TypeOK, batchVars
<1>1. PointSize[p.span] \in Nat
  BY PointSizes
<1> QED
  BY <1>0, <1>1 DEF Collect, TypeOK

LEMMA TypeStep == TypeInv /\ [Next]_vars => TypeInv'
<1> SUFFICES ASSUME TypeInv, [Next]_vars PROVE TypeInv'
  OBVIOUS
<1>0. TypeOK /\ Place /\ Len(SetupSteps) = 5 /\ MaxRestarts \in Nat
  BY ConstantsAssumption DEF TypeInv, SetupSteps
<1> USE <1>0
<1>1. CASE SetUp
  <2>1. setup' \in 0..Len(SetupSteps) /\ setupFailed' \in BOOLEAN /\ server' \in {"open", "closed"}
    <3>1. setup' \in {0, setup + 1} /\ setup < Len(SetupSteps)
      BY <1>1 DEF SetUp
    <3>2. setup' \in 0..Len(SetupSteps)
      BY <3>1 DEF TypeOK
    <3> QED
      BY <1>1, <3>2 DEF SetUp, TypeOK
  <2> QED
    BY <1>1, <2>1 DEF SetUp, TypeInv, TypeOK, Place, stored, batchVars, phases, uploadVars
<1>2. ASSUME NEW p \in Point, CollectRecorded(p) PROVE TypeInv'
  <2>1. batch' \subseteq Point /\ batchSizeBytes' \in Nat /\ lost' \subseteq Point
    BY <1>2, CollectTypes DEF CollectRecorded
  <2> QED
    BY <1>2, <2>1 DEF CollectRecorded, TypeInv, TypeOK, Place, stored, phases, uploadVars
<1>3. CASE FlusherStarts \/ FlusherStops
  BY <1>3 DEF FlusherStarts, FlusherStops, TypeInv, TypeOK, Place, stored, batchVars, uploadVars
<1>4. CASE TimerFlush
  BY <1>4 DEF TimerFlush, TakeBatch, TypeInv, TypeOK, Place, stored, uploadVars, Writers
<1>5. ASSUME NEW w \in Writers, WriteEnds(w)
      PROVE  /\ db' \subseteq Point /\ lost' \subseteq Point /\ db \subseteq db'
             /\ taken' \in [Writers -> SUBSET Point] /\ expired' = expired
  BY <1>5 DEF WriteEnds, TypeOK
<1>6. CASE FlusherWrites
  <2>1. WriteEnds("flusher") /\ "flusher" \in Writers
    BY <1>6 DEF FlusherWrites, Writers
  <2> QED
    BY <1>5, <1>6, <2>1
    DEF FlusherWrites, WriteEnds, TypeInv, TypeOK, Place, stored, batchVars, uploadVars
<1>7. CASE CloserWrites
  <2>1. WriteEnds("closer") /\ "closer" \in Writers
    BY <1>7 DEF CloserWrites, Writers
  <2> QED
    BY <1>5, <1>7, <2>1
    DEF CloserWrites, WriteEnds, TypeInv, TypeOK, Place, stored, batchVars, uploadVars
<1>8. CASE Close
  BY <1>8 DEF Close, TypeInv, TypeOK, Place, stored, batchVars, uploadVars
<1>9. CASE CloseFlushes
  BY <1>9 DEF CloseFlushes, TakeBatch, TypeInv, TypeOK, Place, stored, uploadVars, Writers
<1>10. CASE CloseServer
  BY <1>10 DEF CloseServer, TypeInv, TypeOK, Place, stored, batchVars, uploadVars
<1>11. CASE ListRoots
  <2>1. listing' \subseteq db
    BY <1>11 DEF ListRoots
  <2> QED
    BY <1>11, <2>1 DEF ListRoots, TypeInv, TypeOK, Place, stored, batchVars, phases, uploadVars
<1>12. CASE ListChildren
  BY <1>12 DEF ListChildren, TypeInv, TypeOK, Place, stored, batchVars, phases, uploadVars
<1>17. CASE Expire
  <2>1. PICK S \in SUBSET db : db' = db \ S /\ expired' = expired \cup S
    BY <1>17 DEF Expire
  <2>2. db' \cup expired' = db \cup expired
    BY <2>1
  <2> QED
    BY <1>17, <2>1, <2>2 DEF Expire, TypeInv, TypeOK, Place, batchVars, phases, uploadVars
<1>13. ASSUME NEW u \in Uploads, CheckUpload(u) PROVE TypeInv'
  <2>1. /\ uploadAt' \in [Uploads -> {"start", "collecting", "done"}]
        /\ \A v \in Uploads : uploadAt'[v] = "start" => uploadAt[v] = "start"
    BY <1>13 DEF CheckUpload, TypeOK
  <2> QED
    BY <1>13, <2>1 DEF CheckUpload, TypeInv, TypeOK, Place, stored, batchVars, phases
<1>14. ASSUME NEW u \in Uploads, CollectUploaded(u) PROVE TypeInv'
  <2>1. /\ next[u] \in 1..Len(UploadOf[u]) /\ Len(UploadOf[u]) \in Nat \ {0}
        /\ uploadAt[u] = "collecting"
    BY <1>14, UploadLength DEF CollectUploaded, Place
  <2>2. PointOf(u, next[u]) \in Point /\ (Collect(PointOf(u, next[u])) \/ Refuse(PointOf(u, next[u])))
    BY <1>14, <2>1, UploadPoint DEF CollectUploaded, PointOf
  <2>3. batch' \subseteq Point /\ batchSizeBytes' \in Nat /\ lost' \subseteq Point
    BY <2>2, CollectTypes
  <2>4. /\ next' \in [Uploads -> Nat]
        /\ uploadAt' \in [Uploads -> {"start", "collecting", "done"}]
    <3>1. \E ended \in BOOLEAN :
             /\ next' = [next EXCEPT ![u] = IF ended THEN 1 ELSE @ + 1]
             /\ uploadAt' = [uploadAt EXCEPT ![u] = IF ended THEN "done" ELSE @]
      BY <1>14 DEF CollectUploaded
    <3> QED
      BY <3>1 DEF TypeOK
  <2>5. Place'
    <3>1. next'[u] \in 1..Len(UploadOf[u]) /\ uploadAt'[u] # "start"
      BY <1>14, <2>1 DEF CollectUploaded, TypeOK
    <3>2. \A v \in Uploads \ {u} : next'[v] = next[v] /\ uploadAt'[v] = uploadAt[v]
      BY <1>14 DEF CollectUploaded, TypeOK
    <3> QED
      BY <3>1, <3>2 DEF Place
  <2> QED
    BY <1>14, <2>3, <2>4, <2>5 DEF CollectUploaded, TypeInv, TypeOK, stored, phases
<1>15. CASE Restart
  <2>1. db' \subseteq Point /\ lost' \subseteq Point
    <3>1. PICK W \in SUBSET Writers :
            LET S == UNION {taken[w] : w \in W}
            IN  /\ db' = db \cup S
                /\ lost' = lost \cup batch \cup ((UNION Range(taken)) \ S)
      BY <1>15 DEF Restart
    <3>2. UNION {taken[w] : w \in W} \subseteq Point /\ UNION Range(taken) \subseteq Point
      BY DEF TypeOK, Range
    <3> QED
      BY <3>1, <3>2 DEF TypeOK
  <2>2. /\ next' \in [Uploads -> Nat]
        /\ uploadAt' \in [Uploads -> {"start", "collecting", "done"}]
    BY <1>15 DEF Restart, TypeOK
  <2>3. Place'
    BY <1>15, UploadLength DEF Restart, Place
  <2>4. restarts' \in 0..MaxRestarts /\ setup' \in 0..Len(SetupSteps)
    BY <1>15 DEF Restart, TypeOK
  <2>5. taken' \in [Writers -> SUBSET Point]
    BY <1>15 DEF Restart
  <2>6. TypeOK'
    BY <1>15, <2>1, <2>2, <2>4, <2>5 DEF Restart, TypeOK
  <2> QED
    BY <2>3, <2>6 DEF TypeInv
<1>16. CASE UNCHANGED vars
  BY <1>16 DEF vars, TypeInv, TypeOK, Place, stored, batchVars, phases, uploadVars
<1> QED
  BY <1>1, <1>2, <1>3, <1>4, <1>6, <1>7, <1>8, <1>9, <1>10, <1>11, <1>12, <1>13, <1>14,
     <1>15, <1>16, <1>17 DEF Next

(* The variables of InfluxDBStore keep their types.                        *)
THEOREM TypeCorrect == Spec => []TypeOK
<1>1. TypeInv => TypeOK
  BY DEF TypeInv
<1> QED
  BY <1>1, InitTypes, TypeStep, PTL DEF Spec

-----------------------------------------------------------------------------
passed == db \cup expired

(* A point is in one place: the batch, a write, the database or lost; and  *)
(* a writer that is not writing holds none.                                *)
OnePlace ==
    /\ batch \cap (F \cup C \cup passed \cup lost) = {}
    /\ F \cap (C \cup passed \cup lost) = {} /\ C \cap (passed \cup lost) = {}
    /\ passed \cap lost = {}

Idle == (flusher # "writing" => F = {}) /\ (closer # "writing" => C = {})

(* What an upload has still to collect is new.                             *)
StillToCome ==
    \A u \in Uploads : uploadAt[u] # "done" =>
        \A k \in next[u]..Len(UploadOf[u]) : PointOf(u, k) \notin Seen

Inv == TypeInv /\ OnePlace /\ Idle /\ StillToCome

LEMMA BufferedParts == TypeOK => Buffered = batch \cup F \cup C
<1> SUFFICES ASSUME TypeOK PROVE UNION Range(taken) = F \cup C
  BY DEF Buffered
<1>1. Range(taken) = {F, C}
  BY DEF TypeOK, Range, F, C, Writers
<1> QED
  BY <1>1

LEMMA InitInv == Init => Inv
<1> SUFFICES ASSUME Init PROVE Inv
  OBVIOUS
<1>1. F = {} /\ C = {}
  BY DEF Init, F, C, Writers
<1>2. TypeInv /\ Buffered = {}
  BY <1>1, InitTypes, BufferedParts DEF TypeInv, Init
<1> QED
  BY <1>1, <1>2 DEF Inv, Init, OnePlace, Idle, StillToCome, Seen, passed

(* What can happen to the points.                                          *)
Takes(w) ==
    /\ batch' = {} /\ UNCHANGED <<passed, lost>> /\ taken[w] = {}
    /\ taken' = [taken EXCEPT ![w] = batch]

Writes(w) == \E S \in {{}, taken[w]} :
    /\ passed' = passed \cup S /\ lost' = lost \cup (taken[w] \ S)
    /\ taken' = [taken EXCEPT ![w] = {}] /\ UNCHANGED batch

Dies == \E S \in SUBSET (F \cup C) :
    /\ passed' = passed \cup S /\ lost' = lost \cup batch \cup ((F \cup C) \ S)
    /\ batch' = {} /\ taken' = [w \in Writers |-> {}]

Collects(p) ==
    /\ p \in Point \ Seen /\ UNCHANGED <<taken, passed>>
    /\ \/ batch' = {} /\ lost' = lost \cup batch \cup {p}
       \/ batch' = batch \cup {p} /\ UNCHANGED lost
       \/ lost' = lost \cup {p} /\ UNCHANGED batch

Shifts ==
    \/ UNCHANGED <<batch, taken, passed, lost>> \/ Dies
    \/ \E w \in Writers : Takes(w) \/ Writes(w)

CollectsRecorded == \E p \in Point : CollectRecorded(p)
CollectsUploaded == \E u \in Uploads : CollectUploaded(u)

Moves == Shifts \/ \E p \in Point : Collects(p)

LEMMA Uploaded ==
  ASSUME Inv, NEW u \in Uploads, CollectUploaded(u)
  PROVE  /\ next[u] \in 1..Len(UploadOf[u]) /\ Len(UploadOf[u]) \in Nat
         /\ Collects(PointOf(u, next[u])) /\ PointOf(u, next[u]) \in Point
<1>1. /\ next[u] \in 1..Len(UploadOf[u]) /\ Len(UploadOf[u]) \in Nat
      /\ uploadAt[u] = "collecting"
  BY UploadLength DEF CollectUploaded, Inv, TypeInv, Place
<1>2. PointOf(u, next[u]) \in Point
  BY <1>1, UploadPoint
<1>3. next[u] \in next[u]..Len(UploadOf[u])
  BY <1>1
<1>4. PointOf(u, next[u]) \notin Seen
  BY <1>1, <1>3 DEF Inv, StillToCome
<1>5. /\ Collect(PointOf(u, next[u])) \/ Refuse(PointOf(u, next[u]))
      /\ UNCHANGED <<taken, passed>>
  BY DEF CollectUploaded, PointOf, stored, passed
<1> QED
  BY <1>1, <1>2, <1>4, <1>5 DEF Collects, Collect, Refuse, batchVars

LEMMA StepShifts ==
  Inv /\ [Next]_vars => Shifts \/ CollectsRecorded \/ CollectsUploaded
<1> SUFFICES ASSUME Inv, [Next]_vars, ~CollectsRecorded, ~CollectsUploaded PROVE Shifts
  OBVIOUS
<1>2. CASE TimerFlush
  <2>1. Takes("flusher")
    BY <1>2 DEF TimerFlush, TakeBatch, Takes, Inv, Idle, F, stored, passed
  <2> QED
    BY <2>1 DEF Shifts, Writers
<1>3. CASE CloseFlushes
  <2>1. Takes("closer")
    BY <1>3 DEF CloseFlushes, TakeBatch, Takes, Inv, Idle, C, stored, passed
  <2> QED
    BY <2>1 DEF Shifts, Writers
<1>4. CASE FlusherWrites
  <2>1. Writes("flusher")
    BY <1>4 DEF FlusherWrites, WriteEnds, Writes, batchVars, passed
  <2> QED
    BY <2>1 DEF Shifts, Writers
<1>5. CASE CloserWrites
  <2>1. Writes("closer")
    BY <1>5 DEF CloserWrites, WriteEnds, Writes, batchVars, passed
  <2> QED
    BY <2>1 DEF Shifts, Writers
<1>7. CASE Restart
  <2>1. UNION Range(taken) = F \cup C
    <3>1. Range(taken) = {F, C}
      BY DEF Inv, TypeInv, TypeOK, Range, F, C, Writers
    <3> QED
      BY <3>1
  <2>2. PICK W \in SUBSET Writers :
          /\ db' = db \cup UNION {taken[w] : w \in W}
          /\ lost' = lost \cup batch \cup ((UNION Range(taken)) \ UNION {taken[w] : w \in W})
    BY <1>7 DEF Restart
  <2> DEFINE S == UNION {taken[w] : w \in W}
  <2>3. S \in SUBSET (F \cup C)
    <3>1. ASSUME NEW x \in S PROVE x \in F \cup C
      <4>1. PICK w \in W : x \in taken[w]
        BY <3>1
      <4> QED
        BY <4>1 DEF Writers, F, C
    <3> HIDE DEF S
    <3> QED
      BY <3>1
  <2>4. db' = db \cup S /\ lost' = lost \cup batch \cup ((UNION Range(taken)) \ S)
    BY ONLY <2>2
  <2> HIDE DEF S
  <2>5. batch' = {} /\ taken' = [w \in Writers |-> {}]
    BY <1>7 DEF Restart
  <2>6. Dies
    <3>1. lost' = lost \cup batch \cup ((F \cup C) \ S)
      BY <2>1, <2>4
    <3>2. passed' = passed \cup S
      BY <1>7, <2>4 DEF Restart, passed
    <3> QED
      BY <2>3, <2>5, <3>1, <3>2 DEF Dies
  <2> QED
    BY <2>6 DEF Shifts
<1>8. CASE SetUp \/ FlusherStarts \/ FlusherStops \/ Close \/ CloseServer
  BY <1>8 DEF SetUp, FlusherStarts, FlusherStops, Close, CloseServer, batchVars, Shifts,
              stored, passed
<1>9. CASE ListRoots \/ ListChildren
  BY <1>9 DEF ListRoots, ListChildren, batchVars, Shifts, stored, passed
<1>12. CASE Expire
  <2>1. PICK S \in SUBSET db : db' = db \ S /\ expired' = expired \cup S
    BY <1>12 DEF Expire
  <2>2. passed' = passed
    BY <2>1 DEF passed
  <2> QED
    BY <1>12, <2>2 DEF Expire, batchVars, Shifts
<1>10. ASSUME NEW u \in Uploads, CheckUpload(u) PROVE Shifts
  BY <1>10 DEF CheckUpload, batchVars, Shifts, stored, passed
<1>11. CASE UNCHANGED vars
  BY <1>11 DEF vars, batchVars, Shifts, stored, passed
<1> QED
  BY <1>2, <1>3, <1>4, <1>5, <1>7, <1>8, <1>9, <1>10, <1>11, <1>12
  DEF Next, CollectsRecorded, CollectsUploaded

LEMMA Recording ==
  ASSUME NEW p \in Point, CollectRecorded(p)
  PROVE  Collects(p)
BY DEF CollectRecorded, Collect, Refuse, Collects, batchVars, stored, passed

LEMMA StepMoves == Inv /\ [Next]_vars => Moves
BY StepShifts, Recording, Uploaded DEF Moves, CollectsRecorded, CollectsUploaded

LEMMA TakenParts ==
  ASSUME TypeOK, NEW w \in Writers, NEW S, taken' = [taken EXCEPT ![w] = S]
  PROVE  \/ w = "flusher" /\ F' = S /\ C' = C
         \/ w = "closer"  /\ C' = S /\ F' = F
BY DEF TypeOK, F, C, Writers

LEMMA MovesKeepPlace == Inv /\ Moves => OnePlace'
<1> SUFFICES ASSUME Inv, Moves PROVE OnePlace'
  OBVIOUS
<1>1. TypeOK /\ OnePlace
  BY DEF Inv, TypeInv
<1>2. CASE UNCHANGED <<batch, taken, passed, lost>>
  BY <1>1, <1>2 DEF OnePlace, F, C
<1>3. CASE Dies
  <2>1. F' = {} /\ C' = {}
    BY <1>3 DEF Dies, F, C, Writers
  <2> QED
    BY <1>1, <1>3, <2>1 DEF Dies, OnePlace
<1>4. ASSUME NEW w \in Writers, Takes(w) PROVE OnePlace'
  <2>1. \/ w = "flusher" /\ F' = batch /\ C' = C /\ F = {}
        \/ w = "closer"  /\ C' = batch /\ F' = F /\ C = {}
    <3>1. taken' = [taken EXCEPT ![w] = batch] /\ taken[w] = {}
      BY <1>4 DEF Takes
    <3>2. \/ w = "flusher" /\ F' = batch /\ C' = C
          \/ w = "closer"  /\ C' = batch /\ F' = F
      BY <1>1, <3>1, TakenParts
    <3> QED
      BY <3>1, <3>2 DEF F, C
  <2>2. batch' = {} /\ UNCHANGED <<passed, lost>>
    BY <1>4 DEF Takes
  <2> QED
    BY <1>1, <2>1, <2>2 DEF OnePlace
<1>5. ASSUME NEW w \in Writers, Writes(w) PROVE OnePlace'
  <2>1. PICK S \in {{}, taken[w]} :
          /\ passed' = passed \cup S /\ lost' = lost \cup (taken[w] \ S)
          /\ taken' = [taken EXCEPT ![w] = {}] /\ UNCHANGED batch
    BY <1>5 DEF Writes
  <2>2. \/ w = "flusher" /\ F' = {} /\ C' = C /\ taken[w] = F
        \/ w = "closer"  /\ C' = {} /\ F' = F /\ taken[w] = C
    BY <1>1, <2>1, TakenParts DEF F, C
  <2> QED
    BY <1>1, <2>1, <2>2 DEF OnePlace
<1>6. ASSUME NEW p \in Point, Collects(p) PROVE OnePlace'
  <2>1. p \notin batch \cup F \cup C \cup passed \cup lost /\ F' = F /\ C' = C
    <3>1. p \notin Buffered \cup passed \cup lost
      BY <1>6 DEF Collects, Seen, passed
    <3> QED
      BY <1>1, <1>6, <3>1, BufferedParts DEF Collects, F, C
  <2> QED
    BY <1>1, <1>6, <2>1 DEF Collects, OnePlace
<1> QED
  BY <1>2, <1>3, <1>4, <1>5, <1>6 DEF Moves, Shifts

LEMMA MovesKeepIdle == Inv /\ [Next]_vars => Idle'
<1> SUFFICES ASSUME Inv, [Next]_vars PROVE Idle'
  OBVIOUS
<1>1. TypeOK /\ Idle
  BY DEF Inv, TypeInv
<1>2. ASSUME UNCHANGED <<flusher, closer, taken>> PROVE Idle'
  BY <1>1, <1>2 DEF Idle, F, C
<1>3. CASE TimerFlush
  <2>1. C' = C /\ closer' = closer /\ flusher' = "writing"
    BY <1>1, <1>3, TakenParts DEF TimerFlush, TakeBatch, Writers
  <2> QED
    BY <1>1, <2>1 DEF Idle
<1>4. CASE CloseFlushes
  <2>1. /\ F' = F /\ C' = batch /\ flusher' = flusher
        /\ batch # {} => closer' = "writing"
    BY <1>1, <1>4, TakenParts DEF CloseFlushes, TakeBatch, Writers
  <2> QED
    BY <1>1, <2>1 DEF Idle
<1>5. CASE FlusherWrites
  <2>1. F' = {} /\ C' = C /\ closer' = closer
    BY <1>1, <1>5, TakenParts DEF FlusherWrites, WriteEnds, Writers
  <2> QED
    BY <1>1, <2>1 DEF Idle
<1>6. CASE CloserWrites
  <2>1. C' = {} /\ F' = F /\ flusher' = flusher
    BY <1>1, <1>6, TakenParts DEF CloserWrites, WriteEnds, Writers
  <2> QED
    BY <1>1, <2>1 DEF Idle
<1>7. CASE FlusherStarts \/ FlusherStops
  BY <1>1, <1>7 DEF FlusherStarts, FlusherStops, Idle, F, C
<1>8. CASE Close \/ CloseServer
  BY <1>1, <1>8 DEF Close, CloseServer, Idle, F, C
<1>9. CASE Restart
  BY <1>9 DEF Restart, Idle, F, C, Writers
<1>10. CASE SetUp \/ ListRoots \/ ListChildren \/ Expire \/ UNCHANGED vars
  BY <1>2, <1>10 DEF SetUp, ListRoots, ListChildren, Expire, vars, phases
<1>11. ASSUME NEW p \in Point, CollectRecorded(p) PROVE Idle'
  BY <1>2, <1>11 DEF CollectRecorded, phases
<1>12. ASSUME NEW u \in Uploads, CheckUpload(u) \/ CollectUploaded(u) PROVE Idle'
  BY <1>2, <1>12 DEF CheckUpload, CollectUploaded, phases
<1> QED
  BY <1>3, <1>4, <1>5, <1>6, <1>7, <1>8, <1>9, <1>10, <1>11, <1>12 DEF Next

(* Only a Collect shows the store a new point.                             *)
LEMMA SeenParts ==
  ASSUME TypeOK, TypeOK'
  PROVE  /\ Seen = batch \cup F \cup C \cup passed \cup lost
         /\ Seen' = batch' \cup F' \cup C' \cup passed' \cup lost'
<1>1. Range(taken) = {F, C} /\ Range(taken') = {F', C'}
  BY DEF TypeOK, Range, F, C, Writers
<1>2. UNION Range(taken) = F \cup C /\ UNION Range(taken') = F' \cup C'
  BY <1>1
<1> QED
  BY <1>2 DEF Seen, Buffered, passed

LEMMA CollectSeen ==
  ASSUME TypeOK, TypeOK', NEW p, Collects(p)
  PROVE  Seen' \subseteq Seen \cup {p}
<1>1. F' = F /\ C' = C
  BY DEF Collects, F, C
<1> QED
  BY <1>1, SeenParts DEF Collects

LEMMA ShiftSeen ==
  ASSUME TypeOK, TypeOK', Shifts
  PROVE  Seen' \subseteq Seen
<1>4. CASE UNCHANGED <<batch, taken, passed, lost>>
  BY SeenParts, <1>4 DEF F, C
<1>5. CASE Dies
  <2>1. F' = {} /\ C' = {}
    BY <1>5 DEF Dies, F, C, Writers
  <2> QED
    BY SeenParts, <1>5, <2>1 DEF Dies
<1>6. ASSUME NEW w \in Writers, Takes(w) PROVE Seen' \subseteq Seen
  <2>1. F' \subseteq F \cup batch /\ C' \subseteq C \cup batch
    BY <1>6, TakenParts DEF Takes
  <2> QED
    BY SeenParts, <1>6, <2>1 DEF Takes
<1>7. ASSUME NEW w \in Writers, Writes(w) PROVE Seen' \subseteq Seen
  <2>1. PICK S \in {{}, taken[w]} :
          /\ passed' = passed \cup S /\ lost' = lost \cup (taken[w] \ S)
          /\ taken' = [taken EXCEPT ![w] = {}] /\ UNCHANGED batch
    BY <1>7 DEF Writes
  <2>2. F' \subseteq F /\ C' \subseteq C /\ taken[w] \subseteq F \cup C
    BY <2>1, TakenParts DEF F, C
  <2> QED
    BY SeenParts, <2>1, <2>2
<1> QED
  BY <1>4, <1>5, <1>6, <1>7 DEF Shifts

LEMMA StepKeepsComing == Inv /\ [Next]_vars /\ TypeInv' => StillToCome'
<1> SUFFICES ASSUME Inv, [Next]_vars, TypeInv',
                    NEW u \in Uploads, uploadAt'[u] # "done",
                    NEW k \in next'[u]..Len(UploadOf[u])
             PROVE  PointOf(u, k) \notin Seen'
  BY DEF StillToCome
<1>1. TypeOK /\ Place /\ StillToCome /\ TypeOK' /\ Place'
  BY DEF Inv, TypeInv
<1>2. next[u] \in 1..Len(UploadOf[u]) /\ next'[u] \in 1..Len(UploadOf[u])
  BY <1>1 DEF Place
<1>3. Len(UploadOf[u]) \in Nat /\ k \in 1..Len(UploadOf[u])
  BY <1>2, UploadLength
<1>4. CASE CollectUploaded(u)
  <2>1. next'[u] = next[u] + 1 /\ uploadAt[u] = "collecting"
    BY <1>1, <1>4 DEF CollectUploaded, TypeOK
  <2>2. k \in next[u]..Len(UploadOf[u]) /\ k # next[u]
    BY <1>2, <1>3, <2>1
  <2>3. PointOf(u, k) \notin Seen
    BY <1>1, <2>1, <2>2 DEF StillToCome
  <2>4. PointOf(u, k) # PointOf(u, next[u])
    <3>1. UploadOf[u][k] # UploadOf[u][next[u]]
      <4>1. UploadOf[u] \in Seq(Spans)
        BY ConstantsAssumption
      <4> QED
        BY <1>2, <1>3, <2>2, <4>1, ConstantsAssumption
    <3> QED
      BY <3>1 DEF PointOf
  <2>5. Seen' \subseteq Seen \cup {PointOf(u, next[u])}
    BY <1>1, <1>4, Uploaded, CollectSeen
  <2> QED
    BY <2>3, <2>4, <2>5
<1>5. ASSUME uploadAt[u] # "done", next'[u] = next[u] PROVE PointOf(u, k) \notin Seen
  BY <1>1, <1>5 DEF StillToCome
<1>6. ASSUME NEW v \in Uploads, CollectUploaded(v), v # u PROVE PointOf(u, k) \notin Seen'
  <2>1. uploadAt[u] # "done" /\ next'[u] = next[u]
    BY <1>1, <1>6 DEF CollectUploaded, TypeOK
  <2>2. Seen' \subseteq Seen \cup {PointOf(v, next[v])}
    BY <1>1, <1>6, Uploaded, CollectSeen
  <2> QED
    BY <1>5, <1>6, <2>1, <2>2 DEF PointOf
<1>7. ASSUME NEW p \in Point, CollectRecorded(p) PROVE PointOf(u, k) \notin Seen'
  <2>1. uploadAt[u] # "done" /\ next'[u] = next[u] /\ p.by # u
    BY <1>7, ConstantsAssumption DEF CollectRecorded, uploadVars
  <2>2. Seen' \subseteq Seen \cup {p}
    BY <1>1, <1>7, Recording, CollectSeen
  <2> QED
    BY <1>5, <2>1, <2>2 DEF PointOf
<1>8. ASSUME Shifts, uploadAt[u] # "done", next'[u] = next[u] PROVE PointOf(u, k) \notin Seen'
  BY <1>1, <1>5, <1>8, ShiftSeen
<1>9. CASE CollectsRecorded \/ CollectsUploaded
  BY <1>4, <1>6, <1>7, <1>9 DEF CollectsRecorded, CollectsUploaded
<1>10. ASSUME ~CollectsRecorded, ~CollectsUploaded
       PROVE  uploadAt[u] # "done" /\ next'[u] = next[u]
  <2>1. CASE UNCHANGED uploadVars
    BY <2>1 DEF uploadVars
  <2>2. ASSUME NEW v \in Uploads, CheckUpload(v) PROVE uploadAt[u] # "done" /\ next' = next
    BY <1>1, <2>2 DEF CheckUpload, TypeOK
  <2>3. CASE Restart
    <3>1. uploadAt[u] = "start" /\ next'[u] = 1
      BY <1>1, <2>3 DEF Restart, TypeOK
    <3> QED
      BY <1>1, <3>1 DEF Place
  <2>4. CASE SetUp \/ FlusherStarts \/ FlusherStops \/ Close \/ CloseServer
    BY <2>1, <2>4 DEF SetUp, FlusherStarts, FlusherStops, Close, CloseServer
  <2>5. CASE TimerFlush \/ CloseFlushes \/ FlusherWrites \/ CloserWrites
    BY <2>1, <2>5 DEF TimerFlush, CloseFlushes, FlusherWrites, CloserWrites, WriteEnds
  <2>6. CASE ListRoots \/ ListChildren \/ Expire \/ UNCHANGED vars
    BY <2>1, <2>6 DEF ListRoots, ListChildren, Expire, vars
  <2> QED
    BY <1>10, <2>2, <2>3, <2>4, <2>5, <2>6 DEF Next, CollectsRecorded, CollectsUploaded
<1> QED
  BY <1>8, <1>9, <1>10, StepShifts

LEMMA Invariance == Spec => []Inv
<1>1. Inv /\ [Next]_vars => Inv'
  BY TypeStep, StepMoves, MovesKeepPlace, MovesKeepIdle, StepKeepsComing DEF Inv
<1> QED
  BY <1>1, InitInv, PTL DEF Spec

-----------------------------------------------------------------------------
LEMMA BufferedBoth ==
  ASSUME TypeOK, TypeOK'
  PROVE  Buffered = batch \cup F \cup C /\ Buffered' = batch' \cup F' \cup C'
<1>1. Range(taken) = {F, C} /\ Range(taken') = {F', C'}
  BY DEF TypeOK, Range, F, C, Writers
<1> QED
  BY <1>1 DEF Buffered

LEMMA MovesRefine ==
  Inv /\ TypeOK' /\ Moves => AMO!Next \/ UNCHANGED <<Buffered, passed, lost>>
<1> SUFFICES ASSUME Inv, TypeOK', Moves
             PROVE  AMO!Next \/ UNCHANGED <<Buffered, passed, lost>>
  OBVIOUS
<1>1. /\ TypeOK /\ OnePlace /\ Buffered = batch \cup F \cup C
      /\ Buffered' = batch' \cup F' \cup C'
  BY BufferedBoth DEF Inv, TypeInv
<1>2. CASE UNCHANGED <<batch, taken, passed, lost>>
  BY <1>2 DEF Buffered
<1>3. CASE Dies
  <2>1. PICK S \in SUBSET (F \cup C) :
          /\ passed' = passed \cup S /\ lost' = lost \cup batch \cup ((F \cup C) \ S)
          /\ batch' = {} /\ taken' = [w \in Writers |-> {}]
    BY <1>3 DEF Dies
  <2>2. F' = {} /\ C' = {}
    BY <2>1 DEF F, C, Writers
  <2> DEFINE T == batch \cup ((F \cup C) \ S)
  <2>3. /\ S \in SUBSET Buffered /\ T \in SUBSET Buffered /\ S \cap T = {}
        /\ Buffered' = Buffered \ (S \cup T)
    BY <1>1, <2>1, <2>2 DEF OnePlace
  <2>4. passed' = passed \cup S /\ lost' = lost \cup T
    BY <2>1
  <2> HIDE DEF T
  <2>5. AMO!PassOnAndDrop(S, T)
    BY <2>3, <2>4 DEF AMO!PassOnAndDrop, passed
  <2> QED
    BY <2>3, <2>5 DEF AMO!Next
<1>4. ASSUME NEW w \in Writers, Takes(w) PROVE UNCHANGED <<Buffered, passed, lost>>
  <2>1. taken[w] = {} /\ taken' = [taken EXCEPT ![w] = batch]
    BY <1>4 DEF Takes
  <2>2. \/ w = "flusher" /\ F' = batch /\ C' = C /\ F = {}
        \/ w = "closer"  /\ C' = batch /\ F' = F /\ C = {}
    BY <1>1, <2>1, TakenParts DEF F, C
  <2> QED
    BY <1>1, <1>4, <2>2 DEF Takes
<1>5. ASSUME NEW w \in Writers, Writes(w) PROVE AMO!Next
  <2>1. PICK S \in {{}, taken[w]} :
          /\ passed' = passed \cup S /\ lost' = lost \cup (taken[w] \ S)
          /\ taken' = [taken EXCEPT ![w] = {}] /\ UNCHANGED batch
    BY <1>5 DEF Writes
  <2>2. \/ w = "flusher" /\ F' = {} /\ C' = C /\ taken[w] = F
        \/ w = "closer"  /\ C' = {} /\ F' = F /\ taken[w] = C
    BY <1>1, <2>1, TakenParts DEF F, C
  <2> DEFINE T == taken[w] \ S
  <2>3. S \in SUBSET Buffered /\ T \in SUBSET Buffered /\ S \cap T = {}
    BY <1>1, <2>1, <2>2
  <2>4. Buffered' = Buffered \ (S \cup T)
    BY <1>1, <2>1, <2>2 DEF OnePlace
  <2>5. passed' = passed \cup S /\ lost' = lost \cup T
    BY <2>1
  <2> HIDE DEF T
  <2>6. AMO!PassOnAndDrop(S, T)
    BY <2>3, <2>4, <2>5 DEF AMO!PassOnAndDrop, passed
  <2> QED
    BY <2>3, <2>6 DEF AMO!Next
<1>6. ASSUME NEW p \in Point, Collects(p) PROVE AMO!Next
  <2>1. F' = F /\ C' = C /\ p \in AMO!New
    BY <1>6 DEF Collects, F, C, Seen, AMO!New, passed
  <2>2. CASE batch' = {} /\ lost' = lost \cup batch \cup {p}
    <3>1. Buffered' = Buffered \ batch /\ batch \in SUBSET Buffered /\ passed' = passed
      BY <1>1, <1>6, <2>1, <2>2 DEF OnePlace, Collects
    <3>2. AMO!Reject(p, batch)
      BY <2>1, <2>2, <3>1 DEF AMO!Reject, passed
    <3> QED
      BY <3>1, <3>2 DEF AMO!Next
  <2>3. CASE batch' = batch \cup {p} /\ UNCHANGED lost
    <3>1. Buffered' = Buffered \cup {p} /\ passed' = passed
      BY <1>1, <1>6, <2>1, <2>3 DEF Collects
    <3>2. AMO!Accept(p)
      BY <2>1, <2>3, <3>1 DEF AMO!Accept, passed
    <3> QED
      BY <3>2 DEF AMO!Next
  <2>4. CASE lost' = lost \cup {p} /\ UNCHANGED batch
    <3>1. Buffered' = Buffered \ {} /\ {} \in SUBSET Buffered /\ passed' = passed
      BY <1>1, <1>6, <2>1, <2>4 DEF Collects
    <3>2. AMO!Reject(p, {})
      BY <2>1, <2>4, <3>1 DEF AMO!Reject, passed
    <3> QED
      BY <3>1, <3>2 DEF AMO!Next
  <2> QED
    BY <1>6, <2>2, <2>3, <2>4 DEF Collects
<1> QED
  BY <1>2, <1>3, <1>4, <1>5, <1>6 DEF Moves, Shifts

(* InfluxDBStore implements AtMostOnce: a point gets into the database     *)
(* once at most, and never after it was dropped with a batch or in a       *)
(* failed write.                                                           *)
THEOREM DeliversAtMostOnce == Spec => ImplementsAtMostOnce
<1>1. Init => AMO!Init
  <2> SUFFICES ASSUME Init PROVE Buffered = {} /\ passed = {} /\ lost = {}
    BY DEF AMO!Init, passed
  <2>1. UNION Range(taken) = {}
    BY DEF Init, Range
  <2> QED
    BY <2>1 DEF Init, Buffered, passed
<1>2. Inv /\ Inv' /\ [Next]_vars => [AMO!Next]_<<Buffered, db \cup expired, lost>>
  BY StepMoves, MovesRefine DEF Inv, TypeInv, passed
<1> QED
  BY <1>1, <1>2, Invariance, PTL DEF Spec, ImplementsAtMostOnce, AMO!Spec

-----------------------------------------------------------------------------
(* What a listing goes by: its rows are roots in the database, and there   *)
(* are finitely many points.                                               *)
ListInv ==
    /\ \A p \in listing : IsRoot(p)
    /\ IsFiniteSet(batch) /\ IsFiniteSet(F) /\ IsFiniteSet(C) /\ IsFiniteSet(passed)

LEMMA MovesKeepFinite ==
  ASSUME TypeOK, Moves, IsFiniteSet(batch), IsFiniteSet(F), IsFiniteSet(C), IsFiniteSet(passed)
  PROVE  IsFiniteSet(batch') /\ IsFiniteSet(F') /\ IsFiniteSet(C') /\ IsFiniteSet(passed')
<1>1. CASE UNCHANGED <<batch, taken, passed, lost>>
  BY <1>1 DEF F, C
<1>2. CASE Dies
  <2>1. PICK S \in SUBSET (F \cup C) : passed' = passed \cup S
    BY <1>2 DEF Dies
  <2>2. F' = {} /\ C' = {} /\ batch' = {}
    BY <1>2 DEF Dies, F, C, Writers
  <2>3. IsFiniteSet(F \cup C)
    BY FS_Union
  <2>4. IsFiniteSet(S)
    BY <2>3, FS_Subset
  <2> QED
    BY <2>1, <2>2, <2>4, FS_Union, FS_EmptySet
<1>3. ASSUME NEW w \in Writers, Takes(w)
      PROVE  IsFiniteSet(batch') /\ IsFiniteSet(F') /\ IsFiniteSet(C') /\ IsFiniteSet(passed')
  <2>1. taken' = [taken EXCEPT ![w] = batch] /\ batch' = {} /\ passed' = passed
    BY <1>3 DEF Takes
  <2> QED
    BY <2>1, TakenParts, FS_EmptySet
<1>4. ASSUME NEW w \in Writers, Writes(w)
      PROVE  IsFiniteSet(batch') /\ IsFiniteSet(F') /\ IsFiniteSet(C') /\ IsFiniteSet(passed')
  <2>1. PICK S \in {{}, taken[w]} :
          passed' = passed \cup S /\ taken' = [taken EXCEPT ![w] = {}] /\ UNCHANGED batch
    BY <1>4 DEF Writes
  <2>2. IsFiniteSet(S)
    BY FS_EmptySet DEF F, C, Writers
  <2> QED
    BY <2>1, <2>2, TakenParts, FS_EmptySet, FS_Union
<1>5. ASSUME NEW p \in Point, Collects(p)
      PROVE  IsFiniteSet(batch') /\ IsFiniteSet(F') /\ IsFiniteSet(C') /\ IsFiniteSet(passed')
  <2>1. F' = F /\ C' = C /\ passed' = passed
    BY <1>5 DEF Collects, F, C
  <2>2. batch' = {} \/ batch' = batch \cup {p} \/ batch' = batch
    BY <1>5 DEF Collects
  <2>3. IsFiniteSet({}) /\ IsFiniteSet(batch \cup {p})
    BY FS_EmptySet, FS_AddElement
  <2>4. IsFiniteSet(batch')
    BY <2>2, <2>3
  <2> QED
    BY <2>1, <2>4
<1> QED
  BY <1>1, <1>2, <1>3, <1>4, <1>5 DEF Moves, Shifts

LEMMA ListingKept == [Next]_vars => \/ listing' = listing \/ listing' = {}
                                    \/ \A p \in listing' : IsRoot(p)
<1> SUFFICES ASSUME [Next]_vars
             PROVE  listing' = listing \/ listing' = {} \/ \A p \in listing' : IsRoot(p)
  OBVIOUS
<1>1. CASE SetUp \/ FlusherStarts \/ FlusherStops \/ Close \/ CloseServer
  BY <1>1 DEF SetUp, FlusherStarts, FlusherStops, Close, CloseServer
<1>2. CASE TimerFlush \/ CloseFlushes \/ FlusherWrites \/ CloserWrites
  BY <1>2 DEF TimerFlush, CloseFlushes, FlusherWrites, CloserWrites, WriteEnds
<1>3. ASSUME NEW p \in Point, CollectRecorded(p) PROVE listing' = listing
  BY <1>3 DEF CollectRecorded
<1>4. ASSUME NEW u \in Uploads, CheckUpload(u) \/ CollectUploaded(u) PROVE listing' = listing
  BY <1>4 DEF CheckUpload, CollectUploaded
<1>5. CASE ListRoots
  BY <1>5 DEF ListRoots
<1>6. CASE ListChildren \/ Expire \/ Restart \/ UNCHANGED vars
  BY <1>6 DEF ListChildren, Expire, Restart, vars
<1> QED
  BY <1>1, <1>2, <1>3, <1>4, <1>5, <1>6 DEF Next

LEMMA NoChildren == ASSUME NEW root PROVE addChildren(root, {}) = NoRows
BY DEF addChildren, NoRows

LEMMA ListingIs ==
  ASSUME server = "open"
  PROVE  /\ ChildrenFor(listing) = {} => Listed = [how |-> "panic", under |-> <<>>]
         /\ ChildrenFor(listing) # {} =>
              Listed = [how |-> "ok", under |-> [root \in listing |-> Hung(root)]]
<1>1. CASE ChildrenFor(listing) = {}
  <2>1. Listed = [how |-> "panic", under |-> <<>>]
    BY <1>1 DEF Listed
  <2> QED
    BY ONLY <1>1, <2>1
<1>2. CASE ChildrenFor(listing) # {}
  <2>1. Listed = [how |-> "ok", under |-> [root \in listing |-> Hung(root)]]
    BY <1>2 DEF Listed
  <2> QED
    BY ONLY <1>2, <2>1
<1> QED
  BY ONLY <1>1, <1>2

LEMMA RootShown ==
  ASSUME TypeOK, ListInv, NEW root \in listing, server = "open",
         RootsOf(TraceOf[root.span]) = {root}
  PROVE  Trace(TraceOf[root.span]) = Answer("ok", Hung(root))
<1> DEFINE t == TraceOf[root.span]
           R == RootsOf(t)
<1>1. IsRoot(root) /\ root \in R /\ root \in Rows(t)
  BY DEF ListInv, RootsOf
<1>2. R = {root}
  OBVIOUS
<1>3. (CHOOSE p \in R : TRUE) = root
  BY <1>2
<1>4. Rows(t) \ {root} = {p \in ChildrenFor(listing) : TraceOf[p.span] = t}
  BY <1>1, <1>2 DEF RootsOf, Rows, ChildrenFor
<1>5. Cardinality(R) = 1
  BY <1>2, FS_Singleton
<1>6. Trace(t) = Answer("ok", addChildren(root, Rows(t) \ {root}))
  BY <1>1, <1>2, <1>3, <1>5 DEF Trace
<1> QED
  BY <1>4, <1>6 DEF Hung

LEMMA ListingAgrees == TypeOK /\ ListInv => ListedAsRead
<1> SUFFICES ASSUME TypeOK, ListInv, server = "open", listing # {}
             PROVE  /\ Listed.how \in {"ok", "panic"}
                    /\ \A root \in listing : RootsOf(TraceOf[root.span]) = {root} =>
                          Trace(TraceOf[root.span]) =
                            Answer("ok", IF Listed.how = "ok" THEN Listed.under[root]
                                         ELSE NoRows)
  BY DEF ListedAsRead
<1>1. CASE ChildrenFor(listing) # {}
  <2>1. Listed.how = "ok" /\ Listed.under = [root \in listing |-> Hung(root)]
    BY <1>1, ListingIs
  <2> QED
    BY <2>1, RootShown
<1>2. CASE ChildrenFor(listing) = {}
  <2>1. Listed.how = "panic"
    BY <1>2, ListingIs
  <2>2. \A root : Hung(root) = NoRows
    BY <1>2, NoChildren DEF Hung
  <2> QED
    BY <2>1, <2>2, RootShown
<1> QED
  BY <1>1, <1>2

LEMMA ListInvariance == Spec => [](TypeOK /\ ListInv)
<1>1. Init => ListInv
  BY FS_EmptySet DEF Init, ListInv, F, C, Writers, passed
<1>2. Inv /\ ListInv /\ [Next]_vars => ListInv'
  <2> SUFFICES ASSUME Inv, ListInv, [Next]_vars PROVE ListInv'
    OBVIOUS
  <2>1. IsFiniteSet(batch') /\ IsFiniteSet(F') /\ IsFiniteSet(C') /\ IsFiniteSet(passed')
    BY StepMoves, MovesKeepFinite DEF Inv, TypeInv, ListInv
  <2>2. \A p \in listing' : IsRoot(p)
    BY ListingKept DEF ListInv
  <2> QED
    BY <2>1, <2>2 DEF ListInv, IsRoot
<1>3. Inv => TypeOK
  BY DEF Inv, TypeInv
<1> QED
  BY <1>1, <1>2, <1>3, Invariance, PTL DEF Spec

(* Whatever is written and deleted between its two queries, a listing that *)
(* comes back shows each trace as Trace would at its end, as long as the   *)
(* root row it found is still the only one; and where it panics instead,   *)
(* Trace has no more to show of such a trace than its root.                *)
THEOREM ListsAsTrace == Spec => []ListedAsRead
BY ListingAgrees, ListInvariance, PTL

-----------------------------------------------------------------------------
(* The size of the batch is a sum, to which a point adds its own.          *)
weight == [p \in Point |-> PointSize[p.span]]

LEMMA WeightIsNat == \A p \in Point : weight[p] = PointSize[p.span] /\ weight[p] \in Nat
BY PointSizes DEF weight

LEMMA SumIsTotal ==
  ASSUME NEW S, S \subseteq Point, IsFiniteSet(S)
  PROVE  MapThenSumSet(LAMBDA p : PointSize[p.span], S) = Total(S, weight)
<1> DEFINE step(it, s) == IF s = {} THEN 0
                          ELSE PointSize[(CHOOSE x \in s : TRUE).span]
                               + it[s \ {CHOOSE x \in s : TRUE}]
           R(it)       == it = [s \in SUBSET S |-> step(it, s)]
<1>1. MapThenSumSet(LAMBDA p : PointSize[p.span], S) = (CHOOSE it : R(it))[S]
  BY DEF MapThenSumSet, MapThenFoldSet
<1>2. ASSUME NEW it, NEW s \in SUBSET S PROVE step(it, s) = SumStep(it, s, weight)
  <2>1. s # {} => AnyOf(s) \in Point
    BY AnyIn
  <2> QED
    BY <2>1, WeightIsNat DEF SumStep, AnyOf
<1>3. \A it : R(it) <=> IsSum(it, S, weight)
  <2> HIDE DEF step
  <2> QED
    BY <1>2 DEF IsSum
<1>4. PICK jt \in [SUBSET S -> Nat] : IsSum(jt, S, weight) /\ Total(S, weight) = jt[S]
  BY TotalIsSum, WeightIsNat
<1> HIDE DEF R
<1>5. IsSum(CHOOSE it : R(it), S, weight)
  BY <1>3, <1>4
<1> QED
  BY <1>1, <1>4, <1>5, SumUnique

BatchInv ==
    /\ IsFiniteSet(batch)
    /\ batchSizeBytes = Total(batch, weight)
    /\ batchSizeBytes <= MaxBatchSizeBytes

LEMMA EmptyBatch == ASSUME batch' = {}, batchSizeBytes' = 0 PROVE BatchInv'
<1>1. IsFiniteSet({}) /\ Total({}, weight) = 0
  BY FS_EmptySet, TotalOfNone
<1> QED
  BY <1>1, ConstantsAssumption DEF BatchInv

LEMMA CollectKeepsBatchInv ==
  ASSUME TypeOK, BatchInv, NEW p \in Point \ Seen, Collect(p) \/ Refuse(p)
  PROVE  BatchInv'
<1>3. CASE Refuse(p)
  BY <1>3 DEF Refuse, BatchInv, batchVars
<1> SUFFICES ASSUME Collect(p) PROVE BatchInv'
  BY <1>3
<1>1. CASE Overflows(p)
  BY <1>1, EmptyBatch DEF Collect
<1>2. CASE ~Overflows(p)
  <2>1. batch' = batch \cup {p} /\ batchSizeBytes' = batchSizeBytes + PointSize[p.span]
    BY <1>2 DEF Collect
  <2>2. p \notin batch /\ batch \subseteq Point
    BY DEF TypeOK, Seen, Buffered
  <2>3. IsFiniteSet(batch \cup {p})
    BY FS_AddElement DEF BatchInv
  <2>4. Total(batch \cup {p}, weight) = batchSizeBytes + PointSize[p.span]
    <3>1. \A y \in batch \cup {p} : weight[y] \in Nat
      BY <2>2, WeightIsNat
    <3>2. Total(batch \cup {p}, weight) = Total(batch, weight) + weight[p]
      BY <2>2, <3>1, TotalAdd DEF BatchInv
    <3> QED
      BY <3>2, WeightIsNat DEF BatchInv
  <2>5. batchSizeBytes + PointSize[p.span] <= MaxBatchSizeBytes
    <3>1. /\ batchSizeBytes \in Nat /\ PointSize[p.span] \in Nat /\ MaxBatchSizeBytes \in Nat
          /\ ~(batchSizeBytes + PointSize[p.span] > MaxBatchSizeBytes)
      BY <1>2, PointSizes, ConstantsAssumption DEF TypeOK, Overflows
    <3> QED
      BY <3>1
  <2> QED
    BY <2>1, <2>3, <2>4, <2>5 DEF BatchInv
<1> QED
  BY <1>1, <1>2

LEMMA StepKeepsBatch == Inv /\ BatchInv /\ [Next]_vars => BatchInv'
<1> SUFFICES ASSUME Inv, BatchInv, [Next]_vars PROVE BatchInv'
  OBVIOUS
<1>1. TypeOK
  BY DEF Inv, TypeInv
<1>2. ASSUME NEW p \in Point, CollectRecorded(p) PROVE BatchInv'
  BY <1>1, <1>2, CollectKeepsBatchInv DEF CollectRecorded
<1>3. ASSUME NEW u \in Uploads, CollectUploaded(u) PROVE BatchInv'
  <2>1. /\ PointOf(u, next[u]) \in Point \ Seen
        /\ Collect(PointOf(u, next[u])) \/ Refuse(PointOf(u, next[u]))
    BY <1>3, Uploaded DEF CollectUploaded, Collects, PointOf
  <2> QED
    BY <1>1, <2>1, CollectKeepsBatchInv
<1>4. CASE TimerFlush \/ CloseFlushes \/ Restart
  BY <1>4, EmptyBatch DEF TimerFlush, CloseFlushes, TakeBatch, Restart
<1>5. ASSUME UNCHANGED batchVars PROVE BatchInv'
  BY <1>5 DEF BatchInv, batchVars
<1>6. CASE SetUp \/ FlusherStarts \/ FlusherStops \/ Close \/ CloseServer
  BY <1>5, <1>6 DEF SetUp, FlusherStarts, FlusherStops, Close, CloseServer
<1>7. CASE FlusherWrites \/ CloserWrites
  BY <1>5, <1>7 DEF FlusherWrites, CloserWrites, WriteEnds
<1>8. CASE ListRoots \/ ListChildren \/ Expire \/ UNCHANGED vars
  BY <1>5, <1>8 DEF ListRoots, ListChildren, Expire, vars
<1>9. ASSUME NEW u \in Uploads, CheckUpload(u) PROVE BatchInv'
  BY <1>5, <1>9 DEF CheckUpload
<1> QED
  BY <1>2, <1>3, <1>4, <1>6, <1>7, <1>8, <1>9 DEF Next

(* InfluxDBStore: batchSizeBytes is the size of the batch, and within      *)
(* MaxBatchSizeBytes, whoever takes the batch away.                        *)
THEOREM BatchSizeIsKept == Spec => []BatchAccounted
<1>1. Init => BatchInv
  <2>1. IsFiniteSet({}) /\ Total({}, weight) = 0
    BY FS_EmptySet, TotalOfNone
  <2> QED
    BY <2>1, ConstantsAssumption DEF Init, BatchInv
<1>2. Inv /\ BatchInv => BatchAccounted
  BY SumIsTotal DEF Inv, TypeInv, TypeOK, BatchInv, BatchAccounted
<1> QED
  BY <1>1, <1>2, StepKeepsBatch, Invariance, PTL DEF Spec

-----------------------------------------------------------------------------
(* addChildren as a sequence of passes over the rows.                      *)
Hanging(L, children) == {c \in children : \E p \in L : p.span = Parent[c.span]}

Passes(linked, n, root, children) ==
    \A k \in 0..n : linked[k] = IF k = 0 THEN {root}
                                ELSE linked[k - 1] \cup Hanging(linked[k - 1], children)

LEMMA AddChildrenPasses ==
  ASSUME NEW root, NEW children, IsFiniteSet(children)
  PROVE  \E linked \in [0..Cardinality(children) -> SUBSET ({root} \cup children)] :
           /\ Passes(linked, Cardinality(children), root, children)
           /\ addChildren(root, children) =
                [c \in children |-> IF c \in linked[Cardinality(children)]
                                    THEN Parent[c.span] ELSE root.span]
<1> DEFINE n       == Cardinality(children)
           X       == SUBSET ({root} \cup children)
           G       == [L \in X |-> L \cup Hanging(L, children)]
           pass(it, k) == IF k = 0 THEN {root}
                          ELSE it[k - 1] \cup {c \in children :
                                  \E p \in it[k - 1] : p.span = Parent[c.span]}
           R(it)   == it = [k \in 0..n |-> pass(it, k)]
           linked  == CHOOSE it : R(it)
<1>1. addChildren(root, children) =
        [c \in children |-> IF c \in linked[n] THEN Parent[c.span] ELSE root.span]
  BY DEF addChildren
<1>2. n \in Nat /\ {root} \in X /\ G \in [X -> X]
  BY FS_CardinalityType DEF Hanging
<1>3. PICK f \in [0..n -> X] : IsIterate(f, n, {root}, G)
  <2> HIDE DEF n, X, G
  <2> QED
    BY <1>2, IterateExists
<1>4. R(f)
  <2>1. ASSUME NEW k \in 0..n PROVE f[k] = pass(f, k)
    <3>1. CASE k = 0
      BY <1>3, <3>1 DEF IsIterate
    <3>2. CASE k # 0
      <4>1. k - 1 \in 0..n /\ f[k - 1] \in X
        BY <1>2, <3>2
      <4>2. f[k] = G[f[k - 1]]
        BY <1>3, <3>2 DEF IsIterate
      <4> QED
        BY <3>2, <4>1, <4>2 DEF Hanging
    <3> QED
      BY <3>1, <3>2
  <2> HIDE DEF pass, n, X
  <2> QED
    BY <2>1
<1>5. R(linked)
  <2> HIDE DEF R
  <2> QED
    BY <1>4
<1> HIDE DEF linked
<1>6. \A k \in 0..n : linked[k] = pass(linked, k)
  <2> HIDE DEF pass, n
  <2> QED
    BY <1>5
<1>7. Passes(linked, n, root, children)
  BY <1>6 DEF Passes, Hanging
<1>8. linked \in [0..n -> X]
  <2> DEFINE Bad == {k \in 0..n : linked[k] \notin X}
  <2>1. Bad = {}
    <3> SUFFICES ASSUME Bad # {} PROVE FALSE
      OBVIOUS
    <3>1. PICK k \in Bad : \A m \in Bad : k <= m
      <4>1. Bad \in SUBSET Nat
        BY <1>2
      <4> HIDE DEF Bad
      <4> QED
        BY <4>1, LeastNumber
    <3>2. k # 0
      BY <1>6, <3>1
    <3>3. k - 1 \in 0..n /\ k - 1 \notin Bad
      BY <1>2, <3>1, <3>2
    <3>4. linked[k] = linked[k - 1] \cup Hanging(linked[k - 1], children)
      BY <1>7, <3>1, <3>2 DEF Passes
    <3>5. linked[k - 1] \in X
      BY <3>3
    <3>6. linked[k] \in X
      BY <3>4, <3>5 DEF Hanging
    <3> QED
      BY <3>1, <3>6
  <2>2. \A k \in 0..n : linked[k] \in X
    BY <2>1
  <2>3. linked = [k \in 0..n |-> linked[k]]
    <3> HIDE DEF pass, n
    <3> QED
      BY <1>5
  <2> HIDE DEF X, n
  <2> QED
    BY <2>2, <2>3
<1> HIDE DEF n
<1> QED
  BY <1>1, <1>7, <1>8 DEF n

(* A pass hangs up a row or leaves nothing to hang up: as many passes as   *)
(* there are children are enough.                                          *)
LEMMA PassesEnough ==
  ASSUME NEW root, NEW children, IsFiniteSet(children), root \notin children,
         NEW n, n = Cardinality(children),
         NEW linked \in [0..n -> SUBSET ({root} \cup children)],
         Passes(linked, n, root, children)
  PROVE  Hanging(linked[n], children) \subseteq linked[n]
<1> DEFINE All     == {root} \cup children
           Ended(k) == Hanging(linked[k], children) \subseteq linked[k]
           Bad     == {k \in 0..n : ~(Cardinality(linked[k]) > k) /\ ~Ended(k)}
<1>1. n \in Nat /\ IsFiniteSet(All) /\ Cardinality(All) = n + 1
  <2>1. All = children \cup {root}
    OBVIOUS
  <2> QED
    BY <2>1, FS_CardinalityType, FS_AddElement
<1>2. \A k \in 0..n : IsFiniteSet(linked[k]) /\ Cardinality(linked[k]) \in Nat
  BY <1>1, FS_Subset, FS_CardinalityType
<1>3. Bad = {}
  <2> SUFFICES ASSUME Bad # {} PROVE FALSE
    OBVIOUS
  <2>1. PICK k \in Bad : \A m \in Bad : k <= m
    <3>1. Bad \in SUBSET Nat
      BY <1>1
    <3> HIDE DEF Bad
    <3> QED
      BY <3>1, LeastNumber
  <2>2. k # 0
    <3> SUFFICES ASSUME k = 0 PROVE FALSE
      OBVIOUS
    <3>1. 0 \in 0..n
      BY <1>1
    <3>2. linked[0] = {root}
      BY <3>1 DEF Passes
    <3>3. Cardinality(linked[k]) = 1
      BY <3>2, FS_Singleton
    <3>4. ~(Cardinality(linked[k]) > k)
      BY <2>1
    <3> QED
      BY <3>3, <3>4
  <2>3. k \in 0..n /\ k - 1 \in 0..n /\ k - 1 \notin Bad
    BY <1>1, <2>1, <2>2
  <2>4. linked[k] = linked[k - 1] \cup Hanging(linked[k - 1], children)
    BY <2>2, <2>3 DEF Passes
  <2>5. ~Ended(k - 1)
    <3> SUFFICES ASSUME Ended(k - 1) PROVE FALSE
      OBVIOUS
    <3>1. linked[k] = linked[k - 1]
      BY <2>4
    <3>2. Ended(k)
      BY <3>1
    <3> QED
      BY <2>1, <3>2
  <2>6. Cardinality(linked[k - 1]) > k - 1
    BY <2>3, <2>5
  <2>7. PICK c : c \in linked[k] /\ c \notin linked[k - 1]
    BY <2>4, <2>5
  <2>8. linked[k - 1] \subseteq linked[k] \ {c}
    BY <2>4, <2>7
  <2>9. /\ IsFiniteSet(linked[k] \ {c})
        /\ Cardinality(linked[k] \ {c}) = Cardinality(linked[k]) - 1
    BY <1>2, <2>3, <2>7, FS_RemoveElement
  <2>10. Cardinality(linked[k - 1]) <= Cardinality(linked[k] \ {c})
    BY <2>8, <2>9, FS_Subset
  <2>11. /\ Cardinality(linked[k]) \in Nat /\ Cardinality(linked[k - 1]) \in Nat
         /\ k \in Nat /\ ~(Cardinality(linked[k]) > k)
    BY <1>1, <1>2, <2>1, <2>3
  <2> QED
    BY <2>6, <2>9, <2>10, <2>11
<1>4. CASE Cardinality(linked[n]) > n
  <2>1. n \in 0..n /\ linked[n] \subseteq All
    BY <1>1
  <2>2. Cardinality(linked[n]) \in Nat /\ Cardinality(linked[n]) <= n + 1
    BY <1>1, <1>2, <2>1, FS_Subset
  <2>3. Cardinality(linked[n]) = Cardinality(All)
    BY <1>1, <1>4, <2>2
  <2>4. linked[n] = All
    BY <1>1, <2>1, <2>3, FS_Subset
  <2> QED
    BY <2>4 DEF Hanging
<1>5. CASE Ended(n)
  BY <1>5
<1> QED
  BY <1>1, <1>3, <1>4, <1>5

(* Who is in the tree in the end: those with rows up to the root.          *)
LEMMA LinkedIsUnbroken ==
  ASSUME NEW root, NEW children, IsFiniteSet(children), root \notin children,
         root.span \in Spans, IsRoot(root),
         \A c \in children : c.span \in Spans /\ ~IsRoot(c),
         NEW n, n = Cardinality(children),
         NEW linked \in [0..n -> SUBSET ({root} \cup children)],
         Passes(linked, n, root, children),
         NEW p \in children
  PROVE  p \in linked[n] <=> Unbroken(p, {root} \cup children)
<1> DEFINE rows    == {root} \cup children
           Names(L) == {q.span : q \in L}
<1>1. n \in Nat /\ Parent \in [Spans -> Spans \cup {NoSpan}] /\ NoSpan \notin Spans
  BY FS_CardinalityType, ConstantsAssumption
<1>2. \A k \in 0..n : linked[k] \subseteq rows
  OBVIOUS
<1>3. root \in linked[n] /\ \A c \in linked[n] \ {root} : Parent[c.span] \in Names(linked[n])
  <2> DEFINE Good(k) == /\ root \in linked[k]
                        /\ \A c \in linked[k] \ {root} : Parent[c.span] \in Names(linked[k])
             Bad     == {k \in 0..n : ~Good(k)}
  <2>1. 0 \in 0..n /\ n \in 0..n
    BY <1>1
  <2>2. Good(0)
    BY <2>1 DEF Passes
  <2>3. ASSUME NEW k \in 0..n, k # 0, Good(k - 1) PROVE Good(k)
    <3>1. linked[k] = linked[k - 1] \cup Hanging(linked[k - 1], children)
      BY <2>3 DEF Passes
    <3>2. Names(linked[k - 1]) \subseteq Names(linked[k])
      BY <3>1
    <3>3. \A c \in Hanging(linked[k - 1], children) : Parent[c.span] \in Names(linked[k - 1])
      BY DEF Hanging
    <3> HIDE DEF Names
    <3> QED
      BY <2>3, <3>1, <3>2, <3>3
  <2> HIDE DEF Good
  <2>4. Bad = {}
    <3> SUFFICES ASSUME Bad # {} PROVE FALSE
      OBVIOUS
    <3>1. PICK k \in Bad : \A m \in Bad : k <= m
      <4>1. Bad \in SUBSET Nat
        BY <1>1
      <4> HIDE DEF Bad
      <4> QED
        BY <4>1, LeastNumber
    <3>2. k # 0
      BY <2>2
    <3>3. k - 1 \in 0..n /\ k - 1 \notin Bad
      BY <1>1, <3>1, <3>2
    <3> QED
      BY <2>3, <3>2, <3>3
  <2>5. Good(n)
    BY <2>1, <2>4
  <2> QED
    BY <2>5 DEF Good
<1>4. Hanging(linked[n], children) \subseteq linked[n]
  BY PassesEnough
<1>5. ASSUME Unbroken(p, rows) PROVE p \in linked[n]
  <2> DEFINE S == Names(linked[n])
  <2>1. S \in SUBSET {q.span : q \in rows}
    BY <1>1, <1>2
  <2>2. ASSUME NEW q \in rows, IsRoot(q) \/ Parent[q.span] \in S PROVE q.span \in S
    <3>1. CASE q = root
      BY <1>3, <3>1
    <3>2. CASE q \in children
      <4>1. PICK r \in linked[n] : r.span = Parent[q.span]
        BY <2>2, <3>2
      <4> QED
        BY <1>4, <3>2, <4>1 DEF Hanging
    <3> QED
      BY <3>1, <3>2
  <2> HIDE DEF S
  <2>3. p.span \in S
    BY <1>5, <2>1, <2>2 DEF Unbroken
  <2>4. PICK q \in linked[n] : q.span = p.span
    BY <2>3 DEF S
  <2>5. q # root
    BY <2>4 DEF IsRoot
  <2>6. PICK r \in linked[n] : r.span = Parent[p.span]
    BY <1>3, <2>4, <2>5
  <2> QED
    BY <1>4, <2>6 DEF Hanging
<1>6. ASSUME p \in linked[n] PROVE Unbroken(p, rows)
  <2> SUFFICES ASSUME NEW S \in SUBSET {q.span : q \in rows},
                      \A q \in rows : IsRoot(q) \/ Parent[q.span] \in S => q.span \in S
               PROVE  p.span \in S
    BY DEF Unbroken
  <2> DEFINE Bad == {k \in 0..n : ~(Names(linked[k]) \subseteq S)}
  <2>1. Bad = {}
    <3> SUFFICES ASSUME Bad # {} PROVE FALSE
      OBVIOUS
    <3>1. PICK k \in Bad : \A m \in Bad : k <= m
      <4>1. Bad \in SUBSET Nat
        BY <1>1
      <4> HIDE DEF Bad
      <4> QED
        BY <4>1, LeastNumber
    <3>2. k # 0
      <4>1. 0 \in 0..n
        BY <1>1
      <4>2. linked[0] = {root}
        BY <4>1 DEF Passes
      <4> QED
        BY <4>2
    <3>3. k \in 0..n /\ k - 1 \in 0..n /\ k - 1 \notin Bad
      BY <1>1, <3>1, <3>2
    <3>4. linked[k] = linked[k - 1] \cup Hanging(linked[k - 1], children)
      BY <3>2, <3>3 DEF Passes
    <3>5. Names(linked[k - 1]) \subseteq S
      BY <3>3
    <3>6. ASSUME NEW q \in linked[k] PROVE q.span \in S
      BY <3>4, <3>5 DEF Hanging
    <3>7. Names(linked[k]) \subseteq S
      BY <3>6
    <3> QED
      BY <3>1, <3>7
  <2>2. Names(linked[n]) \subseteq S
    <3>1. n \in 0..n
      BY <1>1
    <3> HIDE DEF Names
    <3> QED
      BY <2>1, <3>1
  <2> QED
    BY <1>6, <2>2
<1> QED
  BY <1>5, <1>6

LEMMA ShownWhole == TypeOK /\ ListInv => TraceShownWhole
<1> SUFFICES ASSUME TypeOK, ListInv, NEW t \in Traces, server = "open",
                    Cardinality(RootsOf(t)) = 1
             PROVE  LET root == CHOOSE p \in RootsOf(t) : TRUE
                        got  == Trace(t)
                    IN  /\ got.how = "ok" /\ DOMAIN got.under = Rows(t) \ {root}
                        /\ \A p \in DOMAIN got.under :
                             got.under[p] = IF Unbroken(p, Rows(t)) THEN Parent[p.span]
                                            ELSE root.span
  BY DEF TraceShownWhole
<1> DEFINE root     == CHOOSE p \in RootsOf(t) : TRUE
           children == Rows(t) \ {root}
           n        == Cardinality(children)
<1>1. IsFiniteSet(Rows(t)) /\ IsFiniteSet(RootsOf(t)) /\ IsFiniteSet(children)
  <2>1. Rows(t) \subseteq passed /\ RootsOf(t) \subseteq passed /\ children \subseteq passed
    BY DEF RootsOf, Rows, passed
  <2> HIDE DEF children
  <2> QED
    BY <2>1, FS_Subset DEF ListInv
<1>2. root \in RootsOf(t) /\ RootsOf(t) = {root}
  <2>1. RootsOf(t) # {}
    BY FS_EmptySet
  <2>2. root \in RootsOf(t)
    BY <2>1
  <2> HIDE DEF root
  <2>3. IsFiniteSet(RootsOf(t) \ {root}) /\ Cardinality(RootsOf(t) \ {root}) = 1 - 1
    BY <1>1, <2>2, FS_RemoveElement
  <2>4. RootsOf(t) \ {root} = {}
    BY <2>3, FS_EmptySet
  <2> QED
    BY <2>2, <2>4
<1> HIDE DEF root
<1>3. Rows(t) = {root} \cup children /\ root \notin children /\ Rows(t) # {}
  BY <1>2 DEF RootsOf
<1>4. root.span \in Spans /\ IsRoot(root) /\ \A c \in children : c.span \in Spans /\ ~IsRoot(c)
  <2>1. \A c \in Rows(t) : c.span \in Spans
    BY PointSizes DEF Rows, TypeOK
  <2> QED
    BY <1>2, <2>1 DEF RootsOf
<1>5. Trace(t) = Answer("ok", addChildren(root, children))
  <2>1. ~(Cardinality(RootsOf(t)) > 1) /\ RootsOf(t) # {}
    BY <1>2
  <2> QED
    BY <1>3, <2>1 DEF Trace, root
<1> HIDE DEF children
<1>6. PICK linked \in [0..n -> SUBSET ({root} \cup children)] :
           /\ Passes(linked, n, root, children)
           /\ addChildren(root, children) =
                [c \in children |-> IF c \in linked[n] THEN Parent[c.span] ELSE root.span]
  BY <1>1, AddChildrenPasses
<1>7. ASSUME NEW p \in children PROVE p \in linked[n] <=> Unbroken(p, Rows(t))
  <2>1. n = Cardinality(children)
    OBVIOUS
  <2> HIDE DEF n
  <2>2. p \in linked[n] <=> Unbroken(p, {root} \cup children)
    BY ONLY <1>1, <1>3, <1>4, <1>6, <2>1, p \in children, LinkedIsUnbroken, Zenon
  <2> QED
    BY <1>3, <2>2
<1>8. Trace(t).how = "ok" /\ Trace(t).under = addChildren(root, children)
  BY <1>5 DEF Answer
<1> QED
  BY <1>6, <1>7, <1>8 DEF root, children

(* A trace with one root row is shown whole, however its rows got there    *)
(* and in a database of any size: the rows that an unbroken chain of rows  *)
(* ties to the root hang under the parents they name, all others, which    *)
(* are the orphans and whatever is below one, directly under the root.     *)
THEOREM ShowsTracesWhole == Spec => []TraceShownWhole
BY ShownWhole, ListInvariance, PTL
=============================================================================
