---------------------------- MODULE TracingProofs ----------------------------
(***************************************************************************)
(* Tracing for every number of stores, requests and handlers: a loss is    *)
(* told, the stores of a MultiStore stay nested, so that the first that    *)
(* has a trace has all of it, and the two ends of a request agree on it.   *)
(***************************************************************************)
EXTENDS Tracing, SequenceTheorems, TLAPS

(* Stores only grow, each no faster than the one before it.                *)
Nested == \A i, j \in Stores : i <= j => stored[j] \subseteq stored[i]

Inv == DOMAIN stored = Stores /\ Nested

LEMMA PutNests ==
  ASSUME NEW st, NEW entries, NEW k \in Nat,
         \A i, j \in Stores : i <= j => st[j] \subseteq st[i]
  PROVE  /\ DOMAIN Put(st, entries, k) = Stores
         /\ \A i, j \in Stores : i <= j =>
                Put(st, entries, k)[j] \subseteq Put(st, entries, k)[i]
         /\ \A i \in Stores : st[i] \subseteq Put(st, entries, k)[i]
         /\ ~Failed(k) => \A i \in Stores : entries \subseteq Put(st, entries, k)[i]
<1>1. \A i \in Stores : Put(st, entries, k)[i] = IF i <= k THEN st[i] \cup entries ELSE st[i]
  BY DEF Put
<1>2. N \in Nat /\ Stores = 1..N
  BY ConstantsAssumption DEF Stores
<1>3. ASSUME NEW i \in Stores, NEW j \in Stores, i <= j
      PROVE  Put(st, entries, k)[j] \subseteq Put(st, entries, k)[i]
  <2>1. i \in Nat /\ j \in Nat
    BY <1>2
  <2>2. st[j] \subseteq st[i]
    BY <1>3
  <2>3. Put(st, entries, k)[i] = IF i <= k THEN st[i] \cup entries ELSE st[i]
    BY <1>1
  <2>4. Put(st, entries, k)[j] = IF j <= k THEN st[j] \cup entries ELSE st[j]
    BY <1>1
  <2>5. j <= k => i <= k
    BY <1>3, <2>1
  <2> QED
    BY <2>2, <2>3, <2>4, <2>5
<1>4. ASSUME ~Failed(k), NEW i \in Stores
      PROVE  entries \subseteq Put(st, entries, k)[i]
  <2>1. i <= k
    BY <1>2, <1>4 DEF Failed
  <2> QED
    BY <1>1, <2>1
<1> QED
  BY <1>1, <1>3, <1>4 DEF Put

(* What every step does to the stores.                                     *)
StoresGrow == Inv' /\ \A i \in Stores : stored[i] \subseteq stored'[i]

LEMMA CollectAndLogGrows ==
  ASSUME Inv, NEW id, NEW evs, NEW o \in Outcomes, CollectAndLog(id, evs, o)
  PROVE  /\ StoresGrow
         /\ ~Failed(o[1]) => \A i \in Stores : Annotations(id, evs) \subseteq stored'[i]
         /\ Failed(o[1]) /\ ~Failed(o[2]) =>
                \A i \in Stores : Annotations(id, {ErrorLog}) \subseteq stored'[i]
<1>1. o[1] \in Nat /\ o[2] \in Nat
  BY ConstantsAssumption DEF Outcomes
<1> DEFINE first == Put(stored, Annotations(id, evs), o[1])
<1>2. /\ \A i, j \in Stores : i <= j => first[j] \subseteq first[i]
      /\ \A i \in Stores : stored[i] \subseteq first[i]
      /\ DOMAIN first = Stores
      /\ ~Failed(o[1]) => \A i \in Stores : Annotations(id, evs) \subseteq first[i]
  BY <1>1, PutNests DEF Inv, Nested
<1>3. CASE Failed(o[1])
  <2>1. stored' = Put(first, Annotations(id, {ErrorLog}), o[2])
    BY <1>3 DEF CollectAndLog
  <2> HIDE DEF first
  <2>2. /\ DOMAIN stored' = Stores
        /\ \A i, j \in Stores : i <= j => stored'[j] \subseteq stored'[i]
        /\ \A i \in Stores : first[i] \subseteq stored'[i]
        /\ ~Failed(o[2]) => \A i \in Stores : Annotations(id, {ErrorLog}) \subseteq stored'[i]
    BY <2>1, <1>1, <1>2, PutNests
  <2> QED
    BY <1>2, <1>3, <2>2 DEF StoresGrow, Inv, Nested
<1>4. CASE ~Failed(o[1])
  <2>1. stored' = first
    BY <1>4 DEF CollectAndLog
  <2> HIDE DEF first
  <2> QED
    BY <1>2, <1>4, <2>1 DEF StoresGrow, Inv, Nested
<1> QED
  BY <1>3, <1>4

LEMMA PutGrows ==
  ASSUME Inv, NEW entries, NEW k \in 0..N, stored' = Put(stored, entries, k)
  PROVE  StoresGrow
<1>1. k \in Nat
  BY ConstantsAssumption
<1> QED
  BY <1>1, PutNests DEF StoresGrow, Inv, Nested

LEMMA InitInv == Init => Inv
BY DEF Init, Inv, Nested, Stores

LEMMA UnchangedGrows == Inv /\ UNCHANGED stored => StoresGrow
BY DEF StoresGrow, Inv, Nested

LEMMA FinishGrows == Inv /\ Finish => StoresGrow
<1> SUFFICES ASSUME Inv, Finish PROVE StoresGrow
  OBVIOUS
<1>1. PICK o \in Outcomes :
        \/ finished /\ stored' = Put(stored, Annotations(ProgramSpan, {ErrorLog}), o[2])
        \/ ~finished /\ CollectAndLog(ProgramSpan, anns, o)
  BY DEF Finish
<1>2. o[2] \in 0..N
  BY DEF Outcomes
<1> QED
  BY <1>1, <1>2, PutGrows, CollectAndLogGrows

LEMMA NextGrows == Inv /\ [Next]_vars => StoresGrow
<1> SUFFICES ASSUME Inv, [Next]_vars PROVE StoresGrow
  OBVIOUS
<1>1. CASE EventFails
  BY <1>1, PutGrows DEF EventFails
<1>2. CASE Finish
  BY <1>2, FinishGrows
<1>3. CASE RecordSpan
  BY <1>3, CollectAndLogGrows DEF RecordSpan
<1>4. ASSUME NEW q \in Requests, RoundTripEnds(q) PROVE StoresGrow
  BY <1>4, CollectAndLogGrows DEF RoundTripEnds
<1>5. ASSUME NEW h \in Handlers, Record(h) PROVE StoresGrow
  BY <1>5, CollectAndLogGrows, UnchangedGrows DEF Record
<1>6. ASSUME NEW h \in Handlers, Deliver(h) \/ DeliverForeign(h) \/ HandlerEnds(h)
      PROVE  StoresGrow
  BY <1>6, UnchangedGrows DEF Deliver, DeliverForeign, Serve, HandlerEnds
<1>7. ASSUME NEW q \in Requests, Send(q) \/ CancelRequest(q) \/ Answered(q) \/ SendFails(q)
      PROVE  StoresGrow
  BY <1>7, UnchangedGrows DEF Send, CancelRequest, Answered, SendFails
<1>8. ASSUME NEW e \in Events, Event(e) PROVE StoresGrow
  BY <1>8, UnchangedGrows DEF Event
<1>9. CASE Errors \/ UNCHANGED vars
  BY <1>9, UnchangedGrows DEF Errors, vars
<1> QED
  BY <1>1, <1>2, <1>3, <1>4, <1>5, <1>6, <1>7, <1>8, <1>9 DEF Next

LEMMA AlwaysInv == Spec => []Inv
<1>1. Inv /\ [Next]_vars => Inv'
  BY NextGrows DEF StoresGrow
<1> QED
  BY InitInv, <1>1, PTL DEF Spec

(* In every behaviour a MultiStore shows of each trace all that any of its *)
(* stores has (multi.go 12, 23, 56).                                       *)
THEOREM FirstFoundIsWhole == Spec => []FirstFoundHasAll
<1>1. Inv => FirstFoundHasAll
  <2> SUFFICES ASSUME Inv, NEW i \in Stores, NEW t \in DOMAIN Traces
               PROVE  InTrace(i, t) \subseteq Traces[t]
    BY DEF FirstFoundHasAll
  <2> DEFINE having == {j \in Stores : InTrace(j, t) # {}}
  <2>1. Traces[t] = Trace(t)
    BY DEF Traces
  <2>2. CASE InTrace(i, t) = {}
    BY <2>2
  <2>3. CASE InTrace(i, t) # {}
    <3>1. 1 \in Stores /\ \A j \in Stores : 1 <= j
      BY ConstantsAssumption DEF Stores
    <3>2. InTrace(i, t) \subseteq InTrace(1, t)
      BY <3>1 DEF Inv, Nested, InTrace
    <3>3. 1 \in having
      BY <2>3, <3>1, <3>2
    <3>4. \A j \in having : 1 <= j /\ j \in Nat
      BY <3>1, ConstantsAssumption DEF Stores
    <3>5. Min(having) = 1
      <4> HIDE DEF having
      <4>1. ASSUME NEW m \in having, \A j \in having : m <= j PROVE m = 1
        BY <4>1, <3>3, <3>4
      <4> QED
        BY <4>1, <3>3, <3>4 DEF Min
    <3>6. Trace(t) = InTrace(1, t)
      BY <3>3, <3>5 DEF Trace
    <3> QED
      BY <2>1, <3>2, <3>6
  <2> QED
    BY <2>2, <2>3
<1> QED
  BY <1>1, AlwaysInv, PTL

-----------------------------------------------------------------------------
LossInv == Inv /\ LossIsTold /\ part \in Nat \ {0}

LEMMA EverywhereStays ==
  ASSUME StoresGrow, NEW id, NEW evs, Everywhere(id, evs)
  PROVE  \A i \in Stores : Annotations(id, evs) \subseteq stored'[i]
BY DEF StoresGrow, Everywhere

(* A step that forgets no error and tells of no fewer keeps what was told. *)
LEMMA QuietStep ==
  ASSUME LossInv, StoresGrow, UNCHANGED <<finished, due, otVars>>,
         errors \cup told \subseteq errors' \cup told'
  PROVE  LossInv'
<1>1. ASSUME NEW id, NEW evs, Everywhere(id, evs)
      PROVE  \A i \in Stores : Annotations(id, evs) \subseteq stored'[i]
  BY <1>1, EverywhereStays
<1>2. ASSUME finished'
      PROVE  (\A i \in Stores : Annotations(ProgramSpan, due') \subseteq stored'[i])
                \/ "Annotation" \in errors' \cup told'
  BY <1>1, <1>2 DEF LossInv, LossIsTold
<1>3. ASSUME NEW k \in 1..(part' - 1)
      PROVE  \/ \A i \in Stores : Annotations(OTSpan, {Parts[k]}) \subseteq stored'[i]
             \/ \A i \in Stores : Annotations(OTSpan, {ErrorLog}) \subseteq stored'[i]
             \/ logged'
  BY <1>1, <1>3 DEF LossInv, LossIsTold, otVars
<1>4. Inv' /\ part' \in Nat \ {0}
  BY DEF StoresGrow, LossInv, otVars
<1> QED
  BY <1>2, <1>3, <1>4 DEF LossInv, LossIsTold, Everywhere

LEMMA NoteErrorTells ==
  ASSUME NEW method, NoteError(method)
  PROVE  errors \cup told \cup {method} \subseteq errors' \cup told'
BY DEF NoteError

LEMMA FinishTells == LossInv /\ Finish => LossInv'
<1> SUFFICES ASSUME LossInv, Finish PROVE LossInv'
  OBVIOUS
<1>1. StoresGrow
  BY FinishGrows DEF LossInv
<1>2. PICK o \in Outcomes :
        IF finished
        THEN /\ o[1] = 0 /\ failures' = failures + Cost(o) /\ Bounded(failures', Begun)
             /\ stored' = Put(stored, Annotations(ProgramSpan, {ErrorLog}), o[2])
             /\ NoteError("Finish")
        ELSE /\ CollectAndLog(ProgramSpan, anns, o)
             /\ IF Failed(o[1]) THEN NoteError("Annotation") ELSE UNCHANGED <<errors, told>>
  BY DEF Finish
<1>3. CASE finished
  BY <1>1, <1>2, <1>3, NoteErrorTells, QuietStep DEF Finish
<1>4. CASE ~finished
  <2>1. errors \cup told \subseteq errors' \cup told'
    BY <1>2, <1>4, NoteErrorTells
  <2>2. \/ \A i \in Stores : Annotations(ProgramSpan, due') \subseteq stored'[i]
        \/ "Annotation" \in errors' \cup told'
    <3>1. CASE Failed(o[1])
      BY <1>2, <1>4, <3>1, NoteErrorTells
    <3>2. CASE ~Failed(o[1])
      BY <1>2, <1>4, <3>2, CollectAndLogGrows DEF Finish, LossInv
    <3> QED
      BY <3>1, <3>2
  <2>3. ASSUME NEW k \in 1..(part' - 1)
        PROVE  \/ \A i \in Stores : Annotations(OTSpan, {Parts[k]}) \subseteq stored'[i]
               \/ \A i \in Stores : Annotations(OTSpan, {ErrorLog}) \subseteq stored'[i]
               \/ logged'
    BY <1>1, <2>3, EverywhereStays DEF LossInv, LossIsTold, Finish, otVars
  <2>4. Inv' /\ part' \in Nat \ {0}
    BY <1>1 DEF StoresGrow, LossInv, Finish, otVars
  <2> QED
    BY <2>2, <2>3, <2>4 DEF LossInv, LossIsTold, Everywhere
<1> QED
  BY <1>3, <1>4

LEMMA RecordSpanTells == LossInv /\ RecordSpan => LossInv'
<1> SUFFICES ASSUME LossInv, RecordSpan PROVE LossInv'
  OBVIOUS
<1>1. PICK o \in Outcomes :
        /\ CollectAndLog(OTSpan, {Parts[part]}, o)
        /\ logged' = (logged \/ Failed(o[2]))
  BY DEF RecordSpan
<1>2. StoresGrow
  BY <1>1, CollectAndLogGrows DEF LossInv
<1>3. ASSUME finished'
      PROVE  (\A i \in Stores : Annotations(ProgramSpan, due') \subseteq stored'[i])
                \/ "Annotation" \in errors' \cup told'
  BY <1>2, <1>3, EverywhereStays DEF LossInv, LossIsTold, RecordSpan, recorderVars
<1>4. ASSUME NEW k \in 1..(part' - 1)
      PROVE  \/ \A i \in Stores : Annotations(OTSpan, {Parts[k]}) \subseteq stored'[i]
             \/ \A i \in Stores : Annotations(OTSpan, {ErrorLog}) \subseteq stored'[i]
             \/ logged'
  <2>1. part' = part + 1 /\ part \in Nat \ {0}
    BY DEF RecordSpan, LossInv
  <2>2. CASE k = part
    <3>1. CASE ~Failed(o[1])
      BY <1>1, <2>2, <3>1, CollectAndLogGrows DEF LossInv
    <3>2. CASE Failed(o[1]) /\ ~Failed(o[2])
      BY <1>1, <3>2, CollectAndLogGrows DEF LossInv
    <3>3. CASE Failed(o[2])
      BY <1>1, <3>3
    <3> QED
      BY <3>1, <3>2, <3>3
  <2>3. CASE k # part
    <3>1. k \in 1..(part - 1)
      BY <2>1, <2>3, <1>4
    <3>2. Everywhere(OTSpan, {Parts[k]}) \/ Everywhere(OTSpan, {ErrorLog}) \/ logged
      BY <3>1 DEF LossInv, LossIsTold
    <3> QED
      BY <1>1, <1>2, <3>2, EverywhereStays
  <2> QED
    BY <2>2, <2>3
<1>5. Inv' /\ part' \in Nat \ {0}
  BY <1>2 DEF StoresGrow, LossInv, RecordSpan
<1> QED
  BY <1>3, <1>4, <1>5 DEF LossInv, LossIsTold, Everywhere

LEMMA NextTells == LossInv /\ [Next]_vars => LossInv'
<1> SUFFICES ASSUME LossInv, [Next]_vars PROVE LossInv'
  OBVIOUS
<1>1. StoresGrow
  BY NextGrows DEF LossInv
<1>2. CASE Finish
  BY <1>2, FinishTells
<1>3. CASE RecordSpan
  BY <1>3, RecordSpanTells
<1>4. CASE EventFails
  BY <1>1, <1>4, NoteErrorTells, QuietStep DEF EventFails
<1>5. CASE Errors
  BY <1>1, <1>5, QuietStep DEF Errors
<1>6. ASSUME NEW e \in Events, Event(e) PROVE LossInv'
  BY <1>1, <1>6, QuietStep DEF Event
<1>7. ASSUME UNCHANGED <<recorderVars, otVars>> PROVE LossInv'
  BY <1>1, <1>7, QuietStep DEF recorderVars
<1>8. ASSUME NEW q \in Requests,
             Send(q) \/ CancelRequest(q) \/ Answered(q) \/ SendFails(q) \/ RoundTripEnds(q)
      PROVE  LossInv'
  BY <1>7, <1>8 DEF Send, CancelRequest, Answered, SendFails, RoundTripEnds
<1>9. ASSUME NEW h \in Handlers,
             Deliver(h) \/ DeliverForeign(h) \/ HandlerEnds(h) \/ Record(h)
      PROVE  LossInv'
  BY <1>7, <1>9 DEF Deliver, DeliverForeign, Serve, HandlerEnds, Record
<1>10. CASE UNCHANGED vars
  BY <1>7, <1>10 DEF vars
<1> QED
  BY <1>2, <1>3, <1>4, <1>5, <1>6, <1>8, <1>9, <1>10 DEF Next

(* In every behaviour the program hears of the events that did not reach   *)
(* every store, and an OpenTracing span that lacks a part says so          *)
(* (recorder.go 90, 122, opentracing/recorder.go 85, 95).                  *)
THEOREM LossTold == Spec => []LossIsTold
<1>1. Init => LossInv
  BY InitInv DEF LossInv, LossIsTold, Init
<1>2. LossInv => LossIsTold
  BY DEF LossInv
<1> QED
  BY <1>1, <1>2, NextTells, PTL DEF Spec

-----------------------------------------------------------------------------
LEMMA GetSpanIDLength ==
  ASSUME NEW h, NEW header PROVE Len(getSpanID(h, header)) \in 0..1
BY DEF getSpanID

LEMMA TypeStep == TypeOK /\ [Next]_vars => TypeOK'
<1> SUFFICES ASSUME TypeOK, [Next]_vars PROVE TypeOK'
  OBVIOUS
<1>1. ASSUME NEW id, NEW evs, NEW o, CollectAndLog(id, evs, o)
      PROVE  DOMAIN stored' = Stores /\ failures' \in 0..MaxFailures
  <2>1. failures' <= MaxFailures /\ failures' = failures + Cost(o)
    BY <1>1 DEF CollectAndLog, Bounded
  <2>2. Cost(o) \in 0..1 /\ failures \in Nat /\ MaxFailures \in Nat
    BY ConstantsAssumption DEF Cost, TypeOK
  <2>3. failures' \in 0..MaxFailures
    BY <2>1, <2>2
  <2>4. DOMAIN stored' = Stores
    BY <1>1 DEF CollectAndLog, Put
  <2> QED
    BY <2>3, <2>4
<1>2. ASSUME NEW o, failures' = failures + Cost(o), Bounded(failures', Begun)
      PROVE  failures' \in 0..MaxFailures
  BY <1>2, ConstantsAssumption DEF Cost, Bounded, TypeOK
<1>3. ASSUME NEW method \in {"Event", "Finish", "Annotation"}, NoteError(method)
      PROVE  errors' \cup told' \subseteq {"Event", "Finish", "Annotation"}
  BY <1>3 DEF NoteError, TypeOK
<1>4. CASE EventFails
  <2>1. failures' \in 0..MaxFailures
    BY <1>4, ConstantsAssumption DEF EventFails, Bounded, TypeOK
  <2>2. DOMAIN stored' = Stores
    BY <1>4 DEF EventFails, Put
  <2> QED
    BY <1>3, <1>4, <2>1, <2>2 DEF EventFails, TypeOK, clientVars, serverVars, otVars
<1>5. CASE Finish
  <2>1. PICK o \in Outcomes :
          IF finished
          THEN /\ o[1] = 0 /\ failures' = failures + Cost(o) /\ Bounded(failures', Begun)
               /\ stored' = Put(stored, Annotations(ProgramSpan, {ErrorLog}), o[2])
               /\ NoteError("Finish")
          ELSE /\ CollectAndLog(ProgramSpan, anns, o)
               /\ IF Failed(o[1]) THEN NoteError("Annotation") ELSE UNCHANGED <<errors, told>>
    BY <1>5 DEF Finish
  <2>2. DOMAIN stored' = Stores /\ failures' \in 0..MaxFailures
    BY <1>1, <1>2, <2>1 DEF Put
  <2>3. errors' \cup told' \subseteq {"Event", "Finish", "Annotation"}
    BY <1>3, <2>1 DEF TypeOK
  <2> QED
    BY <1>5, <2>2, <2>3 DEF Finish, TypeOK, clientVars, serverVars, otVars
<1>6. CASE RecordSpan
  <2>1. PICK o \in Outcomes :
          /\ CollectAndLog(OTSpan, {Parts[part]}, o)
          /\ logged' = (logged \/ Failed(o[2]))
    BY <1>6 DEF RecordSpan
  <2>2. part' \in 1..(Len(Parts) + 1)
    <3>1. Len(Parts) \in Nat /\ part \in 1..(Len(Parts) + 1)
      BY ConstantsAssumption DEF TypeOK
    <3> QED
      BY <1>6, <3>1 DEF RecordSpan
  <2>3. DOMAIN stored' = Stores /\ failures' \in 0..MaxFailures
    BY <1>1, <2>1
  <2>4. logged' \in BOOLEAN
    BY <2>1
  <2> QED
    BY <1>6, <2>2, <2>3, <2>4 DEF RecordSpan, TypeOK, recorderVars, clientVars, serverVars
<1>7. ASSUME NEW q \in Requests, RoundTripEnds(q) PROVE TypeOK'
  <2>1. DOMAIN stored' = Stores /\ failures' \in 0..MaxFailures
    BY <1>1, <1>7 DEF RoundTripEnds
  <2> QED
    BY <1>7, <2>1 DEF RoundTripEnds, TypeOK, recorderVars, serverVars, otVars
<1>8. ASSUME NEW h \in Handlers, Record(h) PROVE TypeOK'
  <2>1. DOMAIN stored' = Stores /\ failures' \in 0..MaxFailures
    BY <1>1, <1>8 DEF Record, TypeOK
  <2> QED
    BY <1>8, <2>1 DEF Record, TypeOK, recorderVars, clientVars, otVars
<1>9. ASSUME NEW h \in Handlers, NEW header, NEW q \in Requests \cup {NoRequest},
             Serve(h, header, q)
      PROVE  TypeOK'
  <2>1. \A g \in Handlers : Len(span'[g]) \in 0..1
    BY <1>9, GetSpanIDLength DEF Serve, TypeOK
  <2>2. /\ at' \in [Handlers -> {"new", "serving", "answered", "done", "panicked", "broken"}]
        /\ sentBy' \in [Handlers -> Requests \cup {NoRequest}] /\ DOMAIN span' = Handlers
    BY <1>9 DEF Serve, TypeOK
  <2> QED
    BY <1>9, <2>1, <2>2 DEF Serve, TypeOK, recorderVars, clientVars, otVars
<1>10. ASSUME NEW h \in Handlers, Deliver(h) \/ DeliverForeign(h) PROVE TypeOK'
  BY <1>9, <1>10 DEF Deliver, DeliverForeign
<1>11. ASSUME NEW h \in Handlers, HandlerEnds(h) PROVE TypeOK'
  <2>1. calls' \in [Handlers -> Seq(Nat)]
    <3>1. CASE UNCHANGED calls
      BY <3>1 DEF TypeOK
    <3>2. CASE \E c \in Calls : calls' = [calls EXCEPT ![h] = c]
      <4>1. PICK c \in Seq(Nat) : calls' = [calls EXCEPT ![h] = c]
        BY <3>2, ConstantsAssumption
      <4> QED
        BY <4>1 DEF TypeOK
    <3> QED
      BY <1>11, <3>1, <3>2 DEF HandlerEnds
  <2>2. at' \in [Handlers -> {"new", "serving", "answered", "done", "panicked", "broken"}]
    BY <1>11 DEF HandlerEnds, TypeOK
  <2> QED
    BY <1>11, <2>1, <2>2 DEF HandlerEnds, TypeOK, recorderVars, clientVars, otVars
<1>12. ASSUME NEW q \in Requests, Send(q) \/ SendFails(q) PROVE TypeOK'
  BY <1>12 DEF Send, SendFails, TypeOK, recorderVars, serverVars, otVars
<1>13. ASSUME NEW q \in Requests, Answered(q) PROVE TypeOK'
  BY <1>13 DEF Answered, TypeOK, recorderVars, serverVars, otVars
<1>14. ASSUME NEW e \in Events, Event(e) PROVE TypeOK'
  BY <1>14 DEF Event, TypeOK, clientVars, serverVars, otVars
<1>15. CASE Errors \/ UNCHANGED vars
  BY <1>15 DEF Errors, vars, TypeOK, recorderVars, clientVars, serverVars, otVars
<1>16. ASSUME NEW q \in Requests,
              Send(q) \/ CancelRequest(q) \/ Answered(q) \/ SendFails(q) \/ RoundTripEnds(q)
       PROVE  TypeOK'
  BY <1>7, <1>12, <1>13, <1>16 DEF CancelRequest
<1>17. ASSUME NEW h \in Handlers,
              Deliver(h) \/ DeliverForeign(h) \/ HandlerEnds(h) \/ Record(h)
       PROVE  TypeOK'
  BY <1>8, <1>10, <1>11, <1>17
<1> QED
  BY <1>4, <1>5, <1>6, <1>14, <1>15, <1>16, <1>17 DEF Next

LEMMA InitType == Init => TypeOK
<1> SUFFICES ASSUME Init PROVE TypeOK
  OBVIOUS
<1>1. 1 \in 1..(Len(Parts) + 1) /\ 0 \in 0..MaxFailures
  <2>1. Len(Parts) \in Nat /\ MaxFailures \in Nat
    BY ConstantsAssumption
  <2> QED
    BY <2>1
<1>2. <<>> \in Seq(Nat) /\ Len(<<>>) \in 0..1
  OBVIOUS
<1>3. DOMAIN span = Handlers /\ \A h \in Handlers : Len(span[h]) \in 0..1
  BY <1>2 DEF Init
<1>4. calls \in [Handlers -> Seq(Nat)] /\ sentBy \in [Handlers -> Requests \cup {NoRequest}]
  BY <1>2 DEF Init
<1>5. /\ client \in [Requests -> {"new", "sent", "answered", "done"}]
      /\ answer \in [Requests -> Handlers \cup {NoHandler}]
      /\ at \in [Handlers -> {"new", "serving", "answered", "done", "panicked", "broken"}]
  BY DEF Init
<1>6. /\ anns = {} /\ due = {} /\ errors = {} /\ told = {} /\ requests = {}
      /\ finished = FALSE /\ logged = FALSE /\ failures = 0 /\ part = 1
      /\ DOMAIN stored = Stores
  BY DEF Init
<1> QED
  BY <1>1, <1>3, <1>4, <1>5, <1>6 DEF TypeOK

(* The variables of Tracing keep their types.                              *)
THEOREM TypeCorrect == Spec => []TypeOK
<1> QED
  BY InitType, TypeStep, PTL DEF Spec

-----------------------------------------------------------------------------
(* An event that the HTTP instrumentation records, in the span of a call.  *)
IsHTTPEvent(e) == \E kind \in {"HTTPClient", "HTTPServer"} : \E x, s : e = <<kind, x, s>>

(* A handler that serves a request has the span that its header names, the *)
(* one that answers it has ended, and what is stored of the two is their   *)
(* event as it is now, in the span of each.                                *)
ServesHeader ==
    \A h \in Handlers : sentBy[h] # NoRequest => span[h] = <<HeaderSpan(sentBy[h])>>

AnswerEnded ==
    \A q \in Requests : answer[q] # NoHandler =>
        /\ client[q] \in {"answered", "done"}
        /\ sentBy[answer[q]] = q /\ at[answer[q]] \in {"answered", "done"}

ClientEntry(a) ==
    \A q, s : a.event = <<"HTTPClient", q, s>> =>
        q \in Requests /\ client[q] = "done" /\ a = [span |-> ClientSpan(q), event |-> ClientEvent(q)]

ServerEntry(a) ==
    \A h, s : a.event = <<"HTTPServer", h, s>> =>
        /\ h \in Handlers /\ at[h] = "done" /\ span[h] = <<a.span>>
        /\ a.event = ServerEvent(h)

EntriesTrue == \A i \in Stores : \A a \in stored[i] : ClientEntry(a) /\ ServerEntry(a)

AtMostOneSpan == \A h \in Handlers : span[h] = <<>> \/ span[h] = <<span[h][1]>>

AgreeInv == TypeOK /\ AtMostOneSpan /\ ServesHeader /\ AnswerEnded /\ EntriesTrue

(* SpanID.String and ParseSpanID agree on the span in the header.          *)
LEMMA HeaderReadBack ==
  ASSUME NEW h, NEW q
  PROVE  getSpanID(h, Header(String(HeaderSpan(q)), <<>>)) = <<HeaderSpan(q)>>
<1> DEFINE id == HeaderSpan(q)
           s  == <<"span", <<"header", q>>>>
           t  == <<"trace", <<"program">>>>
           p  == <<"span", <<"program">>>>
<1>1. id = [trace |-> t, span |-> s, parent |-> p]
  BY DEF HeaderSpan, NewSpanID, ProgramSpan, NewRootSpanID, SpanID
<1>2. p # NoID /\ t # <<"?">> /\ s # <<"?">> /\ p # <<"?">>
  BY DEF NoID
<1>3. String(id) = <<t, s, p>>
  BY <1>1, <1>2 DEF String
<1>4. Len(<<t, s, p>>) = 3 /\ <<t, s, p>> # <<>>
  OBVIOUS
<1>5. Range(<<t, s, p>>) = {t, s, p}
  <2> HIDE DEF t, s, p
  <2>1. DOMAIN <<t, s, p>> = {1, 2, 3}
    OBVIOUS
  <2> QED
    BY <2>1 DEF Range
<1>6. Parsed(<<t, s, p>>)
  BY <1>2, <1>4, <1>5 DEF Parsed
<1>7. ParseSpanID(<<t, s, p>>) = id
  BY <1>1, <1>4 DEF ParseSpanID, SpanID
<1> QED
  BY <1>3, <1>4, <1>6, <1>7 DEF getSpanID, Header

LEMMA GetSpanIDShape ==
  ASSUME NEW h, NEW header
  PROVE  getSpanID(h, header) = <<>> \/ \E id : getSpanID(h, header) = <<id>>
BY DEF getSpanID

(* A store never takes more of a Collect than the annotations in it and    *)
(* the log entry about its failure.                                        *)
LEMMA PutTakes ==
  ASSUME NEW st, NEW entries, NEW k, NEW i \in Stores
  PROVE  Put(st, entries, k)[i] \subseteq st[i] \cup entries
BY DEF Put

LEMMA CollectAndLogTakes ==
  ASSUME NEW id, NEW evs, NEW o, CollectAndLog(id, evs, o), NEW i \in Stores,
         NEW a \in stored'[i]
  PROVE  a \in stored[i] \/ \E e \in evs \cup {ErrorLog} : a = [span |-> id, event |-> e]
<1>1. a \in stored[i] \/ a \in Annotations(id, evs) \/ a \in Annotations(id, {ErrorLog})
  <2>1. CASE Failed(o[1])
    <3> DEFINE first == Put(stored, Annotations(id, evs), o[1])
    <3>1. stored' = Put(first, Annotations(id, {ErrorLog}), o[2])
      BY <2>1 DEF CollectAndLog
    <3>2. first[i] \subseteq stored[i] \cup Annotations(id, evs)
      BY PutTakes
    <3> HIDE DEF first
    <3>3. stored'[i] \subseteq first[i] \cup Annotations(id, {ErrorLog})
      BY <3>1, PutTakes
    <3> QED
      BY <3>2, <3>3
  <2>2. CASE ~Failed(o[1])
    BY <2>2, PutTakes DEF CollectAndLog
  <2> QED
    BY <2>1, <2>2
<1> QED
  BY <1>1 DEF Annotations

LEMMA PlainEntry ==
  ASSUME NEW a, ~IsHTTPEvent(a.event)
  PROVE  (ClientEntry(a) /\ ServerEntry(a)) /\ (ClientEntry(a) /\ ServerEntry(a))'
BY DEF IsHTTPEvent, ClientEntry, ServerEntry

LEMMA OwnEventsPlain ==
  /\ ~IsHTTPEvent(Name) /\ ~IsHTTPEvent(ErrorLog)
BY DEF IsHTTPEvent, Name, ErrorLog

LEMMA LogTakes ==
  ASSUME NEW id, NEW k, stored' = Put(stored, Annotations(id, {ErrorLog}), k),
         NEW i \in Stores, NEW a \in stored'[i]
  PROVE  a \in stored[i] \/ ~IsHTTPEvent(a.event)
<1>1. a \in stored[i] \/ a \in Annotations(id, {ErrorLog})
  BY PutTakes
<1> QED
  BY <1>1, OwnEventsPlain DEF Annotations

(* What ended stays as it is.                                              *)
Settles ==
    /\ \A q \in Requests : client[q] = "done" => client'[q] = "done" /\ answer'[q] = answer[q]
    /\ \A q \in Requests : client[q] = "answered" => client'[q] \in {"answered", "done"}
    /\ \A q \in Requests : answer[q] # NoHandler => answer'[q] = answer[q]
    /\ \A h \in Handlers : at[h] = "answered" => at'[h] \in {"answered", "done", "broken"}
    /\ \A h \in Handlers : at[h] = "answered" /\ span[h] # <<>> => at'[h] # "broken"
    /\ \A h \in Handlers : at[h] = "done" => at'[h] = "done"
    /\ \A h \in Handlers : at[h] \in {"answered", "done"} =>
            span'[h] = span[h] /\ calls'[h] = calls[h] /\ sentBy'[h] = sentBy[h]

LEMMA NextSettles == AgreeInv /\ [Next]_vars => Settles
<1> SUFFICES ASSUME AgreeInv, [Next]_vars PROVE Settles
  OBVIOUS
<1> USE DEF AgreeInv, TypeOK
<1>1. ASSUME UNCHANGED clientVars, UNCHANGED serverVars PROVE Settles
  BY <1>1 DEF Settles, clientVars, serverVars
<1>2. (\E e \in Events : Event(e)) \/ EventFails \/ Finish \/ Errors \/ RecordSpan
        \/ UNCHANGED vars => Settles
  BY <1>1 DEF Event, EventFails, Finish, Errors, RecordSpan, vars
<1>3. ASSUME NEW q \in Requests, Send(q) \/ SendFails(q) \/ CancelRequest(q) PROVE Settles
  BY <1>3 DEF Send, SendFails, CancelRequest, Settles, serverVars
<1>4. ASSUME NEW q \in Requests, Answered(q) PROVE Settles
  BY <1>4 DEF Answered, Settles, serverVars, AnswerEnded
<1>5. ASSUME NEW q \in Requests, RoundTripEnds(q) PROVE Settles
  BY <1>5 DEF RoundTripEnds, Settles, serverVars
<1>6. ASSUME NEW h \in Handlers, Deliver(h) \/ DeliverForeign(h) PROVE Settles
  BY <1>6 DEF Deliver, DeliverForeign, Serve, Settles, clientVars
<1>7. ASSUME NEW h \in Handlers, HandlerEnds(h) PROVE Settles
  BY <1>7 DEF HandlerEnds, Settles, clientVars
<1>8. ASSUME NEW h \in Handlers, Record(h) PROVE Settles
  BY <1>8 DEF Record, Settles, clientVars
<1> QED
  BY <1>2, <1>3, <1>4, <1>5, <1>6, <1>7, <1>8 DEF Next

LEMMA EntryStays ==
  ASSUME AgreeInv, Settles, NEW a, ClientEntry(a), ServerEntry(a)
  PROVE  ClientEntry(a)' /\ ServerEntry(a)'
<1>1. ASSUME NEW q, NEW s, a.event = <<"HTTPClient", q, s>>
      PROVE  /\ q \in Requests /\ client'[q] = "done"
             /\ a = [span |-> ClientSpan(q), event |-> ClientEvent(q)']
  <2>1. q \in Requests /\ client[q] = "done"
        /\ a = [span |-> ClientSpan(q), event |-> ClientEvent(q)]
    BY <1>1 DEF ClientEntry
  <2>2. client'[q] = "done" /\ answer'[q] = answer[q]
    BY <2>1 DEF Settles
  <2>3. ClientEvent(q)' = ClientEvent(q)
    <3>1. CASE answer[q] = NoHandler
      BY <2>2, <3>1 DEF ClientEvent
    <3>2. CASE answer[q] # NoHandler
      <4>1. answer[q] \in Handlers /\ at[answer[q]] \in {"answered", "done"}
        BY <2>1, <3>2 DEF AgreeInv, AnswerEnded, TypeOK
      <4>2. calls'[answer[q]] = calls[answer[q]]
        BY <4>1 DEF Settles
      <4> QED
        BY <2>2, <4>2 DEF ClientEvent, SentStatus
    <3> QED
      BY <3>1, <3>2
  <2> QED
    BY <2>1, <2>2, <2>3
<1>2. ASSUME NEW h, NEW s, a.event = <<"HTTPServer", h, s>>
      PROVE  /\ h \in Handlers /\ at'[h] = "done" /\ span'[h] = <<a.span>>
             /\ a.event = ServerEvent(h)'
  <2>1. h \in Handlers /\ at[h] = "done" /\ span[h] = <<a.span>> /\ a.event = ServerEvent(h)
    BY <1>2 DEF ServerEntry
  <2>2. at'[h] = "done" /\ span'[h] = span[h] /\ calls'[h] = calls[h]
    BY <2>1 DEF Settles
  <2> QED
    BY <2>1, <2>2 DEF ServerEvent, RecordedStatus
<1> QED
  BY <1>1, <1>2 DEF ClientEntry, ServerEntry

LEMMA EntriesStay ==
  ASSUME AgreeInv, Settles,
         \A i \in Stores : \A a \in stored'[i] :
            a \in stored[i] \/ ~IsHTTPEvent(a.event) \/ (ClientEntry(a)' /\ ServerEntry(a)')
  PROVE  EntriesTrue'
<1> SUFFICES ASSUME NEW i \in Stores, NEW a \in stored'[i]
             PROVE  ClientEntry(a)' /\ ServerEntry(a)'
  BY DEF EntriesTrue
<1>1. CASE a \in stored[i]
  BY <1>1, EntryStays DEF AgreeInv, EntriesTrue
<1> QED
  BY <1>1, PlainEntry

LEMMA OthersAgree ==
  ASSUME AgreeInv, [Next]_vars, UNCHANGED <<clientVars, serverVars>>,
         \A i \in Stores : \A a \in stored'[i] : a \in stored[i] \/ ~IsHTTPEvent(a.event)
  PROVE  AgreeInv'
<1>1. Settles /\ TypeOK'
  BY NextSettles, TypeStep DEF AgreeInv
<1>2. EntriesTrue'
  BY <1>1, EntriesStay
<1> QED
  BY <1>1, <1>2 DEF AgreeInv, AtMostOneSpan, ServesHeader, AnswerEnded, clientVars, serverVars

LEMMA NextAgrees ==
  ASSUME \A e \in Events \cup Range(Parts) : ~IsHTTPEvent(e), AgreeInv, [Next]_vars
  PROVE  AgreeInv'
<1>1. Settles /\ TypeOK'
  BY NextSettles, TypeStep DEF AgreeInv
<1>2. \A e \in anns : ~IsHTTPEvent(e)
  BY DEF AgreeInv, TypeOK
<1>3. CASE EventFails
  <2>1. PICK l : stored' = Put(stored, Annotations(ProgramSpan, {ErrorLog}), l)
    BY <1>3 DEF EventFails
  <2>2. ASSUME NEW i \in Stores, NEW a \in stored'[i]
        PROVE  a \in stored[i] \/ ~IsHTTPEvent(a.event)
    BY <2>1, LogTakes
  <2> QED
    BY <1>3, <2>2, OthersAgree DEF EventFails
<1>4. CASE Finish
  <2>1. PICK o \in Outcomes :
          \/ stored' = Put(stored, Annotations(ProgramSpan, {ErrorLog}), o[2])
          \/ CollectAndLog(ProgramSpan, anns, o)
    BY <1>4 DEF Finish
  <2>2. ASSUME NEW i \in Stores, NEW a \in stored'[i]
        PROVE  a \in stored[i] \/ ~IsHTTPEvent(a.event)
    <3>1. CASE stored' = Put(stored, Annotations(ProgramSpan, {ErrorLog}), o[2])
      BY <3>1, LogTakes
    <3>2. CASE CollectAndLog(ProgramSpan, anns, o)
      BY <1>2, <3>2, CollectAndLogTakes, OwnEventsPlain
    <3> QED
      BY <2>1, <3>1, <3>2
  <2> QED
    BY <1>4, <2>2, OthersAgree DEF Finish
<1>5. CASE RecordSpan
  <2>1. PICK o \in Outcomes : CollectAndLog(OTSpan, {Parts[part]}, o)
    BY <1>5 DEF RecordSpan
  <2>2. Parts[part] \in Range(Parts)
    <3>1. Parts \in Seq(Range(Parts)) /\ part \in 1..Len(Parts)
      BY <1>5, ConstantsAssumption DEF RecordSpan, AgreeInv, TypeOK
    <3> QED
      BY <3>1
  <2>3. ASSUME NEW i \in Stores, NEW a \in stored'[i]
        PROVE  a \in stored[i] \/ ~IsHTTPEvent(a.event)
    BY <2>1, <2>2, CollectAndLogTakes, OwnEventsPlain
  <2> QED
    BY <1>5, <2>3, OthersAgree DEF RecordSpan
<1>6. CASE (\E e \in Events : Event(e)) \/ Errors \/ UNCHANGED vars
  BY <1>6, OthersAgree DEF Event, Errors, vars, clientVars, serverVars
<1>7. ASSUME NEW q \in Requests, Send(q) \/ SendFails(q) \/ CancelRequest(q) PROVE AgreeInv'
  <2>1. UNCHANGED <<stored, serverVars, answer>>
    BY <1>7 DEF Send, SendFails, CancelRequest
  <2>2. EntriesTrue'
    BY <1>1, <2>1, EntriesStay
  <2>3. ServesHeader'
    BY <2>1 DEF AgreeInv, ServesHeader, serverVars
  <2>o. AtMostOneSpan'
    BY <2>1 DEF AgreeInv, AtMostOneSpan, serverVars
  <2>4. AnswerEnded'
    BY <1>1, <2>1 DEF AgreeInv, AnswerEnded, serverVars, Settles
  <2> QED
    BY <1>1, <2>2, <2>3, <2>4, <2>o DEF AgreeInv
<1>8. ASSUME NEW q \in Requests, Answered(q) PROVE AgreeInv'
  <2>1. UNCHANGED <<stored, serverVars>>
    BY <1>8 DEF Answered
  <2>2. EntriesTrue'
    BY <1>1, <2>1, EntriesStay
  <2>3. ServesHeader'
    BY <2>1 DEF AgreeInv, ServesHeader, serverVars
  <2>o. AtMostOneSpan'
    BY <2>1 DEF AgreeInv, AtMostOneSpan, serverVars
  <2>4. AnswerEnded'
    BY <1>1, <1>8, <2>1 DEF AgreeInv, AnswerEnded, serverVars, Answered, TypeOK
  <2> QED
    BY <1>1, <2>2, <2>3, <2>4, <2>o DEF AgreeInv
<1>9. ASSUME NEW q \in Requests, RoundTripEnds(q) PROVE AgreeInv'
  <2>1. PICK o \in Outcomes : CollectAndLog(ClientSpan(q), ClientEvents(q), o)
    BY <1>9 DEF RoundTripEnds
  <2>2. UNCHANGED <<answer, serverVars>> /\ client'[q] = "done"
    BY <1>9 DEF RoundTripEnds, AgreeInv, TypeOK
  <2>3. ASSUME NEW i \in Stores, NEW a \in stored'[i]
        PROVE  a \in stored[i] \/ ~IsHTTPEvent(a.event) \/ (ClientEntry(a)' /\ ServerEntry(a)')
    <3>1. CASE a = [span |-> ClientSpan(q), event |-> ClientEvent(q)]
      <4>1. ClientEvent(q)' = ClientEvent(q)
        BY <2>2 DEF ClientEvent, SentStatus, serverVars
      <4>2. ServerEntry(a)'
        BY <3>1 DEF ServerEntry, ClientEvent
      <4>3. ASSUME NEW p, NEW s, a.event = <<"HTTPClient", p, s>> PROVE p = q
        BY <3>1, <4>3 DEF ClientEvent
      <4>4. ClientEntry(a)'
        BY <2>2, <3>1, <4>1, <4>3 DEF ClientEntry
      <4> QED
        BY <4>2, <4>4
    <3>2. \/ a \in stored[i] \/ a = [span |-> ClientSpan(q), event |-> ClientEvent(q)]
          \/ a.event \in {Name, ErrorLog}
      BY <2>1, CollectAndLogTakes DEF ClientEvents
    <3> QED
      BY <3>1, <3>2, OwnEventsPlain
  <2>4. EntriesTrue'
    BY <1>1, <2>3, EntriesStay
  <2>5. ServesHeader'
    BY <2>2 DEF AgreeInv, ServesHeader, serverVars
  <2>o. AtMostOneSpan'
    BY <2>2 DEF AgreeInv, AtMostOneSpan, serverVars
  <2>6. AnswerEnded'
    BY <1>1, <2>2 DEF AgreeInv, AnswerEnded, serverVars, Settles
  <2> QED
    BY <1>1, <2>4, <2>5, <2>6, <2>o DEF AgreeInv
<1>10. ASSUME NEW h \in Handlers, NEW header, NEW q \in Requests \cup {NoRequest},
              Serve(h, header, q),
              q # NoRequest => header = Header(String(HeaderSpan(q)), <<>>)
       PROVE  AgreeInv'
  <2>1. UNCHANGED <<stored, clientVars>> /\ at[h] = "new"
        /\ span' = [span EXCEPT ![h] = getSpanID(h, header)]
        /\ sentBy' = [sentBy EXCEPT ![h] = q]
    BY <1>10 DEF Serve
  <2>2. EntriesTrue'
    BY <1>1, <2>1, EntriesStay
  <2>3. ServesHeader'
    BY <1>10, <2>1, HeaderReadBack DEF AgreeInv, ServesHeader, TypeOK
  <2>o. AtMostOneSpan'
    <3>1. PICK id : span'[h] = <<>> \/ span'[h] = <<id>>
      BY <2>1, GetSpanIDShape DEF AgreeInv, TypeOK
    <3> QED
      BY <2>1, <3>1 DEF AgreeInv, AtMostOneSpan
  <2>4. AnswerEnded'
    <3> SUFFICES ASSUME NEW p \in Requests, answer'[p] # NoHandler
                 PROVE  /\ client'[p] \in {"answered", "done"} /\ sentBy'[answer'[p]] = p
                        /\ at'[answer'[p]] \in {"answered", "done"}
      BY DEF AnswerEnded
    <3>1. answer'[p] = answer[p] /\ client'[p] = client[p]
      BY <2>1 DEF clientVars
    <3>2. client[p] \in {"answered", "done"} /\ sentBy[answer[p]] = p
          /\ at[answer[p]] \in {"answered", "done"} /\ answer[p] \in Handlers
      BY <3>1 DEF AgreeInv, AnswerEnded, TypeOK
    <3>3. answer[p] # h
      BY <2>1, <3>2
    <3>4. sentBy'[answer[p]] = sentBy[answer[p]] /\ at'[answer[p]] = at[answer[p]]
      BY <1>10, <2>1, <3>2, <3>3 DEF AgreeInv, TypeOK, Serve
    <3> QED
      BY <3>1, <3>2, <3>4
  <2> QED
    BY <1>1, <2>2, <2>3, <2>4, <2>o DEF AgreeInv
<1>11. ASSUME NEW h \in Handlers, Deliver(h) \/ DeliverForeign(h) PROVE AgreeInv'
  <2>1. NoRequest \notin Requests
    BY ConstantsAssumption
  <2> QED
    BY <1>10, <1>11, <2>1 DEF Deliver, DeliverForeign
<1>12. ASSUME NEW h \in Handlers, HandlerEnds(h) PROVE AgreeInv'
  <2>1. UNCHANGED <<stored, clientVars, span, sentBy>> /\ at[h] = "serving"
    BY <1>12 DEF HandlerEnds
  <2>2. EntriesTrue'
    BY <1>1, <2>1, EntriesStay
  <2>3. ServesHeader'
    BY <2>1 DEF AgreeInv, ServesHeader
  <2>o. AtMostOneSpan'
    BY <2>1 DEF AgreeInv, AtMostOneSpan
  <2>4. \A g \in Handlers : at[g] \in {"answered", "done"} => at'[g] = at[g]
    BY <1>12, <2>1 DEF HandlerEnds, AgreeInv, TypeOK
  <2>5. AnswerEnded'
    BY <2>1, <2>4 DEF AgreeInv, AnswerEnded, clientVars, TypeOK
  <2> QED
    BY <1>1, <2>2, <2>3, <2>5, <2>o DEF AgreeInv
<1>13. ASSUME NEW h \in Handlers, Record(h) PROVE AgreeInv'
  <2>1. UNCHANGED <<clientVars, span, calls, sentBy>> /\ at[h] = "answered"
    BY <1>13 DEF Record
  <2>2. EntriesTrue'
    <3>1. CASE span[h] = <<>>
      BY <1>1, <1>13, <3>1, EntriesStay DEF Record
    <3>2. CASE span[h] # <<>>
      <4>1. PICK o \in Outcomes : CollectAndLog(span[h][1], {Name, ServerEvent(h)}, o)
        BY <1>13, <3>2 DEF Record
      <4>2. at'[h] = "done" /\ span'[h] = <<span[h][1]>>
        BY <1>13, <2>1, <3>2 DEF Record, AgreeInv, TypeOK, AtMostOneSpan
      <4>3. ASSUME NEW i \in Stores, NEW a \in stored'[i]
            PROVE  a \in stored[i] \/ ~IsHTTPEvent(a.event) \/ (ClientEntry(a)' /\ ServerEntry(a)')
        <5>1. CASE a = [span |-> span[h][1], event |-> ServerEvent(h)]
          <6>1. ServerEvent(h)' = ServerEvent(h)
            BY <2>1 DEF ServerEvent, RecordedStatus
          <6>2. ClientEntry(a)'
            BY <5>1 DEF ClientEntry, ServerEvent
          <6>3. ASSUME NEW g, NEW s, a.event = <<"HTTPServer", g, s>> PROVE g = h
            BY <5>1, <6>3 DEF ServerEvent
          <6>4. ServerEntry(a)'
            BY <4>2, <5>1, <6>1, <6>3 DEF ServerEntry
          <6> QED
            BY <6>2, <6>4
        <5>2. \/ a \in stored[i] \/ a = [span |-> span[h][1], event |-> ServerEvent(h)]
              \/ a.event \in {Name, ErrorLog}
          BY <4>1, CollectAndLogTakes
        <5> QED
          BY <5>1, <5>2, OwnEventsPlain
      <4> QED
        BY <1>1, <4>3, EntriesStay
    <3> QED
      BY <3>1, <3>2
  <2>3. ServesHeader'
    BY <2>1 DEF AgreeInv, ServesHeader
  <2>o. AtMostOneSpan'
    BY <2>1 DEF AgreeInv, AtMostOneSpan
  <2>4. AnswerEnded'
    <3> SUFFICES ASSUME NEW p \in Requests, answer'[p] # NoHandler
                 PROVE  /\ client'[p] \in {"answered", "done"} /\ sentBy'[answer'[p]] = p
                        /\ at'[answer'[p]] \in {"answered", "done"}
      BY DEF AnswerEnded
    <3>1. answer'[p] = answer[p] /\ client'[p] = client[p]
      BY <2>1 DEF clientVars
    <3>2. client[p] \in {"answered", "done"} /\ sentBy[answer[p]] = p
          /\ at[answer[p]] \in {"answered", "done"} /\ answer[p] \in Handlers
      BY <3>1 DEF AgreeInv, AnswerEnded, TypeOK
    <3>3. span[answer[p]] # <<>>
      <4>1. p # NoRequest
        BY ConstantsAssumption
      <4>2. span[answer[p]] = <<HeaderSpan(p)>>
        BY <3>2, <4>1 DEF AgreeInv, ServesHeader
      <4> QED
        BY <4>2
    <3>4. at'[answer[p]] \in {"answered", "done"}
      BY <1>1, <3>2, <3>3 DEF Settles
    <3> QED
      BY <2>1, <3>1, <3>2, <3>4
  <2> QED
    BY <1>1, <2>2, <2>3, <2>4, <2>o DEF AgreeInv
<1> QED
  BY <1>3, <1>4, <1>5, <1>6, <1>7, <1>8, <1>9, <1>11, <1>12, <1>13 DEF Next

LEMMA AgreeInvAgrees == AgreeInv => EventsAgree
<1> SUFFICES ASSUME AgreeInv, NEW q \in Requests, answer[q] # NoHandler,
                    NEW a \in stored[1], NEW b \in stored[1],
                    a.event = ClientEvent(q), b.event = ServerEvent(answer[q])
             PROVE  /\ a.span.trace = b.span.trace /\ a.span.parent = b.span.parent
                    /\ a.span.span # b.span.span
                    /\ Len(calls[answer[q]]) <= 1 => a.event[3] = b.event[3]
  BY DEF EventsAgree
<1> DEFINE h == answer[q]
<1>1. 1 \in Stores
  BY ConstantsAssumption DEF Stores
<1>2. a.span = ClientSpan(q)
  BY <1>1 DEF AgreeInv, EntriesTrue, ClientEntry, ClientEvent
<1>3. span[h] = <<b.span>> /\ h \in Handlers
  BY <1>1 DEF AgreeInv, EntriesTrue, ServerEntry, ServerEvent
<1>4. span[h] = <<HeaderSpan(q)>>
  BY <1>3, ConstantsAssumption DEF AgreeInv, AnswerEnded, ServesHeader
<1>5. b.span = HeaderSpan(q)
  BY <1>3, <1>4
<1>6. a.span.trace = b.span.trace /\ a.span.parent = b.span.parent
  BY <1>2, <1>5 DEF ClientSpan, HeaderSpan, NewSpanID, SpanID
<1>7. a.span.span # b.span.span
  BY <1>2, <1>5 DEF ClientSpan, HeaderSpan, NewSpanID, SpanID
<1>8. ASSUME Len(calls[h]) <= 1 PROVE SentStatus(h) = RecordedStatus(h)
  <2>1. calls[h] \in Seq(Nat)
    BY <1>3 DEF AgreeInv, TypeOK
  <2>2. CASE calls[h] = <<>>
    BY <2>2 DEF SentStatus, RecordedStatus
  <2>3. CASE calls[h] # <<>>
    <3>1. ASSUME NEW c \in Seq(Nat), c # <<>>, Len(c) <= 1 PROVE Len(c) = 1
      <4>1. Len(c) \in Nat
        BY <3>1
      <4>2. Len(c) # 0
        BY <3>1, EmptySeq
      <4>3. \A n \in Nat : n # 0 /\ n <= 1 => n = 1
        OBVIOUS
      <4> QED
        BY <3>1, <4>1, <4>2, <4>3, Zenon
    <3>2. Len(calls[h]) = 1
      BY <1>8, <2>1, <2>3, <3>1
    <3> QED
      BY <2>1, <3>2 DEF SentStatus, RecordedStatus, Last
  <2> QED
    BY <2>2, <2>3
<1>9. a.event[3] = SentStatus(h) /\ b.event[3] = RecordedStatus(h)
  BY DEF ClientEvent, ServerEvent
<1> QED
  BY <1>6, <1>7, <1>8, <1>9

(* In every behaviour of a program that records no HTTP event by hand, the *)
(* client and the server of a request describe one call, in two spans side *)
(* by side, whichever records first and whatever is delivered again        *)
(* (client.go 133, server.go 69, header.go 37).                            *)
THEOREM CallsAgree ==
  ASSUME \A e \in Events \cup Range(Parts) : ~IsHTTPEvent(e)
  PROVE  Spec => []EventsAgree
<1>1. Init => AgreeInv
  <2>1. Init => TypeOK
    BY InitType
  <2>2. Init => AtMostOneSpan /\ ServesHeader /\ AnswerEnded /\ EntriesTrue
    BY DEF Init, AtMostOneSpan, ServesHeader, AnswerEnded, EntriesTrue
  <2> QED
    BY <2>1, <2>2 DEF AgreeInv
<1>2. AgreeInv /\ [Next]_vars => AgreeInv'
  BY NextAgrees
<1> QED
  BY <1>1, <1>2, AgreeInvAgrees, PTL DEF Spec
=============================================================================
