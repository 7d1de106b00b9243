---------------------------- MODULE InfluxDBStore ----------------------------
(***************************************************************************)
(* appdash.InfluxDBStore (influxdb_store.go): Collect puts a point into a  *)
(* batch, a goroutine (the flusher) writes the batch to the InfluxDB       *)
(* server that runs in the same process, and Trace and Traces query that   *)
(* server; with the web UI above it that uploads traces (traceapp/app.go). *)
(*                                                                         *)
(* A span is collected once by the program that records it, and once more  *)
(* by each upload of its trace: a point is [span, by].  What a point holds *)
(* besides is the subject of InfluxRows.  in.batchMu makes Collect and the *)
(* taking of the batch atomic; writes and queries are not under the lock.  *)
(* The process may die at any time; what InfluxDB has written survives,    *)
(* until the retention policy of NewInfluxDBConfig deletes it.             *)
(***************************************************************************)
EXTENDS Naturals, FiniteSetsExt, SequencesExt

CONSTANTS
    Traces,
    Spans,
    TraceOf,            \* span -> trace
    Parent,             \* span -> span, or NoSpan for a root
    NoSpan,
    Recorded,           \* the spans the program itself records
    Uploads,            \* requests that upload a trace
    UploadOf,           \* upload -> the spans of its trace, as collectTrace visits them
    PointSize,          \* span -> pointMemoryUsage
    MaxBatchSizeBytes,
    tracesPerPage,
    MaxRestarts         \* bound: restarts of the process

App == "app"    \* stands for the program beside the uploads

ASSUME ConstantsAssumption ==
    /\ TraceOf \in [Spans -> Traces]
    /\ NoSpan \notin Spans /\ Parent \in [Spans -> Spans \cup {NoSpan}]
    /\ Recorded \subseteq Spans
    /\ UploadOf \in [Uploads -> Seq(Spans) \ {<<>>}]
    /\ \A u \in Uploads : \A i, j \in DOMAIN UploadOf[u] :
          UploadOf[u][i] = UploadOf[u][j] => i = j
    /\ App \notin Uploads
    /\ PointSize \in [Spans -> Nat]
    /\ {MaxBatchSizeBytes, tracesPerPage, MaxRestarts} \subseteq Nat

Point == [span : Recorded, by : {App}]
         \cup UNION {[span : Range(UploadOf[u]), by : {u}] : u \in Uploads}

VARIABLES
    setup,          \* steps of NewInfluxDBStore and init done
    setupFailed,    \* one of them returned an error
    batch,          \* in.batch
    batchSizeBytes, \* in.batchSizeBytes
    flusher,        \* "new" until it has made flusherStopChan, then "waiting",
                    \* "writing" or "stopped"
    closer,         \* Close: "none", "flushing", "writing", "closing" or "done"
    panicked,       \* Close has closed a channel that was nil or closed
    taken,          \* writer -> the batch it is writing
    server,         \* whether the InfluxDB server is open
    db,             \* the points in the database
    expired,        \* history: those the retention policy has deleted
    uploadAt,       \* upload -> "start", "collecting" or "done"
    next,           \* upload -> the place in UploadOf to collect
    listing,        \* the root rows of a call of Traces, before its second query
    restarts,
    lost            \* history: points dropped, or in a write that failed

batchVars  == <<batch, batchSizeBytes>>
uploadVars == <<uploadAt, next>>
stored     == <<db, expired>>
phases     == <<flusher, closer, panicked>>
vars == <<setup, setupFailed, batchVars, phases, taken, server, stored, uploadVars, listing,
          restarts, lost>>

Writers == {"flusher", "closer"}

SetupSteps == <<"server", "client", "admin", "database", "queries">>

Init ==
    /\ setup = 0 /\ setupFailed = FALSE
    /\ batch = {} /\ batchSizeBytes = 0
    /\ flusher = "new" /\ closer = "none" /\ panicked = FALSE
    /\ taken = [w \in Writers |-> {}]
    /\ server = "closed" /\ db = {} /\ expired = {}
    /\ uploadAt = [u \in Uploads |-> "start"] /\ next = [u \in Uploads |-> 1]
    /\ listing = {} /\ restarts = 0 /\ lost = {}

Ready == setup = Len(SetupSteps) /\ ~panicked

-----------------------------------------------------------------------------
(* NewInfluxDBStore opens the server; init makes the client, the admin     *)
(* user, the database and the continuous queries, and starts the flusher.  *)
(* Users, databases and queries that exist already are no error.  When a   *)
(* step fails the server stays open and there is no store to close it.     *)
SetUp ==
    /\ setup < Len(SetupSteps) /\ ~setupFailed
    /\ \/ /\ setup' = setup + 1
          /\ server' = "open"
          /\ UNCHANGED setupFailed
       \/ setup' = 0 /\ setupFailed' = TRUE /\ UNCHANGED server
    /\ UNCHANGED <<batchVars, phases, taken, stored, uploadVars, listing, restarts, lost>>

(* Slip: a point that does not fit is dropped, and the batch stays.        *)
CollectKeepsBatch(p) ==
    IF batchSizeBytes + PointSize[p.span] > MaxBatchSizeBytes
    THEN /\ batchSizeBytes' = 0
         /\ lost' = lost \cup {p}
         /\ UNCHANGED batch
    ELSE /\ batch' = batch \cup {p}
         /\ batchSizeBytes' = batchSizeBytes + PointSize[p.span]
         /\ UNCHANGED lost

Overflows(p) == batchSizeBytes + PointSize[p.span] > MaxBatchSizeBytes

(* Collect: a point that does not fit takes the whole batch down with it   *)
(* (ErrQueueDropped).                                                      *)
Collect(p) ==
    IF Overflows(p)
    THEN /\ batch' = {} /\ batchSizeBytes' = 0
         /\ lost' = lost \cup batch \cup {p}
    ELSE /\ batch' = batch \cup {p}
         /\ batchSizeBytes' = batchSizeBytes + PointSize[p.span]
         /\ UNCHANGED lost

(* Collect of a span whose annotations an EventUnmarshaler refuses: it     *)
(* returns the error before the point is made.                             *)
Refuse(p) == lost' = lost \cup {p} /\ UNCHANGED batchVars

Buffered == batch \cup UNION Range(taken)
Seen     == Buffered \cup db \cup expired \cup lost

CollectRecorded(p) ==
    /\ Ready /\ p.by = App /\ p \notin Seen
    /\ Collect(p) \/ Refuse(p)
    /\ UNCHANGED <<setup, setupFailed, phases, taken, server, stored, uploadVars, listing,
                   restarts>>

-----------------------------------------------------------------------------
(* Slip: what is taken stays in the batch.                                 *)
TakeBatchCopy(w) ==
    /\ taken' = [taken EXCEPT ![w] = batch]
    /\ UNCHANGED batchVars

(* flush, up to its Write.                                                 *)
TakeBatch(w) ==
    /\ batch' = {} /\ batchSizeBytes' = 0
    /\ taken' = [taken EXCEPT ![w] = batch]

(* The goroutine of flusher makes the channel that Close closes.           *)
FlusherStarts ==
    /\ Ready /\ flusher = "new"
    /\ flusher' = "waiting"
    /\ UNCHANGED <<setup, setupFailed, batchVars, closer, panicked, taken, server, stored,
                   uploadVars, listing, restarts, lost>>

(* BatchFlushInterval has passed.  The select may take this case even when *)
(* the channel is closed already.                                          *)
TimerFlush ==
    /\ Ready /\ flusher = "waiting" /\ batch # {}
    /\ TakeBatch("flusher")
    /\ flusher' = "writing"
    /\ UNCHANGED <<setup, setupFailed, closer, panicked, server, stored, uploadVars, listing,
                   restarts, lost>>

FlusherStops ==
    /\ Ready /\ flusher = "waiting" /\ closer # "none"
    /\ flusher' = "stopped"
    /\ UNCHANGED <<setup, setupFailed, batchVars, closer, panicked, taken, server, stored,
                   uploadVars, listing, restarts, lost>>

(* Write returns.  A failed write, which is only logged, has written       *)
(* nothing, or everything when only the answer got lost; a server that is  *)
(* closed writes nothing.                                                  *)
WriteEnds(w) == \E S \in {{}, taken[w]} :
    /\ server = "closed" => S = {}
    /\ db' = db \cup S
    /\ lost' = lost \cup (taken[w] \ S)
    /\ taken' = [taken EXCEPT ![w] = {}]
    /\ UNCHANGED <<setup, setupFailed, batchVars, panicked, server, expired, uploadVars, listing,
                   restarts>>

FlusherWrites ==
    /\ Ready /\ flusher = "writing"
    /\ WriteEnds("flusher")
    /\ flusher' = "waiting"
    /\ UNCHANGED closer

-----------------------------------------------------------------------------
(* Close, which panics when the flusher has not started, and the second    *)
(* time.                                                                   *)
Close ==
    /\ Ready
    /\ IF flusher = "new" \/ closer # "none"
       THEN panicked' = TRUE /\ UNCHANGED closer
       ELSE closer' = "flushing" /\ UNCHANGED panicked
    /\ UNCHANGED <<setup, setupFailed, batchVars, flusher, taken, server, stored, uploadVars,
                   listing, restarts, lost>>

(* Slip: Close leaves the last batch to the flusher.                       *)
CloseFlushesNothing ==
    /\ Ready /\ closer = "flushing"
    /\ closer' = "closing"
    /\ UNCHANGED <<setup, setupFailed, batchVars, flusher, panicked, taken, server, stored,
                   uploadVars, listing, restarts, lost>>

CloseFlushes ==
    /\ Ready /\ closer = "flushing"
    /\ TakeBatch("closer")
    /\ closer' = IF batch = {} THEN "closing" ELSE "writing"
    /\ UNCHANGED <<setup, setupFailed, flusher, panicked, server, stored, uploadVars, listing,
                   restarts, lost>>

CloserWrites ==
    /\ Ready /\ closer = "writing"
    /\ WriteEnds("closer")
    /\ closer' = "closing"
    /\ UNCHANGED flusher

(* in.server.Close().  Collect goes on accepting points.                   *)
CloseServer ==
    /\ Ready /\ closer = "closing"
    /\ closer' = "done" /\ server' = "closed"
    /\ UNCHANGED <<setup, setupFailed, batchVars, flusher, panicked, taken, stored, uploadVars,
                   listing, restarts, lost>>

-----------------------------------------------------------------------------
IsRoot(p)  == Parent[p.span] = NoSpan
Rows(t)    == {p \in db : TraceOf[p.span] = t}
RootsOf(t) == {p \in Rows(t) : IsRoot(p)}

(* Slip: one pass too few.                                                 *)
addChildrenOnceLess(root, children) ==
    LET n == IF children = {} THEN 0 ELSE Cardinality(children) - 1
        linked[k \in 0..n] ==
            IF k = 0 THEN {root}
            ELSE linked[k - 1] \cup {c \in children :
                    \E p \in linked[k - 1] : p.span = Parent[c.span]}
    IN  [c \in children |-> IF c \in linked[n] THEN Parent[c.span] ELSE root.span]

(* addChildren makes as many passes as there are children; each hangs up   *)
(* those whose parent hangs in the tree already (in the worst order of the *)
(* rows no others).  The rest, orphans and all that is below them, go      *)
(* directly under the root.                                                *)
addChildren(root, children) ==
    LET n == Cardinality(children)
        linked[k \in 0..n] ==
            IF k = 0 THEN {root}
            ELSE linked[k - 1] \cup {c \in children :
                    \E p \in linked[k - 1] : p.span = Parent[c.span]}
    IN  [c \in children |-> IF c \in linked[n] THEN Parent[c.span] ELSE root.span]

Answer(how, under) == [how |-> how, under |-> under]
NoRows == [p \in {} |-> NoSpan]

(* Trace.  A trace whose root row is missing is found, but comes back      *)
(* empty: its children have no root of their trace to go to.               *)
Trace(t) ==
    CASE server = "closed"            -> Answer("error", NoRows)
      [] server = "open" /\ Rows(t) = {} -> Answer("ErrTraceNotFound", NoRows)
      [] server = "open" /\ Rows(t) # {} ->
            IF Cardinality(RootsOf(t)) > 1 THEN Answer("error", NoRows)
            ELSE IF RootsOf(t) = {} THEN Answer("ok", NoRows)
            ELSE LET root == CHOOSE p \in RootsOf(t) : TRUE
                 IN  Answer("ok", addChildren(root, Rows(t) \ {root}))

(* Traces, its first query: of the traces asked for, or of one page of     *)
(* them, the root rows in the time span asked for, which may be any.  Two  *)
(* rows of one trace are an error.                                         *)
ListRoots ==
    /\ Ready /\ server = "open" /\ listing = {}
    /\ \E ids \in SUBSET Traces, rows \in SUBSET {p \in db : IsRoot(p)} :
         /\ IF ids = {} THEN Cardinality(rows) <= tracesPerPage
            ELSE \A p \in rows : TraceOf[p.span] \in ids
         /\ \A p, q \in rows : p # q => TraceOf[p.span] # TraceOf[q.span]
         /\ listing' = rows
    /\ UNCHANGED <<setup, setupFailed, batchVars, phases, taken, server, stored, uploadVars,
                   restarts, lost>>

(* Slip: the root rows are among the children.                             *)
ChildrenAndRoots(rows) ==
    {p \in db : \E r \in rows : TraceOf[r.span] = TraceOf[p.span]}

ChildrenFor(rows) ==
    {p \in db : ~IsRoot(p) /\ \E r \in rows : TraceOf[r.span] = TraceOf[p.span]}

(* What it returns after the second query, for the children of all these   *)
(* traces, which finds what is in the database by then.  When there is no  *)
(* child at all the index of the first series panics.                      *)
Hung(root) == addChildren(root, {p \in ChildrenFor(listing) : TraceOf[p.span] = TraceOf[root.span]})

Listed ==
    CASE server = "closed" -> [how |-> "error", under |-> <<>>]
      [] server = "open" /\ ChildrenFor(listing) = {} -> [how |-> "panic", under |-> <<>>]
      [] server = "open" /\ ChildrenFor(listing) # {} ->
            [how |-> "ok", under |-> [root \in listing |-> Hung(root)]]

(* The HTTP server above recovers a panic: that ends the call too.         *)
ListChildren ==
    /\ Ready /\ listing # {}
    /\ listing' = {}
    /\ UNCHANGED <<setup, setupFailed, batchVars, phases, taken, server, stored, uploadVars,
                   restarts, lost>>

(* The server deletes what is older than the duration of DefaultRP, a      *)
(* shard at a time; points that are together in a shard may be any.        *)
Expire ==
    /\ server = "open" /\ db # {}
    /\ \E S \in SUBSET db : db' = db \ S /\ expired' = expired \cup S
    /\ UNCHANGED <<setup, setupFailed, batchVars, phases, taken, server, uploadVars, listing,
                   restarts, lost>>

-----------------------------------------------------------------------------
(* uploadTraces: any answer but ErrTraceNotFound, an error included, makes *)
(* it ignore the upload.                                                   *)
CheckUpload(u) ==
    /\ Ready /\ uploadAt[u] = "start"
    /\ uploadAt' = [uploadAt EXCEPT ![u] =
            IF Trace(TraceOf[UploadOf[u][1]]).how = "ErrTraceNotFound"
            THEN "collecting" ELSE "done"]
    /\ UNCHANGED <<setup, setupFailed, batchVars, phases, taken, server, stored, next, listing,
                   restarts, lost>>

(* collectTrace, one span: the first error ends it.                        *)
CollectUploaded(u) ==
    LET p == [span |-> UploadOf[u][next[u]], by |-> u]
        Go(ended) ==
            /\ next' = [next EXCEPT ![u] = IF ended THEN 1 ELSE @ + 1]
            /\ uploadAt' = [uploadAt EXCEPT ![u] = IF ended THEN "done" ELSE @]
    IN  /\ Ready /\ uploadAt[u] = "collecting"
        /\ \/ Collect(p) /\ Go(Overflows(p) \/ next[u] = Len(UploadOf[u]))
           \/ Refuse(p) /\ Go(TRUE)
        /\ UNCHANGED <<setup, setupFailed, phases, taken, server, stored, listing, restarts>>

(* The process dies, or is restarted after a failure or a panic.  A write  *)
(* under way may have got through.                                         *)
Restart ==
    /\ restarts < MaxRestarts
    /\ restarts' = restarts + 1
    /\ \E W \in SUBSET Writers :
         LET S == UNION {taken[w] : w \in W}
         IN  /\ db' = db \cup S
             /\ lost' = lost \cup batch \cup ((UNION Range(taken)) \ S)
    /\ UNCHANGED expired
    /\ setup' = 0 /\ setupFailed' = FALSE
    /\ batch' = {} /\ batchSizeBytes' = 0
    /\ flusher' = "new" /\ closer' = "none" /\ panicked' = FALSE
    /\ taken' = [w \in Writers |-> {}]
    /\ server' = "closed" /\ listing' = {}
    /\ uploadAt' = [u \in Uploads |->
            IF uploadAt[u] = "collecting" THEN "done" ELSE uploadAt[u]]
    /\ next' = [u \in Uploads |-> 1]

Next ==
    \/ SetUp
    \/ \E p \in Point : CollectRecorded(p)
    \/ FlusherStarts \/ TimerFlush \/ FlusherWrites \/ FlusherStops
    \/ Close \/ CloseFlushes \/ CloserWrites \/ CloseServer
    \/ ListRoots \/ ListChildren \/ Expire
    \/ \E u \in Uploads : CheckUpload(u) \/ CollectUploaded(u)
    \/ Restart

Spec == Init /\ [][Next]_vars

(* The goroutine of the flusher and the caller of Close go on running.     *)
Fairness ==
    /\ WF_vars(FlusherStarts) /\ WF_vars(TimerFlush)
    /\ WF_vars(FlusherWrites)
    /\ WF_vars(CloseFlushes) /\ WF_vars(CloserWrites)

FairSpec == Spec /\ Fairness

-----------------------------------------------------------------------------
TypeOK ==
    /\ setup \in 0..Len(SetupSteps) /\ setupFailed \in BOOLEAN
    /\ batch \subseteq Point /\ batchSizeBytes \in Nat
    /\ flusher \in {"new", "waiting", "writing", "stopped"}
    /\ closer \in {"none", "flushing", "writing", "closing", "done"}
    /\ panicked \in BOOLEAN
    /\ taken \in [Writers -> SUBSET Point]
    /\ server \in {"open", "closed"}
    /\ db \subseteq Point /\ expired \subseteq Point /\ lost \subseteq Point
    /\ listing \subseteq db \cup expired
    /\ uploadAt \in [Uploads -> {"start", "collecting", "done"}]
    /\ next \in [Uploads -> Nat]
    /\ restarts \in 0..MaxRestarts

(* The store is a collector that passes each point on at most once: one it *)
(* has is in the batch or in one write, then in the database or lost,      *)
(* whatever flusher, Close, uploads and restarts do to each other          *)
(* (Collect, flush, Close).                                                *)
AMO == INSTANCE AtMostOnce WITH
    Items    <- Point,
    buffered <- Buffered,
    passed   <- db \cup expired,
    dropped  <- lost

ImplementsAtMostOnce == AMO!Spec

(* The batch is as large as batchSizeBytes says and no larger than the     *)
(* configuration allows, whoever takes it away (Collect, flush).           *)
BatchAccounted ==
    /\ batchSizeBytes = MapThenSumSet(LAMBDA p : PointSize[p.span], batch)
    /\ batchSizeBytes <= MaxBatchSizeBytes

(* Rows lead from p up to the root without a gap: p is in every set of     *)
(* spans that has the root and, with a span, its children.                 *)
Unbroken(p, rows) ==
    \A S \in SUBSET {q.span : q \in rows} :
        (\A q \in rows : IsRoot(q) \/ Parent[q.span] \in S => q.span \in S) => p.span \in S

(* A trace with one root row is shown whole, whatever got lost, came late  *)
(* or came twice: each other row is in the tree, under its own parent if   *)
(* there are rows from there up to the root, and else under the root       *)
(* (Trace, addChildren).                                                   *)
TraceShownWhole ==
    \A t \in Traces : server = "open" /\ Cardinality(RootsOf(t)) = 1 =>
        LET root == CHOOSE p \in RootsOf(t) : TRUE
            got  == Trace(t)
        IN  /\ got.how = "ok" /\ DOMAIN got.under = Rows(t) \ {root}
            /\ \A p \in DOMAIN got.under :
                got.under[p] = IF Unbroken(p, Rows(t)) THEN Parent[p.span] ELSE root.span

(* A listing whose two queries have writes and deletions between them      *)
(* shows each trace as Trace would at its end, unless its root row has     *)
(* gone since the first, or a second one has come in, which makes Trace    *)
(* fail; and it panics only when Trace shows no more than the root of any  *)
(* of them (Traces, Trace).                                                *)
ListedAsRead ==
    server = "open" /\ listing # {} =>
        /\ Listed.how \in {"ok", "panic"}
        /\ \A root \in listing : RootsOf(TraceOf[root.span]) = {root} =>
              Trace(TraceOf[root.span]) =
                  Answer("ok", IF Listed.how = "ok" THEN Listed.under[root] ELSE NoRows)

(* What is collected before Close is called leaves the batch: the flusher  *)
(* takes it in time, or Close does (flusher, Close).                       *)
FlushedEventually ==
    \A p \in Point : (p \in batch /\ closer = "none") ~> (p \notin batch \/ panicked)

(* "ignoring any previously existing ones (i.e. ones that would collide /  *)
(* be merged together)" (traceapp/app.go:314): uploads do not make a       *)
(* second root of a trace (uploadTraces).                                  *)
UploadsDoNotCollide == \A t \in Traces : Cardinality(RootsOf(t)) <= 1
=============================================================================
