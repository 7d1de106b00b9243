# Appdash in TLA+

A verification project for appdash (Go), the application tracing system in
this repository. The modules model the code under `src/`; TLC checks them on
small instances (`MC*.cfg`), and TLAPS proves what matters most for every
value of the constants (`*Proofs.tla`).

To check a module: `tlc -config MCMemoryStore.cfg MCMemoryStore`; to check
its proofs: `tlapm MemoryStoreProofs.tla`.

## 1. Inventory of the system

A client records **spans** (trace ID, span ID, parent ID) with **annotations**.
They travel

    Recorder -> Collector (ChunkedCollector -> RemoteCollector)
             ~~ TCP ~~> CollectorServer -> RecentStore -> MemoryStore -> file
                                        \-> LimitStore, multiStore, InfluxDBStore
    traceapp (web UI) <- Store.Trace, Queryer.Traces

| component | source | state | operations | hard part | correct when |
|---|---|---|---|---|---|
| MemoryStore | `store.go:78-323` | `trace` (trace -> tree), `span` (trace -> span -> node), nodes with `Sub` | Collect, Trace, Traces, Delete | spans arrive in any order, temporary roots | every collected span is once in the tree, in the place its parent dictates |
| persistence | `store.go:320-378`, `cmd/appdash/serve_cmd.go:58-97` | file, temporary file | Write, ReadFrom, PersistEvery, start | death of the process, gob drops shared pointers | a start shows the last save; restored traces keep growing properly |
| RecentStore | `store.go:388-459` | `created`, `lastEvicted` | Collect, evictBefore, an eviction goroutine each | unlock before the underlying Collect, delayed goroutines, clock | only old traces go, and old traces do go |
| LimitStore | `store.go:461-512` | `ring`, `nextInsertIdx`, `traces` | Collect | failing Delete, wrap-around | never above Max, oldest first, nothing leaks |
| ChunkedCollector | `collector.go:48-273` | queue by span, its size, `lastErr`, goroutine | Collect, Flush, start, Stop | flush without the lock, timeouts, Stop | at most once, no silent loss, bounded queue |
| RemoteCollector, CollectorServer | `collector.go:275-484` | one connection, one goroutine per client | Collect with a retry, handleConn | broken connections, half packets | what is delivered was collected, in order |
| Recorder | `recorder.go` | annotations, `finished`, errors | Event, Annotation, Finish, Errors, Child | events after Finish, a Collect that fails, the log event about it | a loss is told |
| multiStore, multiQueryer | `multi.go` | none of their own | Collect, Trace, Traces | one store fails, the stores drift apart | nothing that a store has is hidden |
| httptrace | `httptrace/` | pending requests; one child recorder per call | RoundTrip, CancelRequest, Middleware, headers | requests that fail, come late, twice, or with bad headers | both ends describe one call, each handled request is recorded |
| opentracing | `opentracing/recorder.go` | whether it has logged an error | RecordSpan | failing collector | a loss is told |
| InfluxDBStore | `influxdb_store.go` | batch of points with its size, flusher goroutine, the InfluxDB server | set-up, Collect, flush, Close, Trace, Traces | batch lost on overflow and on a failed write, Close against flusher, restarts, two queries for one listing | at most once, nothing stays in the batch, a trace is put together from what came through |
| upload | `traceapp/app.go:295-329`, `traceapp/trace.go` | none | uploadTraces, collectTrace | asks, then collects | a trace is uploaded once |
| events | `event.go`, `reflect.go`, `span.go:140-264` | registered types | MarshalEvent, UnmarshalEvents | nested values, keys that start with one another | unmarshal undoes marshal |
| rows of InfluxDB | `influxdb_store.go:97-122, 621-704, 829-900` | - | point of a span, span of a row | a row has the columns of all others | a span keeps its events and gets no others |
| views of the web UI | `traceapp/prof.go`, `aggregate.go`, `vis.go`, `trace.go` | - | profile, aggregate, timeline, sub-trace | missing times and names, rounding | the views agree with the tree and with each other |
| dashboard | `influxdb_store.go:240-330, 458-516`, `traceapp/dashboard.go` | samples per minute and name | continuous queries, Aggregate | two queries over different windows | counts and slowest traces are those of the name shown |
| IDs and span IDs | `id.go`, `span.go:13-135` | - | generate, format, parse | two or three parts | parts survive the header |
| serve, send | `cmd/appdash` | - | flags, set-up | - | - |
| memstats, sqltrace, Python client, examples | files and directories of these names | - | - | - | - |

`PROJECT.json` lists for each of them what is modelled and every hazard at its
line.

## 2. Modules and the code they model

| module | models | extended or instantiated by |
|---|---|---|
| `TraceStore` | abstract: what a `DeleteStore` promises | `MemoryStore` (refinement) |
| `MemoryStore` | `store.go:78-323` | `PersistentStore`, `MemoryStoreProofs` |
| `PersistentStore` | `store.go:320-378`, `serve_cmd.go:58-97`, over `MemoryStore` | `MemoryStoreProofs` |
| `DeleteStore` | `store.go:380-386`, the store embedded by the next two | `LimitStore`, `RecentStore` |
| `TraceWindow` | abstract: what a `LimitStore` promises | `LimitStore` (refinement) |
| `LimitStore` | `store.go:461-512` | `DeleteStoreProofs` |
| `RecentStore` | `store.go:388-459` | `DeleteStoreProofs` |
| `AtMostOnce` | abstract: what a `Collector` that buffers promises | `ChunkedCollector`, `RemoteCollector`, `InfluxDBStore` (refinements) |
| `ChunkedCollector` | `collector.go:48-273` | `ChunkedCollectorProofs` |
| `RemoteCollector` | `collector.go:275-475`, client and server | `RemoteCollectorProofs` |
| `Tracing` | `recorder.go`, `multi.go`, `httptrace`, `opentracing/recorder.go`, composed | `TracingProofs` |
| `InfluxDBStore` | `influxdb_store.go:53-238, 332-619, 706-790, 902-935`, with the uploads of `traceapp` | `InfluxDBStoreProofs` |
| `Arranging` | no code of its own: sorting a set, filtering a sequence | `EventCodec`, `TraceViews`, `Dashboard` |
| `EventCodec` | `event.go`, `reflect.go` | `InfluxRows` |
| `InfluxRows` | `influxdb_store.go:97-122, 621-704, 726-738, 829-900` | `Reading` |
| `TraceViews` | `traceapp/prof.go`, `aggregate.go`, `vis.go`, `trace.go` | `Reading` |
| `Dashboard` | `influxdb_store.go:84-122, 240-330, 479-516` | `Reading` |
| `Reading` | the handlers that call the four above | `MCReading`, `ReadingProofs` |
| `InductionLemmas` | no code: what the proofs need of iterates and sums | `MemoryStoreProofs`, `DeleteStoreProofs`, `ChunkedCollectorProofs`, `InfluxDBStoreProofs`, `ReadingProofs` |

`MC<module>.tla` gives constants, symmetry sets and state constraints to TLC.
Definitions marked `Slip:` are not part of a model. Each is a plausible mistake
in the definition that follows it; exchanging the two must break a property,
which shows that the property depends on the code.

**MemoryStore.** Every method locks `ms.Mutex` to its end, so each is one
action: `CollectKnown` and `CollectNew` are `collectNoLock` (append to a span
that exists; or allocate, then the three cases "no tree yet", "the span becomes
the root", "the span is inserted"), `Delete` is `Delete`. `Trace` and `Traces`
change nothing; what they show is the operator `Shown`. A `*Trace` is an
address (`Addr`), because which pointers are shared is what the persistence
model is about; the heap is the two functions `sub` and `anns`. The helpers
`ReattachChildren`, `Insert`, `MoveTempChildren` are the Go functions of these
names as functions on that heap. A `Sub` list is kept as a set: no property
speaks of its order, and whether a list holds a node twice is kept beside it
(`again` of `PersistentStore`, below). The lazily made maps are taken as made.
The parent a span names is fixed for a behaviour (`parent`, any tree over the
span IDs), since a span ID is created once with its parent by `NewSpanID`.

**PersistentStore.** `PersistEvery` is two actions, `PersistWrite` (temporary
file, under the lock) and `PersistRename`; `Crash` may come anywhere, and
also stands for the `log.Fatal` that `serve_cmd.go:85` calls when
`PersistEvery` returns an error. `Start` is `ReadFrom`. `Encode` and `Decode`
are what gob does and not the identity: it follows pointers and writes a
subtree per map entry, so the decoded span map points to copies of the nodes of
the tree. The copies have the addresses with `copy = "tree"` and `copy = s`.
The history variable `again` marks the nodes that an `append` put into a list
that held them already (`AppendedAgain` says when each of the helpers does), and
those of which decoding makes a list with two copies of one span. `ShownOnce`
asks of the nodes a reader of `Trace` comes to that none is marked, none is in
the lists of two parents or below itself, and none is of the span of another;
so a walk over the tree meets each span once.

**RecentStore.** `Enter` is `Collect` up to the unlock, with `evictBefore`
(which hands the old traces to a new goroutine); `Store` is the call of the
underlying `Collect` after the unlock; `Evict` is that goroutine. Time is kept
as ages that saturate at `Horizon`: the code compares differences of times only.
The readings of `time.Now` in one `Collect` are one instant. `Delete`, promoted
from the embedded store, touches none of the bookkeeping.

**LimitStore.** `Collect` holds `ls.mu` to its end and is one action per path:
known trace, free slot, eviction, failed eviction. The underlying store is the
set of traces it holds data of, and its `Collect` and the `Delete` of an
eviction may fail. `Max = 0`, which turns the store off, enables none of them.

**ChunkedCollector.** `Collect` is `CollectQueues` or `CollectDrops`. `Flush` is
`TakeQueue` under the lock, then one `Send` per span without it, then the
return; the background goroutine is `TimerFlush`, `TimerReturn`, `Exit`. What is
collected are numbered items, so the annotations queued for a span are a set
whose order is the order of numbers. `Stop` on a nil or closed channel is
`StopPanics`, which ends the behaviour. The underlying `Collect` may refuse.

**RemoteCollector.** `collectAndRetry` holds `rc.mu`, but the network moves
while it runs, so it is several actions: `CollectWrites` or
`CollectMustConnect`, then `ConnectDials` or `ConnectFails`, then `Resend`. On
the server, `Accept` is one turn of `Start`; `Read`, `ReadTooLarge`, `ReadEnd`,
`ServerCollects` and `ServerRefuses` are `handleConn`. TCP is external: bytes
arrive as a prefix of what was written, a write to a dead connection may
succeed, a failed write did not send its whole packet and is followed by none
that succeeds (the code sets no deadlines, after which that would not hold).
The half packet that a failed write leaves is `torn[c]`, behind the packets in
transit; `ReadEnd` is where the reader comes to it. When the network loses a
connection it tells the server or it does not (`Loses`); in the second case the
connection is `silent` and nothing ever wakes its handler, since `handleConn`
reads without a deadline. Several clients differ from several connections of one client in nothing the
server could see.

**Tracing** composes what records spans. A program has a `Recorder` with one
span and makes HTTP requests below it; each call of `Transport.RoundTrip` and
each call of `Middleware` makes a recorder of its own; an OpenTracing span comes
in beside them; all collect into one `MultiStore`, whose `N` stores may fail at
any time. A `Collect` and, when it fails, the `Collect` of the log event about
it (`Recorder.error`, `failsafeAnnotation`) are one step, `CollectAndLog`, since
nothing but the stores sees what is between them. `RoundTrip` is `Send`, the
underlying `RoundTrip` (`Answered` or `SendFails`) and `RoundTripEnds`;
`Middleware` is `Serve` up to the handler, `HandlerEnds` and `Record`. The
network may deliver a request late, or again. IDs are kept by the call that
generates them, so that two differ unless the code copies one. Headers are
sequences of IDs: `String`, `Parsed` and `ParseSpanID` take them apart as the
code does, `"?"` is what is no ID.

**InfluxDBStore.** `Collect` and the first half of `flush` hold `batchMu` and
are one action each (`CollectRecorded`, `CollectUploaded`, `TakeBatch`); the
write is a second one (`FlusherWrites`, `CloserWrites`) and succeeds, fails, or
succeeds with the answer lost. `Close` is five steps beside the flusher, and
panics as the code does when it comes too early or twice. `Collect` may also
refuse a span whose annotations do not decode (`Refuse`). `Traces` is two
queries, `ListRoots` and `ListChildren`, between which points are written and
the retention policy of `NewInfluxDBConfig` deletes any (`Expire`); what it
returns is `Listed`, a panic when the second query finds no row. The InfluxDB
server runs in the same process: `Restart` loses the
batch and what is being set up, and keeps the database. `addChildren` makes
passes over the rows as the code does, in the order that helps it least. An upload
checks (`CheckUpload`) and then collects span by span; `UploadOf` is the
order `collectTrace` visits them.

**Reading** has one behaviour per input: an input is chosen, one request is
made, and the properties compare the answer with what it should be. It is how
four modules of pure functions are checked, and proved, against reference
definitions. What the code keeps as a tree is a function here, so that the
recursive Go functions become recursive functions that can be reasoned about.

- `EventCodec`: a key such as `A.B.0` is the sequence of its names, a struct
  type the function from the keys of its fields to their kinds, a value the
  function from the fields that are no structs to what they hold.
  `Flatten` is `flattenValue`. One step of `Unflatten` is one call of
  `unflattenValue` (`Visit`): calls go through the fields in the order of the
  keys and each consumes the sorted pairs from where the last one stopped.
  That field order is the code's, which sorts the fields of each struct by
  name and visits a struct before what is in it. Strings stand for the texts
  of scalars; a number, alone or in a list or map, is one of `Numbers`, and
  anything else where it ought to be is the error of `parseValue`, which ends
  the event (`Failed`). `Indices` are the names that are list indices: below
  ten their order is that of the bytes.
- `InfluxRows`: the table with a column for each key of any span, and what a
  row of it reads as.
- `TraceViews`: profile, aggregate, timeline, `FindSpan`, `findTraceTimes`. A
  node is named by its place, the sequence of the indexes in `Sub` that lead to
  it.
- `Dashboard`: the samples of the continuous queries and `Aggregate`. A point has
  the minute of its `Collect`, but is written with a later batch; each of the
  two queries runs once over a minute, when it has ended, and counts the points
  it has seen (`Seen`), which is any set of them but for one thing: of a minute
  the query that ran later has seen what the other has.

`SpansAssumption`, `TreesAssumption` and `SamplesAssumption` say what the
inputs may be: any finite sets of spans of events of the types, any finite
trees whose span IDs differ (the store's invariant), any finite sets of points
of the dashboard, seen or missed by the continuous queries.

Logging, debug output and error texts are left out everywhere.

## 3. What TLC checks

| run | instance | states | question |
|---|---|---|---|
| `memory` | 2 traces, 4 spans, every tree and order of arrival | 2,388 (up to symmetry) | is the tree right after any sequence of collects and deletes, and is the store the abstract one? |
| `persist` | 1 trace, 3 spans, 3 starts | 212,495 | what does a start show, and what do collects do to restored traces? |
| `limit` | 5 IDs, `Max = 3` | 2,971 | capacity, leaks and order of eviction when the underlying store fails |
| `recent` | 2 traces, 2 callers, 2 eviction goroutines | 27,872 | only recent entries stay, and recorded traces do get evicted |
| `chunked` | 2 spans, 3 collects, a manual flush beside the background one | 163,084 | is an item ever duplicated, lost silently or miscounted? |
| `chunked_live` | the same, background goroutine alone | 47,650 | order per span, progress, end after `Stop` |
| `remote` | 4 packets, 2 connections | 91,478 | duplicates and gaps under retry and half packets, arrival, ends of handlers of connections given up or lost |
| `reading` | events of 3 schemas, all trees of up to 3 spans, 3 points of 2 names in 2 minutes | 100,382 | do decoding, tables, views and dashboard give back what is there? |
| `influx` | a trace of 4 spans and one of 1, an upload, a batch of 2, a restart | 133,885 | duplicates, size, progress and what is shown, with lost batches, late rows and deletions |
| `tracing` | 2 stores, a request that may fail, arrive late and twice, an untraced one, an OpenTracing span, 2 failures | 126,560 | is a loss told, do both ends agree, is what is handled recorded? |
| `influx_upload` | two uploads of one trace | violation | does an upload never collide with another? |
| `tracing_badheader` | one request with a header that is no span ID | violation | does the request go on? |

**Why the bounds are enough.** The operations on the tree look at a span, its
parent, the root and the children of one of them; four spans give a root, a
temporary root above a chain of two and a stray child, and so every
combination of the three helpers. Traces share no node, so the second trace of
`memory` (`SecondIsSmall`) has at most one span at a time: enough for a helper
that reached into another trace to be seen. One annotation per span is enough to
tell "lost", "kept" and "twice" apart. `persist` starts three times, because
the second start reads a file written by a store that was itself read back;
only the span `Marked` is given annotations (`OnlyMarkedAnnotated`), which is
sound since no operation looks at the content of an annotation. `limit` fills
its ring and goes around it. `recent` needs `Horizon > 2 * MinEvictAge` (an
assumption TLC checks) to tell every age apart that a comparison does, two
callers to let a `Collect` hang between its halves while another runs, and two
goroutines so that a delayed one overlaps the next. Three items with two sizes
against a limit of three reach a queue that is full, one that overflows and one
that overflows when empty of the first span. Four packets on two connections leave one connection draining while
the other is in use or breaks in the middle of a retry; two packets on one
connection are what a gap needs, before and after a reconnect. A third
connection would meet the first only through the client, which forgets it.
`reading`: the schemas have fields of the same name at different depths, names
that start with other names, lists, maps and a nested struct, and annotations
of no event sorted before, between and after them; the third has a map and a
list of numbers, a map before and a leaf after them, so that a null in either
comes before and after what it must and must not disturb. A span has one or two
events, a table one or two spans. Trees are chains and forks of three spans
with absent, reversed, zero and two timespans; aggregates take two traces. The
dashboard's points meet in a name, in a minute, in both and in neither, and
two of the three may have been missed by either query or by both.
`influx`: `addChildren` needs a chain of three below the root for a pass too
few to show, and an orphan with a child; a batch of two overflows while the
upload is under way; one restart separates "written" from "lost". The second
trace has a root and no children. Any rows may be deleted, so that orphans come
in every shape; two roots of one trace come in `influx_upload`. `tracing`: two stores are what "the first
fails, or the second" needs; two failures (`MaxFailures`) let a `Collect` and
its log event fail both; two handlers (`MaxHandlers`) let a request arrive
twice, or once beside an untraced one; `MaxBoth` bounds failures and handlers
together, so that a failure and a handler meet, and two of either do.

**Deadlock** is checked in `memory`, `limit` and the runs of `RecentStore`.
Elsewhere the system may stop: a server that is down may stay down, a panic
ends the program, set-up may fail, a request of `reading` is answered, and
clients run out of bounded calls.

**Fairness** is assumed only where the code schedules the step itself.
`RecentStore`: goroutines that can run do run and time passes; no client is
obliged to call, so `RecordedGetsEvicted` is conditional on spans arriving (of
any trace). `ChunkedCollector`: the timer fires, sends go on and return (the
underlying `Collect` is taken to return; a hanging one hangs the goroutine in
the code as well); `Exit` is strongly fair because Go's `select` chooses at
random among the channels that are ready, and the closed channel is ready each
time. `RemoteCollector`: the accept loop and each handler go on and the
collector behind them returns; nothing is assumed of client or network. So
`Arrives` speaks of connections that stay up, and `HandlersEnd` excepts those
that are lost without a word: a handler goes on only when there is something
to read, be it the end (`AtEnd`), and fairness does not promise that. `InfluxDBStore`: the flusher's
goroutine starts, its ticker fires, a write returns, and a `Close` that was
called goes on; nobody has to call it, nor is a restart ever promised.
`Tracing`: a handler returns or panics and `net/http` runs its goroutine to
the end; nothing is assumed of clients.

## 4. Where code and documentation part

Two are runs; `PROJECT.json` quotes the sentences.

1. *Uploads collide* (`influx_upload`, `traceapp/app.go:316`). `uploadTraces`
   promises to ignore traces that exist already, and asks the store for them;
   but an `InfluxDBStore` shows a point only after the next flush. Two uploads
   of a trace within `BatchFlushInterval` both get in, and `Trace` fails from
   then on, with "unexpected multiple root spans".
2. *A bad header ends in a panic* (`tracing_badheader`,
   `httptrace/server.go:85`). The `Middleware` warns of the header,
   "Continuing with request handling.", and dereferences the nil span ID after
   the handler (before it, with a `SetContextSpan`).

Two more are panics that an invariant states the exact condition of, so that
the passing runs meet them:

3. *A listing panics* (`influxdb_store.go:415`, `ListedAsRead`). `Traces` takes
   the first series of its second query without asking whether there is one.
   When none of the traces it lists has a row of a child, because there are
   none, or not yet, or no longer, the index panics (the HTTP server recovers).
4. *The dashboard panics* (`influxdb_store.go:314`, `DashboardSound`).
   `Aggregate` takes its averages from a window and the slowest traces from all
   times, pairs them by their place and panics when the names differ, which
   "never happens, just for sanity". A name that is sampled only outside the
   window and sorts before another is enough.

Seen while modelling and not given a run:

*Stores.* After a restart, collects of restored spans are not shown
(`store.go:345`): gob duplicates shared nodes and a later `Collect` appends to
the copy; `persist` shows what still holds. `RecentStore` forgets a trace that
arrives just when it is due (`store.go:425`), and its eviction goroutine may be
late and delete a trace that was recorded anew (`store.go:451`). `LimitStore`
takes trace ID 0 for a free slot (`store.go:497`).

*Collectors.* Data is sent after `Stop` (`collector.go:271`), by a flush
under way, a timer that won the `select` or a caller of `Flush`. A timeout
drops the batch that is being sent, not the pending queue (`collector.go:226`).
`Stop` before the first `Collect` closes a nil channel, a second `Stop` a
closed one. A nil error of `RemoteCollector.Collect` means that the packet was
written, not that it arrived. The handler of a connection that is lost in
silence waits forever (`collector.go:455`).

*Recording.* What is recorded after `Finish` is lost without an error. Nobody
reads the errors of the child recorders of `httptrace`. `responseInfoRecorder`
records the last status a handler writes, where the client sees the first
(`EventsAgree` excepts handlers that write several).

*InfluxDBStore.* A step of `init` that fails leaves the server running
and no store to close it. `Close` panics if the goroutine of `flusher` has not
run yet, and the second time. Descendants of an orphan are hung under the root
one by one. A trace whose root row is missing comes back empty and without an
error. `uploadTraces` takes any error of `Trace` for "exists
already" and ignores the upload. A `Collect` repeated after an error in a span
that has been written makes a second root. A point that is written after the
continuous queries have run over its minute is in no sample, for good
(`influxdb_store.go:129` against `:500`). The check "must be admin" of
`createAdminUserIfNotExists` is never reached, since the earlier branch returns.

*Events.* A list or a nested struct that writes no annotation makes the decoder
skip the rest of the span (`Readable` excepts such spans); an annotation of no
event that is keyed like an entry of a list gets in its way as well, and is not
among the inputs. A null of InfluxDB reads as an empty string; in a map or list
of numbers (`map[string]int`, `[]int`), which gets one when another span of the
answer has more keys, it does not parse, and what comes after it in the event is
lost without an error (`reflect.go:260, 302`; `NullEndsEvent`). Floats and durations lose precision in their text; the
formatting of leaves is not modelled.

## 5. What is proved

The proof modules show, for every value of the constants that the named
assumptions allow, by `Init => Inv`, `Inv /\ [Next]_vars => Inv'` and a temporal
step each:

| module | theorems | inductive invariant |
|---|---|---|
| `MemoryStoreProofs` | `TypeCorrect`, `SpansAtHome`, `RootOnTop`, `SettledStay`, `ImplementsLog` | `Inv`: `TypeOK`, `TreesWellFormed`, `OwnNodes`, `Shape`, `RealRootOnTop` |
| the same, of `PersistentStore` | `PersistTypeCorrect`, `StartShowsTheLastSave`, `EachShownOnce`, `WholeStaysShown`, `FreshAreComplete` | `PersistInv`: `StoreInv`, `FreshInv`, `RestoredInv`, `FileInv`, `TempInv` |
| `DeleteStoreProofs` (LimitStore) | `LimitTypeCorrect`, `NeverOverCapacity`, `NeverLeaks`, `RingAndSetAgree`, `ForgetsLate`, `EvictsOldestFirst` | `TypeOK`, `NothingLeaks`, `RingMatchesSet`, `Filling`; `WindowInv` |
| `DeleteStoreProofs` (RecentStore) | `RecentTypeCorrect`, `AgesBounded`, `RecentOnly` | `RTypeOK`, `EntriesAgeWithEviction` |
| `ChunkedCollectorProofs` | `TypeCorrect`, `SentAtMostOnce`, `AllAccountedFor`, `NoSilentLoss`, `DeliversAtMostOnce`, `QueueSizeIsKept`, `SentInOrder` | `TypeOK`, `OnePlace`, `NothingVanishes`, `LossIsReported`, `IdleIsClean`; `SizeInv`; `OrderInv` |
| `RemoteCollectorProofs` | `TypeCorrect`, `AtMostOneOpen`, `NeverAGap`, `DeliversAtMostOnce` | `Typed`, `OneFate`, `Ordered` |
| `TracingProofs` | `TypeCorrect`, `FirstFoundIsWhole`, `LossTold`, `CallsAgree` | `Inv` (`Nested`), `LossInv`; `TypeOK`; `AgreeInv` |
| `InfluxDBStoreProofs` | `TypeCorrect`, `DeliversAtMostOnce`, `ListsAsTrace`, `BatchSizeIsKept`, `ShowsTracesWhole` | `TypeOK`, `Place`, `OnePlace`, `Idle`, `StillToCome`; `ListInv`; `BatchInv` |
| `ReadingProofs` | `DecodingUndoesEncoding`, `RowsKeepEvents`, `ProfileIsSum`, `AggregateLosesNothing`, `TimelineIsProfile`, `DashboardIsSound` | `InputOK`, for each property |

`InductionLemmas` has lemmas only. `AtMostOneOpen` (the client closes each
connection it gives up) is proved and not a property of a run.

*Assumptions.* The constants satisfy the named assumptions of the modules,
which TLC evaluates on each instance. In `MemoryStore` the span IDs are
finitely many (they are 64-bit numbers) and none of them is the mark of a
decoded tree. All theorems on LimitStore but `LimitTypeCorrect`
assume that 0 is no trace ID (section 4 says what happens otherwise). `CallsAgree` assumes that the program records no HTTP event by
hand: one put into the span of a request would disagree with nothing but itself.
In `Reading` the assumptions are on the inputs: `TypesAssumption` says that the
keys of a type are those of a tree of structs and that no field has the name of
a registered schema, `NamesAssumption` that a longer name sorts after its
prefix, `NumbersAssumption` that "0" parses as a number (and, for the provers,
that strings are strings), `MsAssumption` that a millisecond is not nothing;
the assumptions on spans, trees and samples are in section 2.
`DecodingUndoesEncoding` and `RowsKeepEvents` speak of spans that are
`Readable` and `ReadableRow`; section 4 shows what becomes of others, and what
the run `reading` adds is that its inputs contain spans of either sort.
`RowsReadBack` excepts spans with a null among the numbers of an event, of which
`NullEndsEvent` says what is left; that one is only model-checked.

*Induction.* Several definitions are built up step by step: the nodes below
another one (`Below`), the passes of `addChildren`, sums, the window of a ring.
`InductionLemmas` proves from the least-number principle (`LeastNumber`) that
such iterates exist (`IterateExists`), that a growing set within a finite
one of `n` elements stops growing within `n` steps (`Saturates`), and that a
sum over a finite set gains the weight of what is put in and loses that of what
is taken out, whichever element `CHOOSE` begins with (`TotalTakeOut`).
`ReadingProofs` goes by the same means: `NumbersUpTo` for the steps along a
sequence, `TreeInduction` and `TreeRecursion` for functions that recurse over
the places of a tree, which a finite set of sequences closed under `Front` is.

*MemoryStore.* `EachSpanAtHome` is not inductive: the helpers could, for all it
says, be given nodes of other traces, or a root whose list mentions itself.
`Shape` states where each child list stands in terms of the span map;
`OwnNodes` says that a node found through the span map carries that trace and
span (what makes two entries different addresses); `TreesWellFormed` that
parents are spans of the tree, nobody's own, and lead up to `Zero` from every
span. Each helper has a lemma saying what it does to such a heap; the proof of
`CollectNew` joins them per case. `SettledStay` is an action property that
follows from the invariant in the first state and the same lemmas.

`ImplementsLog` is the refinement of `TraceStore`. `BelowIsTree` is its core:
the passes that `Below` makes reach a node exactly if it is in every set closed
under `Sub` that has the root. By `Shape`, a collected span that no path led to
would have a parent that no path led to either, and so on without end
(`AncestorWithin`). So a reader sees exactly the span map (`ShownIsCollected`),
and each action changes that as the abstract one does.

*PersistentStore.* After a start `Shape` no longer holds: the tree and the span
map point to different copies, later Collects append to the one and are not
seen in the other, and new spans may be hung under either. `InTree(t, R)` says
what is left. `R` are the spans whose copy in the tree is not the one in the
map; the nodes of the trace are the copies in the tree for `R` and the mapped
nodes for the others (`Pool`). No link leads out of this pool, each goes to a
child, or from the root to a span whose parent is missing, and a span that is not
in the map has a blank node (`Consistent`). A pool has one node per span, a span hangs
under its parent or the root only, and no node of it is marked as listed twice
(`Once`), hence `EachShownOnce`. Such a state can be saved and read again: `DecodedTree` shows
that decoding gives a tree of the same spans and annotations, whatever the pool
(`FileInv` and `TempInv` keep that the files hold such states and what they
show). `RestoredInv` keeps that the restored spans hang together, for
`WholeStaysShown`; `FreshInv` is `Inv` for the traces of which the file held
nothing, whose theorems therefore still hold.

*LimitStore.* `Filling` says that the free slots are those from
`nextInsertIdx` on until the ring is full for the first time. It is what makes
"the slot at the index is free" imply "no slot is skipped". Capacity then
follows from counting: the stored traces are among the IDs of `Max` slots.
`EvictsOldestFirst` needs the shape of the window: read around from
`nextInsertIdx`, the ring holds slots that count for nothing (free or left by a
failed eviction) and then only traces of the set (`WindowInv`). The window is
then a piece of the ring, and inserting drops the front of it and appends.

*RecentStore.* An entry is at most `MinEvictAge` older than the last eviction;
a `Collect` evicts once that is longer ago than `MinEvictAge`, so what it
leaves is at most twice as old.

*ChunkedCollector.* An idle flusher has an empty batch (`IdleIsClean`), hence a
new batch cannot overlap another one. `DeliversAtMostOnce` is the refinement:
each step accepts, rejects, passes on or drops items of the queue and the
batches taken together, or leaves them alone. `SizeInv` states the size as a
sum over the finite set that is queued; `OrderInv` orders three sets, what
is sent before the batch before the queue, of each span.

*RemoteCollector.* `NoGaps` alone says nothing of packets that are still to
come. `OneFate` places each packet: written to one connection only, and there
in transit, or collected, or dropped. `Ordered` says that a connection's
packets are collected in order up to the first that is dropped, so a packet is
dropped only together with all that follow it. The refinement then follows
because a step moves one packet in, or takes a set out that is nowhere else;
the packet of a call that failed was in no connection.

*Tracing.* A `Collect` goes through the stores in their order and ends at
the first that fails. So of any two stores the one behind holds no more than the
other (`Nested`), which is what makes it right that `Trace` asks only until it is
found. `LossInv` keeps, besides `LossIsTold`, that annotations never go away again
(`StoresGrow`) and that errors only move from the list to the reader. For
`CallsAgree`, `EntriesTrue` traces each recorded HTTP event back to the request
it is about; `ServesHeader` says that a handler has the span that the header of its
request names, `AnswerEnded` that who answered has ended; `HeaderReadBack` shows
that the header parses to the span that was put in.

*InfluxDBStore.* `OnePlace`: a point is in the batch, in one of the two
writes, in the database or lost. It is kept because a writer that is not
writing has an empty batch (`Idle`), so that taking one overwrites nothing, and
because what is collected is new (`StillToCome`: an upload has still to collect
exactly the places from `next` on, each of its own). Every action is then one of
four moves of points (`Moves`), each of which is a step of `AtMostOnce` or
none. `ListsAsTrace` rests on the rows of a listing being roots that are or were
in the database: when the root row is the only one of its trace at the end,
`CHOOSE` has no choice, and the rows of the second query are those that `Trace`
would take; when there are none, `Trace` has only the root to show.
`ShowsTracesWhole` is about the algorithm: the spans placed grow with each pass
of `addChildren` until a pass places none (`Saturates`: at most as many passes
as rows), and those placed by then are in every set closed under "child of".

*Reading.* `output` is set once, from an input that stays what it was
(`InputStays`), so each theorem is one about the operators.

- *Codec.* Pairs sorted by key encode a value (`Encodes`) if, of each field, the
  pairs that its kind claims read as what the field holds (`IsRead`), and each
  struct has a pair below it. Every call of `unflattenValue` on such pairs leaves
  those of the fields still to come in front of it (`Partial`, kept by
  `VisitStep`): a scalar, a list and a struct skip what sorts before their
  prefix, and the order of keys puts nothing of a later field there; a map takes
  its pairs wherever they are and then as many off the front, which are the same
  ones. `UnflattenIs` follows along the field order. What `MarshalEvent` writes
  of each event of a readable span encodes it among the pairs of the others
  (`WrittenEncodes`, `ReadableOwns`).
- *Rows.* A row is what was written with "" in the other columns. What an event
  reads as from it is itself, filled up (`Filled`, `IsFilled`): a map with the
  columns below it, a list up to the last column of it. Filled up, the event is
  encoded by the row (`RowEncodes`), so the first decoding yields it
  (`ReadOnceIs`). The store then encodes and decodes a second time. That is
  the codec theorem again, once it is shown that no key an event was filled up
  with is one of another event (`FilledOwn`).
- *Views.* `Ranked` is the sorted sequence of a set, `FlattenSeq` and
  `SumFunction` are moved along lists, and the rows of a profile, bars of a
  timeline and entries of an aggregate are shown to stand for the places of the
  tree one by one. The rest is arithmetic of rounding.
- *Dashboard.* The rows are one for each name that has a sample, the sums are
  over disjoint groups. `SeriesBegin` turns the comparison place by place into
  one of sets: sorted, one set of names begins another just when it is a subset
  and has every name of the other that comes before one of its own.

**Only model-checked:** the liveness properties. They need fairness and `ENABLED`,
which the installed provers do not deal with; and `NullEndsEvent`. Every other
invariant and action property of a passing run is stated by a theorem.

## 6. What is not modelled, and the plan

Not modelled because nothing in it is a state that matters: logging,
`memstats`, `sqltrace` (an event type), the examples, routes, templates and
page texts of `traceapp` (its data file is generated), flag parsing and set-up
in `cmd/appdash`. The wire encoding is generated code, hexadecimal digits and
the formatting of leaves are library calls. The Python client speaks the same
protocol as `RemoteCollector` without its retry. Left out of modelled
components: the Go memory model (slices that share an array between a recorder,
`ChunkedCollector` and the store; readers of a tree while `Collect` changes it;
the unlocked map read of `CancelRequest`), lengths and headers in HTTP events,
pointers and interfaces in events, mean and deviation on the dashboard.

The plan, in order:

1. **The server as a whole**: `CollectorServer`, `RecentStore` and the persisted
   `MemoryStore` composed, with traces that were read back and have no entry in
   `RecentStore`.
2. **Slices with capacities**, for the shared backing arrays above, and a reader
   that walks a tree in several steps.
3. **Proofs** that go with these two, and of `NullEndsEvent`; beyond that the
   present models have none left but liveness.
