--------------------------- MODULE ChunkedCollector ---------------------------
(***************************************************************************)
(* appdash.ChunkedCollector (collector.go): queues what is collected and   *)
(* sends it to an underlying Collector, grouped by span, from a background *)
(* goroutine every MinInterval and from whoever calls Flush.  The queue is *)
(* under cc.mu; the sending is not, so collects, flushes and Stop          *)
(* interleave with it.                                                     *)
(*                                                                         *)
(* One Collect brings one item.  The items are numbered in the order they  *)
(* were collected, which is the order in which a span's annotations are    *)
(* appended, so that the queue can be a set.                               *)
(***************************************************************************)
EXTENDS Naturals, FiniteSets, FiniteSetsExt

CONSTANTS
    Spans,          \* SpanIDs
    Sizes,          \* the sizes of collections: 24 bytes plus keys and values
    MaxQueueSize,   \* cc.MaxQueueSize, 0 for no limit
    FlushTimeout,   \* cc.FlushTimeout # 0: may a flush time out?
    Manual,         \* goroutines that call Flush
    MaxCalls        \* bound: calls of Collect

ASSUME SizesAssumption == Sizes \subseteq Nat \ {0} /\ MaxQueueSize \in Nat
ASSUME BoundAssumption == MaxCalls \in Nat /\ FlushTimeout \in BOOLEAN
ASSUME ManualAssumption == "bg" \notin Manual

Flushers == {"bg"} \cup Manual
Item     == [id : 1..MaxCalls, span : Spans, size : Sizes]

(* A Go error that stems from failed sends, dropped data or both; the      *)
(* empty set is nil.                                                       *)
Error == SUBSET {"failed", "dropped"}

VARIABLES
    pending,        \* cc.pendingBySpanID
    queueSizeBytes, \* cc.queueSizeBytes
    lastErr,        \* cc.lastErr
    stopped,        \* cc.stopped
    bg,             \* the goroutine of start(): "unstarted", "waiting", "flushing", "exited"
    flush,          \* flusher -> its Flush under way: batch still to send, errors so far,
                    \* and (history) the items it lost
    panicked,       \* Stop panicked
    calls,          \* history: number of items handed to Collect
    sent,           \* history: items the underlying Collector took
    lost,           \* history: items dropped or refused by the underlying Collector
    owed            \* history: items lost in the background, of which no Collect has told yet

queueVars == <<pending, queueSizeBytes>>
vars == <<queueVars, lastErr, stopped, bg, flush, panicked, calls, sent, lost, owed>>

Idle == [on |-> FALSE, batch |-> {}, errs |-> {}, gone |-> {}]

Init ==
    /\ pending = {} /\ queueSizeBytes = 0
    /\ lastErr = {} /\ stopped = FALSE /\ bg = "unstarted"
    /\ flush = [f \in Flushers |-> Idle]
    /\ panicked = FALSE
    /\ calls = 0 /\ sent = {} /\ lost = {} /\ owed = {}

-----------------------------------------------------------------------------
(* cc.start(), under cc.mu, on the first Collect.                          *)
StartIfNeeded == bg' = IF bg = "unstarted" THEN "waiting" ELSE bg

TooLarge(i) == MaxQueueSize # 0 /\ queueSizeBytes + i.size > MaxQueueSize

(* The next call of Collect brings item i.                                 *)
Brings(i) == /\ ~stopped
             /\ i.id = calls + 1
             /\ calls' = i.id
             /\ StartIfNeeded

(* The item is queued.  The call returns the last error of the background  *)
(* goroutine, once.                                                        *)
CollectQueues(i) ==
    /\ Brings(i) /\ ~TooLarge(i)
    /\ pending' = pending \cup {i}
    /\ queueSizeBytes' = queueSizeBytes + i.size
    /\ lastErr' = {}
    /\ owed' = IF lastErr = {} THEN owed ELSE {}
    /\ UNCHANGED <<stopped, flush, panicked, sent, lost>>

(* Slip: the size is not reset.                                            *)
CollectDropsItems(i) ==
    /\ Brings(i) /\ TooLarge(i)
    /\ pending' = {}
    /\ lost' = lost \cup pending \cup {i}
    /\ UNCHANGED <<queueSizeBytes, lastErr, stopped, flush, panicked, sent, owed>>

(* The item does not fit: the queue and the item are dropped, the call     *)
(* returns ErrQueueDropped.                                                *)
CollectDrops(i) ==
    /\ Brings(i) /\ TooLarge(i)
    /\ pending' = {} /\ queueSizeBytes' = 0
    /\ lost' = lost \cup pending \cup {i}
    /\ UNCHANGED <<lastErr, stopped, flush, panicked, sent, owed>>

-----------------------------------------------------------------------------
(* Flush, first part, under cc.mu: take the queue.                         *)
TakeQueue(f) ==
    /\ ~flush[f].on
    /\ flush' = [flush EXCEPT ![f] = [Idle EXCEPT !.on = TRUE, !.batch = pending]]
    /\ pending' = {} /\ queueSizeBytes' = 0
    /\ UNCHANGED <<lastErr, stopped, panicked, calls, sent, lost, owed>>

(* Slip: one collection at a time, the newest first.                       *)
GroupNewest(f, s) ==
    {i \in flush[f].batch : i.span = s /\
        \A j \in flush[f].batch : j.span = s => j.id <= i.id}

Group(f, s) == {i \in flush[f].batch : i.span = s}
Rest(f, s)  == flush[f].batch \ Group(f, s)

(* Slip: a group that was refused and reported is tried again.             *)
RoundRetries(f, s, ok, late) ==
    LET gone == (IF ok THEN {} ELSE Group(f, s)) \cup (IF late THEN Rest(f, s) ELSE {})
        errs == (IF ok THEN {} ELSE {"failed"}) \cup (IF late THEN {"dropped"} ELSE {})
    IN  /\ flush' = [flush EXCEPT ![f] =
                        [on    |-> TRUE,
                         batch |-> IF late THEN {} ELSE IF ok THEN Rest(f, s) ELSE @.batch,
                         errs  |-> @.errs \cup errs,
                         gone  |-> @.gone \cup gone]]
        /\ lost' = lost \cup gone
        /\ sent' = IF ok THEN sent \cup Group(f, s) ELSE sent

(* One round of the loop over the batch, in the map's arbitrary order: the *)
(* underlying Collect takes the group of span s (ok) or returns an error,  *)
(* and then the flush has timed out (late), which drops the rest of the    *)
(* batch, or goes on.                                                      *)
Round(f, s, ok, late) ==
    LET gone == (IF ok THEN {} ELSE Group(f, s)) \cup (IF late THEN Rest(f, s) ELSE {})
        errs == (IF ok THEN {} ELSE {"failed"}) \cup (IF late THEN {"dropped"} ELSE {})
    IN  /\ flush' = [flush EXCEPT ![f] =
                        [on    |-> TRUE,
                         batch |-> IF late THEN {} ELSE Rest(f, s),
                         errs  |-> @.errs \cup errs,
                         gone  |-> @.gone \cup gone]]
        /\ lost' = lost \cup gone
        /\ sent' = IF ok THEN sent \cup Group(f, s) ELSE sent

Send(f, s) ==
    /\ flush[f].on /\ Group(f, s) # {}
    /\ \E ok \in BOOLEAN, late \in {FALSE, FlushTimeout} : Round(f, s, ok, late)
    /\ UNCHANGED <<queueVars, lastErr, stopped, bg, panicked, calls, owed>>

Done(f) ==
    /\ flush[f].on /\ flush[f].batch = {}
    /\ flush' = [flush EXCEPT ![f] = Idle]

(* A caller of Flush: it gets the errors as the result.                    *)
ManualFlush(f) == TakeQueue(f) /\ UNCHANGED bg
ManualReturn(f) ==
    /\ Done(f)
    /\ UNCHANGED <<queueVars, lastErr, stopped, bg, panicked, calls, sent, lost, owed>>

(* The background goroutine: the timer fires ...                           *)
TimerFlush ==
    /\ bg = "waiting" /\ bg' = "flushing"
    /\ TakeQueue("bg")

(* Slips: a flush without errors clears the last one; an error ends the    *)
(* goroutine.                                                              *)
TimerReturnClears ==
    /\ bg = "flushing" /\ bg' = "waiting"
    /\ Done("bg")
    /\ lastErr' = flush["bg"].errs
    /\ owed' = owed \cup flush["bg"].gone
    /\ UNCHANGED <<queueVars, stopped, panicked, calls, sent, lost>>

TimerReturnGivesUp ==
    /\ bg = "flushing"
    /\ bg' = IF flush["bg"].errs = {} THEN "waiting" ELSE "exited"
    /\ Done("bg")
    /\ lastErr' = IF flush["bg"].errs = {} THEN lastErr ELSE flush["bg"].errs
    /\ owed' = owed \cup flush["bg"].gone
    /\ UNCHANGED <<queueVars, stopped, panicked, calls, sent, lost>>

(* ... and it keeps the errors of its Flush for the next Collect.          *)
TimerReturn ==
    /\ bg = "flushing" /\ bg' = "waiting"
    /\ Done("bg")
    /\ lastErr' = IF flush["bg"].errs = {} THEN lastErr ELSE flush["bg"].errs
    /\ owed' = owed \cup flush["bg"].gone
    /\ UNCHANGED <<queueVars, stopped, panicked, calls, sent, lost>>

(* Slip: does not end before its error was returned.                       *)
ExitOnceReported ==
    /\ bg = "waiting" /\ stopped /\ lastErr = {}
    /\ bg' = "exited"
    /\ UNCHANGED <<queueVars, lastErr, stopped, flush, panicked, calls, sent, lost, owed>>

(* The select sees stopChan closed.                                        *)
Exit ==
    /\ bg = "waiting" /\ stopped
    /\ bg' = "exited"
    /\ UNCHANGED <<queueVars, lastErr, stopped, flush, panicked, calls, sent, lost, owed>>

-----------------------------------------------------------------------------
(* Stop closes stopChan, which panics if there is none yet or if it is     *)
(* closed.                                                                 *)
CanClose == bg # "unstarted" /\ ~stopped

Stop ==
    /\ CanClose
    /\ stopped' = TRUE
    /\ UNCHANGED <<queueVars, lastErr, bg, flush, panicked, calls, sent, lost, owed>>

StopPanics ==
    /\ ~CanClose
    /\ panicked' = TRUE
    /\ UNCHANGED <<queueVars, lastErr, stopped, bg, flush, calls, sent, lost, owed>>

(* A panic ends the program.                                               *)
Next ==
    /\ ~panicked
    /\ \/ \E i \in Item : CollectQueues(i) \/ CollectDrops(i)
       \/ \E f \in Manual : ManualFlush(f) \/ ManualReturn(f)
       \/ \E f \in Flushers, s \in Spans : Send(f, s)
       \/ TimerFlush
       \/ TimerReturn
       \/ Exit
       \/ Stop
       \/ StopPanics

Spec == Init /\ [][Next]_vars

(* The timer of the background goroutine fires, its flush goes on, and its *)
(* select, which chooses at random when both channels are ready, does not  *)
(* overlook a closed stopChan forever.                                     *)
Fairness ==
    /\ WF_vars(~panicked /\ TimerFlush)
    /\ WF_vars(~panicked /\ \E s \in Spans : Send("bg", s))
    /\ WF_vars(~panicked /\ TimerReturn)
    /\ SF_vars(~panicked /\ Exit)
    /\ \A f \in Manual : WF_vars(~panicked /\ \E s \in Spans : Send(f, s))

FairSpec == Spec /\ Fairness

-----------------------------------------------------------------------------
InBatch    == UNION {flush[f].batch : f \in Flushers}
Everywhere == pending \cup InBatch \cup sent \cup lost

TypeOK ==
    /\ pending \subseteq Item
    /\ queueSizeBytes \in Nat
    /\ lastErr \in Error
    /\ stopped \in BOOLEAN
    /\ bg \in {"unstarted", "waiting", "flushing", "exited"}
    /\ flush \in [Flushers -> [on : BOOLEAN, batch : SUBSET Item,
                            errs : Error, gone : SUBSET Item]]
    /\ panicked \in BOOLEAN
    /\ calls \in 0..MaxCalls
    /\ sent \subseteq Item /\ lost \subseteq Item /\ owed \subseteq Item

(* An item is in one place: in the queue, in the batch of one flush, sent  *)
(* or lost, however flushes overlap each other and the collects.           *)
OnePlace ==
    /\ \A f, g \in Flushers : f # g => flush[f].batch \cap flush[g].batch = {}
    /\ InBatch \cap (pending \cup sent \cup lost) = {}
    /\ pending \cap (sent \cup lost) = {}
    /\ sent \cap lost = {}

(* Nothing vanishes: every item that Collect took is in one of them.       *)
NothingVanishes == {i.id : i \in Everywhere} = 1..calls

(* queueSizeBytes is the size of what is queued, and within the limit, at  *)
(* every moment, although a flush takes the queue without cc's callers.    *)
SizeAccounts ==
    /\ queueSizeBytes = MapThenSumSet(LAMBDA i : i.size, pending)
    /\ MaxQueueSize # 0 => queueSizeBytes <= MaxQueueSize

(* No loss is silent: a flush that lost something returns an error, and    *)
(* until a Collect has told of a loss in the background there is an error  *)
(* left for it to return ("It will be returned to the next caller of       *)
(* Collect", collector.go:118).                                            *)
LossIsReported ==
    /\ \A f \in Flushers : flush[f].gone # {} => flush[f].errs # {}
    /\ owed # {} => lastErr # {}

(* The annotations of a span reach the underlying Collector in the order   *)
(* they were collected, if nobody but the background goroutine flushes.    *)
InOrder ==
    [][Manual = {} => \A i \in sent' \ sent, j \in sent :
          i.span = j.span => j.id < i.id]_vars

(* A queued item does not stay queued: while the collector is not stopped  *)
(* it is sent, or dropped with an error.                                   *)
QueueDrains ==
    \A i \in Item : i \in pending \cup InBatch ~> i \in sent \cup lost \/ stopped \/ panicked

(* Stop ends the background goroutine, whatever it is doing.               *)
StopEndsGoroutine == stopped ~> bg = "exited" \/ panicked

(* The queue with the batches in flight is a buffer that passes nothing on *)
(* twice and drops nothing it passed on.                                   *)
Abstract == INSTANCE AtMostOnce WITH
    Items <- Item, buffered <- pending \cup InBatch, passed <- sent, dropped <- lost
ImplementsAtMostOnce == Abstract!Spec
=============================================================================
