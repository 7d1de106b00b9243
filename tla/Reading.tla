------------------------------- MODULE Reading -------------------------------
(***************************************************************************)
(* The reading side of Appdash, where it computes and keeps no state: what *)
(* the annotations of a span decode to (EventCodec), what InfluxDBStore    *)
(* makes of the rows of a query (InfluxRows), the views of the web UI      *)
(* (TraceViews) and the dashboard (Dashboard).  A behaviour is one input   *)
(* and one request.                                                        *)
(***************************************************************************)
EXTENDS InfluxRows, TraceViews, Dashboard

CONSTANTS
    SpanInputs,     \* sets of spans, each a sequence of events
    Extras,         \* annotations a span may hold that are of no event
    TreeInputs,     \* sequences of traces
    SampleInputs,   \* sets of points of the dashboard
    Minutes         \* the minutes of the dashboard

Texts(kind) == IF kind \in NumberKinds THEN Numbers ELSE STRING

(* A value of a type: numbers are written as such, a list is no longer     *)
(* than there are indices, and a key of a map is never nothing.            *)
IsValue(T, v) ==
    /\ v = [p \in Parts(T) |-> v[p]]
    /\ \A p \in Parts(T) :
        CASE T[p] \in LeafKinds -> v[p] \in Texts(T[p])
          [] T[p] \in ListKinds -> /\ v[p] \in Seq(Texts(T[p]))
                                   /\ \A i \in DOMAIN v[p] : i - 1 \in Indices
          [] T[p] \in MapKinds  -> /\ IsFiniteSet(DOMAIN v[p]) /\ DOMAIN v[p] \subseteq Key \ {<<>>}
                                   /\ v[p] \in [DOMAIN v[p] -> Texts(T[p])]

IsEvent(e) ==
    /\ e = Event(e.schema, e.val)
    /\ e.schema \in Schemas /\ IsValue(TypeOf[e.schema], e.val)

IsSpan(s) == s = [i \in 1..Len(s) |-> s[i]] /\ Len(s) \in Nat /\ \A i \in 1..Len(s) : IsEvent(s[i])

ASSUME SpansAssumption ==
    /\ \A of \in SpanInputs : IsFiniteSet(of) /\ \A s \in of : IsSpan(s)
    /\ \A extra \in Extras :
        /\ extra \in Seq([key : Key, val : STRING])
        /\ \A i \in DOMAIN extra : ~IsSchema(extra[i].key)

(* A tree of spans, each in it once (MemoryStore never shows a span twice). *)
IsTrace(t) ==
    /\ IsFiniteSet(DOMAIN t) /\ DOMAIN t \subseteq Seq(Nat \ {0}) /\ <<>> \in DOMAIN t
    /\ \A p \in DOMAIN t :
        /\ t[p] \in [id : STRING, isRoot : BOOLEAN, name : STRING, times : Seq(Nat \X Nat), sub : Nat]
        /\ \A i \in 1..t[p].sub : Append(p, i) \in DOMAIN t
        /\ p # <<>> => Front(p) \in DOMAIN t /\ Last(p) <= t[Front(p)].sub
        /\ \A q \in DOMAIN t : t[p].id = t[q].id => p = q

ASSUME TreesAssumption ==
    \A of \in TreeInputs : of \in Seq(Range(of)) /\ \A t \in Range(of) : IsTrace(t)

IsPoint(pt) ==
    /\ DOMAIN pt = {"trace", "minute", "found", "seen"}
    /\ pt.minute \in Minutes /\ pt.seen \subseteq Queries
    /\ pt.found \in Seq(Seq(Nat))
    /\ \A i \in DOMAIN pt.found : Len(pt.found[i]) \in {1, 2}

(* The query that ran later over a minute has seen what the other has.     *)
ASSUME SamplesAssumption ==
    /\ MaxSlowest \in Nat \ {0}
    /\ \A of \in SampleInputs :
        /\ IsFiniteSet(of) /\ \A pt \in of : IsPoint(pt)
        /\ \A p, q \in of : p.minute = q.minute => p.seen \subseteq q.seen \/ q.seen \subseteq p.seen

VARIABLES
    input,
    output      \* empty, or what the request was answered

vars == <<input, output>>

Init ==
    /\ input \in [kind : {"spans"}, of : SpanInputs, extra : Extras]
            \cup [kind : {"traces"}, of : TreeInputs]
            \cup [kind : {"samples"}, of : SampleInputs, window : SUBSET Minutes]
    /\ output = <<>>

(* Recorder puts all the annotations of the events of a span together.     *)
Written(events, extra) ==
    extra \o FlattenSeq([i \in DOMAIN events |-> MarshalEvent(events[i])])

Request(kind) == input.kind = kind /\ output = <<>> /\ UNCHANGED input

ReadSpans ==
    /\ Request("spans")
    /\ output' = <<"spans", [s \in input.of |-> UnmarshalEvents(Written(s, input.extra))]>>

(* Trace or Traces of InfluxDBStore, all the spans in one result.          *)
ReadRows ==
    /\ Request("spans")
    /\ LET points == {Point(Written(s, input.extra)) : s \in input.of}
           read(s) == spansFromRow(Point(Written(s, input.extra)), points)
       IN  output' = <<"rows", [s \in input.of |-> UnmarshalEvents(read(s))]>>

(* serveTrace: the page, or the profile, of a trace or of one of its spans. *)
serveTrace ==
    /\ Request("traces")
    /\ \E t \in Range(input.of) : \E n \in DOMAIN t :
         LET at == FindSpan(t, t[n].id)[1]
         IN  output' = <<"trace", [of |-> t, at |-> n, prof |-> calcProfile(t)[at],
                                   line |-> d3timelineInner(t, at)]>>

serveAggregate ==
    /\ Request("traces")
    /\ \E view \in AggModes \cup {"?"} :
       \E sel \in {<<>>} \cup {<<t[<<>>].id>> : t \in Range(input.of)} :
         LET traces == Selected(input.of, sel)
             mode   == parseAggMode(view)
         IN  output' = <<"aggregate", [of |-> traces, mode |-> mode,
                                       items |-> aggregate(traces, mode)]>>

serveDashboardData ==
    /\ Request("samples")
    /\ output' = <<"samples", Aggregate(input.of, input.window)>>

Next == ReadSpans \/ ReadRows \/ serveTrace \/ serveAggregate \/ serveDashboardData

Spec == Init /\ [][Next]_vars

Answered(what) == output # <<>> /\ output[1] = what

-----------------------------------------------------------------------------
Keys(e) == {pr.key : pr \in Flatten(TypeOf[e.schema], e.val)}

(* The keys that the decoder reads as one of a field, or stumbles on.      *)
Claims(T, p, k) ==
    \/ T[p] \in LeafKinds /\ k = p
    \/ T[p] \in ListKinds /\ AtOrWithin(k, p)
    \/ T[p] \in MapKinds  /\ Within(k, p)

(* Each part of the value, maps aside, leaves a pair.                      *)
LeavesTrace(T, v) ==
    \A p \in DOMAIN T :
        /\ T[p] \in ListKinds => v[p] # <<>>
        /\ T[p] = "struct" /\ p # <<>> => \E pr \in Flatten(T, v) : Within(pr.key, p)

(* A list or a struct that writes no annotation leads the decoder to skip  *)
(* the rest of the span; an annotation among those of an event that is not *)
(* of it is taken for its own.  The decoder owes nothing to such spans.    *)
Readable(events, extra) ==
    \A i \in DOMAIN events :
        LET T == TypeOf[events[i].schema]
        IN  /\ LeavesTrace(T, events[i].val)
            /\ \A k \in (UNION {Keys(events[j]) : j \in DOMAIN events \ {i}})
                        \cup {pr.key : pr \in ToSet(extra)} :
                  \A p \in Parts(T) : ~Claims(T, p, k)

(* The events of a span survive the way into annotations and back, among   *)
(* annotations of no event and with names that start with one another:     *)
(* none is lost, none appears, and each is what it was (MarshalEvent,      *)
(* UnmarshalEvents).                                                       *)
DecodeUndoesEncode ==
    Answered("spans") =>
        \A s \in input.of : Readable(s, input.extra) => output[2][s] = s

(* In a table, no key of another span is that of a list of this one, nor   *)
(* below one of its elements; and the span has one event of a schema, as   *)
(* its row has one column for that.                                        *)
ReadableRow(events, spans, extra) ==
    /\ Readable(events, extra)
    /\ \A i, j \in DOMAIN events : events[i].schema = events[j].schema => i = j
    /\ \A i \in DOMAIN events :
        LET T == TypeOf[events[i].schema]
        IN  \A p \in Parts(T), s \in spans : \A j \in DOMAIN s : \A k \in Keys(s[j]) :
                T[p] \in ListKinds /\ AtOrWithin(k, p) => IsElement(k, p)

(* The parts of an event that get a null of the table where a number ought *)
(* to be: the key is one of another span.                                  *)
NullAmongNumbers(e, spans) ==
    LET T == TypeOf[e.schema]
    IN  {p \in Parts(T) :
            /\ T[p] \in {"numbers", "numberMap"}
            /\ \E s \in spans : \E j \in DOMAIN s : \E k \in Keys(s[j]) \ Keys(e) : Within(k, p)}

(* The part p of w is that of v, a map or list of strings perhaps filled   *)
(* up with empty ones.                                                     *)
Padded(T, v, w, p) ==
    IF T[p] \in {"list", "map"}
    THEN /\ \A k \in DOMAIN v[p] : k \in DOMAIN w[p] /\ w[p][k] = v[p][k]
         /\ \A k \in DOMAIN w[p] \ DOMAIN v[p] : w[p][k] = ""
    ELSE w[p] = v[p]

(* The events of a span survive a table, whose nulls for the keys of other *)
(* spans read as empty strings, when none of its maps and lists of numbers *)
(* gets one: each span keeps its own events and gets none of another.  The *)
(* nulls may fill maps and lists of strings up, but change nothing else,   *)
(* and not even that for a span that is alone (Collect, spansFromRow).     *)
RowsReadBack ==
    Answered("rows") =>
        \A s \in input.of :
            /\ ReadableRow(s, input.of, input.extra)
            /\ \A i \in DOMAIN s : NullAmongNumbers(s[i], input.of) = {}
            => LET got == output[2][s]
               IN  /\ Len(got) = Len(s)
                   /\ \A i \in DOMAIN s : \E j \in DOMAIN s :
                        /\ got[j].schema = s[i].schema
                        /\ \A p \in Parts(TypeOf[s[i].schema]) :
                              Padded(TypeOf[s[i].schema], s[i].val, got[j].val, p)
                   /\ input.of = {s} => ToSet(got) = ToSet(s)

(* A null where a number ought to be ends the decoding of its event, and   *)
(* of no other: what comes before the first list or map of numbers with a  *)
(* null survives, and what comes after is lost; nothing is left of the     *)
(* map, and the list is filled up with zeros (unflattenValue, whose error  *)
(* UnmarshalEvent drops).                                                  *)
NullEndsEvent ==
    Answered("rows") =>
        \A s \in input.of : ReadableRow(s, input.of, input.extra) =>
            LET got == output[2][s]
            IN  /\ Len(got) = Len(s)
                /\ \A i \in DOMAIN s : \E j \in DOMAIN s :
                    LET T == TypeOf[s[i].schema]  v == s[i].val  w == got[j].val
                        nulls == NullAmongNumbers(s[i], input.of)
                        cuts(p) == p \in nulls /\ ~\E q \in nulls : Before(q, p)
                    IN  /\ got[j].schema = s[i].schema
                        /\ \A p \in Parts(T) :
                            /\ (\A q \in nulls : Before(p, q)) => Padded(T, v, w, p)
                            /\ (\E q \in nulls : Before(q, p)) => w[p] = Zero(T)[p]
                            /\ cuts(p) /\ T[p] = "numberMap" => w[p] = Zero(T)[p]
                            /\ cuts(p) /\ T[p] = "numbers" =>
                                /\ \A n \in DOMAIN v[p] : w[p][n] = v[p][n]
                                /\ \A n \in DOMAIN w[p] \ DOMAIN v[p] : w[p][n] = "0"

-----------------------------------------------------------------------------
TimeOf(t, places) == SumFunction([q \in places |-> SpanTime(t[q])])

(* The profile has one row for each span, whose times add up to the        *)
(* cumulative time of the first, and the profile of a span is a part of    *)
(* the profile of each sub-trace it is in (calcProfile, FindSpan).         *)
ProfileAddsUp ==
    Answered("trace") =>
        LET t == output[2].of  n == output[2].at  prof == output[2].prof
        IN  /\ Len(prof) = Cardinality(Under(t, n))
            /\ prof[1].timeCum = TimeOf(t, Under(t, n))
            /\ \A p \in DOMAIN t : n \in Under(t, p) =>
                 \E i \in DOMAIN calcProfile(t)[p] :
                    SubSeq(calcProfile(t)[p], i, i + Len(prof) - 1) = prof

(* The aggregate loses nothing: each label has the time of its spans, or   *)
(* one more when the chart needed it, and never zero; and the labels of    *)
(* every mode are those of the spans it speaks of (aggregate, up).         *)
AggregateCountsAll ==
    Answered("aggregate") =>
        LET of == output[2].of  mode == output[2].mode  items == output[2].items
            shown(t) == IF mode = "trace-only" THEN {<<>>} ELSE DOMAIN t \ {<<>>}
            label(t, q) == CASE mode = "trace-only"     -> <<LabelOf(t[<<>>])>>
                             [] mode = "span-only"      -> <<LabelOf(t[q])>>
                             [] mode = "trace-and-span" -> <<LabelOf(t[<<>>]), LabelOf(t[q])>>
            spent(t, q) == IF mode = "trace-only" THEN TimeOf(t, DOMAIN t) ELSE SpanTime(t[q])
            pairs    == UNION {{i} \X shown(of[i]) : i \in DOMAIN of}
            with(l)  == {x \in pairs : label(of[x[1]], x[2]) = l}
            total(l) == SumFunction([x \in with(l) |-> spent(of[x[1]], x[2])])
        IN  /\ DOMAIN items = {label(of[x[1]], x[2]) : x \in pairs}
            /\ \A l \in DOMAIN items : items[l] > 0 /\ items[l] - total(l) \in 0..1

(* The timeline fails exactly when it comes to a span without a name, and  *)
(* otherwise shows exactly the spans that have a bar and whose ancestors   *)
(* all have one.  A shown span that has a parent is as long as the profile *)
(* says, up to a rounding of one millisecond, or longer; and covers the    *)
(* times findTraceTimes returns (d3timelineInner).                         *)
TimelineMatchesProfile ==
    Answered("trace") =>
        LET t == output[2].of  n == output[2].at  line == output[2].line
            reached == {q \in Under(t, n) : \A p \in Under(t, n) :
                            AtOrBelow(p, q) /\ p # q => Bars(t[p]) # <<>>}
            shown   == {q \in reached : Bars(t[q]) # <<>>}
        IN  /\ line.ok <=> \A q \in reached : t[q].name # ""
            /\ line.ok => {it.id : it \in Range(line.items)} = {t[q].id : q \in shown}
            /\ \A it \in Range(line.items) : \A q \in Under(t, n) :
                 /\ t[q].id = it.id /\ ~t[q].isRoot
                 /\ \A ts \in Range(t[q].times) : NoTime \notin Range(ts)
                 => /\ it.duration + 1 >= SpanTime(t[q])
                    /\ it.bars = <<<<Floor(findTraceTimes(t[q])[1]), Floor(findTraceTimes(t[q])[2])>>>>

-----------------------------------------------------------------------------
WithOne(name, minutes, points) ==
    {pt \in points : pt.minute \in minutes /\ Len(pt.found) = 2
                     /\ NameTag(pt) = name /\ \E f \in Range(pt.found) : Len(f) = 1}

(* The dashboard panics exactly when the names of the slowest traces, of   *)
(* whatever minute, are not the first of the names with a sample in the    *)
(* window.  Otherwise it has a row for each of the latter: it counts and   *)
(* bounds exactly the spans of the name that have one timespan and were    *)
(* there when the minute was sampled, and its slowest traces are of that   *)
(* name and none that was ranked is slower than all of them (Collect,      *)
(* Aggregate).                                                             *)
DashboardSound ==
    Answered("samples") =>
        LET sampled == Seen(input.of, "downsampled")
            ranked  == Seen(input.of, "nslowest")
            names(points, minutes) ==
                {NameTag(pt) : pt \in {q \in points : Tagged(q) /\ q.minute \in minutes}}
            counted == names(sampled, input.window)
            slow    == names(ranked, Minutes)
            answer  == output[2]
        IN  /\ answer.how = "panic" <=>
                    counted # {} /\ ~(/\ slow \subseteq counted
                                      /\ \A n \in slow, m \in counted : m < n => m \in slow)
            /\ answer.how = "ok" => {row.result.name : row \in Range(answer.rows)} = counted
            /\ \A row \in Range(answer.rows) : row.result.name # 0 =>
                 LET mine    == WithOne(row.result.name, input.window, sampled)
                     slowest == WithOne(row.result.name, Minutes, ranked)
                 IN  /\ row.result.count = Cardinality(mine)
                     /\ \A pt \in mine : Duration(pt) \in row.result.min .. row.result.max
                     /\ row.slowest \subseteq {q.trace : q \in slowest}
                     /\ \A pt \in slowest : \E q \in slowest :
                            q.trace \in row.slowest /\ Duration(q) >= Duration(pt)
=============================================================================
