------------------------------ MODULE TraceViews ------------------------------
(***************************************************************************)
(* What the web UI computes of a trace (traceapp): the profile, the        *)
(* aggregate of several traces, the timeline, and the sub-trace of a span. *)
(*                                                                         *)
(* A trace is a tree.  The place of a node in it is the sequence of the    *)
(* indexes in Sub that lead there from the root, and the trace a function  *)
(* from places to nodes [id, isRoot, name, times, sub]: the span, whether  *)
(* it has no parent, its name ("" if it has no Name annotation), the start *)
(* and end of its TimespanEvents in the order of its annotations, and the  *)
(* number of its sub-traces.  A sub-trace is the trace and a place in it.  *)
(* Times count ticks, Ms of them to the millisecond; 0 is the zero time,   *)
(* long before every other.                                                *)
(***************************************************************************)
EXTENDS Arranging, Functions

CONSTANT Ms     \* ticks in a millisecond

ASSUME MsAssumption == Ms \in Nat \ {0}

NoTime == 0

(* The places of the sub-traces of p, and the places of p and all below.   *)
Children(t, p) == [i \in 1..t[p].sub |-> Append(p, i)]

AtOrBelow(p, q) == Len(p) <= Len(q) /\ \A i \in 1..Len(p) : p[i] = q[i]

Under(t, p) == {q \in DOMAIN t : AtOrBelow(p, q)}

(* Trace.FindSpan: the place of the first node with that span in preorder, *)
(* in a sequence; the empty sequence if there is none.                     *)
FindSpan(t, span) ==
    LET found[p \in DOMAIN t] ==
            LET in == {i \in 1..t[p].sub : found[Append(p, i)] # <<>>}
            IN  IF t[p].id = span THEN <<p>>
                ELSE IF in = {} THEN <<>>
                ELSE found[Append(p, Smallest(in))]
    IN  found[<<>>]

-----------------------------------------------------------------------------
(* The time of a span in a profile: that of its longest event, rounded.    *)
Rounded(ticks) == (2 * ticks + Ms) \div (2 * Ms)

SpanTime(n) == Greatest({0} \cup {Rounded(ts[2] - ts[1]) : ts \in Range(n.times)})

LabelOf(n) == IF n.name = "" THEN n.id ELSE n.name

(* Slip: each child replaces the one before it.                            *)
LastTime(times) == IF times = <<>> THEN 0 ELSE Last(times)

TotalTime(times) == SumFunction(times)

(* The row of a node, given the rows of its sub-traces.                    *)
Row(n, children) ==
    [name         |-> LabelOf(n),
     time         |-> SpanTime(n),
     timeChildren |-> SpanTime(n) + TotalTime([i \in DOMAIN children |-> children[i][1].time]),
     timeCum      |-> SpanTime(n) + TotalTime([i \in DOMAIN children |-> children[i][1].timeCum])]

(* calcProfile: for each place the rows of its sub-trace in preorder.  The *)
(* first is its own, so the first rows of the sub-traces are those of its  *)
(* children.                                                               *)
calcProfile(t) ==
    LET prof[p \in DOMAIN t] ==
            LET children == [i \in DOMAIN Children(t, p) |-> prof[Children(t, p)[i]]]
            IN  <<Row(t[p], children)>> \o FlattenSeq(children)
    IN  prof

-----------------------------------------------------------------------------
(* parseAggMode: a mode that is none of these is "trace-only".             *)
AggModes == {"trace-only", "span-only", "trace-and-span"}

parseAggMode(s) == IF s \in AggModes THEN s ELSE "trace-only"

(* What one trace adds to the aggregate: labels and their times.           *)
Entries(t, mode) ==
    LET prof == calcProfile(t)[<<>>]
    IN  IF mode = "trace-only" THEN <<[label |-> <<prof[1].name>>, value |-> prof[1].timeCum]>>
        ELSE [i \in 1..(Len(prof) - 1) |->
                [label |-> IF mode = "span-only" THEN <<prof[i + 1].name>>
                                                 ELSE <<prof[1].name, prof[i + 1].name>>,
                 value |-> prof[i + 1].time]]

(* Slip: a label starts from the value that is added first.                *)
UpReplaces(items, entry) ==
    [l \in DOMAIN items \cup {entry.label} |->
        IF l # entry.label THEN items[l]
        ELSE IF entry.value = 0 THEN 1 ELSE entry.value]

(* aggregate's up: the chart cannot draw a zero, so that a sum of zero     *)
(* becomes one, and what is added later adds to that.                      *)
Up(items, entry) ==
    LET was == IF entry.label \in DOMAIN items THEN items[entry.label] ELSE 0
        sum == was + entry.value
    IN  [l \in DOMAIN items \cup {entry.label} |->
            IF l # entry.label THEN items[l] ELSE IF sum = 0 THEN 1 ELSE sum]

AllEntries(traces, mode) == FlattenSeq([i \in DOMAIN traces |-> Entries(traces[i], mode)])

aggregate(traces, mode) ==
    LET entries == AllEntries(traces, mode)
        aggregated[k \in 0..Len(entries)] ==
            IF k = 0 THEN [l \in {} |-> 0] ELSE Up(aggregated[k - 1], entries[k])
    IN  aggregated[Len(entries)]

(* serveAggregate: the traces of the selection, as often as it names them. *)
Selected(traces, selection) ==
    IF selection = <<>> THEN traces
    ELSE FlattenSeq([i \in DOMAIN selection |->
                        Only(traces, {t \in Range(traces) : t[<<>>].id = selection[i]})])

-----------------------------------------------------------------------------
(* The bars of a span: one for each timespan event that has both times, in *)
(* whole milliseconds, and without a parent; a single one that covers      *)
(* them all otherwise.                                                     *)
Floor(tick) == tick \div Ms

Timed(n) == Only(n.times, {ts \in Range(n.times) : ts[1] # NoTime /\ ts[2] # NoTime})

EachBar(n) == [i \in DOMAIN Timed(n) |-> <<Floor(Timed(n)[i][1]), Floor(Timed(n)[i][2])>>]

(* Slip: the cover of a span shrinks to what its events share.             *)
BarsShrunk(n) ==
    IF n.isRoot \/ EachBar(n) = <<>> THEN EachBar(n)
    ELSE <<<<Greatest({bar[1] : bar \in Range(EachBar(n))}),
             Smallest({bar[2] : bar \in Range(EachBar(n))})>>>>

Bars(n) ==
    IF n.isRoot \/ EachBar(n) = <<>> THEN EachBar(n)
    ELSE <<<<Smallest({bar[1] : bar \in Range(EachBar(n))}),
             Greatest({bar[2] : bar \in Range(EachBar(n))})>>>>

(* Every bar of an item is labelled with the duration of the first.        *)
BarDuration(bars) == Greatest({0, bars[1][2] - bars[1][1]})

Item(n, depth) ==
    [id |-> n.id, bars |-> Bars(n), duration |-> BarDuration(Bars(n)), visible |-> depth <= 1]

Timeline(items, ok) == [items |-> items, ok |-> ok]

(* d3timelineInner, called for the sub-trace of a place: a span without a  *)
(* bar hides its whole sub-trace, a span without a name makes the timeline *)
(* fail.                                                                   *)
d3timelineInner(t, start) ==
    LET line[p \in DOMAIN t] ==
            LET subs == [i \in DOMAIN Children(t, p) |-> line[Children(t, p)[i]]]
            IN  IF t[p].name = "" THEN Timeline(<<>>, FALSE)
                ELSE IF Bars(t[p]) = <<>> THEN Timeline(<<>>, TRUE)
                ELSE IF \E i \in DOMAIN subs : ~subs[i].ok THEN Timeline(<<>>, FALSE)
                ELSE Timeline(<<Item(t[p], Len(p) - Len(start))>>
                                \o FlattenSeq([i \in DOMAIN subs |-> subs[i].items]), TRUE)
    IN  line[start]

-----------------------------------------------------------------------------
(* findTraceTimes: the times of a trace in a listing, in a sequence.       *)
findTraceTimes(n) ==
    IF n.times = <<>> THEN <<>>
    ELSE <<Smallest({ts[1] : ts \in Range(n.times)}), Greatest({ts[2] : ts \in Range(n.times)})>>
=============================================================================
