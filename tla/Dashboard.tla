------------------------------- MODULE Dashboard -------------------------------
(***************************************************************************)
(* The dashboard of an InfluxDBStore: what Collect makes of a span for it, *)
(* the continuous queries that sample the spans each minute, and Aggregate *)
(* that answers from the samples (influxdb_store.go).                      *)
(*                                                                         *)
(* A point is [trace, minute, found, seen], where found are the name and   *)
(* timespan events of the span in order, a name as <<name>>, a timespan as *)
(* <<start, end>>.  The minute is that of Collect, but the point is        *)
(* written with a later batch: seen are the continuous queries that found  *)
(* it when they ran over the minute, once, after its end.  Names are       *)
(* numbers in the byte order of the strings, in which InfluxDB sorts its   *)
(* series, and 0 is the empty one.  Mean and deviation are left out.       *)
(***************************************************************************)
EXTENDS Arranging, Functions

CONSTANT MaxSlowest     \* 5 in the code

(* Slip: a name and a timespan are enough, whatever else there is.         *)
TaggedWithMore(pt) == Len(pt.found) >= 2

(* Collect gives name and duration to the point of a span with exactly two *)
(* such events, taking the last of each kind.                              *)
Tagged(pt) == Len(pt.found) = 2

LastOf(kindLen, pt) ==
    LET at == {i \in DOMAIN pt.found : Len(pt.found[i]) = kindLen}
    IN  IF at = {} THEN <<0, 0>> ELSE pt.found[Greatest(at)]

NameTag(pt)  == LastOf(1, pt)[1]
Duration(pt) == LastOf(2, pt)[2] - LastOf(2, pt)[1]

(* cq_downsampled_spans_1m and cq_nslowest_spans_1m: one row for each name *)
(* and minute of the points they have seen.                                *)
Queries == {"downsampled", "nslowest"}

Seen(points, cq) == {pt \in points : cq \in pt.seen}

Groups(points) == {<<NameTag(pt), pt.minute>> : pt \in {q \in points : Tagged(q)}}

InGroup(points, g) == {pt \in points : Tagged(pt) /\ <<NameTag(pt), pt.minute>> = g}

Downsampled(points) ==
    {[name  |-> g[1], minute |-> g[2],
      min   |-> Smallest({Duration(pt) : pt \in InGroup(points, g)}),
      max   |-> Greatest({Duration(pt) : pt \in InGroup(points, g)}),
      count |-> Cardinality(InGroup(points, g))] : g \in Groups(points)}

Slowest(points) ==
    {CHOOSE pt \in InGroup(points, g) :
        \A q \in InGroup(points, g) : Duration(q) <= Duration(pt) : g \in Groups(points)}

(* InfluxDB's order of the series of an answer.                            *)
ByName(names) == Ranked(names, {p \in names \X names : p[1] < p[2]})

(* The first query of Aggregate: one result for each name with a sample in *)
(* the window.                                                             *)
Results(points, window) ==
    LET rows == {r \in Downsampled(points) : r.minute \in window}
        of(n) == {r \in rows : r.name = n}
        result(n) == [name  |-> n,
                      min   |-> Smallest({r.min : r \in of(n)}),
                      max   |-> Greatest({r.max : r \in of(n)}),
                      count |-> SumFunction([r \in of(n) |-> r.count])]
        names == ByName({r.name : r \in rows})
    IN  [i \in DOMAIN names |-> result(names[i])]

(* The second: the slowest of each name, whenever they were.               *)
SlowSeries(points) == ByName({NameTag(pt) : pt \in Slowest(points)})

Top(n, points) ==
    IF Cardinality(points) <= n THEN points
    ELSE CHOOSE S \in SUBSET points :
            /\ Cardinality(S) = n
            /\ \A pt \in S, q \in points \ S : Duration(q) <= Duration(pt)

SlowTraces(points, name, n) ==
    {pt.trace : pt \in Top(n, {q \in Slowest(points) : NameTag(q) = name})}

Answer(how, rows) == [how |-> how, rows |-> rows]

(* Aggregate pairs the series of both queries by their place, and panics   *)
(* when their names differ, or there are more of the second.               *)
Aggregate(points, window) ==
    LET results == Results(Seen(points, "downsampled"), window)
        ranked  == Seen(points, "nslowest")
        series  == SlowSeries(ranked)
        n       == IF Len(results) < MaxSlowest THEN Len(results) ELSE MaxSlowest
        row(i)  == [result  |-> results[i],
                    slowest |-> IF i \in DOMAIN series THEN SlowTraces(ranked, series[i], n) ELSE {}]
    IN  IF results = <<>> THEN Answer("ok", <<>>)
        ELSE IF \E i \in DOMAIN series : i \notin DOMAIN results \/ series[i] # results[i].name
            THEN Answer("panic", <<>>)
        ELSE Answer("ok", [i \in DOMAIN results |-> row(i)])
=============================================================================
