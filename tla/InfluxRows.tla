------------------------------ MODULE InfluxRows ------------------------------
(***************************************************************************)
(* What InfluxDBStore keeps of the annotations of a span, and what it      *)
(* makes of them when it reads a span back (influxdb_store.go).            *)
(*                                                                         *)
(* InfluxDB answers a query with one row for each point and one column for *)
(* each field that any of the points has: a row holds a null where its     *)
(* point has no such field.  The names of IDs, tags and the duration are   *)
(* no annotations and are left out here.                                   *)
(***************************************************************************)
EXTENDS EventCodec

(* schemasFromAnnotations: the "schemas" field of the point.               *)
SchemasField(anns) == ToSet(SchemasOf(anns))

(* The fields Collect gives the point: the last annotation of each key.    *)
Point(anns) == [fields |-> StringMap(anns), schemas |-> SchemasField(anns)]

(* The columns of a query, in InfluxDB's order, and the annotations that   *)
(* spansFromRow makes of one row, nulls as empty values.                   *)
Columns(points) == UNION {{p.key : p \in pt.fields} : pt \in points}

RowAnnotations(pt, points) ==
    LET value(k) == IF \E p \in pt.fields : p.key = k
                    THEN (CHOOSE p \in pt.fields : p.key = k).val ELSE ""
    IN  Sorted({Pair(k, value(k)) : k \in Columns(points)})

(* Slip: every schema of the table is taken for one of the row.            *)
KeepsSchemas(anns, schemas) == anns

(* The schema annotations of other rows do not belong to this one.         *)
filterSchemas(anns, schemas) ==
    Only(anns, {a \in ToSet(anns) : IsSchema(a.key) => a.key[1] \in schemas})

(* The annotations of the span are made again from its events: others are  *)
(* lost.                                                                   *)
annotationsFromEvents(anns) ==
    FlattenSeq([i \in DOMAIN UnmarshalEvents(anns) |-> MarshalEvent(UnmarshalEvents(anns)[i])])

spansFromRow(pt, points) ==
    annotationsFromEvents(filterSchemas(RowAnnotations(pt, points), pt.schemas))
=============================================================================
