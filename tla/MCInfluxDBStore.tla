---------------------------- MODULE MCInfluxDBStore ----------------------------
(* Model checking of InfluxDBStore: a trace that is a chain of four spans    *)
(* and one of a single span.  The program records the latter, uploads bring  *)
(* the chain; the batch has room for two points.                             *)
EXTENDS InfluxDBStore

MCTraces  == {"t", "o"}
MCSpans   == {"root", "child", "grandchild", "last", "other"}
MCTraceOf == [s \in MCSpans |-> IF s = "other" THEN "o" ELSE "t"]
MCParent  == [s \in MCSpans |-> CASE s = "child"      -> "root"
                                  [] s = "grandchild" -> "child"
                                  [] s = "last"       -> "grandchild"
                                  [] OTHER            -> NoSpan]
MCRecorded == {"other"}
MCUploadOf  == [u \in Uploads |-> <<"root", "child", "grandchild", "last">>]
MCPointSize == [s \in MCSpans |-> 1]
=============================================================================
