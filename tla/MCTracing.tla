------------------------------ MODULE MCTracing ------------------------------
(***************************************************************************)
(* Tracing above two stores: one event, one request that can reach the     *)
(* server twice, an OpenTracing span of two parts and two failures, enough *)
(* for a Collect and the log entry about it to fail.  The handler may      *)
(* write no status, one, or two that differ.                               *)
(***************************************************************************)
EXTENDS Tracing

MCCalls == {<<>>, <<500>>, <<500, 200>>}
MCParts == <<<<"operation">>, <<"timespan">>>>

=============================================================================
