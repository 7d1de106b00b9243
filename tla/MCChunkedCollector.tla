-------------------------- MODULE MCChunkedCollector --------------------------
(* Model checking of ChunkedCollector: a queue with room for two small       *)
(* collections, the background goroutine and a caller of Flush beside it.    *)
EXTENDS ChunkedCollector, TLC

SpanSymmetry == Permutations(Spans)
=============================================================================
