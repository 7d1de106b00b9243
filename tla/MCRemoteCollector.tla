-------------------------- MODULE MCRemoteCollector --------------------------
(* RemoteCollector and CollectorServer for TLC: four calls, two connections. *)
EXTENDS RemoteCollector
=============================================================================
