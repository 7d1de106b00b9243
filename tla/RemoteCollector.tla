--------------------------- MODULE RemoteCollector ---------------------------
(***************************************************************************)
(* appdash.RemoteCollector and CollectorServer (collector.go): a client    *)
(* that writes packets to a connection it replaces when a write fails, and *)
(* a server with a goroutine (handler) for each connection that hands what *)
(* it reads to a local Collector.                                          *)
(*                                                                         *)
(* Collect holds rc.mu from its first write to its return, so the client's *)
(* calls do not overlap; the network and the server go on in between.  A   *)
(* packet is the number of the Collect call that sends it, so a connection *)
(* delivers its packets in ascending order.                                *)
(*                                                                         *)
(* The network is TCP: what arrives over a connection is a prefix of what  *)
(* was written; a write that succeeds says nothing of delivery; a write    *)
(* that fails did not get all of its packet out, but perhaps the beginning *)
(* of it, and no write to that connection succeeds after it.  The server   *)
(* may never hear that a connection was lost: handleConn sets no deadline. *)
(***************************************************************************)
EXTENDS Naturals, FiniteSets

CONSTANTS
    MaxCalls,   \* bound: calls of Collect
    MaxConns    \* bound: connections dialled

ASSUME BoundsAssumption == MaxCalls \in Nat /\ MaxConns \in Nat

Packets == 1..MaxCalls
Conns   == 1..MaxConns

VARIABLES
    pconn,      \* rc.pconn: a connection, 0 for nil
    call,       \* the Collect under way: "none", "connect" or "resend"
    calls,      \* number of Collect calls, and the packet of the latest
    dialed,     \* number of connections dialled
    closed,     \* connections the client has closed
    link,       \* connection -> "up", "dead", or "broken": the client knows
    stream,     \* connection -> packets in transit
    torn,       \* connection -> the packet half of which follows them, 0 for none
    silent,     \* connections lost without a word to the handler that reads them
    handler,    \* connection -> "none", "reading", "collecting" or "ended"
    hand,       \* connection -> the packet its handler has read, 0 for none
    written,    \* history: connection -> packets written without an error
    collected,  \* history: packets the server's Collector took
    dropped     \* history: packets lost on the way, refused, or reported as not sent

clientVars  == <<pconn, call, calls, dialed, closed, written>>
serverVars == <<handler, hand, collected>>
lineVars   == <<link, stream, torn, silent>>
vars == <<clientVars, lineVars, serverVars, dropped>>

Init ==
    /\ pconn = 0 /\ call = "none" /\ calls = 0
    /\ dialed = 0 /\ closed = {}
    /\ link = [c \in Conns |-> "up"]
    /\ stream = [c \in Conns |-> {}]
    /\ torn = [c \in Conns |-> 0] /\ silent = {}
    /\ handler = [c \in Conns |-> "none"] /\ hand = [c \in Conns |-> 0]
    /\ written = [c \in Conns |-> {}]
    /\ collected = {} /\ dropped = {}

-----------------------------------------------------------------------------
(* rc.collect: WriteMsg on the current connection.  A dead connection      *)
(* swallows what is written to it until the client finds out.              *)
WriteOK(p) ==
    /\ link[pconn] # "broken"
    /\ written' = [written EXCEPT ![pconn] = @ \cup {p}]
    /\ IF link[pconn] = "up"
         THEN stream' = [stream EXCEPT ![pconn] = @ \cup {p}] /\ UNCHANGED dropped
         ELSE dropped' = dropped \cup {p} /\ UNCHANGED stream
    /\ UNCHANGED <<link, torn, silent>>

(* The network loses connection c: a reset tells the server, or nothing    *)
(* does, and then it does not learn of the client's FIN either.            *)
Loses(c) == silent' \in {silent, silent \cup {c}}

(* The client learns that the connection is lost, or it breaks under the   *)
(* write, and the beginning of the packet is on its way.                   *)
WriteFails(p) ==
    /\ link' = [link EXCEPT ![pconn] = "broken"]
    /\ \/ link[pconn] # "up" /\ UNCHANGED <<torn, silent>>
       \/ link[pconn] = "up" /\ torn' = [torn EXCEPT ![pconn] = p] /\ Loses(pconn)
    /\ UNCHANGED <<stream, written>>

(* collectAndRetry, up to the first return or the call of connect.         *)
NextCall == call = "none" /\ calls < MaxCalls /\ calls' = calls + 1

CollectWrites ==
    /\ NextCall /\ pconn # 0
    /\ WriteOK(calls')
    /\ UNCHANGED <<pconn, call, dialed, closed, serverVars>>

CollectMustConnect ==
    /\ NextCall
    /\ \/ pconn = 0 /\ UNCHANGED <<lineVars, written>>
       \/ pconn # 0 /\ WriteFails(calls')
    /\ call' = "connect"
    /\ UNCHANGED <<pconn, dialed, closed, serverVars, dropped>>

(* connect, called with the packet still to send: the old connection goes  *)
(* first.  Without a new one Collect returns the error.                    *)
CloseOld == closed' = IF pconn # 0 THEN closed \cup {pconn} ELSE closed

ConnectDials ==
    /\ call = "connect" /\ dialed < MaxConns
    /\ CloseOld
    /\ dialed' = dialed + 1
    /\ pconn' = dialed'
    /\ call' = "resend"
    /\ UNCHANGED <<calls, lineVars, serverVars, written, dropped>>

ConnectFails ==
    /\ call = "connect"
    /\ CloseOld
    /\ pconn' = 0
    /\ call' = "none"
    /\ dropped' = dropped \cup {calls}
    /\ UNCHANGED <<calls, dialed, lineVars, serverVars, written>>

(* The last write; its error is the result.  The connection stays rc.pconn *)
(* either way.                                                             *)
Resend ==
    /\ call = "resend"
    /\ call' = "none"
    /\ \/ WriteOK(calls)
       \/ WriteFails(calls) /\ dropped' = dropped \cup {calls}
    /\ UNCHANGED <<pconn, calls, dialed, closed, serverVars>>

Close ==
    /\ call = "none" /\ pconn # 0
    /\ closed' = closed \cup {pconn}
    /\ pconn' = 0
    /\ UNCHANGED <<call, calls, dialed, lineVars, serverVars, written, dropped>>

-----------------------------------------------------------------------------
(* Slip: Start serves the first client itself and accepts no other then.   *)
AcceptsOne(c) ==
    /\ c <= dialed /\ handler[c] = "none"
    /\ \A d \in Conns : handler[d] \in {"none", "ended"}
    /\ handler' = [handler EXCEPT ![c] = IF c = 1 THEN "reading" ELSE "none"]
    /\ UNCHANGED <<clientVars, lineVars, hand, collected, dropped>>

(* CollectorServer.Start accepts a connection.  An error of Accept is      *)
(* logged and changes nothing.                                             *)
Accept(c) ==
    /\ c <= dialed /\ handler[c] = "none"
    /\ handler' = [handler EXCEPT ![c] = "reading"]
    /\ UNCHANGED <<clientVars, lineVars, hand, collected, dropped>>

(* handleConn: the next packet is read whole.                              *)
Read(c) ==
    /\ handler[c] = "reading"
    /\ \E p \in stream[c] :
          /\ \A q \in stream[c] : p <= q
          /\ handler' = [handler EXCEPT ![c] = "collecting"]
          /\ hand' = [hand EXCEPT ![c] = p]
          /\ stream' = [stream EXCEPT ![c] = @ \ {p}]
    /\ UNCHANGED <<clientVars, link, torn, silent, collected, dropped>>

(* handleConn returns, which closes the connection and loses the packets S.*)
Return(c, S) ==
    /\ handler' = [handler EXCEPT ![c] = "ended"]
    /\ hand' = [hand EXCEPT ![c] = 0]
    /\ link' = [link EXCEPT ![c] = IF @ = "up" THEN "dead" ELSE @]
    /\ stream' = [stream EXCEPT ![c] = {}]
    /\ torn' = [torn EXCEPT ![c] = 0] /\ silent' = silent \ {c}
    /\ dropped' = dropped \cup S \cup stream[c]
    /\ UNCHANGED <<clientVars, collected>>

(* The next packet is larger than maxMessageSize: ReadMsg returns an error.*)
ReadTooLarge(c) ==
    /\ handler[c] = "reading" /\ stream[c] # {}
    /\ Return(c, {})

(* The end of what arrives has reached the server: the client's FIN, or a  *)
(* reset.  Nothing else wakes a handler that waits for more.               *)
AtEnd(c) ==
    /\ stream[c] = {}
    /\ c \in closed \/ link[c] # "up"
    /\ c \notin silent

(* Slip: the end of the stream is taken for an error to go on after.       *)
ReadEndOnlyIfDead(c) ==
    /\ handler[c] = "reading" /\ AtEnd(c)
    /\ link[c] # "up"
    /\ Return(c, {})

(* Slip: half a packet before the end is taken for one.                    *)
ReadEndTakesHalf(c) ==
    /\ handler[c] = "reading" /\ AtEnd(c)
    /\ IF torn[c] = 0
         THEN Return(c, {})
         ELSE /\ handler' = [handler EXCEPT ![c] = "collecting"]
              /\ hand' = [hand EXCEPT ![c] = torn[c]]
              /\ torn' = [torn EXCEPT ![c] = 0]
              /\ UNCHANGED <<clientVars, link, stream, silent, collected, dropped>>

(* ReadMsg returns an error at the end, be there half a packet before it   *)
(* or not; so does a connection that is reset.                             *)
ReadEnd(c) ==
    /\ handler[c] = "reading" /\ AtEnd(c)
    /\ Return(c, {})

(* cs.c.Collect takes the packet, or refuses it, which ends the handler.   *)
ServerCollects(c) ==
    /\ handler[c] = "collecting"
    /\ collected' = collected \cup {hand[c]}
    /\ handler' = [handler EXCEPT ![c] = "reading"]
    /\ hand' = [hand EXCEPT ![c] = 0]
    /\ UNCHANGED <<clientVars, lineVars, dropped>>

(* Slip: the error is logged and the handler goes on.                      *)
ServerShrugs(c) ==
    /\ handler[c] = "collecting"
    /\ dropped' = dropped \cup {hand[c]}
    /\ handler' = [handler EXCEPT ![c] = "reading"]
    /\ hand' = [hand EXCEPT ![c] = 0]
    /\ UNCHANGED <<clientVars, lineVars, collected>>

ServerRefuses(c) ==
    /\ handler[c] = "collecting"
    /\ Return(c, {hand[c]})

(* The network drops a connection, and with it all but the first packets   *)
(* in transit.                                                             *)
Cut(c) ==
    /\ c <= dialed /\ link[c] = "up"
    /\ link' = [link EXCEPT ![c] = "dead"]
    /\ \E n \in 0..MaxCalls :
          /\ stream' = [stream EXCEPT ![c] = {p \in @ : p <= n}]
          /\ dropped' = dropped \cup {p \in stream[c] : p > n}
    /\ Loses(c)
    /\ UNCHANGED <<clientVars, torn, serverVars>>

-----------------------------------------------------------------------------
Client == CollectWrites \/ CollectMustConnect \/ ConnectDials \/ ConnectFails
             \/ Resend \/ Close

Serve(c) == Accept(c) \/ Read(c) \/ ReadTooLarge(c) \/ ReadEnd(c)
               \/ ServerCollects(c) \/ ServerRefuses(c)

Next == Client \/ \E c \in Conns : Serve(c) \/ Cut(c)

Spec == Init /\ [][Next]_vars

(* The server accepts connections and each handler, a goroutine of its     *)
(* own, goes on; the Collector behind it returns.  Nothing is asked of the *)
(* client or the network: a lost connection need not be noticed.           *)
FairSpec == Spec /\ \A c \in Conns : WF_vars(Serve(c))

-----------------------------------------------------------------------------
TypeOK ==
    /\ pconn \in 0..dialed /\ dialed \in 0..MaxConns
    /\ call \in {"none", "connect", "resend"} /\ calls \in 0..MaxCalls
    /\ closed \subseteq 1..dialed
    /\ link \in [Conns -> {"up", "dead", "broken"}]
    /\ stream \in [Conns -> SUBSET Packets] /\ written \in [Conns -> SUBSET Packets]
    /\ handler \in [Conns -> {"none", "reading", "collecting", "ended"}]
    /\ hand \in [Conns -> {0} \cup Packets] /\ torn \in [Conns -> {0} \cup Packets]
    /\ silent \subseteq 1..dialed
    /\ collected \subseteq Packets /\ dropped \subseteq Packets

(* The client holds at most one connection open: every other one it        *)
(* dialled is closed, whatever failed and wherever it failed.              *)
OneOpen == 1..dialed \ closed \subseteq {pconn}

(* What the server collects of a connection has no gaps: nothing written   *)
(* before a collected packet is missing.  A refused or unreadable packet   *)
(* ends the connection instead of leaving a hole.                          *)
NoGaps ==
    \A c \in Conns : \A p, q \in written[c] :
        p < q /\ q \in collected => p \in collected

(* A packet on its way over a connection that stays up is collected,       *)
(* whatever happens to the client's other connections.                     *)
Arrives ==
    \A c \in Conns, p \in Packets :
        p \in written[c] ~> p \in collected \/ link[c] # "up"

(* A handler ends once its client has gone over to another connection or   *)
(* closed this one, or a failure of it was reported: the goroutines of     *)
(* clients that reconnect go away.                                         *)
(* The one handler that may stay is that of a connection lost in silence,  *)
(* which waits without a deadline for what never comes.                    *)
HandlersEnd ==
    \A c \in Conns : c <= dialed /\ (c # pconn \/ link[c] # "up")
                        ~> handler[c] = "ended" \/ c \in silent

(* Packets in a Collect call, and in transit or at the handler of each     *)
(* connection.                                                             *)
Pending      == IF call = "none" THEN {} ELSE {calls}
InTransit(c) == stream[c] \cup ({hand[c]} \ {0})
AllInTransit == UNION {InTransit(c) : c \in Conns}
Underway     == Pending \cup AllInTransit

(* Although a failed write is repeated over another connection, the server *)
(* collects a packet once at most, and never one whose Collect failed.     *)
Abstract == INSTANCE AtMostOnce WITH
    Items <- Packets, buffered <- Underway, passed <- collected, dropped <- dropped
ImplementsAtMostOnce == Abstract!Spec
=============================================================================
