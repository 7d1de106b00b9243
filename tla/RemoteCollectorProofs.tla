------------------------ MODULE RemoteCollectorProofs ------------------------
(***************************************************************************)
(* RemoteCollector and CollectorServer for every number of packets and     *)
(* connections: at most one connection is open, nothing is collected       *)
(* twice, and no connection is collected with a gap.                       *)
(***************************************************************************)
EXTENDS RemoteCollector, TLAPS

(* A call that is under way has a packet, and once it has connected it has *)
(* a connection; a handler that collects has a packet.                     *)
Calling ==
    /\ call # "none" => calls # 0
    /\ call = "resend" => pconn # 0
    /\ \A c \in Conns : (handler[c] = "collecting") <=> (hand[c] # 0)

Typed == TypeOK /\ Calling

LEMMA WriteType ==
  ASSUME TypeOK, NEW p \in Packets, WriteOK(p) \/ WriteFails(p)
  PROVE  /\ link' \in [Conns -> {"up", "dead", "broken"}]
         /\ stream' \in [Conns -> SUBSET Packets]
         /\ written' \in [Conns -> SUBSET Packets]
         /\ torn' \in [Conns -> {0} \cup Packets]
         /\ pconn # 0 => silent' \subseteq 1..dialed
         /\ WriteOK(p) => dropped' \subseteq Packets
<1>1. pconn # 0 => pconn \in 1..dialed
  BY BoundsAssumption DEF TypeOK
<1>2. silent' \in {silent, silent \cup {pconn}}
  BY DEF WriteOK, WriteFails, Loses
<1>3. pconn # 0 => silent' \subseteq 1..dialed
  BY <1>1, <1>2 DEF TypeOK
<1> QED
  BY <1>3 DEF TypeOK, WriteOK, WriteFails

LEMMA ClientType == Typed /\ Client => Typed'
<1> SUFFICES ASSUME Typed, Client PROVE Typed'
  OBVIOUS
<1> USE BoundsAssumption DEF Typed, TypeOK, Calling, serverVars, lineVars, Packets
<1>1. CASE CollectWrites
  <2>1. calls' \in Packets /\ calls' \in 0..MaxCalls
    BY <1>1 DEF CollectWrites, NextCall
  <2> QED
    BY <1>1, <2>1, WriteType DEF CollectWrites, NextCall
<1>2. CASE CollectMustConnect
  <2>1. calls' \in Packets /\ calls' \in 0..MaxCalls /\ calls' # 0
    BY <1>2 DEF CollectMustConnect, NextCall
  <2>2. CASE pconn = 0
    BY <1>2, <2>1, <2>2 DEF CollectMustConnect, lineVars
  <2>3. CASE pconn # 0
    BY <1>2, <2>1, <2>3, WriteType DEF CollectMustConnect, lineVars
  <2> QED
    BY <2>2, <2>3
<1>3. CASE ConnectDials
  BY <1>3 DEF ConnectDials, CloseOld, lineVars
<1>4. CASE ConnectFails
  BY <1>4 DEF ConnectFails, CloseOld, lineVars
<1>5. CASE Resend
  <2>1. calls \in Packets
    BY <1>5 DEF Resend
  <2> QED
    BY <1>5, <2>1, WriteType DEF Resend
<1>6. CASE Close
  BY <1>6 DEF Close, lineVars
<1> QED
  BY <1>1, <1>2, <1>3, <1>4, <1>5, <1>6 DEF Client

LEMMA ReturnType ==
  ASSUME Typed, NEW c \in Conns, NEW S \in SUBSET Packets, Return(c, S)
  PROVE  Typed'
BY DEF Typed, TypeOK, Calling, Return, clientVars, lineVars

LEMMA ServerType == Typed /\ (\E c \in Conns : Serve(c) \/ Cut(c)) => Typed'
<1> SUFFICES ASSUME Typed, NEW c \in Conns, Serve(c) \/ Cut(c) PROVE Typed'
  OBVIOUS
<1> USE DEF Typed, TypeOK, Calling, clientVars, lineVars, serverVars
<1>1. CASE Accept(c)
  BY <1>1 DEF Accept
<1>2. CASE Read(c)
  <2>1. PICK p \in stream[c] : /\ handler' = [handler EXCEPT ![c] = "collecting"]
                              /\ hand' = [hand EXCEPT ![c] = p]
                              /\ stream' = [stream EXCEPT ![c] = @ \ {p}]
    BY <1>2 DEF Read
  <2>2. p \in Packets /\ p # 0
    BY BoundsAssumption DEF Packets
  <2> QED
    BY <1>2, <2>1, <2>2 DEF Read
<1>3. CASE ReadTooLarge(c) \/ ReadEnd(c)
  BY <1>3, ReturnType DEF ReadTooLarge, ReadEnd, AtEnd
<1>4. CASE ServerCollects(c)
  BY <1>4 DEF ServerCollects
<1>5. CASE ServerRefuses(c)
  BY <1>5, ReturnType DEF ServerRefuses
<1>6. CASE Cut(c)
  <2>1. c \in 1..dialed
    BY <1>6, BoundsAssumption DEF Cut, Conns
  <2>2. silent' \subseteq 1..dialed'
    BY <1>6, <2>1 DEF Cut, Loses
  <2> QED
    BY <1>6, <2>2 DEF Cut
<1> QED
  BY <1>1, <1>2, <1>3, <1>4, <1>5, <1>6 DEF Serve

LEMMA TypeStep == Typed /\ [Next]_vars => Typed'
<1>1. Typed /\ UNCHANGED vars => Typed'
  BY DEF Typed, TypeOK, Calling, vars, clientVars, lineVars, serverVars
<1> QED
  BY <1>1, ClientType, ServerType DEF Next

LEMMA TypeInit == Init => Typed
BY BoundsAssumption DEF Init, Typed, TypeOK, Calling

LEMMA Types == Spec => []Typed
BY TypeInit, TypeStep, PTL DEF Spec

(* RemoteCollector: the variables keep their types.                        *)
THEOREM TypeCorrect == Spec => []TypeOK
<1>1. Typed => TypeOK
  BY DEF Typed
<1> QED
  BY <1>1, Types, PTL

-----------------------------------------------------------------------------
(* RemoteCollector.connect and Close: whatever failed before, the client   *)
(* has at most one connection that it has not closed.                      *)
THEOREM AtMostOneOpen == Spec => []OneOpen
<1>1. Init => OneOpen
  BY DEF Init, OneOpen
<1>2. Typed /\ OneOpen /\ [Next]_vars => OneOpen'
  <2> SUFFICES ASSUME Typed, OneOpen, [Next]_vars PROVE OneOpen'
    OBVIOUS
  <2> USE DEF OneOpen
  <2>1. CASE ConnectDials
    BY <2>1, BoundsAssumption DEF ConnectDials, CloseOld, Typed, TypeOK
  <2>2. CASE ConnectFails
    BY <2>2 DEF ConnectFails, CloseOld, lineVars
  <2>3. CASE Close
    BY <2>3 DEF Close
  <2>4. CASE UNCHANGED <<pconn, dialed, closed>>
    BY <2>4
  <2> QED
    BY <2>1, <2>2, <2>3, <2>4
    DEF Next, Client, CollectWrites, CollectMustConnect, Resend, Serve, Cut, Accept, Read,
        ReadTooLarge, ReadEnd, ServerCollects, ServerRefuses, Return, vars, clientVars, lineVars
<1> QED
  BY <1>1, <1>2, Types, PTL DEF Spec
-----------------------------------------------------------------------------
(* The packets whose Collect has returned, and those that have arrived at  *)
(* their fate.                                                             *)
Decided == IF call = "none" THEN 1..calls ELSE 1..(calls - 1)
Done    == collected \cup dropped

(* A packet is in one place: written to one connection only, in transit    *)
(* there, collected or dropped.                                            *)
OneFate ==
    /\ collected \cap dropped = {} /\ Done \subseteq Decided
    /\ \A c \in Conns :
          /\ written[c] \subseteq Decided
          /\ InTransit(c) \subseteq written[c] \ Done
          /\ written[c] \subseteq InTransit(c) \cup Done
          /\ hand[c] \notin stream[c]
    /\ \A c, d \in Conns : c # d => written[c] \cap written[d] = {}

(* A connection goes through its packets in order, and stops at the first  *)
(* that is dropped.                                                        *)
OrderedOn(c) ==
    /\ link[c] = "up" => written[c] \cap dropped = {}
    /\ \A p, q \in written[c] :
          p < q => /\ p \in dropped => q \in dropped
                   /\ p \in InTransit(c) => q \notin collected
                   /\ p \in stream[c] => q # hand[c]

Ordered == \A c \in Conns : OrderedOn(c)

Inv == Typed /\ OneFate /\ Ordered

LEMMA InvNoGaps == Inv => NoGaps
<1> SUFFICES ASSUME Inv, NEW c \in Conns, NEW p \in written[c], NEW q \in written[c],
                    p < q, q \in collected
             PROVE  p \in collected
  BY DEF NoGaps
<1> QED
  BY DEF Inv, OneFate, Ordered, OrderedOn, Done

LEMMA InitInv == Init => Inv
<1> SUFFICES ASSUME Init PROVE OneFate /\ Ordered
  BY TypeInit DEF Inv
<1> QED
  BY DEF Init, OneFate, Ordered, OrderedOn, InTransit, Done, Decided

(* A write that succeeds, of a packet p that was in no place yet.          *)
LEMMA WriteInv ==
  ASSUME Inv, NEW p \in Packets, p \notin Decided, pconn \in Conns,
         WriteOK(p), UNCHANGED serverVars, Decided' = Decided \cup {p}
  PROVE  OneFate' /\ Ordered'
<1>1. p # 0 /\ \A q \in Decided : q < p
  BY BoundsAssumption DEF Inv, Typed, TypeOK, Calling, Decided, Packets
<1>2. /\ written' = [written EXCEPT ![pconn] = @ \cup {p}]
      /\ link' = link /\ hand' = hand /\ collected' = collected
  BY DEF WriteOK, serverVars, lineVars
<1>3. \A c \in Conns : OrderedOn(c) /\ p \notin written[c]
  BY DEF Inv, Ordered, OneFate
<1>4. CASE link[pconn] = "up"
  <2>1. stream' = [stream EXCEPT ![pconn] = @ \cup {p}] /\ dropped' = dropped
    BY <1>4 DEF WriteOK
  <2>2. OneFate'
    BY <1>1, <1>2, <2>1 DEF Inv, Typed, TypeOK, OneFate, InTransit, Done
  <2>3. ASSUME NEW c \in Conns PROVE OrderedOn(c)'
    <3>1. CASE c # pconn
      BY <1>2, <1>3, <2>1, <3>1 DEF OrderedOn, InTransit, Inv, Typed, TypeOK
    <3>2. CASE c = pconn
      <4>1. /\ written'[c] = written[c] \cup {p} /\ stream'[c] = stream[c] \cup {p}
            /\ hand'[c] = hand[c] /\ p # hand[c] /\ p \notin Done
        BY <1>1, <1>2, <2>1, <3>2 DEF Inv, Typed, TypeOK, OneFate, InTransit
      <4>2. \A q \in written[c] : q \in Nat /\ p \in Nat /\ q < p
        BY <1>1, BoundsAssumption DEF Inv, Typed, TypeOK, OneFate, Packets
      <4>3. written[c] \cap dropped = {}
        BY <1>4, <1>3, <3>2 DEF OrderedOn
      <4> QED
        BY <1>2, <1>3, <2>1, <4>1, <4>2, <4>3 DEF OrderedOn, InTransit, Done
    <3> QED
      BY <3>1, <3>2
  <2> QED
    BY <2>2, <2>3 DEF Ordered
<1>5. CASE link[pconn] # "up"
  <2>1. stream' = stream /\ dropped' = dropped \cup {p}
    BY <1>5 DEF WriteOK
  <2>2. OneFate'
    BY <1>1, <1>2, <2>1 DEF Inv, Typed, TypeOK, OneFate, InTransit, Done
  <2>3. ASSUME NEW c \in Conns PROVE OrderedOn(c)'
    <3>1. /\ stream'[c] = stream[c] /\ hand'[c] = hand[c] /\ p \notin InTransit(c)
          /\ p \notin written[c] /\ p \notin Done /\ p # hand[c]
      BY <1>1, <1>2, <2>1 DEF Inv, OneFate, InTransit
    <3>2. CASE c # pconn
      BY <1>2, <1>3, <2>1, <3>1, <3>2 DEF OrderedOn, InTransit, Inv, Typed, TypeOK
    <3>3. CASE c = pconn
      <4>1. written'[c] = written[c] \cup {p} /\ link'[c] # "up"
        BY <1>2, <1>5, <3>3 DEF Inv, Typed, TypeOK
      <4>2. \A q \in written[c] : q \in Nat /\ p \in Nat /\ q < p
        BY <1>1, BoundsAssumption DEF Inv, Typed, TypeOK, OneFate, Packets
      <4> QED
        BY <1>2, <1>3, <2>1, <3>1, <4>1, <4>2 DEF OrderedOn, InTransit, Done
    <3> QED
      BY <3>2, <3>3
  <2> QED
    BY <2>2, <2>3 DEF Ordered
<1> QED
  BY <1>4, <1>5

(* A call that fails, or one that still goes on.                           *)
LEMMA GiveUpInv ==
  ASSUME Inv, NEW S \in SUBSET Packets, S \cap Decided = {},
         UNCHANGED <<stream, written, serverVars>>,
         \A c \in Conns : link'[c] = "up" => link[c] = "up",
         dropped' = dropped \cup S, Decided' = Decided \cup S
  PROVE  OneFate' /\ Ordered'
<1>1. OneFate'
  BY DEF Inv, OneFate, InTransit, Done, serverVars, lineVars
<1>2. Ordered'
  BY DEF Inv, OneFate, Ordered, OrderedOn, InTransit, Done, serverVars, lineVars
<1> QED
  BY <1>1, <1>2

LEMMA ClientInv == Inv /\ Client => OneFate' /\ Ordered'
<1> SUFFICES ASSUME Inv, Client PROVE OneFate' /\ Ordered'
  OBVIOUS
<1>1. pconn # 0 => pconn \in Conns
  BY BoundsAssumption DEF Inv, Typed, TypeOK, Conns
<1>2. calls \in Nat
  BY BoundsAssumption DEF Inv, Typed, TypeOK
<1>3. CASE CollectWrites
  <2>1. calls' \in Packets /\ calls' \notin Decided /\ Decided' = Decided \cup {calls'}
    BY <1>2, <1>3, BoundsAssumption DEF CollectWrites, NextCall, Decided, Packets
  <2>2. WriteOK(calls') /\ pconn \in Conns /\ UNCHANGED serverVars
    BY <1>1, <1>3 DEF CollectWrites
  <2> QED
    BY <2>1, <2>2, WriteInv
<1>4. CASE CollectMustConnect
  <2>1. Decided' = Decided
    BY <1>2, <1>4 DEF CollectMustConnect, NextCall, Decided
  <2>2. \A c \in Conns : link'[c] = "up" => link[c] = "up"
    BY <1>1, <1>4 DEF CollectMustConnect, WriteFails, lineVars, Inv, Typed, TypeOK
  <2>3. /\ {} \in SUBSET Packets /\ {} \cap Decided = {}
        /\ dropped' = dropped \cup {} /\ Decided' = Decided \cup {}
        /\ UNCHANGED <<stream, written, serverVars>>
    BY <1>4, <2>1 DEF CollectMustConnect, WriteFails, lineVars
  <2> QED
    BY <2>2, <2>3, GiveUpInv
<1>5. CASE ConnectDials
  BY <1>5 DEF ConnectDials, Decided, Inv, OneFate, Ordered, OrderedOn, InTransit, Done, serverVars, lineVars
<1>6. ASSUME call # "none", call' = "none", calls' = calls
      PROVE  calls \in Packets /\ calls \notin Decided /\ Decided' = Decided \cup {calls}
  BY <1>2, <1>6, BoundsAssumption DEF Decided, Packets, Inv, Typed, TypeOK, Calling
<1>7. CASE ConnectFails
  <2>1. calls \in Packets /\ calls \notin Decided /\ Decided' = Decided \cup {calls}
    BY <1>6, <1>7 DEF ConnectFails, lineVars
  <2>2. {calls} \in SUBSET Packets /\ {calls} \cap Decided = {}
    BY <2>1
  <2>3. /\ UNCHANGED <<stream, written, serverVars>> /\ link' = link
        /\ dropped' = dropped \cup {calls}
    BY <1>7 DEF ConnectFails, lineVars
  <2> QED
    BY <2>1, <2>2, <2>3, GiveUpInv
<1>8. CASE Resend
  <2>1. calls \in Packets /\ calls \notin Decided /\ Decided' = Decided \cup {calls}
    BY <1>6, <1>8 DEF Resend
  <2>2. CASE WriteOK(calls)
    BY <1>1, <1>8, <2>1, <2>2, WriteInv DEF Resend, Inv, Typed, Calling
  <2>3. CASE WriteFails(calls) /\ dropped' = dropped \cup {calls}
    <3>1. \A c \in Conns : link'[c] = "up" => link[c] = "up"
      BY <2>3 DEF WriteFails, Inv, Typed, TypeOK
    <3>2. {calls} \in SUBSET Packets /\ {calls} \cap Decided = {}
      BY <2>1
    <3>3. UNCHANGED <<stream, written, serverVars>>
      BY <1>8, <2>3 DEF Resend, WriteFails
    <3> QED
      BY <2>1, <2>3, <3>1, <3>2, <3>3, GiveUpInv
  <2> QED
    BY <1>8, <2>2, <2>3 DEF Resend
<1>9. CASE Close
  BY <1>9 DEF Close, Decided, Inv, OneFate, Ordered, OrderedOn, InTransit, Done, serverVars, lineVars
<1> QED
  BY <1>3, <1>4, <1>5, <1>7, <1>8, <1>9 DEF Client

-----------------------------------------------------------------------------
LEMMA ReturnInv ==
  ASSUME Inv, NEW c \in Conns, Return(c, {hand[c]} \ {0})
  PROVE  OneFate' /\ Ordered'
<1>1. /\ hand' = [hand EXCEPT ![c] = 0] /\ stream' = [stream EXCEPT ![c] = {}]
      /\ dropped' = dropped \cup InTransit(c)
      /\ collected' = collected /\ written' = written /\ Decided' = Decided
  BY DEF Return, InTransit, clientVars, lineVars, Decided
<1>2. link' = [link EXCEPT ![c] = IF @ = "up" THEN "dead" ELSE @]
  BY DEF Return
<1>3. OneFate'
  BY <1>1 DEF Inv, Typed, TypeOK, OneFate, InTransit, Done
<1>4. Ordered'
  BY <1>1, <1>2 DEF Inv, Typed, TypeOK, OneFate, Ordered, OrderedOn, InTransit, Done
<1> QED
  BY <1>3, <1>4

LEMMA ServerInv == Inv /\ (\E c \in Conns : Serve(c) \/ Cut(c)) => OneFate' /\ Ordered'
<1> SUFFICES ASSUME Inv, NEW c \in Conns, Serve(c) \/ Cut(c) PROVE OneFate' /\ Ordered'
  OBVIOUS
<1>1. CASE Accept(c)
  BY <1>1 DEF Accept, clientVars, lineVars, Decided, Inv, OneFate, Ordered, OrderedOn, InTransit, Done
<1>2. CASE Read(c)
  <2>1. PICK p \in stream[c] : /\ \A q \in stream[c] : p <= q
                              /\ hand' = [hand EXCEPT ![c] = p]
                              /\ stream' = [stream EXCEPT ![c] = @ \ {p}]
    BY <1>2 DEF Read
  <2>2. hand[c] = 0 /\ p # 0
    BY <1>2, <2>1, BoundsAssumption DEF Read, Inv, Typed, TypeOK, Calling, Packets
  <2>3. /\ link' = link /\ collected' = collected /\ dropped' = dropped
        /\ written' = written /\ Decided' = Decided
    BY <1>2 DEF Read, clientVars, lineVars, Decided
  <2>4. OneFate'
    BY <2>1, <2>2, <2>3 DEF Inv, Typed, TypeOK, OneFate, InTransit, Done
  <2>5. stream[c] \subseteq Nat /\ \A d \in Conns : written[d] \subseteq Nat
    BY BoundsAssumption DEF Inv, Typed, TypeOK, Packets
  <2>6. Ordered'
    BY <2>1, <2>2, <2>3, <2>5 DEF Inv, Typed, TypeOK, OneFate, Ordered, OrderedOn, InTransit, Done
  <2> QED
    BY <2>4, <2>6
<1>3. CASE ReadTooLarge(c) \/ ReadEnd(c)
  <2>1. {hand[c]} \ {0} = {}
    BY <1>3 DEF ReadTooLarge, ReadEnd, AtEnd, Inv, Typed, Calling
  <2> QED
    BY <1>3, <2>1, ReturnInv DEF ReadTooLarge, ReadEnd, AtEnd
<1>4. CASE ServerCollects(c)
  <2>1. hand[c] # 0
    BY <1>4 DEF ServerCollects, Inv, Typed, Calling
  <2>2. /\ link' = link /\ dropped' = dropped /\ stream' = stream
        /\ collected' = collected \cup {hand[c]} /\ hand' = [hand EXCEPT ![c] = 0]
        /\ written' = written /\ Decided' = Decided
    BY <1>4 DEF ServerCollects, clientVars, lineVars, Decided
  <2> DEFINE p == hand[c]
  <2>3. /\ p \in written[c] /\ p \notin Done /\ p \in InTransit(c) /\ p \in Decided
        /\ \A d \in Conns : d # c => p \notin written[d]
    BY <2>1 DEF Inv, OneFate, InTransit
  <2>4. /\ \A d \in Conns : InTransit(d)' = IF d = c THEN InTransit(c) \ {p} ELSE InTransit(d)
        /\ Done' = Done \cup {p}
    BY <2>1, <2>2 DEF Inv, Typed, TypeOK, OneFate, InTransit, Done
  <2>5. hand'[c] = 0 /\ \A d \in Conns : d # c => hand'[d] = hand[d]
    BY <2>2 DEF Inv, Typed, TypeOK
  <2>6. 0 \notin stream[c]
    BY BoundsAssumption DEF Inv, Typed, TypeOK, Packets
  <2> HIDE DEF p
  <2>7. OneFate'
    BY <2>2, <2>3, <2>4, <2>5, <2>6 DEF Inv, OneFate, Done
  <2>8. ASSUME NEW d \in Conns PROVE OrderedOn(d)'
    <3>1. OrderedOn(d)
      BY DEF Inv, Ordered
    <3>2. CASE d # c
      <4>1. InTransit(d)' = InTransit(d) /\ hand'[d] = hand[d] /\ p \notin written[d]
        BY <2>3, <2>4, <2>5, <3>2
      <4> QED
        BY <2>2, <3>1, <4>1 DEF OrderedOn, p
    <3>3. CASE d = c
      <4>1. InTransit(c)' = InTransit(c) \ {p} /\ InTransit(c)' = stream[c]
        BY <2>2, <2>4, <2>5 DEF InTransit
      <4>2. 0 \notin written[c]
        BY BoundsAssumption DEF Inv, Typed, TypeOK, Packets
      <4> QED
        BY <2>2, <2>5, <3>1, <3>3, <4>1, <4>2 DEF OrderedOn, p
    <3> QED
      BY <3>2, <3>3
  <2> QED
    BY <2>7, <2>8 DEF Ordered
<1>5. CASE ServerRefuses(c)
  <2>1. {hand[c]} \ {0} = {hand[c]}
    BY <1>5 DEF ServerRefuses, Inv, Typed, Calling
  <2> QED
    BY <1>5, <2>1, ReturnInv DEF ServerRefuses
<1>6. CASE Cut(c)
  <2>1. PICK n \in 0..MaxCalls :
              /\ stream' = [stream EXCEPT ![c] = {p \in @ : p <= n}]
              /\ dropped' = dropped \cup {p \in stream[c] : p > n}
    BY <1>6 DEF Cut, Loses
  <2>2. /\ link' = [link EXCEPT ![c] = "dead"] /\ hand' = hand /\ collected' = collected
        /\ written' = written /\ Decided' = Decided /\ link[c] = "up"
    BY <1>6 DEF Cut, Loses, clientVars, lineVars, serverVars, Decided
  <2>3. n \in Nat /\ \A d \in Conns : written[d] \subseteq Nat /\ stream[d] \subseteq Nat
    BY BoundsAssumption DEF Inv, Typed, TypeOK, Packets
  <2> DEFINE Lost == {p \in stream[c] : p > n}
  <2>4. /\ stream' = [stream EXCEPT ![c] = @ \ Lost]
        /\ dropped' = dropped \cup Lost /\ Lost \subseteq stream[c]
    <3>1. \A p \in stream[c] : p <= n <=> p \notin Lost
      BY <2>3
    <3>2. {p \in stream[c] : p <= n} = stream[c] \ Lost
      BY <3>1
    <3> QED
      BY <2>1, <3>2
  <2>5. \A p, q \in written[c] : p < q /\ p \in Lost /\ q \in stream[c] => q \in Lost
    BY <2>3
  <2> HIDE DEF Lost
  <2>6. OneFate'
    BY <2>2, <2>4 DEF Inv, Typed, TypeOK, OneFate, InTransit, Done
  <2>7. ASSUME NEW d \in Conns PROVE OrderedOn(d)'
    <3>1. OrderedOn(d) /\ Lost \subseteq written[c] /\ written'[d] = written[d] /\ hand'[d] = hand[d]
      BY <2>2, <2>4 DEF Inv, Ordered, OneFate, InTransit
    <3>2. CASE d # c
      BY <2>2, <2>4, <3>1, <3>2 DEF OrderedOn, InTransit, Inv, Typed, TypeOK, OneFate
    <3>3. CASE d = c
      <4>1. /\ stream'[c] = stream[c] \ Lost /\ link'[c] = "dead"
            /\ written[c] \subseteq InTransit(c) \cup Done
            /\ written[c] \cap dropped = {}
        BY <2>2, <2>4, <3>1, <3>3 DEF OrderedOn, Inv, Typed, TypeOK, OneFate
      <4> QED
        BY <2>2, <2>4, <2>5, <3>1, <3>3, <4>1 DEF OrderedOn, InTransit, Done
    <3> QED
      BY <3>2, <3>3
  <2> QED
    BY <2>6, <2>7 DEF Ordered
<1> QED
  BY <1>1, <1>2, <1>3, <1>4, <1>5, <1>6 DEF Serve

LEMMA NextInv == Inv /\ [Next]_vars => Inv'
<1>1. Inv /\ UNCHANGED vars => OneFate' /\ Ordered'
  BY DEF Inv, OneFate, Ordered, OrderedOn, InTransit, Done, Decided, vars, clientVars, lineVars, serverVars
<1> QED
  BY <1>1, TypeStep, ClientInv, ServerInv DEF Next, Inv

LEMMA Invariance == Spec => []Inv
BY InitInv, NextInv, PTL DEF Spec

(* CollectorServer.handleConn: what is collected of a connection has no    *)
(* gaps, whichever packets are refused, too large or lost.                 *)
THEOREM NeverAGap == Spec => []NoGaps
BY Invariance, InvNoGaps, PTL

-----------------------------------------------------------------------------
(* RemoteCollector and CollectorServer implement AtMostOnce: a step of     *)
(* theirs puts a packet under way, takes some out, or does neither.        *)
LEMMA Apart ==
  ASSUME Inv
  PROVE  /\ Pending \cap Decided = {} /\ Pending \subseteq Packets
         /\ AllInTransit \subseteq Decided /\ AllInTransit \subseteq Packets
         /\ AllInTransit \cap Done = {} /\ Done \subseteq Decided
         /\ \A c, d \in Conns : c # d => InTransit(c) \cap InTransit(d) = {}
<1>1. Pending \cap Decided = {} /\ Pending \subseteq Packets
  BY BoundsAssumption DEF Inv, Typed, TypeOK, Calling, Pending, Decided, Packets
<1>2. \A c \in Conns : InTransit(c) \subseteq written[c] \ Done /\ written[c] \subseteq Packets
  BY DEF Inv, Typed, TypeOK, OneFate
<1> QED
  BY <1>1, <1>2 DEF Inv, OneFate, AllInTransit

LEMMA WriteUnderway ==
  ASSUME Inv, NEW p \in Packets, pconn \in Conns, WriteOK(p), UNCHANGED serverVars
  PROVE  \/ AllInTransit' = AllInTransit \cup {p} /\ dropped' = dropped
         \/ AllInTransit' = AllInTransit /\ dropped' = dropped \cup {p}
<1>1. hand' = hand
  BY DEF serverVars, lineVars
<1>2. CASE link[pconn] = "up"
  <2>1. stream' = [stream EXCEPT ![pconn] = @ \cup {p}] /\ dropped' = dropped
    BY <1>2 DEF WriteOK
  <2>2. \A c \in Conns : InTransit(c)' = IF c = pconn THEN InTransit(c) \cup {p} ELSE InTransit(c)
    BY <1>1, <2>1 DEF Inv, Typed, TypeOK, InTransit
  <2> QED
    BY <2>1, <2>2 DEF AllInTransit
<1>3. CASE link[pconn] # "up"
  BY <1>1, <1>3 DEF WriteOK, InTransit, AllInTransit
<1> QED
  BY <1>2, <1>3

(* A handler or the network takes the packets S off connection c.          *)
LEMMA TakenOff ==
  ASSUME Inv, NEW c \in Conns, NEW S \in SUBSET InTransit(c),
         \A d \in Conns : InTransit(d)' = IF d = c THEN InTransit(c) \ S ELSE InTransit(d)
  PROVE  AllInTransit' = AllInTransit \ S
BY Apart DEF AllInTransit

LEMMA Accepts ==
  ASSUME NEW p \in Packets, p \notin Underway \cup Done, collected' = collected,
         \/ Underway' = Underway \cup {p} /\ dropped' = dropped
         \/ Underway' = Underway /\ dropped' = dropped \cup {p}
  PROVE  Abstract!Next
<1>1. p \in Abstract!New
  BY DEF Abstract!New, Done
<1>2. CASE Underway' = Underway \cup {p} /\ dropped' = dropped
  BY <1>1, <1>2 DEF Abstract!Next, Abstract!Accept
<1>3. CASE Underway' = Underway /\ dropped' = dropped \cup {p}
  <2>1. Abstract!Reject(p, {})
    BY <1>1, <1>3 DEF Abstract!Reject
  <2>2. {} \in SUBSET Underway
    OBVIOUS
  <2> QED
    BY <2>1, <2>2 DEF Abstract!Next
<1> QED
  BY <1>2, <1>3

LEMMA Drops ==
  ASSUME NEW S \in SUBSET Underway, collected' = collected,
         Underway' = Underway \ S, dropped' = dropped \cup S
  PROVE  Abstract!Next
BY DEF Abstract!Next, Abstract!Drop

LEMMA ClientRefines ==
  Inv /\ Client => Abstract!Next \/ UNCHANGED <<Underway, collected, dropped>>
<1> SUFFICES ASSUME Inv, Client
             PROVE  Abstract!Next \/ UNCHANGED <<Underway, collected, dropped>>
  OBVIOUS
<1>1. pconn # 0 => pconn \in Conns
  BY BoundsAssumption DEF Inv, Typed, TypeOK, Conns
<1>2. calls \in Nat
  BY BoundsAssumption DEF Inv, Typed, TypeOK
<1>3. ASSUME NextCall
      PROVE  calls' \in Packets /\ calls' \notin Underway \cup Done /\ Pending = {}
  <2>1. calls' \in Packets /\ Decided = 1..calls /\ Pending = {} /\ calls' \notin Decided
    BY <1>2, <1>3, BoundsAssumption DEF NextCall, Packets, Decided, Pending
  <2> QED
    BY <2>1, Apart DEF Underway
<1>4. CASE CollectWrites
  <2>1. NextCall /\ WriteOK(calls') /\ pconn \in Conns /\ call' = call
        /\ UNCHANGED serverVars /\ collected' = collected
    BY <1>1, <1>4 DEF CollectWrites, serverVars, lineVars
  <2>2. Pending' = {}
    BY <2>1 DEF NextCall, Pending
  <2>3. PICK p \in Packets : p = calls'
    BY <1>3, <2>1
  <2>4. \/ AllInTransit' = AllInTransit \cup {p} /\ dropped' = dropped
        \/ AllInTransit' = AllInTransit /\ dropped' = dropped \cup {p}
    BY <2>1, <2>3, WriteUnderway
  <2>5. p \notin Underway \cup Done
    BY <1>3, <2>1, <2>3
  <2> QED
    BY <1>3, <2>1, <2>2, <2>4, <2>5, Accepts DEF Underway
<1>5. CASE CollectMustConnect
  <2>1. NextCall /\ call' = "connect" /\ UNCHANGED <<stream, hand, collected, dropped>>
    BY <1>5 DEF CollectMustConnect, WriteFails, serverVars, lineVars
  <2>2. Pending' = {calls'} /\ AllInTransit' = AllInTransit
    BY <2>1 DEF Pending, AllInTransit, InTransit
  <2>3. PICK p \in Packets : p = calls'
    BY <1>3, <2>1
  <2>4. Underway' = Underway \cup {p} /\ p \notin Underway \cup Done
    BY <1>3, <2>1, <2>2, <2>3 DEF Underway
  <2> QED
    BY <2>1, <2>4, Accepts
<1>6. CASE ConnectDials \/ Close
  BY <1>6 DEF ConnectDials, Close, serverVars, lineVars, Underway, Pending, AllInTransit, InTransit
<1>7. ASSUME call # "none", call' = "none"
      PROVE  /\ Pending = {calls} /\ Pending' = {} /\ calls \in Packets
             /\ calls \notin AllInTransit
  BY <1>7, Apart DEF Pending
<1>8. ASSUME call # "none", call' = "none", AllInTransit' = AllInTransit,
             collected' = collected, dropped' = dropped \cup {calls}
      PROVE  Abstract!Next
  <2>1. {calls} \in SUBSET Underway /\ Underway' = Underway \ {calls}
    BY <1>7, <1>8 DEF Underway
  <2> QED
    BY <1>8, <2>1, Drops
<1>9. CASE ConnectFails
  BY <1>8, <1>9 DEF ConnectFails, serverVars, lineVars, AllInTransit, InTransit
<1>10. CASE Resend
  <2>1. call # "none" /\ call' = "none" /\ UNCHANGED serverVars /\ collected' = collected
    BY <1>10 DEF Resend, serverVars, lineVars
  <2>2. CASE WriteOK(calls)
    <3>1. PICK p \in Packets : p = calls
      BY <1>7, <2>1
    <3>2. pconn \in Conns
      BY <1>1, <1>10 DEF Resend, Inv, Typed, Calling
    <3>3. CASE AllInTransit' = AllInTransit \cup {p} /\ dropped' = dropped
      BY <1>7, <2>1, <3>1, <3>3 DEF Underway
    <3>4. CASE AllInTransit' = AllInTransit /\ dropped' = dropped \cup {p}
      BY <1>8, <2>1, <3>1, <3>4
    <3> QED
      BY <2>1, <2>2, <3>1, <3>2, <3>3, <3>4, WriteUnderway
  <2>3. CASE WriteFails(calls) /\ dropped' = dropped \cup {calls}
    BY <1>8, <2>1, <2>3 DEF WriteFails, serverVars, lineVars, AllInTransit, InTransit
  <2> QED
    BY <1>10, <2>2, <2>3 DEF Resend
<1> QED
  BY <1>4, <1>5, <1>6, <1>9, <1>10 DEF Client

LEMMA ReturnDrops ==
  ASSUME Inv, NEW c \in Conns, Return(c, {hand[c]} \ {0})
  PROVE  Abstract!Next
<1>1. /\ hand' = [hand EXCEPT ![c] = 0] /\ stream' = [stream EXCEPT ![c] = {}]
      /\ dropped' = dropped \cup InTransit(c) /\ collected' = collected /\ Pending' = Pending
  BY DEF Return, InTransit, clientVars, lineVars, Pending
<1>2. \A d \in Conns : InTransit(d)' = IF d = c THEN InTransit(c) \ InTransit(c) ELSE InTransit(d)
  BY <1>1 DEF Inv, Typed, TypeOK, InTransit
<1>3. AllInTransit' = AllInTransit \ InTransit(c) /\ InTransit(c) \subseteq AllInTransit
  BY <1>2, TakenOff DEF AllInTransit
<1>4. Underway' = Underway \ InTransit(c) /\ InTransit(c) \in SUBSET Underway
  BY <1>1, <1>3, Apart DEF Underway
<1> QED
  BY <1>1, <1>4, Drops

LEMMA ServerRefines ==
  Inv /\ (\E c \in Conns : Serve(c) \/ Cut(c))
    => Abstract!Next \/ UNCHANGED <<Underway, collected, dropped>>
<1> SUFFICES ASSUME Inv, NEW c \in Conns, Serve(c) \/ Cut(c)
             PROVE  Abstract!Next \/ UNCHANGED <<Underway, collected, dropped>>
  OBVIOUS
<1>1. CASE Accept(c)
  BY <1>1 DEF Accept, clientVars, lineVars, Underway, Pending, AllInTransit, InTransit
<1>2. CASE Read(c)
  <2>1. PICK p \in stream[c] : /\ hand' = [hand EXCEPT ![c] = p]
                              /\ stream' = [stream EXCEPT ![c] = @ \ {p}]
    BY <1>2 DEF Read
  <2>2. hand[c] = 0 /\ p # 0
    BY <1>2, BoundsAssumption DEF Read, Inv, Typed, TypeOK, Calling, Packets
  <2>3. \A d \in Conns : InTransit(d)' = InTransit(d)
    BY <2>1, <2>2 DEF Inv, Typed, TypeOK, InTransit
  <2>4. AllInTransit' = AllInTransit
    BY <2>3 DEF AllInTransit
  <2> QED
    BY <1>2, <2>4 DEF Read, clientVars, lineVars, Underway, Pending
<1>3. CASE ReadTooLarge(c) \/ ReadEnd(c)
  <2>1. {hand[c]} \ {0} = {}
    BY <1>3 DEF ReadTooLarge, ReadEnd, AtEnd, Inv, Typed, Calling
  <2> QED
    BY <1>3, <2>1, ReturnDrops DEF ReadTooLarge, ReadEnd, AtEnd
<1>4. CASE ServerCollects(c)
  <2>1. /\ hand[c] # 0 /\ hand[c] \notin stream[c]
        /\ hand' = [hand EXCEPT ![c] = 0] /\ stream' = stream /\ Pending' = Pending
        /\ collected' = collected \cup {hand[c]} /\ dropped' = dropped
    BY <1>4 DEF ServerCollects, Inv, Typed, Calling, OneFate, clientVars, lineVars, Pending
  <2> DEFINE S == {hand[c]}
  <2>2. \A d \in Conns : InTransit(d)' = IF d = c THEN InTransit(c) \ S ELSE InTransit(d)
    BY <2>1, BoundsAssumption DEF Inv, Typed, TypeOK, InTransit, Packets
  <2>3. S \subseteq InTransit(c) /\ S \subseteq AllInTransit
    BY <2>1 DEF InTransit, AllInTransit
  <2>4. AllInTransit' = AllInTransit \ S
    BY <2>2, <2>3, TakenOff
  <2>5. Underway' = Underway \ S /\ S \in SUBSET Underway
    BY <2>1, <2>3, <2>4, Apart DEF Underway
  <2>6. Abstract!PassOn(S)
    BY <2>1, <2>5 DEF Abstract!PassOn
  <2> QED
    BY <2>5, <2>6 DEF Abstract!Next
<1>5. CASE ServerRefuses(c)
  <2>1. {hand[c]} \ {0} = {hand[c]}
    BY <1>5 DEF ServerRefuses, Inv, Typed, Calling
  <2> QED
    BY <1>5, <2>1, ReturnDrops DEF ServerRefuses
<1>6. CASE Cut(c)
  <2>1. PICK n \in 0..MaxCalls :
              /\ stream' = [stream EXCEPT ![c] = {p \in @ : p <= n}]
              /\ dropped' = dropped \cup {p \in stream[c] : p > n}
    BY <1>6 DEF Cut, Loses
  <2>2. hand' = hand /\ collected' = collected /\ Pending' = Pending
    BY <1>6 DEF Cut, Loses, clientVars, lineVars, serverVars, Pending
  <2> DEFINE Lost == {p \in stream[c] : p > n}
  <2>3. {p \in stream[c] : p <= n} = stream[c] \ Lost
    BY BoundsAssumption DEF Inv, Typed, TypeOK, Packets
  <2>4. Lost \subseteq stream[c] /\ hand[c] \notin stream[c]
    BY DEF Inv, OneFate
  <2> HIDE DEF Lost
  <2>5. stream' = [stream EXCEPT ![c] = stream[c] \ Lost] /\ dropped' = dropped \cup Lost
    BY <2>1, <2>3 DEF Lost
  <2>6. \A d \in Conns : InTransit(d)' = IF d = c THEN InTransit(c) \ Lost ELSE InTransit(d)
    BY <2>2, <2>4, <2>5 DEF Inv, Typed, TypeOK, InTransit
  <2>7. Lost \subseteq InTransit(c) /\ Lost \subseteq AllInTransit
    BY <2>4 DEF InTransit, AllInTransit
  <2>8. AllInTransit' = AllInTransit \ Lost
    BY <2>6, <2>7, TakenOff
  <2>9. Underway' = Underway \ Lost /\ Lost \in SUBSET Underway
    BY <2>2, <2>7, <2>8, Apart DEF Underway
  <2> QED
    BY <2>2, <2>5, <2>9, Drops
<1> QED
  BY <1>1, <1>2, <1>3, <1>4, <1>5, <1>6 DEF Serve

(* RemoteCollector.collectAndRetry with CollectorServer.handleConn: a      *)
(* packet is collected once at most, retried or not, and not at all once   *)
(* its Collect returned an error.                                          *)
THEOREM DeliversAtMostOnce == Spec => ImplementsAtMostOnce
<1>1. Init => Abstract!Init
  <2> SUFFICES ASSUME Init PROVE Abstract!Init
    OBVIOUS
  <2>1. Underway = {}
    BY DEF Init, Underway, Pending, AllInTransit, InTransit
  <2> QED
    BY <2>1 DEF Init, Abstract!Init
<1>2. Inv /\ [Next]_vars => [Abstract!Next]_<<Underway, collected, dropped>>
  <2>1. UNCHANGED vars => UNCHANGED <<Underway, collected, dropped>>
    BY DEF vars, clientVars, lineVars, serverVars, Underway, Pending, AllInTransit, InTransit
  <2> QED
    BY <2>1, ClientRefines, ServerRefines DEF Next
<1> QED
  BY <1>1, <1>2, Invariance, PTL DEF Spec, ImplementsAtMostOnce, Abstract!Spec
=============================================================================
