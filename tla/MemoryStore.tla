----------------------------- MODULE MemoryStore -----------------------------
(***************************************************************************)
(* appdash.MemoryStore (store.go): the in-memory store that builds a tree  *)
(* of spans per trace while the spans arrive one by one and in any order.  *)
(* Pointers are modelled as addresses, so that what is shared and what is  *)
(* a copy stays visible.  Every operation holds ms.Mutex to its end and is *)
(* one action.  The order of a Sub list is abstracted to a set.            *)
(***************************************************************************)
EXTENDS Naturals, Sequences, FiniteSets

CONSTANTS
    Traces,     \* trace IDs
    Spans,      \* span IDs (non-zero)
    Anns,       \* annotations
    Zero,       \* the zero ID: the Parent of a root span
    Nil,        \* the nil pointer, an absent map entry
    MaxAnns     \* bound: annotations a span is given by the clients

ASSUME SpansAssumption == Zero \notin Spans /\ "tree" \notin Spans /\ IsFiniteSet(Spans)

VARIABLES
    parent,     \* [trace][span] -> the Parent of that SpanID (client chosen)
    trace,      \* ms.trace
    span,       \* ms.span
    sub,        \* heap: address -> Sub
    anns        \* heap: address -> Annotations

memVars == <<trace, span, sub, anns>>
vars    == <<parent, memVars>>

(* The address of a Trace node.  A node allocated by Collect is found      *)
(* through its own entry of ms.span: copy = span.  Decoding a file         *)
(* allocates further copies, see PersistentStore.                          *)
Addr       == [trace : Traces, span : Spans, copy : Spans \cup {"tree"}]
Node(t, s) == [trace |-> t, span |-> s, copy |-> s]

ASSUME NilAssumption == Nil \notin Addr /\ Nil \notin Seq(Anns)

Batches == {<<>>} \cup {<<a>> : a \in Anns}     \* the variadic argument of Collect

-----------------------------------------------------------------------------
(* The SpanIDs a client makes: NewRootSpanID and NewSpanID(parent).        *)
Ancestor(p, s) ==
    LET up[n \in 0..Cardinality(Spans)] ==
            IF n = 0 THEN s
            ELSE IF up[n-1] = Zero THEN Zero ELSE p[up[n-1]]
    IN  up[Cardinality(Spans)]

(* One root, no span is its own parent, and all descend from the root.     *)
IsSpanTree(p) ==
    /\ \A s \in Spans : p[s] # s
    /\ \A s, r \in Spans : p[s] = Zero /\ p[r] = Zero => s = r
    /\ \A s \in Spans : Ancestor(p, s) = Zero

ParentID(n)  == parent[n.trace][n.span]
IsRoot(t, s) == parent[t][s] = Zero

Collected(t) == {s \in Spans : span[t][s] # Nil}

(* Every node a reader can walk to from node r.                            *)
Below(h, r) ==
    LET walk[n \in 0..Cardinality(Spans)] ==
            IF n = 0 THEN {r}
            ELSE walk[n-1] \cup UNION {h[a] : a \in walk[n-1]}
    IN  walk[Cardinality(Spans)]

(* What Trace(t) hands to the caller: the tree under ms.trace[t].          *)
Shown(t) == IF trace[t] = Nil THEN {} ELSE Below(sub, trace[t])

-----------------------------------------------------------------------------
(* The steps of collectNoLock on the heap of Sub lists.                    *)
Mine(h, dst, src) == {c \in h[src] : ParentID(c) = dst.span}
Foreign(h, old)   == {c \in h[old] : ParentID(c) # old.span}

(* Slips: moves the children that are not dst's; leaves those it moves.    *)
ReattachOthers(h, dst, src) ==
    LET others == h[src] \ Mine(h, dst, src)
    IN  [h EXCEPT ![dst] = @ \cup others, ![src] = @ \ others]
ReattachCopies(h, dst, src) == [h EXCEPT ![dst] = @ \cup Mine(h, dst, src)]

ReattachChildren(h, dst, src) ==
    [h EXCEPT ![dst] = @ \cup Mine(h, dst, src), ![src] = @ \ Mine(h, dst, src)]

(* The parent if that one is in the span map sp, else the root.            *)
HomeIn(sp, root, n) ==
    IF ParentID(n) \in Spans /\ sp[n.trace][ParentID(n)] # Nil
    THEN sp[n.trace][ParentID(n)] ELSE root

(* Under the root the node is a temporary child.                           *)
Insert(h, sp, root, n) == [h EXCEPT ![HomeIn(sp, root, n)] = @ \cup {n}]

(* Slips: leaves the temporary children behind; takes the others along.    *)
MoveNothing(h, root, old) == h
MoveEverything(h, root, old) == [h EXCEPT ![root] = @ \cup h[old], ![old] = {}]

MoveTempChildren(h, root, old) ==
    [h EXCEPT ![root] = @ \cup Foreign(h, old), ![old] = @ \ Foreign(h, old)]

(* Slip: the real root is not looked for.                                  *)
TakesOverAsParent(t, s, old) == ParentID(old) = s

TakesOver(t, s, old) == IsRoot(t, s) \/ ParentID(old) = s

Promote(h, sp, root, old) ==
    MoveTempChildren(Insert(ReattachChildren(h, root, old), sp, root, old), root, old)

(* n is a new node that did not become the root.                           *)
Adopt(h, sp, root, n) ==
    ReattachChildren(IF ParentID(n) = Zero THEN h ELSE Insert(h, sp, root, n), n, root)

Init ==
    /\ parent \in [Traces -> {p \in [Spans -> Spans \cup {Zero}] : IsSpanTree(p)}]
    /\ trace = [t \in Traces |-> Nil]
    /\ span  = [t \in Traces |-> [s \in Spans |-> Nil]]
    /\ sub   = [a \in Addr |-> {}]
    /\ anns  = [a \in Addr |-> <<>>]

(* Slip: assigns the annotations instead of appending them.                *)
CollectOverwrites(t, s, as) ==
    /\ span[t][s] # Nil
    /\ anns' = [anns EXCEPT ![span[t][s]] = as]
    /\ UNCHANGED <<trace, span, sub>>

(* Collect of a span the store has: append and return.                     *)
CollectKnown(t, s, as) ==
    /\ span[t][s] # Nil
    /\ anns' = [anns EXCEPT ![span[t][s]] = @ \o as]
    /\ UNCHANGED <<trace, span, sub>>

(* Collect of a new span: allocate it and fix up the tree.                 *)
CollectNew(t, s, as) ==
    LET n   == Node(t, s)
        sp  == [span EXCEPT ![t][s] = n]
        old == trace[t]
    IN  /\ span[t][s] = Nil
        /\ span' = sp
        /\ anns' = [anns EXCEPT ![n] = as]
        /\ \/ /\ old = Nil
              /\ trace' = [trace EXCEPT ![t] = n]
              /\ UNCHANGED sub
           \/ /\ old # Nil /\ TakesOver(t, s, old)
              /\ trace' = [trace EXCEPT ![t] = n]
              /\ sub' = Promote(sub, sp, n, old)
           \/ /\ old # Nil /\ ~TakesOver(t, s, old)
              /\ sub' = Adopt(sub, sp, old, n)
              /\ UNCHANGED trace

Collect(t, s, as) == CollectKnown(t, s, as) \/ CollectNew(t, s, as)

(* Both map entries go; the nodes become garbage, which is cleared so that *)
(* an address can be allocated again.                                      *)
Delete(ts) ==
    /\ trace' = [t \in Traces |-> IF t \in ts THEN Nil ELSE trace[t]]
    /\ span'  = [t \in Traces |-> IF t \in ts THEN [s \in Spans |-> Nil] ELSE span[t]]
    /\ sub'   = [a \in Addr |-> IF a.trace \in ts THEN {} ELSE sub[a]]
    /\ anns'  = [a \in Addr |-> IF a.trace \in ts THEN <<>> ELSE anns[a]]

(* The bound on what the clients send, not on what the store does.         *)
WithinBound(t, s, as) ==
    span[t][s] # Nil => Len(anns[span[t][s]]) + Len(as) <= MaxAnns

Next ==
    /\ UNCHANGED parent
    /\ \/ \E t \in Traces, s \in Spans, as \in Batches :
            WithinBound(t, s, as) /\ Collect(t, s, as)
       \/ \E ts \in SUBSET Traces : Delete(ts)

Spec == Init /\ [][Next]_vars

-----------------------------------------------------------------------------
TypeOK ==
    /\ parent \in [Traces -> [Spans -> Spans \cup {Zero}]]
    /\ trace \in [Traces -> Addr \cup {Nil}]
    /\ span \in [Traces -> [Spans -> Addr \cup {Nil}]]
    /\ sub \in [Addr -> SUBSET Addr]
    /\ anns \in [Addr -> Seq(Anns)]

(* Where the tree must hold a collected span that is not the root.         *)
Home(t, s) ==
    IF parent[t][s] \in Collected(t) THEN span[t][parent[t][s]] ELSE trace[t]

(* Every collected span but the root is in exactly one Sub list, whatever  *)
(* the order of arrival: its parent's if that was collected, otherwise the *)
(* root's, as a temporary child (store.go, collectNoLock).                 *)
EachSpanAtHome ==
    \A t \in Traces : \A x \in Collected(t) :
        sub[span[t][x]] =
            {span[t][s] : s \in {r \in Collected(t) :
                span[t][r] # trace[t] /\ Home(t, r) = span[t][x]}}

(* Once the real root is collected it is the root of the tree, even when   *)
(* temporary roots came and went before it.                                *)
RealRootOnTop ==
    \A t \in Traces : \A s \in Collected(t) : IsRoot(t, s) => trace[t] = span[t][s]

(* A span that sits under its own parent stays there for as long as its    *)
(* trace lives: only temporary children are ever moved.                    *)
SettledSpansStay ==
    [][\A t \in Traces : \A s \in Collected(t) :
          LET p == parent[t][s]
          IN  (p \in Collected(t) /\ span[t][s] \in sub[span[t][p]] /\ trace'[t] # Nil)
                => span'[t][s] \in sub'[span'[t][p]]]_vars

(* Abstraction: the annotations that a reader of Trace(t) finds for a span.*)
view ==
    [t \in Traces |-> [s \in Spans |->
        IF \E a \in Shown(t) : a.span = s
        THEN anns[CHOOSE a \in Shown(t) : a.span = s]
        ELSE Nil]]

Abstract == INSTANCE TraceStore WITH store <- view

(* MemoryStore implements the log of annotations per span: Trace shows     *)
(* exactly what was collected and not deleted.                             *)
ImplementsTraceStore == Abstract!Spec
=============================================================================
