-------------------------- MODULE MemoryStoreProofs --------------------------
(***************************************************************************)
(* MemoryStore for every set of traces, spans and annotations and every    *)
(* order of arrival: each span is in the one place of its tree where a     *)
(* reader expects it, the real root ends on top, and all that was collected*)
(* is shown (the store implements TraceStore).  Then PersistentStore, with *)
(* any number of saves and crashes: what a start shows, and what holds of  *)
(* traces that were read back and are collected into.                      *)
(***************************************************************************)
EXTENDS PersistentStore, InductionLemmas, SequenceTheorems, TLAPS

Heap == [Addr -> SUBSET Addr]

LEMMA NodeFacts ==
  /\ \A t \in Traces, s \in Spans :
        /\ Node(t, s) \in Addr /\ Node(t, s) # Nil
        /\ Node(t, s).trace = t /\ Node(t, s).span = s
        /\ ParentID(Node(t, s)) = parent[t][s]
  /\ \A t, u \in Traces, s, r \in Spans : Node(t, s) = Node(u, r) <=> t = u /\ s = r
  BY NilAssumption DEF Node, Addr, ParentID

-----------------------------------------------------------------------------
(* What the three steps of collectNoLock do to the Sub lists, list by list.*)
LEMMA ReattachFacts ==
  ASSUME NEW h \in Heap, NEW dst \in Addr, NEW src \in Addr, dst # src
  PROVE  /\ ReattachChildren(h, dst, src) \in Heap
         /\ \A n, c \in Addr : c \in ReattachChildren(h, dst, src)[n] <=>
              \/ n = dst /\ (c \in h[dst] \/ (c \in h[src] /\ ParentID(c) = dst.span))
              \/ n = src /\ c \in h[src] /\ ParentID(c) # dst.span
              \/ n # dst /\ n # src /\ c \in h[n]
<1> DEFINE mine == {c \in h[src] : ParentID(c) = dst.span}
           h1   == [h EXCEPT ![dst] = @ \cup mine, ![src] = @ \ mine]
<1>1. mine \subseteq h[src] /\ h[src] \subseteq Addr /\ h[dst] \subseteq Addr
  BY DEF Heap
<1>2. /\ h1 \in Heap
      /\ h1[dst] = h[dst] \cup mine /\ h1[src] = h[src] \ mine
      /\ \A n \in Addr : n # dst /\ n # src => h1[n] = h[n]
  <2> HIDE DEF mine
  <2> QED
    BY <1>1 DEF Heap
<1>3. \A c \in Addr : c \in mine <=> c \in h[src] /\ ParentID(c) = dst.span
  OBVIOUS
<1>4. ReattachChildren(h, dst, src) = h1
  BY DEF ReattachChildren, Mine
<1> HIDE DEF mine, h1
<1>5. \A c \in Addr : c \in h1[dst] <=> c \in h[dst] \/ c \in mine
  BY <1>2
<1>6. \A c \in Addr : c \in h1[src] <=> c \in h[src] /\ c \notin mine
  BY <1>2
<1>7. ASSUME NEW n \in Addr, NEW c \in Addr
      PROVE  c \in h1[n] <=>
              \/ n = dst /\ (c \in h[dst] \/ (c \in h[src] /\ ParentID(c) = dst.span))
              \/ n = src /\ c \in h[src] /\ ParentID(c) # dst.span
              \/ n # dst /\ n # src /\ c \in h[n]
  <2>1. CASE n = dst
    BY <2>1, <1>3, <1>5
  <2>2. CASE n = src
    BY <2>2, <1>3, <1>6
  <2>3. CASE n # dst /\ n # src
    BY <2>3, <1>2
  <2> QED
    BY <2>1, <2>2, <2>3
<1> QED
  BY <1>2, <1>4, <1>7

LEMMA MoveFacts ==
  ASSUME NEW h \in Heap, NEW root \in Addr, NEW old \in Addr, root # old
  PROVE  /\ MoveTempChildren(h, root, old) \in Heap
         /\ \A n, c \in Addr : c \in MoveTempChildren(h, root, old)[n] <=>
              \/ n = root /\ (c \in h[root] \/ (c \in h[old] /\ ParentID(c) # old.span))
              \/ n = old /\ c \in h[old] /\ ParentID(c) = old.span
              \/ n # root /\ n # old /\ c \in h[n]
<1> DEFINE foreign == {c \in h[old] : ParentID(c) # old.span}
           h1      == [h EXCEPT ![root] = @ \cup foreign, ![old] = @ \ foreign]
<1>1. foreign \subseteq h[old] /\ h[old] \subseteq Addr /\ h[root] \subseteq Addr
  BY DEF Heap
<1>2. /\ h1 \in Heap
      /\ h1[root] = h[root] \cup foreign /\ h1[old] = h[old] \ foreign
      /\ \A n \in Addr : n # root /\ n # old => h1[n] = h[n]
  <2> HIDE DEF foreign
  <2> QED
    BY <1>1 DEF Heap
<1>3. \A c \in Addr : c \in foreign <=> c \in h[old] /\ ParentID(c) # old.span
  OBVIOUS
<1>4. MoveTempChildren(h, root, old) = h1
  BY DEF MoveTempChildren, Foreign
<1> HIDE DEF foreign, h1
<1>5. \A c \in Addr : c \in h1[root] <=> c \in h[root] \/ c \in foreign
  BY <1>2
<1>6. \A c \in Addr : c \in h1[old] <=> c \in h[old] /\ c \notin foreign
  BY <1>2
<1>7. ASSUME NEW n \in Addr, NEW c \in Addr
      PROVE  c \in h1[n] <=>
              \/ n = root /\ (c \in h[root] \/ (c \in h[old] /\ ParentID(c) # old.span))
              \/ n = old /\ c \in h[old] /\ ParentID(c) = old.span
              \/ n # root /\ n # old /\ c \in h[n]
  <2>1. CASE n = root
    BY <2>1, <1>3, <1>5
  <2>2. CASE n = old
    BY <2>2, <1>3, <1>6
  <2>3. CASE n # root /\ n # old
    BY <2>3, <1>2
  <2> QED
    BY <2>1, <2>2, <2>3
<1> QED
  BY <1>2, <1>4, <1>7

LEMMA InsertFacts ==
  ASSUME NEW h \in Heap, NEW sp, NEW root \in Addr, NEW x \in Addr,
         HomeIn(sp, root, x) \in Addr
  PROVE  /\ Insert(h, sp, root, x) \in Heap
         /\ \A n, c \in Addr : c \in Insert(h, sp, root, x)[n] <=>
              c \in h[n] \/ (n = HomeIn(sp, root, x) /\ c = x)
  BY DEF Insert, HomeIn, Heap

(* The two ways in which a span that is not the first one joins the tree.  *)
LEMMA PromoteFacts ==
  ASSUME NEW h \in Heap, NEW sp, NEW root \in Addr, NEW old \in Addr,
         root.span # old.span, h[root] = {},
         HomeIn(sp, root, old) \in Addr, HomeIn(sp, root, old) # old
  PROVE  /\ Promote(h, sp, root, old) \in Heap
         /\ \A n, c \in Addr : c \in Promote(h, sp, root, old)[n] <=>
              \/ n = root /\ \/ c \in h[old] /\ ParentID(c) # old.span
                             \/ HomeIn(sp, root, old) = root /\ c = old
              \/ n = old /\ c \in h[old] /\ ParentID(c) = old.span
              \/ n # root /\ n # old /\ (c \in h[n] \/ (n = HomeIn(sp, root, old) /\ c = old))
<1> DEFINE home == HomeIn(sp, root, old)
           h1   == ReattachChildren(h, root, old)
           h2   == Insert(h1, sp, root, old)
           h3   == MoveTempChildren(h2, root, old)
<1>1. root # old
  OBVIOUS
<1>2. /\ h1 \in Heap
      /\ \A n, c \in Addr : c \in h1[n] <=>
           \/ n = root /\ (c \in h[root] \/ (c \in h[old] /\ ParentID(c) = root.span))
           \/ n = old /\ c \in h[old] /\ ParentID(c) # root.span
           \/ n # root /\ n # old /\ c \in h[n]
  BY <1>1, ReattachFacts
<1> HIDE DEF h1
<1>3. /\ h2 \in Heap
      /\ \A n, c \in Addr : c \in h2[n] <=> c \in h1[n] \/ (n = home /\ c = old)
  BY <1>2, InsertFacts
<1> HIDE DEF h2
<1>4. /\ h3 \in Heap
      /\ \A n, c \in Addr : c \in h3[n] <=>
           \/ n = root /\ (c \in h2[root] \/ (c \in h2[old] /\ ParentID(c) # old.span))
           \/ n = old /\ c \in h2[old] /\ ParentID(c) = old.span
           \/ n # root /\ n # old /\ c \in h2[n]
  BY <1>1, <1>3, MoveFacts
<1>5. Promote(h, sp, root, old) = h3
  BY DEF Promote, h1, h2
<1> HIDE DEF h3, home
<1>6. home # old
  BY DEF home
<1>7. ASSUME NEW n \in Addr, NEW c \in Addr
      PROVE  c \in h3[n] <=>
              \/ n = root /\ \/ c \in h[old] /\ ParentID(c) # old.span
                             \/ home = root /\ c = old
              \/ n = old /\ c \in h[old] /\ ParentID(c) = old.span
              \/ n # root /\ n # old /\ (c \in h[n] \/ (n = home /\ c = old))
  <2>1. c \in h2[old] <=> c \in h[old] /\ ParentID(c) # root.span
    BY <1>1, <1>2, <1>3, <1>6
  <2>2. c \in h2[root] <=>
          (c \in h[old] /\ ParentID(c) = root.span) \/ (home = root /\ c = old)
    BY <1>1, <1>2, <1>3
  <2>3. n # root /\ n # old => (c \in h2[n] <=> c \in h[n] \/ (n = home /\ c = old))
    BY <1>2, <1>3
  <2>4. CASE n = root
    BY <2>4, <2>1, <2>2, <1>1, <1>4
  <2>5. CASE n = old
    BY <2>5, <2>1, <1>1, <1>4
  <2>6. CASE n # root /\ n # old
    BY <2>6, <2>3, <1>4
  <2> QED
    BY <2>4, <2>5, <2>6
<1> QED
  BY <1>4, <1>5, <1>7 DEF home

LEMMA AdoptFacts ==
  ASSUME NEW h \in Heap, NEW sp, NEW root \in Addr, NEW n0 \in Addr,
         root # n0, h[n0] = {}, ParentID(n0) # Zero, ParentID(n0) # n0.span,
         HomeIn(sp, root, n0) \in Addr, HomeIn(sp, root, n0) # n0
  PROVE  /\ Adopt(h, sp, root, n0) \in Heap
         /\ \A n, c \in Addr : c \in Adopt(h, sp, root, n0)[n] <=>
              \/ n = n0 /\ c \in h[root] /\ ParentID(c) = n0.span
              \/ n = root /\ \/ c \in h[root] /\ ParentID(c) # n0.span
                             \/ HomeIn(sp, root, n0) = root /\ c = n0
              \/ n # n0 /\ n # root /\ (c \in h[n] \/ (n = HomeIn(sp, root, n0) /\ c = n0))
<1> DEFINE home == HomeIn(sp, root, n0)
           h1   == Insert(h, sp, root, n0)
           h2   == ReattachChildren(h1, n0, root)
<1>1. /\ h1 \in Heap
      /\ \A n, c \in Addr : c \in h1[n] <=> c \in h[n] \/ (n = home /\ c = n0)
  BY InsertFacts
<1> HIDE DEF h1
<1>2. /\ h2 \in Heap
      /\ \A n, c \in Addr : c \in h2[n] <=>
           \/ n = n0 /\ (c \in h1[n0] \/ (c \in h1[root] /\ ParentID(c) = n0.span))
           \/ n = root /\ c \in h1[root] /\ ParentID(c) # n0.span
           \/ n # n0 /\ n # root /\ c \in h1[n]
  BY <1>1, ReattachFacts
<1>3. Adopt(h, sp, root, n0) = h2
  BY DEF Adopt, h1
<1> HIDE DEF h2, home
<1>4. home # n0
  BY DEF home
<1>5. ASSUME NEW n \in Addr, NEW c \in Addr
      PROVE  c \in h2[n] <=>
              \/ n = n0 /\ c \in h[root] /\ ParentID(c) = n0.span
              \/ n = root /\ \/ c \in h[root] /\ ParentID(c) # n0.span
                             \/ home = root /\ c = n0
              \/ n # n0 /\ n # root /\ (c \in h[n] \/ (n = home /\ c = n0))
  <2>1. c \notin h1[n0]
    BY <1>1, <1>4
  <2>2. c \in h1[root] <=> c \in h[root] \/ (home = root /\ c = n0)
    BY <1>1
  <2>3. c \in h1[n] <=> c \in h[n] \/ (n = home /\ c = n0)
    BY <1>1
  <2>4. CASE n = n0
    BY <2>4, <2>1, <2>2, <1>2
  <2>5. CASE n = root
    BY <2>5, <2>2, <1>2
  <2>6. CASE n # n0 /\ n # root
    BY <2>6, <2>3, <1>2
  <2> QED
    BY <2>4, <2>5, <2>6
<1> QED
  BY <1>2, <1>3, <1>5 DEF home

-----------------------------------------------------------------------------
TreesWellFormed ==
    \A t \in Traces :
        /\ \A s \in Spans : parent[t][s] # s
        /\ \A s, r \in Spans : parent[t][s] = Zero /\ parent[t][r] = Zero => s = r
        /\ \A s \in Spans : Ancestor(parent[t], s) = Zero

(* W: traces of which nothing was read back from a file.  A span of theirs *)
(* has one node, the one of its map entry.                                 *)
OwnNodes(W) ==
    \A t \in W :
        /\ \A s \in Spans : span[t][s] # Nil => span[t][s] = Node(t, s)
        /\ trace[t] # Nil => \E s \in Collected(t) : trace[t] = Node(t, s)
        /\ trace[t] = Nil => Collected(t) = {}

(* EachSpanAtHome, list by list and element by element.                    *)
Child(t, x, s) ==
    /\ x \in Collected(t) /\ s \in Collected(t)
    /\ trace[t] # Node(t, s)
    /\ parent[t][s] = x \/ (parent[t][s] \notin Collected(t) /\ trace[t] = Node(t, x))

Shape(W) ==
    \A t \in W, x \in Spans :
        /\ \A c \in sub[Node(t, x)] : \E s \in Spans : c = Node(t, s)
        /\ \A s \in Spans : Node(t, s) \in sub[Node(t, x)] <=> Child(t, x, s)

RootsOnTop(W) ==
    \A t \in W : \A s \in Collected(t) : IsRoot(t, s) => trace[t] = span[t][s]

Inv(W) == TypeOK /\ TreesWellFormed /\ OwnNodes(W) /\ Shape(W) /\ RootsOnTop(W)

LEMMA InitInv == Init => Inv(Traces)
<1> SUFFICES ASSUME Init PROVE Inv(Traces)
  OBVIOUS
<1>1. \A t \in Traces : Collected(t) = {}
  BY DEF Init, Collected
<1>2. TypeOK
  BY DEF Init, TypeOK
<1>3. TreesWellFormed
  BY DEF Init, TreesWellFormed, IsSpanTree
<1>4. OwnNodes(Traces)
  BY <1>1 DEF Init, OwnNodes
<1>5. Shape(Traces)
  BY <1>1, NodeFacts DEF Init, Shape, Child
<1>6. RootsOnTop(Traces)
  BY <1>1 DEF RootsOnTop
<1> QED
  BY <1>2, <1>3, <1>4, <1>5, <1>6 DEF Inv

-----------------------------------------------------------------------------
LEMMA BatchesAreSequences == \A as \in Batches : as \in Seq(Anns)
<1>1. <<>> \in Seq(Anns)
  OBVIOUS
<1>2. \A a \in Anns : <<a>> \in Seq(Anns)
  OBVIOUS
<1> QED
  BY <1>1, <1>2 DEF Batches

LEMMA CollectKnownKeeps ==
  ASSUME NEW W \in SUBSET Traces, Inv(W), UNCHANGED parent,
         NEW t \in W, NEW s \in Spans, NEW as \in Batches, CollectKnown(t, s, as)
  PROVE  Inv(W)'
<1> USE DEF Inv
<1>1. UNCHANGED <<parent, trace, span, sub>>
  BY DEF CollectKnown
<1>2. \A u \in W : Collected(u)' = Collected(u)
  BY <1>1 DEF Collected
<1>3. anns' \in [Addr -> Seq(Anns)]
  <2>1. as \in Seq(Anns)
    BY BatchesAreSequences
  <2>2. ASSUME NEW a \in Addr PROVE anns[a] \o as \in Seq(Anns)
    <3>1. anns[a] \in Seq(Anns)
      BY DEF TypeOK
    <3> QED
      BY <2>1, <3>1, ConcatProperties
  <2> QED
    BY <2>2 DEF TypeOK, CollectKnown
<1>4. TypeOK'
  BY <1>1, <1>3 DEF TypeOK
<1>5. TreesWellFormed'
  BY <1>1 DEF TreesWellFormed
<1>6. OwnNodes(W)'
  BY <1>1, <1>2 DEF OwnNodes
<1>7. Shape(W)'
  BY <1>1, <1>2 DEF Shape, Child
<1>8. RootsOnTop(W)'
  BY <1>1, <1>2 DEF RootsOnTop, IsRoot
<1> QED
  BY <1>4, <1>5, <1>6, <1>7, <1>8

(* What a new span changes outside the heap of Sub lists.                  *)
LEMMA NewSpanFacts ==
  ASSUME TypeOK, UNCHANGED parent,
         NEW t \in Traces, NEW s \in Spans, NEW as \in Batches, CollectNew(t, s, as)
  PROVE  /\ span' = [span EXCEPT ![t][s] = Node(t, s)]
         /\ span' \in [Traces -> [Spans -> Addr \cup {Nil}]]
         /\ anns' \in [Addr -> Seq(Anns)]
         /\ \A u \in Traces, r \in Spans :
              span'[u][r] = IF u = t /\ r = s THEN Node(t, s) ELSE span[u][r]
         /\ s \notin Collected(t)
         /\ Collected(t)' = Collected(t) \cup {s}
         /\ \A u \in Traces : u # t => Collected(u)' = Collected(u)
<1>1. span' = [span EXCEPT ![t][s] = Node(t, s)]
  BY DEF CollectNew
<1>2. Node(t, s) \in Addr /\ Node(t, s) # Nil
  BY NodeFacts
<1>3. span \in [Traces -> [Spans -> Addr \cup {Nil}]]
  BY DEF TypeOK
<1>4. \A u \in Traces, r \in Spans :
         span'[u][r] = IF u = t /\ r = s THEN Node(t, s) ELSE span[u][r]
  BY <1>1, <1>3
<1>5. span' \in [Traces -> [Spans -> Addr \cup {Nil}]]
  BY <1>1, <1>2, <1>3
<1>6. as \in Seq(Anns)
  BY BatchesAreSequences
<1>7. anns' \in [Addr -> Seq(Anns)]
  BY <1>2, <1>6 DEF CollectNew, TypeOK
<1>8. s \notin Collected(t)
  BY DEF CollectNew, Collected
<1>9. Collected(t)' = Collected(t) \cup {s}
  BY <1>2, <1>4 DEF Collected
<1>10. \A u \in Traces : u # t => Collected(u)' = Collected(u)
  BY <1>4 DEF Collected
<1> QED
  BY <1>1, <1>4, <1>5, <1>7, <1>8, <1>9, <1>10

(* The first span of a trace becomes its (temporary) root.                 *)
LEMMA FirstSpanKeeps ==
  ASSUME NEW W \in SUBSET Traces, Inv(W), UNCHANGED parent,
         NEW t \in W, NEW s \in Spans, NEW as \in Batches, CollectNew(t, s, as),
         trace[t] = Nil
  PROVE  Inv(W)'
<1> USE DEF Inv
<1> DEFINE new == Node(t, s)
<1>t. TypeOK /\ t \in Traces
  OBVIOUS
<1>0. /\ span' \in [Traces -> [Spans -> Addr \cup {Nil}]]
      /\ anns' \in [Addr -> Seq(Anns)]
      /\ \A u \in Traces, r \in Spans :
           span'[u][r] = IF u = t /\ r = s THEN new ELSE span[u][r]
      /\ Collected(t)' = Collected(t) \cup {s}
      /\ \A u \in Traces : u # t => Collected(u)' = Collected(u)
  BY <1>t, NewSpanFacts, ZenonT(30)
<1>1. trace' = [trace EXCEPT ![t] = new] /\ UNCHANGED sub
  BY DEF CollectNew
<1>2. new \in Addr /\ new # Nil
  BY NodeFacts
<1>3. Collected(t) = {} /\ Collected(t)' = {s}
  BY <1>0 DEF OwnNodes, Inv
<1>4. trace'[t] = new /\ \A u \in W : u # t => trace'[u] = trace[u]
  BY <1>1 DEF TypeOK
<1>5. TypeOK'
  BY <1>0, <1>1, <1>2 DEF TypeOK
<1>6. TreesWellFormed'
  BY DEF TreesWellFormed
<1>7. OwnNodes(W)'
  <2>1. \A u \in W, r \in Spans : span'[u][r] # Nil => span'[u][r] = Node(u, r)
    BY <1>0 DEF OwnNodes
  <2>2. ASSUME NEW u \in W
        PROVE  /\ trace'[u] # Nil => \E r \in Collected(u)' : trace'[u] = Node(u, r)
               /\ trace'[u] = Nil => Collected(u)' = {}
    <3>1. CASE u = t
      BY <3>1, <1>2, <1>3, <1>4
    <3>2. CASE u # t
      BY <3>2, <1>0, <1>4 DEF OwnNodes
    <3> QED
      BY <3>1, <3>2
  <2> QED
    BY <2>1, <2>2 DEF OwnNodes
<1>8. ASSUME NEW u \in W, NEW x \in Spans, NEW r \in Spans
      PROVE  Child(u, x, r)' <=> Child(u, x, r)
  <2>1. CASE u = t
    BY <2>1, <1>3, <1>4, NodeFacts DEF Child
  <2>2. CASE u # t
    BY <2>2, <1>4, <1>0 DEF Child
  <2> QED
    BY <2>1, <2>2
<1>9. Shape(W)'
  BY <1>1, <1>8 DEF Shape
<1>10. RootsOnTop(W)'
  <2> SUFFICES ASSUME NEW u \in W, NEW r \in Collected(u)', IsRoot(u, r)'
               PROVE  trace'[u] = span'[u][r]
    BY DEF RootsOnTop
  <2>1. CASE u = t
    BY <2>1, <1>3, <1>4, <1>0
  <2>2. CASE u # t
    <3>1. r \in Collected(u) /\ r \in Spans /\ IsRoot(u, r)
      BY <2>2, <1>0 DEF IsRoot, Collected
    <3> QED
      BY <2>2, <3>1, <1>4, <1>0 DEF RootsOnTop
  <2> QED
    BY <2>1, <2>2
<1> QED
  BY <1>5, <1>6, <1>7, <1>9, <1>10

(* The real root, or the parent of the temporary root, takes over the tree.*)
LEMMA PromoteKeeps ==
  ASSUME NEW W \in SUBSET Traces, Inv(W), UNCHANGED parent,
         NEW t \in W, NEW s \in Spans, NEW as \in Batches, CollectNew(t, s, as),
         trace[t] # Nil, TakesOver(t, s, trace[t])
  PROVE  Inv(W)'
<1> USE DEF Inv
<1> DEFINE new == Node(t, s)
<1>t. TypeOK /\ t \in Traces
  OBVIOUS
<1>0. /\ span' \in [Traces -> [Spans -> Addr \cup {Nil}]]
      /\ anns' \in [Addr -> Seq(Anns)]
      /\ \A u \in Traces, r \in Spans :
           span'[u][r] = IF u = t /\ r = s THEN new ELSE span[u][r]
      /\ s \notin Collected(t)
      /\ Collected(t)' = Collected(t) \cup {s}
      /\ \A u \in Traces : u # t => Collected(u)' = Collected(u)
  BY <1>t, NewSpanFacts, ZenonT(30)
<1>1. PICK o \in Collected(t) : trace[t] = Node(t, o)
  BY DEF OwnNodes
<1>2. o \in Spans /\ o # s
  BY <1>0, <1>1 DEF Collected
<1> DEFINE old == Node(t, o)
           home == IF parent[t][o] \in Collected(t) \cup {s} THEN Node(t, parent[t][o]) ELSE new
<1>3. /\ new \in Addr /\ old \in Addr /\ new # Nil /\ new # old
      /\ new.span = s /\ old.span = o /\ old.trace = t /\ ParentID(old) = parent[t][o]
  BY <1>2, NodeFacts
<1>4. home \in Addr /\ home # old /\ HomeIn(span', new, old) = home
  <2>1. parent[t][o] # o
    BY <1>2 DEF TreesWellFormed
  <2>2. CASE parent[t][o] \in Collected(t) \cup {s}
    <3>1. parent[t][o] \in Spans
      BY <2>2 DEF Collected
    <3>2. span'[t][parent[t][o]] = Node(t, parent[t][o])
      BY <2>2, <3>1, <1>0 DEF OwnNodes, Collected
    <3>3. Node(t, parent[t][o]) # Nil /\ Node(t, parent[t][o]) \in Addr /\ Node(t, parent[t][o]) # old
      BY <3>1, <2>1, <1>2, NodeFacts
    <3> QED
      BY <2>2, <3>1, <3>2, <3>3, <1>3 DEF HomeIn
  <2>3. CASE parent[t][o] \notin Collected(t) \cup {s}
    <3>1. parent[t][o] \in Spans => span'[t][parent[t][o]] = Nil
      BY <2>3, <1>0 DEF Collected
    <3> QED
      BY <2>3, <3>1, <1>3 DEF HomeIn
  <2> QED
    BY <2>2, <2>3
<1>5. trace' = [trace EXCEPT ![t] = new] /\ sub' = Promote(sub, span', new, old)
  <2>1. span' = [span EXCEPT ![t][s] = new]
    BY NewSpanFacts
  <2> QED
    BY <2>1, <1>1 DEF CollectNew
<1>6. sub \in Heap
  BY DEF TypeOK, Heap
<1>7. sub[new] = {}
  <2>1. \A c \in sub[new] : \E r \in Spans : c = Node(t, r) /\ Child(t, s, r)
    BY DEF Shape
  <2> QED
    BY <2>1, <1>0 DEF Child
<1>8. /\ sub' \in Heap
      /\ \A n, c \in Addr : c \in sub'[n] <=>
           \/ n = new /\ \/ c \in sub[old] /\ ParentID(c) # o
                         \/ home = new /\ c = old
           \/ n = old /\ c \in sub[old] /\ ParentID(c) = o
           \/ n # new /\ n # old /\ (c \in sub[n] \/ (n = home /\ c = old))
  BY <1>2, <1>3, <1>4, <1>5, <1>6, <1>7, PromoteFacts
<1>9. trace'[t] = new /\ \A u \in W : u # t => trace'[u] = trace[u]
  BY <1>5 DEF TypeOK
<1>10. TypeOK'
  BY <1>0, <1>3, <1>5, <1>8 DEF TypeOK, Heap
<1>11. TreesWellFormed'
  BY DEF TreesWellFormed
<1>12. OwnNodes(W)'
  <2>1. \A u \in W, r \in Spans : span'[u][r] # Nil => span'[u][r] = Node(u, r)
    BY <1>0 DEF OwnNodes
  <2>2. ASSUME NEW u \in W
        PROVE  /\ trace'[u] # Nil => \E r \in Collected(u)' : trace'[u] = Node(u, r)
               /\ trace'[u] = Nil => Collected(u)' = {}
    <3>1. CASE u = t
      BY <3>1, <1>0, <1>3, <1>9
    <3>2. CASE u # t
      BY <3>2, <1>0, <1>9 DEF OwnNodes
    <3> QED
      BY <3>1, <3>2
  <2> QED
    BY <2>1, <2>2 DEF OwnNodes
<1>13. ASSUME NEW u \in W, NEW x \in Spans, NEW c \in sub'[Node(u, x)]
       PROVE  \E r \in Spans : c = Node(u, r)
  <2>1. Node(u, x) \in Addr /\ c \in Addr
    BY <1>8, NodeFacts DEF Heap
  <2>2. \/ Node(u, x) = new /\ (c \in sub[old] \/ c = old)
        \/ c \in sub[Node(u, x)]
        \/ Node(u, x) = home /\ c = old
    BY <2>1, <1>8
  <2>3. Node(u, x) = new \/ Node(u, x) = home => u = t
    <3>1. Node(u, x).trace = u /\ new.trace = t
      BY NodeFacts
    <3>2. home.trace = t
      BY NodeFacts DEF Collected
    <3> QED
      BY <3>1, <3>2
  <2>4. c \in sub[Node(u, x)] => \E r \in Spans : c = Node(u, r)
    BY DEF Shape
  <2>5. c \in sub[old] => \E r \in Spans : c = Node(t, r)
    BY <1>2 DEF Shape
  <2> QED
    BY <2>2, <2>3, <2>4, <2>5, <1>2
<1>14. ASSUME NEW u \in W, NEW x \in Spans, NEW r \in Spans
       PROVE  Node(u, r) \in sub'[Node(u, x)] <=> Child(u, x, r)'
  <2>1. Node(u, x) \in Addr /\ Node(u, r) \in Addr /\ ParentID(Node(u, r)) = parent[u][r]
    BY NodeFacts
  <2>2. CASE u # t
    <3>1. Child(u, x, r)' <=> Child(u, x, r)
      BY <2>2, <1>0, <1>9 DEF Child
    <3>2. Node(u, x) # new /\ Node(u, x) # old /\ Node(u, r) # old
      BY <2>2, <1>2, NodeFacts
    <3>3. Node(u, r) \in sub'[Node(u, x)] <=> Node(u, r) \in sub[Node(u, x)]
      BY <3>2, <2>1, <1>8
    <3> QED
      BY <3>1, <3>3 DEF Shape
  <2>3. CASE u = t
    <3>1. Child(t, x, r)' <=>
            /\ x \in Collected(t) \cup {s} /\ r \in Collected(t)
            /\ parent[t][r] = x \/ (parent[t][r] \notin Collected(t) \cup {s} /\ x = s)
      BY <1>0, <1>9, NodeFacts DEF Child
    <3>2. \A y \in Spans : Node(t, r) \in sub[Node(t, y)] <=>
            /\ y \in Collected(t) /\ r \in Collected(t) /\ r # o
            /\ parent[t][r] = y \/ (parent[t][r] \notin Collected(t) /\ y = o)
      BY <1>1, <1>2, NodeFacts DEF Shape, Child
    <3>3. /\ Node(t, x) = new <=> x = s
          /\ Node(t, x) = old <=> x = o
          /\ Node(t, r) = old <=> r = o
      BY <1>2, NodeFacts
    <3>4. Node(t, x) = home <=>
            IF parent[t][o] \in Collected(t) \cup {s} THEN x = parent[t][o] ELSE x = s
      BY NodeFacts DEF Collected
    <3>5. parent[t][o] # o /\ parent[t][r] # r
      BY <1>2 DEF TreesWellFormed
    <3>6. Node(t, r) \in sub'[Node(t, x)] <=>
            \/ x = s /\ \/ Node(t, r) \in sub[Node(t, o)] /\ parent[t][r] # o
                        \/ Node(t, x) = home /\ r = o
            \/ x = o /\ Node(t, r) \in sub[Node(t, o)] /\ parent[t][r] = o
            \/ x # s /\ x # o /\ (Node(t, r) \in sub[Node(t, x)] \/ (Node(t, x) = home /\ r = o))
      BY <2>1, <2>3, <3>3, <1>8
    <3> HIDE DEF home
    <3>7. CASE x = s
      BY <2>3, <3>7, <3>1, <3>2, <3>4, <3>5, <3>6, <1>0, <1>2
    <3>8. CASE x = o
      BY <2>3, <3>8, <3>1, <3>2, <3>5, <3>6, <1>2
    <3>9. CASE x # s /\ x # o
      BY <2>3, <3>9, <3>1, <3>2, <3>4, <3>6
    <3> QED
      BY <2>3, <3>7, <3>8, <3>9
  <2> QED
    BY <2>2, <2>3
<1>15. Shape(W)'
  BY <1>13, <1>14 DEF Shape
<1>16. RootsOnTop(W)'
  <2> SUFFICES ASSUME NEW u \in W, NEW r \in Collected(u)', IsRoot(u, r)'
               PROVE  trace'[u] = span'[u][r]
    BY DEF RootsOnTop
  <2>1. CASE u # t
    <3>1. r \in Collected(u) /\ r \in Spans /\ IsRoot(u, r)
      BY <2>1, <1>0 DEF IsRoot, Collected
    <3> QED
      BY <2>1, <3>1, <1>0, <1>9 DEF RootsOnTop
  <2>2. CASE u = t /\ r = s
    BY <2>2, <1>0, <1>9
  <2>3. CASE u = t /\ r # s
    <3>1. r \in Collected(t) /\ r \in Spans /\ parent[t][r] = Zero
      BY <2>3, <1>0 DEF IsRoot, Collected
    <3>2. Node(t, o) = Node(t, r)
      BY <3>1, <1>1 DEF RootsOnTop, IsRoot, OwnNodes, Collected
    <3>3. parent[t][o] = Zero
      BY <3>1, <3>2, <1>2, NodeFacts
    <3>4. parent[t][s] = Zero
      BY <3>3, <1>1, <1>3, SpansAssumption DEF TakesOver, IsRoot
    <3> QED
      BY <2>3, <3>1, <3>4 DEF TreesWellFormed
  <2> QED
    BY <2>1, <2>2, <2>3
<1> QED
  BY <1>10, <1>11, <1>12, <1>15, <1>16

(* Any other span goes under its parent or, for now, under the root, and   *)
(* takes its own children back from the root.                              *)
LEMMA AdoptKeeps ==
  ASSUME NEW W \in SUBSET Traces, Inv(W), UNCHANGED parent,
         NEW t \in W, NEW s \in Spans, NEW as \in Batches, CollectNew(t, s, as),
         trace[t] # Nil, ~TakesOver(t, s, trace[t])
  PROVE  Inv(W)'
<1> USE DEF Inv
<1> DEFINE new == Node(t, s)
<1>t. TypeOK /\ t \in Traces
  OBVIOUS
<1>0. /\ span' \in [Traces -> [Spans -> Addr \cup {Nil}]]
      /\ anns' \in [Addr -> Seq(Anns)]
      /\ \A u \in Traces, r \in Spans :
           span'[u][r] = IF u = t /\ r = s THEN new ELSE span[u][r]
      /\ s \notin Collected(t)
      /\ Collected(t)' = Collected(t) \cup {s}
      /\ \A u \in Traces : u # t => Collected(u)' = Collected(u)
  BY <1>t, NewSpanFacts, ZenonT(30)
<1>1. PICK o \in Collected(t) : trace[t] = Node(t, o)
  BY DEF OwnNodes
<1>2. o \in Spans /\ o # s
  BY <1>0, <1>1 DEF Collected
<1> DEFINE old == Node(t, o)
           home == IF parent[t][s] \in Collected(t) THEN Node(t, parent[t][s]) ELSE old
<1>3. /\ new \in Addr /\ old \in Addr /\ new # Nil /\ new # old
      /\ new.span = s /\ new.trace = t
      /\ ParentID(new) = parent[t][s] /\ ParentID(old) = parent[t][o]
  BY <1>2, NodeFacts
<1>4. parent[t][s] # Zero /\ parent[t][s] # s /\ parent[t][o] # s
  BY <1>1, <1>3 DEF TakesOver, IsRoot, TreesWellFormed
<1>5. home \in Addr /\ home # new /\ HomeIn(span', old, new) = home
  <2>1. CASE parent[t][s] \in Collected(t)
    <3>1. parent[t][s] \in Spans
      BY <2>1 DEF Collected
    <3>2. span'[t][parent[t][s]] = Node(t, parent[t][s])
      BY <2>1, <3>1, <1>0 DEF OwnNodes, Collected
    <3>3. /\ Node(t, parent[t][s]) # Nil /\ Node(t, parent[t][s]) \in Addr
          /\ Node(t, parent[t][s]) # new
      BY <3>1, <1>4, NodeFacts
    <3> QED
      BY <2>1, <3>1, <3>2, <3>3, <1>3 DEF HomeIn
  <2>2. CASE parent[t][s] \notin Collected(t)
    <3>1. parent[t][s] \in Spans => span'[t][parent[t][s]] = Nil
      BY <2>2, <1>0, <1>4 DEF Collected
    <3> QED
      BY <2>2, <3>1, <1>3 DEF HomeIn
  <2> QED
    BY <2>1, <2>2
<1>6. UNCHANGED trace /\ sub' = Adopt(sub, span', old, new)
  <2>1. span' = [span EXCEPT ![t][s] = new]
    BY NewSpanFacts
  <2> QED
    BY <2>1, <1>1 DEF CollectNew
<1>7. sub \in Heap
  BY DEF TypeOK, Heap
<1>8. sub[new] = {}
  <2>1. \A c \in sub[new] : \E r \in Spans : c = Node(t, r) /\ Child(t, s, r)
    BY DEF Shape
  <2> QED
    BY <2>1, <1>0 DEF Child
<1>9. /\ sub' \in Heap
      /\ \A n, c \in Addr : c \in sub'[n] <=>
           \/ n = new /\ c \in sub[old] /\ ParentID(c) = s
           \/ n = old /\ \/ c \in sub[old] /\ ParentID(c) # s
                         \/ home = old /\ c = new
           \/ n # new /\ n # old /\ (c \in sub[n] \/ (n = home /\ c = new))
  BY <1>3, <1>4, <1>5, <1>6, <1>7, <1>8, AdoptFacts
<1>10. TypeOK'
  BY <1>0, <1>6, <1>9 DEF TypeOK, Heap
<1>11. TreesWellFormed'
  BY DEF TreesWellFormed
<1>12. OwnNodes(W)'
  <2>1. \A u \in W, r \in Spans : span'[u][r] # Nil => span'[u][r] = Node(u, r)
    BY <1>0 DEF OwnNodes
  <2>2. ASSUME NEW u \in W
        PROVE  /\ trace'[u] # Nil => \E r \in Collected(u)' : trace'[u] = Node(u, r)
               /\ trace'[u] = Nil => Collected(u)' = {}
    <3>1. CASE u = t
      BY <3>1, <1>0, <1>1, <1>6
    <3>2. CASE u # t
      BY <3>2, <1>0, <1>6 DEF OwnNodes
    <3> QED
      BY <3>1, <3>2
  <2> QED
    BY <2>1, <2>2 DEF OwnNodes
<1>13. ASSUME NEW u \in W, NEW x \in Spans, NEW c \in sub'[Node(u, x)]
       PROVE  \E r \in Spans : c = Node(u, r)
  <2>1. Node(u, x) \in Addr /\ c \in Addr
    BY <1>9, NodeFacts DEF Heap
  <2>2. \/ Node(u, x) = new /\ c \in sub[old]
        \/ c \in sub[Node(u, x)]
        \/ Node(u, x) = home /\ c = new
    BY <2>1, <1>9
  <2>3. Node(u, x) = new \/ Node(u, x) = home => u = t
    <3>1. Node(u, x).trace = u /\ new.trace = t
      BY NodeFacts
    <3>2. home.trace = t
      BY <1>2, NodeFacts DEF Collected
    <3> QED
      BY <3>1, <3>2
  <2>4. c \in sub[Node(u, x)] => \E r \in Spans : c = Node(u, r)
    BY DEF Shape
  <2>5. c \in sub[old] => \E r \in Spans : c = Node(t, r)
    BY <1>2 DEF Shape
  <2> QED
    BY <2>2, <2>3, <2>4, <2>5
<1>14. ASSUME NEW u \in W, NEW x \in Spans, NEW r \in Spans
       PROVE  Node(u, r) \in sub'[Node(u, x)] <=> Child(u, x, r)'
  <2>1. Node(u, x) \in Addr /\ Node(u, r) \in Addr /\ ParentID(Node(u, r)) = parent[u][r]
    BY NodeFacts
  <2>2. CASE u # t
    <3>1. Child(u, x, r)' <=> Child(u, x, r)
      BY <2>2, <1>0, <1>6 DEF Child
    <3>2. Node(u, x) # new /\ Node(u, x) # old /\ Node(u, r) # new
      BY <2>2, <1>2, NodeFacts
    <3>3. Node(u, r) \in sub'[Node(u, x)] <=> Node(u, r) \in sub[Node(u, x)]
      BY <3>2, <2>1, <1>9
    <3> QED
      BY <3>1, <3>3 DEF Shape
  <2>3. CASE u = t
    <3>1. Child(t, x, r)' <=>
            /\ x \in Collected(t) \cup {s} /\ r \in Collected(t) \cup {s} /\ r # o
            /\ parent[t][r] = x \/ (parent[t][r] \notin Collected(t) \cup {s} /\ x = o)
      BY <1>0, <1>1, <1>2, <1>6, NodeFacts DEF Child
    <3>2. \A y \in Spans : Node(t, r) \in sub[Node(t, y)] <=>
            /\ y \in Collected(t) /\ r \in Collected(t) /\ r # o
            /\ parent[t][r] = y \/ (parent[t][r] \notin Collected(t) /\ y = o)
      BY <1>1, <1>2, NodeFacts DEF Shape, Child
    <3>3. /\ Node(t, x) = new <=> x = s
          /\ Node(t, x) = old <=> x = o
          /\ Node(t, r) = new <=> r = s
      BY <1>2, NodeFacts
    <3>4. /\ Node(t, x) = home <=>
               IF parent[t][s] \in Collected(t) THEN x = parent[t][s] ELSE x = o
          /\ home = old <=> parent[t][s] \notin Collected(t) \/ parent[t][s] = o
      BY <1>2, NodeFacts DEF Collected
    <3>5. Node(t, r) \in sub'[Node(t, x)] <=>
            \/ x = s /\ Node(t, r) \in sub[Node(t, o)] /\ parent[t][r] = s
            \/ x = o /\ \/ Node(t, r) \in sub[Node(t, o)] /\ parent[t][r] # s
                        \/ home = old /\ r = s
            \/ x # s /\ x # o /\ (Node(t, r) \in sub[Node(t, x)] \/ (Node(t, x) = home /\ r = s))
      BY <2>1, <2>3, <3>3, <1>9
    <3> HIDE DEF home
    <3>6. CASE x = s
      BY <2>3, <3>6, <3>1, <3>2, <3>5, <1>0, <1>2, <1>4
    <3>7. CASE x = o
      BY <2>3, <3>7, <3>1, <3>2, <3>4, <3>5, <1>0, <1>2, <1>4
    <3>8. CASE x # s /\ x # o
      BY <2>3, <3>8, <3>1, <3>2, <3>4, <3>5, <1>0, <1>2
    <3> QED
      BY <2>3, <3>6, <3>7, <3>8
  <2> QED
    BY <2>2, <2>3
<1>15. Shape(W)'
  BY <1>13, <1>14 DEF Shape
<1>16. RootsOnTop(W)'
  <2> SUFFICES ASSUME NEW u \in W, NEW r \in Collected(u)', IsRoot(u, r)'
               PROVE  trace'[u] = span'[u][r]
    BY DEF RootsOnTop
  <2>1. r \in Collected(u) /\ r \in Spans /\ IsRoot(u, r)
    BY <1>0, <1>4 DEF IsRoot, Collected
  <2>2. span'[u][r] = span[u][r]
    BY <2>1, <1>0
  <2> QED
    BY <2>1, <2>2, <1>6 DEF RootsOnTop
<1> QED
  BY <1>10, <1>11, <1>12, <1>15, <1>16

LEMMA DeleteKeeps ==
  ASSUME NEW W \in SUBSET Traces, Inv(W), UNCHANGED parent, NEW ts \in SUBSET Traces, Delete(ts)
  PROVE  Inv(W)'
<1> USE DEF Inv
<1>1. \A u \in W :
        /\ trace'[u] = IF u \in ts THEN Nil ELSE trace[u]
        /\ \A r \in Spans : span'[u][r] = IF u \in ts THEN Nil ELSE span[u][r]
  BY DEF Delete
<1>2. \A u \in W : Collected(u)' = IF u \in ts THEN {} ELSE Collected(u)
  BY <1>1 DEF Collected
<1>3. TypeOK'
  <2>1. <<>> \in Seq(Anns)
    OBVIOUS
  <2>2. trace' \in [Traces -> Addr \cup {Nil}]
    BY DEF Delete, TypeOK
  <2>3. span' \in [Traces -> [Spans -> Addr \cup {Nil}]]
    BY DEF Delete, TypeOK
  <2>4. sub' \in [Addr -> SUBSET Addr]
    BY DEF Delete, TypeOK
  <2>5. anns' \in [Addr -> Seq(Anns)]
    BY <2>1 DEF Delete, TypeOK
  <2> QED
    BY <2>2, <2>3, <2>4, <2>5 DEF TypeOK
<1>4. TreesWellFormed'
  BY DEF TreesWellFormed
<1>5. OwnNodes(W)'
  <2>1. \A u \in W, r \in Spans : span'[u][r] # Nil => span'[u][r] = Node(u, r)
    BY <1>1 DEF OwnNodes
  <2>2. ASSUME NEW u \in W
        PROVE  /\ trace'[u] # Nil => \E r \in Collected(u)' : trace'[u] = Node(u, r)
               /\ trace'[u] = Nil => Collected(u)' = {}
    <3>1. CASE u \in ts
      BY <3>1, <1>1, <1>2
    <3>2. CASE u \notin ts
      BY <3>2, <1>1, <1>2 DEF OwnNodes
    <3> QED
      BY <3>1, <3>2
  <2> QED
    BY <2>1, <2>2 DEF OwnNodes
<1>6. Shape(W)'
  <2>1. \A u \in W, x \in Spans :
          sub'[Node(u, x)] = IF u \in ts THEN {} ELSE sub[Node(u, x)]
    BY NodeFacts DEF Delete
  <2>2. \A u \in W, x, r \in Spans :
          Child(u, x, r)' <=> u \notin ts /\ Child(u, x, r)
    BY <1>1, <1>2 DEF Child
  <2> QED
    BY <2>1, <2>2 DEF Shape
<1>7. RootsOnTop(W)'
  BY <1>1, <1>2 DEF RootsOnTop, IsRoot, Collected
<1> QED
  BY <1>3, <1>4, <1>5, <1>6, <1>7

LEMMA StepInv == Inv(Traces) /\ [Next]_vars => Inv(Traces)'
<1> SUFFICES ASSUME Inv(Traces), [Next]_vars PROVE Inv(Traces)'
  OBVIOUS
<1>1. CASE UNCHANGED vars
  <2>1. UNCHANGED <<parent, trace, span, sub, anns>>
    BY <1>1 DEF vars, memVars
  <2>2. \A u \in Traces : Collected(u)' = Collected(u)
    BY <2>1 DEF Collected
  <2> QED
    BY <2>1, <2>2 DEF Inv, TypeOK, TreesWellFormed, OwnNodes, Shape, Child, RootsOnTop, IsRoot
<1>2. ASSUME UNCHANGED parent, NEW t \in Traces, NEW s \in Spans, NEW as \in Batches,
             Collect(t, s, as)
      PROVE  Inv(Traces)'
  <2>1. CASE CollectKnown(t, s, as)
    BY <2>1, <1>2, CollectKnownKeeps
  <2>2. CASE CollectNew(t, s, as) /\ trace[t] = Nil
    BY <2>2, <1>2, FirstSpanKeeps
  <2>3. CASE CollectNew(t, s, as) /\ trace[t] # Nil /\ TakesOver(t, s, trace[t])
    BY <2>3, <1>2, PromoteKeeps
  <2>4. CASE CollectNew(t, s, as) /\ trace[t] # Nil /\ ~TakesOver(t, s, trace[t])
    BY <2>4, <1>2, AdoptKeeps
  <2> QED
    BY <1>2, <2>1, <2>2, <2>3, <2>4 DEF Collect
<1>3. ASSUME UNCHANGED parent, NEW ts \in SUBSET Traces, Delete(ts)
      PROVE  Inv(Traces)'
  BY <1>3, DeleteKeeps
<1> QED
  BY <1>1, <1>2, <1>3 DEF Next

LEMMA InvAlways == Spec => []Inv(Traces)
<1>1. Inv(Traces) /\ [Next]_vars => Inv(Traces)'
  BY StepInv
<1> QED
  BY InitInv, <1>1, PTL DEF Spec

(* Shape is EachSpanAtHome said element by element.                        *)
LEMMA ShapeIsHome == Inv(Traces) => EachSpanAtHome
<1> SUFFICES ASSUME Inv(Traces), NEW t \in Traces, NEW x \in Collected(t)
             PROVE  sub[span[t][x]] =
                      {span[t][s] : s \in {r \in Collected(t) :
                          span[t][r] # trace[t] /\ Home(t, r) = span[t][x]}}
  BY DEF EachSpanAtHome
<1> USE DEF Inv
<1>1. \A s \in Collected(t) : s \in Spans /\ span[t][s] = Node(t, s)
  BY DEF OwnNodes, Collected
<1>2. \A s \in Collected(t) :
        Child(t, x, s) <=> span[t][s] # trace[t] /\ Home(t, s) = span[t][x]
  BY <1>1, NodeFacts DEF Child, Home
<1>3. \A s \in Spans : Node(t, s) \in sub[Node(t, x)] <=> Child(t, x, s)
  BY <1>1 DEF Shape
<1>4. \A c \in sub[Node(t, x)] : \E s \in Spans : c = Node(t, s)
  BY <1>1 DEF Shape
<1>5. \A s \in Spans : Child(t, x, s) => s \in Collected(t)
  BY DEF Child
<1> QED
  BY <1>1, <1>2, <1>3, <1>4, <1>5

-----------------------------------------------------------------------------
(* The variables keep their types.                                         *)
THEOREM TypeCorrect == Spec => []TypeOK
<1>1. Inv(Traces) => TypeOK
  BY DEF Inv
<1> QED
  BY InvAlways, <1>1, PTL

(* For any number of spans, in any order of arrival and whatever is        *)
(* deleted in between, each collected span is in exactly the Sub list where*)
(* it belongs: collectNoLock loses no span and lists none twice.           *)
THEOREM SpansAtHome == Spec => []EachSpanAtHome
<1>1. Inv(Traces) => EachSpanAtHome
  BY ShapeIsHome
<1> QED
  BY InvAlways, <1>1, PTL

(* The real root, once collected, is what Trace returns.                   *)
THEOREM RootOnTop == Spec => []RealRootOnTop
<1>1. Inv(Traces) => RealRootOnTop
  BY DEF Inv, RootsOnTop, RealRootOnTop
<1> QED
  BY InvAlways, <1>1, PTL

(* A step keeps what a trace has collected, and its root, unless a new     *)
(* span takes over or the trace is deleted.                                *)
LEMMA StepGrows ==
  ASSUME Inv(Traces), Next, NEW t \in Traces, trace'[t] # Nil
  PROVE  /\ Collected(t) \subseteq Collected(t)'
         /\ trace'[t] = trace[t] \/ \E s \in Spans \ Collected(t) : trace'[t] = Node(t, s)
<1> USE DEF Inv
<1>1. ASSUME NEW u \in Traces, NEW s \in Spans, NEW as \in Batches, CollectKnown(u, s, as)
      PROVE  Collected(t)' = Collected(t) /\ trace'[t] = trace[t]
  BY <1>1 DEF CollectKnown, Collected
<1>2. ASSUME UNCHANGED parent,
             NEW u \in Traces, NEW s \in Spans, NEW as \in Batches, CollectNew(u, s, as)
      PROVE  /\ Collected(t) \subseteq Collected(t)'
             /\ trace'[t] = trace[t] \/ (t = u /\ trace'[t] = Node(t, s) /\ s \notin Collected(t))
  <2>1. /\ s \notin Collected(u) /\ Collected(u)' = Collected(u) \cup {s}
        /\ t # u => Collected(t)' = Collected(t)
    BY <1>2, NewSpanFacts
  <2>2. trace' = trace \/ trace' = [trace EXCEPT ![u] = Node(u, s)]
    BY <1>2 DEF CollectNew
  <2>3. trace'[t] = trace[t] \/ (t = u /\ trace'[t] = Node(t, s))
    BY <2>2 DEF TypeOK
  <2> QED
    BY <2>1, <2>3
<1>3. ASSUME NEW ts \in SUBSET Traces, Delete(ts)
      PROVE  Collected(t)' = Collected(t) /\ trace'[t] = trace[t]
  <2>1. t \notin ts
    BY <1>3 DEF Delete
  <2> QED
    BY <1>3, <2>1 DEF Delete, Collected
<1> QED
  BY <1>1, <1>2, <1>3 DEF Next, Collect

(* A span that reached its own parent is never moved again while its trace *)
(* lives, whatever roots come and go above it.                             *)
THEOREM SettledStay == Spec => SettledSpansStay
<1> DEFINE Stays ==
        \A t \in Traces : \A s \in Collected(t) :
           LET p == parent[t][s]
           IN  (p \in Collected(t) /\ span[t][s] \in sub[span[t][p]] /\ trace'[t] # Nil)
                 => span'[t][s] \in sub'[span'[t][p]]
<1>1. Inv(Traces) /\ Inv(Traces)' /\ [Next]_vars => [Stays]_vars
  <2> SUFFICES ASSUME Inv(Traces), Inv(Traces)', Next,
                      NEW t \in Traces, NEW s \in Collected(t),
                      parent[t][s] \in Collected(t),
                      span[t][s] \in sub[span[t][parent[t][s]]],
                      trace'[t] # Nil
               PROVE  span'[t][s] \in sub'[span'[t][parent[t][s]]]
    OBVIOUS
  <2>0. PICK p \in Collected(t) : p = parent[t][s]
    OBVIOUS
  <2>1. parent' = parent
    BY DEF Next
  <2>2. /\ s \in Spans /\ span[t][s] = Node(t, s)
        /\ p \in Spans /\ span[t][p] = Node(t, p)
    BY DEF Inv, OwnNodes, Collected
  <2>3. Child(t, p, s)
    BY <2>0, <2>2 DEF Inv, Shape
  <2>4. /\ Collected(t) \subseteq Collected(t)'
        /\ trace'[t] = trace[t] \/ \E r \in Spans \ Collected(t) : trace'[t] = Node(t, r)
    BY StepGrows
  <2>5. trace'[t] # Node(t, s)
    BY <2>2, <2>3, <2>4, NodeFacts DEF Child
  <2>6. Child(t, p, s)'
    BY <2>0, <2>1, <2>4, <2>5 DEF Child
  <2>7. span'[t][s] = Node(t, s) /\ span'[t][p] = Node(t, p)
    BY <2>1, <2>2, <2>4 DEF Inv, OwnNodes, Collected
  <2>8. Shape(Traces)'
    BY DEF Inv
  <2>9. Node(t, s) \in sub'[Node(t, p)]
    BY <2>2, <2>6, <2>8 DEF Shape
  <2> QED
    BY <2>0, <2>7, <2>9
<1>2. Spec => [][Stays]_vars
  BY InvAlways, <1>1, PTL DEF Spec
<1> QED
  BY <1>2 DEF SettledSpansStay
-----------------------------------------------------------------------------
(* The walk that Below is defined by reaches every node there is to reach  *)
(* from r.  U: where the links lead from r.                                *)
WalkStep(h, U) == [L \in SUBSET U |-> L \cup UNION {h[a] : a \in L}]

IsWalk(f, h, r, U) ==
    /\ f \in [0..Cardinality(Spans) -> SUBSET U]
    /\ IsIterate(f, Cardinality(Spans), {r}, WalkStep(h, U))
    /\ Below(h, r) = f[Cardinality(Spans)]

LEMMA BelowIsWalk ==
  ASSUME NEW U, NEW h, NEW r \in U, \A a \in U : h[a] \subseteq U
  PROVE  /\ WalkStep(h, U) \in [SUBSET U -> SUBSET U]
         /\ \E f : IsWalk(f, h, r, U)
<1> DEFINE N     == Cardinality(Spans)
           X     == SUBSET U
           G     == WalkStep(h, U)
           pass(it, k) == IF k = 0 THEN {r} ELSE it[k-1] \cup UNION {h[a] : a \in it[k-1]}
           R(it) == it = [k \in 0..N |-> pass(it, k)]
           walk  == CHOOSE it : R(it)
<1>1. Below(h, r) = walk[N]
  BY DEF Below
<1>2. N \in Nat /\ {r} \in X
  BY SpansAssumption, FS_CardinalityType
<1>3. G \in [X -> X]
  BY DEF WalkStep
<1>4. PICK f \in [0..N -> X] : IsIterate(f, N, {r}, G)
  <2> HIDE DEF N, X, G
  <2> QED
    BY <1>2, <1>3, IterateExists
<1>5. ASSUME NEW g, \A k \in 0..N : g[k] = pass(g, k) PROVE \A k \in 0..N : g[k] = f[k]
  <2> DEFINE T == {k \in 0..N : g[k] = f[k]}
  <2>1. 0 \in T
    <3>1. 0 \in 0..N
      BY <1>2
    <3> QED
      BY <3>1, <1>4, <1>5 DEF IsIterate
  <2>2. ASSUME NEW k \in 1..N, k - 1 \in T PROVE k \in T
    <3>1. k \in 0..N /\ k - 1 \in 0..N /\ k # 0
      BY <1>2
    <3>2. f[k] = G[f[k - 1]] /\ f[k - 1] \in X /\ g[k - 1] = f[k - 1]
      BY <1>4, <2>2, <3>1 DEF IsIterate
    <3>4. G[f[k - 1]] = f[k - 1] \cup UNION {h[a] : a \in f[k - 1]}
      BY <3>2 DEF WalkStep
    <3>3. g[k] = g[k - 1] \cup UNION {h[a] : a \in g[k - 1]}
      BY <1>5, <3>1
    <3> QED
      BY <3>1, <3>2, <3>3, <3>4
  <2> HIDE DEF T
  <2>3. \A k \in 0..N : k \in T
    <3> HIDE DEF N
    <3> QED
      BY <1>2, <2>1, <2>2, NumbersUpTo
  <2> QED
    BY <2>3 DEF T
<1>6. R(f)
  <2>1. ASSUME NEW k \in 0..N PROVE f[k] = pass(f, k)
    <3>1. CASE k = 0
      BY <1>4, <3>1 DEF IsIterate
    <3>2. CASE k # 0
      <4>1. k - 1 \in 0..N /\ f[k - 1] \in X
        BY <1>2, <3>2
      <4>2. f[k] = G[f[k - 1]]
        BY <1>4, <3>2 DEF IsIterate
      <4> QED
        BY <3>2, <4>1, <4>2 DEF WalkStep
    <3> QED
      BY <3>1, <3>2
  <2> HIDE DEF pass, N, X
  <2> QED
    BY <2>1
<1>7. R(walk)
  <2> HIDE DEF R
  <2> QED
    BY <1>6
<1> HIDE DEF walk
<1>8. \A k \in 0..N : walk[k] = pass(walk, k)
  <2> HIDE DEF pass, N
  <2> QED
    BY <1>7
<1>9. walk[N] = f[N]
  <2>1. N \in 0..N
    BY <1>2
  <2> HIDE DEF N, pass
  <2> QED
    BY <1>5, <1>8, <2>1
<1>10. Below(h, r) = f[N]
  BY <1>1, <1>9
<1>11. IsWalk(f, h, r, U)
  BY <1>4, <1>10 DEF IsWalk
<1> QED
  BY <1>3, <1>11

LEMMA BelowWithin ==
  ASSUME NEW U, NEW h, NEW r \in U, \A a \in U : h[a] \subseteq U
  PROVE  r \in Below(h, r) /\ Below(h, r) \subseteq U
<1> DEFINE N == Cardinality(Spans)
<1> DEFINE G == WalkStep(h, U)
<1>0. PICK f : IsWalk(f, h, r, U)
  BY BelowIsWalk
<1>1. f \in [0..N -> SUBSET U] /\ IsIterate(f, N, {r}, G) /\ Below(h, r) = f[N]
  BY <1>0 DEF IsWalk
<1>2. N \in Nat
  BY SpansAssumption, FS_CardinalityType
<1>3. G \in [SUBSET U -> SUBSET U] /\ \A L \in SUBSET U : L \subseteq G[L]
  BY BelowIsWalk DEF WalkStep
<1> HIDE DEF N
<1> DEFINE T == {k \in 0..N : r \in f[k]}
<1>4. 0 \in T
  <2>1. 0 \in 0..N
    BY <1>2
  <2> QED
    BY <2>1, <1>1 DEF IsIterate
<1>5. ASSUME NEW k \in 1..N, k - 1 \in T PROVE k \in T
  <2>1. k \in 0..N /\ k - 1 \in 0..N /\ k # 0 /\ r \in f[k - 1]
    BY <1>2, <1>5
  <2>2. f[k] = G[f[k - 1]] /\ f[k - 1] \in SUBSET U
    BY <1>1, <2>1 DEF IsIterate
  <2> QED
    BY <1>3, <2>1, <2>2
<1> HIDE DEF T
<1>6. \A k \in 0..N : k \in T
  BY <1>2, <1>4, <1>5, NumbersUpTo
<1>7. N \in 0..N
  BY <1>2
<1> QED
  BY <1>1, <1>6, <1>7 DEF T

(* The walk is long enough when it cannot meet more nodes than there are   *)
(* spans.                                                                  *)
LEMMA BelowClosed ==
  ASSUME NEW U, IsFiniteSet(U), Cardinality(U) <= Cardinality(Spans),
         NEW h, NEW r \in U, \A a \in U : h[a] \subseteq U
  PROVE  \A a \in Below(h, r) : h[a] \subseteq Below(h, r)
<1> DEFINE N == Cardinality(Spans)
<1> DEFINE G == WalkStep(h, U)
<1>0. PICK f : IsWalk(f, h, r, U)
  BY BelowIsWalk
<1>1. f \in [0..N -> SUBSET U] /\ IsIterate(f, N, {r}, G) /\ Below(h, r) = f[N]
  BY <1>0 DEF IsWalk
<1>2. N \in Nat
  BY SpansAssumption, FS_CardinalityType
<1>3. G \in [SUBSET U -> SUBSET U] /\ \A L \in SUBSET U : L \subseteq G[L]
  BY BelowIsWalk DEF WalkStep
<1>4. N \in 0..N /\ {r} \in SUBSET U /\ {r} # {}
  BY <1>2
<1> HIDE DEF N
<1>5. G[f[N]] = f[N]
  <2>1. Cardinality(U) <= N
    BY DEF N
  <2> HIDE DEF G
  <2> QED
    BY <2>1, <1>1, <1>2, <1>3, <1>4, Saturates
<1>6. f[N] \in SUBSET U
  BY <1>1, <1>4
<1>7. G[f[N]] = f[N] \cup UNION {h[a] : a \in f[N]}
  BY <1>6 DEF WalkStep
<1>8. \A a \in f[N] : h[a] \subseteq f[N]
  BY <1>5, <1>7
<1> QED
  BY <1>1, <1>8

(* Going from parent to parent, a span stays where parents stay.           *)
LEMMA AncestorWithin ==
  ASSUME NEW p \in [Spans -> Spans \cup {Zero}],
         NEW B \in SUBSET Spans, NEW s \in B, \A b \in B : p[b] \in B
  PROVE  Ancestor(p, s) \in B
<1> DEFINE N     == Cardinality(Spans)
           X     == B
           G     == [b \in B |-> p[b]]
           pass(it, k) == IF k = 0 THEN s
                          ELSE IF it[k-1] = Zero THEN Zero ELSE p[it[k-1]]
           R(it) == it = [k \in 0..N |-> pass(it, k)]
           steps    == CHOOSE it : R(it)
<1>1. Ancestor(p, s) = steps[N]
  BY DEF Ancestor
<1>2. N \in Nat
  BY SpansAssumption, FS_CardinalityType
<1>3. G \in [B -> B]
  OBVIOUS
<1>4. PICK f \in [0..N -> B] : IsIterate(f, N, s, G)
  <2> HIDE DEF N, G
  <2> QED
    BY <1>2, <1>3, IterateExists
<1>5. Zero \notin B
  BY SpansAssumption
<1>6. R(f)
  <2>1. ASSUME NEW k \in 0..N PROVE f[k] = pass(f, k)
    <3>1. CASE k = 0
      BY <1>4, <3>1 DEF IsIterate
    <3>2. CASE k # 0
      <4>1. k - 1 \in 0..N /\ f[k - 1] \in B
        BY <1>2, <3>2
      <4>2. f[k] = G[f[k - 1]]
        BY <1>4, <3>2 DEF IsIterate
      <4> QED
        BY <1>5, <3>2, <4>1, <4>2
    <3> QED
      BY <3>1, <3>2
  <2> HIDE DEF pass, N
  <2> QED
    BY <2>1
<1>7. R(steps)
  <2> HIDE DEF R
  <2> QED
    BY <1>6
<1> HIDE DEF steps
<1>8. \A k \in 0..N : steps[k] = pass(steps, k)
  <2> HIDE DEF pass, N
  <2> QED
    BY <1>7
<1> DEFINE T == {k \in 0..N : steps[k] \in B}
<1>9. 0 \in T
  BY <1>2, <1>8
<1>10. ASSUME NEW k \in 1..N, k - 1 \in T PROVE k \in T
  <2>1. k \in 0..N /\ k - 1 \in 0..N /\ k # 0 /\ steps[k - 1] \in B
    BY <1>2, <1>10
  <2>2. steps[k] = p[steps[k - 1]]
    BY <1>5, <1>8, <2>1
  <2> QED
    BY <2>1, <2>2
<1>11. \A k \in 0..N : k \in T
  <2> HIDE DEF T, N
  <2> QED
    BY <1>2, <1>9, <1>10, NumbersUpTo
<1>12. N \in 0..N
  BY <1>2
<1> QED
  BY <1>1, <1>11, <1>12
-----------------------------------------------------------------------------
(* One node per span: where a walk ends that meets only such nodes.        *)
OneEach(U) == U \subseteq Addr /\ \A a, b \in U : a.span = b.span => a = b

LEMMA OneEachIsSmall ==
  ASSUME NEW U, OneEach(U)
  PROVE  IsFiniteSet(U) /\ Cardinality(U) <= Cardinality(Spans)
<1> DEFINE f == [a \in U |-> a.span]
<1>1. \A a \in U : a.span \in Spans
  BY DEF OneEach, Addr
<1>2. f \in Injection(U, Spans)
  BY <1>1 DEF OneEach, Injection, IsInjective
<1> QED
  BY <1>2, SpansAssumption, FS_Injection

LEMMA BelowIsTree ==
  ASSUME NEW U, OneEach(U), NEW h, NEW r \in U, \A a \in U : h[a] \subseteq U
  PROVE  /\ r \in Below(h, r) /\ Below(h, r) \subseteq U
         /\ \A a \in Below(h, r) : h[a] \subseteq Below(h, r)
BY OneEachIsSmall, BelowWithin, BelowClosed

(* Without a file read back, Trace shows what was collected: a span missed *)
(* by the walk would have a parent missed too, and so on past the root.    *)
ShowsCollected(W) == \A t \in W : Shown(t) = {Node(t, s) : s \in Collected(t)}

LEMMA ShownIsCollected ==
  ASSUME NEW W \in SUBSET Traces, Inv(W)
  PROVE  ShowsCollected(W)
<1> SUFFICES ASSUME NEW t \in W PROVE Shown(t) = {Node(t, s) : s \in Collected(t)}
  BY DEF ShowsCollected
<1> DEFINE U == {Node(t, s) : s \in Collected(t)}
<1>0. /\ TypeOK /\ TreesWellFormed /\ OwnNodes(W) /\ Shape(W) /\ t \in Traces
      /\ Collected(t) \subseteq Spans
  BY DEF Inv, Collected
<1>1. CASE trace[t] = Nil
  BY <1>0, <1>1 DEF Shown, OwnNodes
<1>2. CASE trace[t] # Nil
  <2>1. PICK o \in Collected(t) : trace[t] = Node(t, o)
    BY <1>0, <1>2 DEF OwnNodes
  <2> DEFINE r == trace[t]
             B == Below(sub, r)
  <2>2. OneEach(U) /\ r \in U
    BY <1>0, <2>1, NodeFacts DEF OneEach
  <2>3. \A a \in U : sub[a] \subseteq U
    <3> SUFFICES ASSUME NEW x \in Collected(t), NEW c \in sub[Node(t, x)] PROVE c \in U
      OBVIOUS
    <3>1. PICK s \in Spans : c = Node(t, s)
      BY <1>0 DEF Shape
    <3>2. Child(t, x, s)
      BY <1>0, <3>1 DEF Shape
    <3> QED
      BY <3>1, <3>2 DEF Child
  <2>4. r \in B /\ B \subseteq U /\ \A a \in B : sub[a] \subseteq B
    <3> HIDE DEF U, r
    <3> QED
      BY <2>2, <2>3, BelowIsTree
  <2> DEFINE Missed == {s \in Collected(t) : Node(t, s) \notin B}
  <2>5. ASSUME NEW s \in Missed PROVE parent[t][s] \in Missed
    <3>1. s # o /\ s \in Spans /\ o \in Spans
      BY <1>0, <2>1, <2>4
    <3>2. trace[t] # Node(t, s) /\ trace[t] = Node(t, o)
      BY <1>0, <2>1, <3>1, NodeFacts
    <3>3. CASE parent[t][s] \notin Collected(t)
      <4>1. Child(t, o, s)
        BY <2>1, <3>2, <3>3 DEF Child
      <4>2. Node(t, s) \in sub[Node(t, o)]
        BY <1>0, <3>1, <4>1 DEF Shape
      <4> QED
        BY <2>1, <2>4, <4>2
    <3>4. CASE parent[t][s] \in Collected(t)
      <4>0. PICK p \in Collected(t) : p = parent[t][s]
        BY <3>4
      <4>1. Child(t, p, s)
        BY <3>2, <4>0 DEF Child
      <4>2. Node(t, s) \in sub[Node(t, p)]
        BY <1>0, <3>1, <4>1 DEF Shape
      <4>3. Node(t, p) \notin B
        BY <2>4, <4>2
      <4> QED
        BY <4>0, <4>3
    <3> QED
      BY <3>3, <3>4
  <2>6. Missed = {}
    <3> SUFFICES ASSUME NEW s \in Missed PROVE FALSE
      OBVIOUS
    <3>1. parent[t] \in [Spans -> Spans \cup {Zero}] /\ Missed \in SUBSET Spans
      BY <1>0 DEF TypeOK
    <3>2. Ancestor(parent[t], s) \in Missed
      <4> HIDE DEF Missed
      <4> QED
        BY <2>5, <3>1, AncestorWithin
    <3>3. Ancestor(parent[t], s) = Zero
      BY <1>0, <3>1 DEF TreesWellFormed
    <3> QED
      BY <3>1, <3>2, <3>3, SpansAssumption
  <2>7. U \subseteq B
    BY <2>6
  <2>8. Shown(t) = B
    BY <1>2 DEF Shown
  <2> QED
    BY <2>4, <2>7, <2>8
<1> QED
  BY <1>1, <1>2

(* The abstraction, told from the span map alone.                          *)
Listed == [t \in Traces |-> [s \in Spans |->
              IF s \in Collected(t) THEN anns[Node(t, s)] ELSE Nil]]

ViewAsListed == view = Listed

LEMMA ViewIsListed == Inv(Traces) => ViewAsListed
<1> SUFFICES ASSUME Inv(Traces) PROVE view = Listed
  BY DEF ViewAsListed
<1>1. ASSUME NEW t \in Traces, NEW s \in Spans
      PROVE  (IF \E a \in Shown(t) : a.span = s
              THEN anns[CHOOSE a \in Shown(t) : a.span = s] ELSE Nil)
               = IF s \in Collected(t) THEN anns[Node(t, s)] ELSE Nil
  <2>1. Shown(t) = {Node(t, r) : r \in Collected(t)} /\ Collected(t) \subseteq Spans
    BY ShownIsCollected DEF ShowsCollected, Collected
  <2>2. \A a \in Shown(t) : a.span = s <=> a = Node(t, s)
    BY <2>1, NodeFacts
  <2>3. (\E a \in Shown(t) : a.span = s) <=> s \in Collected(t)
    BY <2>1, <2>2, NodeFacts
  <2>4. CASE s \in Collected(t)
    <3>1. (CHOOSE a \in Shown(t) : a.span = s) = Node(t, s)
      BY <2>2, <2>3, <2>4
    <3> QED
      BY <2>3, <2>4, <3>1
  <2> QED
    BY <2>3, <2>4
<1> QED
  BY <1>1 DEF view, Listed

LEMMA AnnotationsAreNotNil ==
  ASSUME TypeOK PROVE \A t \in Traces, s \in Spans : anns[Node(t, s)] # Nil
BY NodeFacts, NilAssumption DEF TypeOK

(* A step, on the log of annotations.                                      *)
LEMMA CollectIsListed ==
  ASSUME Inv(Traces), UNCHANGED parent,
         NEW t \in Traces, NEW s \in Spans, NEW as \in Batches, Collect(t, s, as)
  PROVE  Listed' = [Listed EXCEPT ![t][s] = IF @ = Nil THEN as ELSE @ \o as]
<1>1. TypeOK /\ OwnNodes(Traces)
  BY DEF Inv
<1> DEFINE n == Node(t, s)
           new == IF s \in Collected(t) THEN anns[n] \o as ELSE as
<1>2. n \in Addr /\ n # Nil
  BY NodeFacts
<1>3. /\ anns' = [anns EXCEPT ![n] = new]
      /\ \A u \in Traces : Collected(u)' = IF u = t THEN Collected(u) \cup {s} ELSE Collected(u)
  <2>1. CASE CollectKnown(t, s, as)
    <3>1. s \in Collected(t) /\ span[t][s] = n
      BY <1>1, <2>1 DEF CollectKnown, Collected, OwnNodes
    <3>2. anns' = [anns EXCEPT ![n] = @ \o as] /\ UNCHANGED span
      BY <2>1, <3>1 DEF CollectKnown
    <3>3. anns' = [anns EXCEPT ![n] = new]
      BY <1>1, <1>2, <3>1, <3>2 DEF TypeOK
    <3>4. \A u \in Traces : Collected(u)' = Collected(u)
      BY <3>2 DEF Collected
    <3> QED
      BY <3>1, <3>3, <3>4
  <2>2. CASE CollectNew(t, s, as)
    <3>1. /\ s \notin Collected(t) /\ Collected(t)' = Collected(t) \cup {s}
          /\ \A u \in Traces : u # t => Collected(u)' = Collected(u)
      BY <1>1, <2>2, NewSpanFacts
    <3>2. anns' = [anns EXCEPT ![n] = as]
      BY <2>2 DEF CollectNew
    <3> QED
      BY <3>1, <3>2
  <2> QED
    BY <2>1, <2>2 DEF Collect
<1>4. ASSUME NEW u \in Traces, NEW r \in Spans
      PROVE  (IF r \in Collected(u)' THEN anns'[Node(u, r)] ELSE Nil)
               = IF u = t /\ r = s
                 THEN IF Listed[t][s] = Nil THEN as ELSE Listed[t][s] \o as
                 ELSE Listed[u][r]
  <2>1. Listed[u][r] = IF r \in Collected(u) THEN anns[Node(u, r)] ELSE Nil
    BY DEF Listed
  <2>2. Node(u, r) \in Addr /\ (Node(u, r) = n <=> u = t /\ r = s)
    BY NodeFacts
  <2>3. anns[n] # Nil
    BY <1>1, AnnotationsAreNotNil
  <2> HIDE DEF n, new
  <2>4. anns'[Node(u, r)] = IF u = t /\ r = s THEN new ELSE anns[Node(u, r)]
    BY <1>1, <1>2, <1>3, <2>2 DEF TypeOK
  <2>5. CASE u = t /\ r = s
    BY <1>3, <2>1, <2>2, <2>3, <2>4, <2>5 DEF new
  <2>6. CASE ~(u = t /\ r = s)
    BY <1>3, <2>1, <2>4, <2>6
  <2> QED
    BY <2>5, <2>6
<1>5. Listed' = [u \in Traces |-> [r \in Spans |->
                   IF r \in Collected(u)' THEN anns'[Node(u, r)] ELSE Nil]]
  BY DEF Listed, Node
<1>6. Listed' = [u \in Traces |-> [r \in Spans |->
                   IF u = t /\ r = s
                   THEN IF Listed[t][s] = Nil THEN as ELSE Listed[t][s] \o as
                   ELSE Listed[u][r]]]
  BY <1>4, <1>5
<1>7. Listed = [u \in Traces |-> [r \in Spans |-> Listed[u][r]]]
  BY DEF Listed
<1> DEFINE log == Listed
           val == IF log[t][s] = Nil THEN as ELSE log[t][s] \o as
<1> HIDE DEF log, val
<1>8. /\ log = [u \in Traces |-> [r \in Spans |-> log[u][r]]]
      /\ Listed' = [u \in Traces |-> [r \in Spans |->
                      IF u = t /\ r = s THEN val ELSE log[u][r]]]
  BY <1>6, <1>7 DEF log, val
<1>9. Listed' = [log EXCEPT ![t][s] = val]
  BY <1>8
<1> QED
  BY <1>9 DEF log, val

LEMMA DeleteIsListed ==
  ASSUME Inv(Traces), UNCHANGED parent, NEW ts \in SUBSET Traces, Delete(ts)
  PROVE  Listed' = [t \in Traces |-> IF t \in ts THEN [s \in Spans |-> Nil] ELSE Listed[t]]
<1>1. ASSUME NEW t \in Traces, NEW s \in Spans
      PROVE  (IF s \in Collected(t)' THEN anns'[Node(t, s)] ELSE Nil)
               = IF t \in ts THEN Nil ELSE Listed[t][s]
  <2>1. Collected(t)' = IF t \in ts THEN {} ELSE Collected(t)
    BY DEF Delete, Collected
  <2>2. anns'[Node(t, s)] = IF t \in ts THEN <<>> ELSE anns[Node(t, s)]
    BY NodeFacts DEF Delete
  <2> QED
    BY <2>1, <2>2 DEF Listed
<1>2. Listed' = [t \in Traces |-> [s \in Spans |->
                   IF s \in Collected(t)' THEN anns'[Node(t, s)] ELSE Nil]]
  BY DEF Listed, Node
<1>3. Listed' = [t \in Traces |-> [s \in Spans |-> IF t \in ts THEN Nil ELSE Listed[t][s]]]
  BY <1>1, <1>2
<1>4. \A t \in Traces : Listed[t] = [s \in Spans |-> Listed[t][s]]
  BY DEF Listed
<1> QED
  BY <1>3, <1>4

LEMMA StepOfLog == Inv(Traces) /\ ViewAsListed /\ ViewAsListed' /\ [Next]_vars => [Abstract!Next]_view
<1> SUFFICES ASSUME Inv(Traces), view = Listed, view' = Listed', [Next]_vars
             PROVE  [Abstract!Next]_view
  BY DEF ViewAsListed
<1>1. CASE UNCHANGED vars
  <2>1. UNCHANGED <<parent, trace, span, sub, anns>>
    BY <1>1 DEF vars, memVars
  <2>2. \A t \in Traces : Collected(t)' = Collected(t)
    BY <2>1 DEF Collected
  <2>3. Listed' = Listed
    BY <2>1, <2>2 DEF Listed, Node
  <2> QED
    BY <2>3
<1>2. ASSUME UNCHANGED parent, NEW t \in Traces, NEW s \in Spans, NEW as \in Batches,
             Collect(t, s, as)
      PROVE  Abstract!Next
  <2>0. Listed' = [Listed EXCEPT ![t][s] = IF @ = Nil THEN as ELSE @ \o as]
    BY <1>2, CollectIsListed
  <2>1. Abstract!Collect(t, s, as)
    <3>1. view' = [view EXCEPT ![t][s] = IF @ = Nil THEN as ELSE @ \o as]
      BY <2>0, Zenon
    <3> QED
      BY <3>1, Zenon DEF Abstract!Collect
  <2>2. as \in Abstract!Batches
    BY DEF Batches, Abstract!Batches
  <2> QED
    BY <2>1, <2>2 DEF Abstract!Next
<1>3. ASSUME UNCHANGED parent, NEW ts \in SUBSET Traces, Delete(ts)
      PROVE  Abstract!Next
  <2>1. Abstract!Delete(ts)
    BY <1>3, DeleteIsListed DEF Abstract!Delete
  <2> QED
    BY <2>1 DEF Abstract!Next
<1> QED
  BY <1>1, <1>2, <1>3 DEF Next

(* Whatever the order in which the spans of a trace arrive, and whatever   *)
(* temporary roots come and go, Trace shows each of them, with all of its  *)
(* annotations in the order of the Collects, until its trace is deleted.   *)
THEOREM ImplementsLog == Spec => ImplementsTraceStore
<1>1. Init => Abstract!Init
  <2> SUFFICES ASSUME Init PROVE Abstract!Init
    OBVIOUS
  <2>1. \A t \in Traces : Collected(t) = {}
    BY DEF Init, Collected
  <2>2. view = Listed
    BY InitInv, ViewIsListed DEF ViewAsListed
  <2> QED
    BY <2>1, <2>2 DEF Listed, Abstract!Init
<1>2. Inv(Traces) /\ [Next]_vars => Inv(Traces)'
  BY StepInv
<1>3. Inv(Traces) /\ Inv(Traces)' /\ [Next]_vars => [Abstract!Next]_view
  <2>1. Inv(Traces)' => ViewAsListed'
    BY ViewIsListed, PTL
  <2> QED
    BY <2>1, StepOfLog, ViewIsListed
<1> QED
  BY InitInv, <1>1, <1>2, <1>3, PTL DEF Spec, ImplementsTraceStore, Abstract!Spec
-----------------------------------------------------------------------------
(* PersistentStore.  The contents of a store: those in memory, those being *)
(* written, those in the file.                                             *)
TreeNode(t, s)  == [trace |-> t, span |-> s, copy |-> "tree"]
Held(sp)        == {s \in Spans : sp[s] # Nil}
ShownIn(m, t)   == IF m.trace[t] = Nil THEN {} ELSE Below(m.sub, m.trace[t])
ViewOf(m) ==
    [t \in Traces |-> [s \in Spans |->
        IF \E a \in ShownIn(m, t) : a.span = s
        THEN m.anns[CHOOSE a \in ShownIn(m, t) : a.span = s]
        ELSE Nil]]

(* The nodes that the tree of trace t is made of, one for each span of the *)
(* span map sp: for the spans R that were read back a node of the decoded  *)
(* tree, for those collected since the node of their map entry.            *)
TreeOrOwn(t, R, s) == IF s \in R THEN TreeNode(t, s) ELSE Node(t, s)
Pool(t, R, sp)     == {TreeOrOwn(t, R, s) : s \in Held(sp)}

(* No link leads out of these nodes, and each goes to a child or, from the *)
(* root, to a span whose parent is missing.  p: the parents in trace t.    *)
Linked(p, root, C, x, c) == p[c.span] = x.span \/ (x = root /\ p[c.span] \notin C)

(* Neither the root nor a node that is yet to be allocated is in a list.   *)
Unlisted(root, sp, h, t) ==
    \A x \in Addr : x.trace = t =>
        root \notin h[x] /\ \A s \in Spans \ Held(sp) : Node(t, s) \notin h[x]

Consistent(p, root, sp, h, t, R) ==
    /\ R \subseteq Held(sp)
    /\ \A s \in Held(sp) : sp[s] = Node(t, s)
    /\ IF root = Nil THEN Held(sp) = {} ELSE root \in Pool(t, R, sp)
    /\ \A x \in Pool(t, R, sp) : \A c \in h[x] :
          c \in Pool(t, R, sp) /\ Linked(p, root, Held(sp), x, c)
    /\ \A s \in Spans \ Held(sp) : h[Node(t, s)] = {}
    /\ Unlisted(root, sp, h, t)
    /\ \A s \in Held(sp) : p[s] = Zero => root.span = s

(* Of these nodes, w are those that a list holds twice.                    *)
Once(R, sp, w, t) ==
    /\ Pool(t, R, sp) \cap w = {}
    /\ \A s \in Spans \ Held(sp) : Node(t, s) \notin w

Typed(m) ==
    /\ m.trace \in [Traces -> Addr \cup {Nil}]
    /\ m.span \in [Traces -> [Spans -> Addr \cup {Nil}]]
    /\ m.sub \in [Addr -> SUBSET Addr]
    /\ m.anns \in [Addr -> Seq(Anns)]
    /\ m.again \in SUBSET Addr

Sound(p, m) ==
    /\ Typed(m)
    /\ \A t \in Traces : \E R \in SUBSET Spans :
          /\ Consistent(p[t], m.trace[t], m.span[t], m.sub, t, R)
          /\ Once(R, m.span[t], m.again, t)

LEMMA TreeNodeFacts ==
  /\ \A t \in Traces, s \in Spans :
        /\ TreeNode(t, s) \in Addr /\ TreeNode(t, s) # Nil
        /\ TreeNode(t, s).trace = t /\ TreeNode(t, s).span = s
        /\ TreeNode(t, s).copy = "tree" /\ Node(t, s).copy = s
  /\ \A t, u \in Traces, s, r \in Spans :
        /\ TreeNode(t, s) = TreeNode(u, r) <=> t = u /\ s = r
        /\ TreeNode(t, s) # Node(u, r)
  /\ \A a \in Addr : [a EXCEPT !.copy = "tree"] = TreeNode(a.trace, a.span)
<1>1. ASSUME NEW t \in Traces, NEW s \in Spans
      PROVE  /\ TreeNode(t, s) \in Addr /\ TreeNode(t, s) # Nil
             /\ TreeNode(t, s).trace = t /\ TreeNode(t, s).span = s
             /\ TreeNode(t, s).copy = "tree" /\ Node(t, s).copy = s
  BY NilAssumption DEF TreeNode, Node, Addr
<1>2. ASSUME NEW t \in Traces, NEW u \in Traces, NEW s \in Spans, NEW r \in Spans
      PROVE  /\ TreeNode(t, s) = TreeNode(u, r) <=> t = u /\ s = r
             /\ TreeNode(t, s) # Node(u, r)
  <2>1. TreeNode(t, s) = TreeNode(u, r) <=> t = u /\ s = r
    BY DEF TreeNode
  <2>2. TreeNode(t, s).copy # Node(u, r).copy
    BY <1>1, SpansAssumption
  <2> QED
    BY <2>1, <2>2
<1>3. ASSUME NEW a \in Addr PROVE [a EXCEPT !.copy = "tree"] = TreeNode(a.trace, a.span)
  BY DEF TreeNode, Addr
<1> QED
  BY <1>1, <1>2, <1>3

LEMMA PoolFacts ==
  ASSUME NEW t \in Traces, NEW R, NEW sp
  PROVE  /\ OneEach(Pool(t, R, sp))
         /\ \A a \in Pool(t, R, sp) :
              a.trace = t /\ a.span \in Held(sp) /\ a = TreeOrOwn(t, R, a.span)
         /\ \A s \in Held(sp) : TreeOrOwn(t, R, s) \in Pool(t, R, sp)
<1>1. ASSUME NEW s \in Spans
      PROVE  TreeOrOwn(t, R, s) \in Addr /\ TreeOrOwn(t, R, s).span = s /\ TreeOrOwn(t, R, s).trace = t
  BY NodeFacts, TreeNodeFacts DEF TreeOrOwn
<1>2. Held(sp) \subseteq Spans
  BY DEF Held
<1>3. ASSUME NEW a \in Pool(t, R, sp)
      PROVE  a \in Addr /\ a.trace = t /\ a.span \in Held(sp) /\ a = TreeOrOwn(t, R, a.span)
  <2>1. PICK s \in Held(sp) : a = TreeOrOwn(t, R, s)
    BY DEF Pool
  <2> QED
    BY <2>1, <1>1, <1>2
<1>4. \A a, b \in Pool(t, R, sp) : a.span = b.span => a = b
  BY <1>3
<1>5. \A s \in Held(sp) : TreeOrOwn(t, R, s) \in Pool(t, R, sp)
  BY DEF Pool
<1> QED
  BY <1>3, <1>4, <1>5 DEF OneEach

(* What a reader of a consistent tree meets.                               *)
LEMMA ConsistentTree ==
  ASSUME NEW t \in Traces, NEW p, NEW root, NEW sp, NEW h, NEW R,
         Consistent(p, root, sp, h, t, R), root # Nil
  PROVE  /\ root \in Below(h, root) /\ Below(h, root) \subseteq Pool(t, R, sp)
         /\ \A a \in Below(h, root) : h[a] \subseteq Below(h, root)
<1>1. root \in Pool(t, R, sp)
  BY DEF Consistent
<1>2. \A a \in Pool(t, R, sp) : h[a] \subseteq Pool(t, R, sp)
  BY DEF Consistent
<1>3. OneEach(Pool(t, R, sp))
  BY PoolFacts
<1> QED
  BY <1>1, <1>2, <1>3, BelowIsTree

-----------------------------------------------------------------------------
(* Reading a file back: the decoded trees are copies of those written.     *)
LEMMA OriginalTyped ==
  ASSUME NEW f, Typed(f), NEW a \in Addr PROVE Original(f, a) \subseteq Addr
<1>1. Source(f, a) \in Addr \cup {Nil}
  BY DEF Source, Typed, Addr
<1>2. CASE Source(f, a) = Nil
  BY <1>2 DEF Original
<1>3. CASE Source(f, a) \in Addr
  <2>1. \A b \in Addr : f.sub[b] \subseteq Addr
    BY DEF Typed
  <2>2. Below(f.sub, Source(f, a)) \subseteq Addr
    BY <1>3, <2>1, BelowWithin
  <2> QED
    BY <2>2 DEF Original
<1> QED
  BY <1>1, <1>2, <1>3

LEMMA DecodeTyped ==
  ASSUME NEW f, Typed(f) PROVE Typed(Decode(f))
<1> DEFINE g == Decode(f)
<1>1. /\ g.trace = [t \in Traces |-> IF f.trace[t] = Nil THEN Nil
                                     ELSE [f.trace[t] EXCEPT !.copy = "tree"]]
      /\ g.span = [t \in Traces |-> [s \in Spans |->
                     IF f.span[t][s] = Nil THEN Nil ELSE Node(t, s)]]
      /\ g.sub = [a \in Addr |-> UNION {{[c EXCEPT !.copy = a.copy] : c \in f.sub[b]}
                                          : b \in Original(f, a)}]
      /\ g.anns = [a \in Addr |-> IF Original(f, a) = {} THEN <<>>
                                  ELSE f.anns[CHOOSE b \in Original(f, a) : TRUE]]
      /\ g.again = {a \in Addr : \E b, c \in Original(f, a) : b \in f.again \/ b # c}
  BY DEF Decode
<1> HIDE DEF g
<1>2. g.trace \in [Traces -> Addr \cup {Nil}]
  <2>1. \A a \in Addr : [a EXCEPT !.copy = "tree"] \in Addr
    BY DEF Addr
  <2> QED
    BY <1>1, <2>1 DEF Typed
<1>3. g.span \in [Traces -> [Spans -> Addr \cup {Nil}]]
  BY <1>1, NodeFacts
<1>4. \A a \in Addr : Original(f, a) \subseteq Addr
  BY OriginalTyped
<1>5. ASSUME NEW a \in Addr
      PROVE  UNION {{[c EXCEPT !.copy = a.copy] : c \in f.sub[b]} : b \in Original(f, a)}
               \subseteq Addr
  <2> SUFFICES ASSUME NEW b \in Original(f, a), NEW c \in f.sub[b]
               PROVE  [c EXCEPT !.copy = a.copy] \in Addr
    OBVIOUS
  <2>1. c \in Addr
    BY <1>4 DEF Typed
  <2> QED
    BY <2>1 DEF Addr
<1>6. g.sub \in [Addr -> SUBSET Addr]
  BY <1>1, <1>5
<1>7. ASSUME NEW a \in Addr
      PROVE  (IF Original(f, a) = {} THEN <<>>
              ELSE f.anns[CHOOSE b \in Original(f, a) : TRUE]) \in Seq(Anns)
  <2>1. CASE Original(f, a) = {}
    <3>1. <<>> \in Seq(Anns)
      OBVIOUS
    <3> QED
      BY <2>1, <3>1
  <2>2. CASE Original(f, a) # {}
    <3>1. (CHOOSE b \in Original(f, a) : TRUE) \in Addr
      BY <2>2, <1>4
    <3> QED
      BY <2>2, <3>1 DEF Typed
  <2> QED
    BY <2>1, <2>2
<1>8. g.anns \in [Addr -> Seq(Anns)]
  BY <1>1, <1>7
<1>9. g.again \in SUBSET Addr
  BY <1>1
<1> QED
  BY <1>2, <1>3, <1>6, <1>8, <1>9 DEF Typed, g

(* One trace of the file, from its tree to the copy of its tree.           *)
CopiedTo(f, g, t) ==
    /\ g.trace[t] = TreeNode(t, f.trace[t].span)
    /\ \A a \in Below(f.sub, f.trace[t]) :
          /\ a.span \in Spans
          /\ g.sub[TreeNode(t, a.span)] = {TreeNode(t, c.span) : c \in f.sub[a]}
          /\ g.anns[TreeNode(t, a.span)] = f.anns[a]

LEMMA DecodedTree ==
  ASSUME NEW f, Typed(f), NEW t \in Traces, NEW p, NEW R, f.trace[t] # Nil,
         Consistent(p, f.trace[t], f.span[t], f.sub, t, R)
  PROVE  CopiedTo(f, Decode(f), t)
<1> DEFINE g    == Decode(f)
           r    == f.trace[t]
           B    == Below(f.sub, r)
           T(a) == TreeNode(t, a.span)
           P    == Pool(t, R, f.span[t])
<1>1. /\ r \in B /\ B \subseteq P /\ \A a \in B : f.sub[a] \subseteq B
      /\ \A a \in P : a \in Addr /\ a.trace = t /\ a.span \in Spans
      /\ \A a, b \in P : a.span = b.span => a = b
  <2>1. r \in B /\ B \subseteq P /\ \A a \in B : f.sub[a] \subseteq B
    BY ConsistentTree
  <2>2. OneEach(P) /\ \A a \in P : a.trace = t /\ a.span \in Held(f.span[t])
    BY PoolFacts
  <2> QED
    BY <2>1, <2>2 DEF OneEach, Held
<1>2. \A a \in B : a \in Addr /\ T(a) \in Addr /\ T(a).span = a.span
                     /\ T(a).trace = t /\ T(a).copy = "tree"
  BY <1>1, TreeNodeFacts
<1>3. \A c \in B : [c EXCEPT !.copy = "tree"] = T(c)
  BY <1>1, <1>2, TreeNodeFacts
<1>4. g.trace[t] = T(r)
  BY <1>1, <1>3 DEF Decode
<1> HIDE DEF P, B, T
<1>5. ASSUME NEW a \in B
      PROVE  /\ Original(f, T(a)) = {a}
             /\ g.sub[T(a)] = {T(c) : c \in f.sub[a]}
             /\ g.anns[T(a)] = f.anns[a]
  <2>1. Source(f, T(a)) = r
    BY <1>2 DEF Source
  <2>2. Original(f, T(a)) = {b \in B : b.span = a.span}
    BY <1>2, <2>1 DEF Original, B
  <2>3. Original(f, T(a)) = {a}
    BY <1>1, <2>2
  <2>4. g.sub[T(a)] = UNION {{[c EXCEPT !.copy = T(a).copy] : c \in f.sub[b]}
                               : b \in Original(f, T(a))}
    BY <1>2 DEF Decode
  <2>5. g.sub[T(a)] = {[c EXCEPT !.copy = "tree"] : c \in f.sub[a]}
    BY <1>2, <2>3, <2>4
  <2>6. g.sub[T(a)] = {T(c) : c \in f.sub[a]}
    BY <1>1, <1>3, <2>5
  <2>7. g.anns[T(a)] = f.anns[CHOOSE b \in Original(f, T(a)) : TRUE]
    BY <1>2, <2>3 DEF Decode
  <2>8. (CHOOSE b \in {a} : TRUE) = a
    OBVIOUS
  <2> QED
    BY <2>3, <2>6, <2>7, <2>8
<1>6. \A a \in B : a.span \in Spans
  BY <1>1
<1> QED
  BY <1>4, <1>5, <1>6 DEF B, T, CopiedTo

LEMMA DecodedIsConsistent ==
  ASSUME NEW f, Typed(f), NEW t \in Traces, NEW p, NEW R,
         Consistent(p, f.trace[t], f.span[t], f.sub, t, R)
  PROVE  LET g == Decode(f)
         IN  Consistent(p, g.trace[t], g.span[t], g.sub, t, Held(g.span[t]))
<1> DEFINE g   == Decode(f)
           r   == f.trace[t]
           sp  == f.span[t]
           gr  == g.trace[t]
           gsp == g.span[t]
           H   == Held(sp)
           B   == Below(f.sub, r)
<1>1. \A s \in Spans : gsp[s] = IF sp[s] = Nil THEN Nil ELSE Node(t, s)
  BY DEF Decode
<1>2. Held(gsp) = H /\ H \subseteq Spans /\ \A s \in H : gsp[s] = Node(t, s)
  BY <1>1, NodeFacts DEF Held
<1>3. gr = Nil <=> r = Nil
  <2>1. gr = IF r = Nil THEN Nil ELSE [r EXCEPT !.copy = "tree"]
    BY DEF Decode
  <2>2. r \in Addr \cup {Nil}
    BY DEF Typed
  <2>3. r \in Addr => [r EXCEPT !.copy = "tree"] \in Addr
    BY DEF Addr
  <2> QED
    BY <2>1, <2>2, <2>3, NilAssumption
<1>4. r # Nil => r \in Pool(t, R, sp) /\ r.span \in H /\ gr = TreeNode(t, r.span)
  <2>1. r # Nil => r \in Pool(t, R, sp)
    BY DEF Consistent
  <2>2. r # Nil => gr = TreeNode(t, r.span)
    BY DecodedTree DEF CopiedTo
  <2> QED
    BY <2>1, <2>2, PoolFacts
<1>5. IF gr = Nil THEN Held(gsp) = {} ELSE gr \in Pool(t, H, gsp)
  <2>1. r = Nil => H = {}
    BY DEF Consistent
  <2>2. r # Nil => gr = TreeOrOwn(t, H, r.span)
    BY <1>4 DEF TreeOrOwn
  <2> QED
    BY <1>2, <1>3, <1>4, <2>1, <2>2 DEF Pool
<1>6. ASSUME NEW x \in Pool(t, H, gsp), NEW c \in g.sub[x]
      PROVE  c \in Pool(t, H, gsp) /\ Linked(p, gr, H, x, c)
  <2>1. x \in Addr /\ x.trace = t /\ x.span \in H /\ x = TreeNode(t, x.span) /\ x.copy = "tree"
    <3>1. x \in Addr /\ x.trace = t /\ x.span \in Held(gsp) /\ x = TreeOrOwn(t, H, x.span)
      BY PoolFacts DEF OneEach
    <3> QED
      BY <1>2, <3>1, TreeNodeFacts DEF TreeOrOwn
  <2>2. g.sub[x] = UNION {{[d EXCEPT !.copy = x.copy] : d \in f.sub[b]} : b \in Original(f, x)}
    BY <2>1 DEF Decode
  <2>3. PICK b \in Original(f, x) : \E d \in f.sub[b] : c = [d EXCEPT !.copy = x.copy]
    BY <2>2
  <2>4. Source(f, x) = r
    BY <2>1 DEF Source
  <2>5. r # Nil /\ b \in B /\ b.span = x.span
    BY <2>3, <2>4 DEF Original
  <2>6. PICK d \in f.sub[b] : c = [d EXCEPT !.copy = "tree"]
    BY <2>1, <2>3
  <2>7. b \in Pool(t, R, sp)
    BY <2>5, ConsistentTree
  <2>8. d \in Pool(t, R, sp) /\ Linked(p, r, H, b, d)
    BY <2>6, <2>7 DEF Consistent
  <2>9. d \in Addr /\ d.trace = t /\ d.span \in H
    BY <2>8, PoolFacts DEF OneEach
  <2>10. c = TreeNode(t, d.span)
    BY <2>6, <2>9, TreeNodeFacts
  <2>11. c \in Pool(t, H, gsp) /\ c.span = d.span
    BY <1>2, <2>9, <2>10, PoolFacts, TreeNodeFacts DEF TreeOrOwn
  <2>12. b = r => x = gr
    BY <1>4, <2>1, <2>5
  <2> QED
    BY <2>5, <2>8, <2>11, <2>12 DEF Linked
<1>7. ASSUME NEW s \in Spans \ H PROVE g.sub[Node(t, s)] = {}
  <2>1. /\ Node(t, s) \in Addr /\ Node(t, s).trace = t /\ Node(t, s).copy = s
        /\ s # "tree" /\ sp[s] = Nil
    BY NodeFacts, TreeNodeFacts, SpansAssumption DEF Held
  <2>2. Source(f, Node(t, s)) = Nil
    BY <2>1 DEF Source
  <2>3. Original(f, Node(t, s)) = {}
    BY <2>2 DEF Original
  <2> QED
    BY <2>1, <2>3 DEF Decode
<1>8. ASSUME NEW s \in H, p[s] = Zero PROVE gr.span = s
  <2>1. r.span = s /\ H # {}
    BY <1>8 DEF Consistent
  <2>2. r # Nil
    BY <2>1 DEF Consistent
  <2> QED
    BY <1>2, <1>4, <2>1, <2>2, TreeNodeFacts
<1>9. ASSUME NEW x \in Addr, x.trace = t, NEW c \in g.sub[x]
      PROVE  c # gr /\ \A s \in Spans \ H : c # Node(t, s)
  <2>1. g.sub[x] = UNION {{[d EXCEPT !.copy = x.copy] : d \in f.sub[b]} : b \in Original(f, x)}
    BY DEF Decode
  <2>2. PICK b \in Original(f, x) : \E d \in f.sub[b] : c = [d EXCEPT !.copy = x.copy]
    BY <1>9, <2>1
  <2>3. PICK d \in f.sub[b] : c = [d EXCEPT !.copy = x.copy]
    BY <2>2
  <2>4. b \in Addr /\ d \in Addr
    BY <2>2, <2>3, OriginalTyped DEF Typed
  <2>5. c.copy = x.copy /\ c.span = d.span
    BY <2>3, <2>4 DEF Addr
  <2>6. Source(f, x) # Nil
    BY <2>2 DEF Original
  <2>7. x.copy \in Spans \cup {"tree"}
    BY DEF Addr
  <2>8. ASSUME NEW s \in Spans \ H PROVE c # Node(t, s)
    <3>1. sp[s] = Nil /\ s # "tree" /\ Node(t, s).copy = s
      BY SpansAssumption, TreeNodeFacts DEF Held
    <3>2. x.copy = s => Source(f, x) = Nil
      BY <1>9, <3>1 DEF Source
    <3> QED
      BY <2>5, <2>6, <3>1, <3>2
  <2>9. r # Nil
    <3>1. CASE x.copy = "tree"
      BY <1>9, <2>6, <3>1 DEF Source
    <3>2. CASE x.copy # "tree"
      <4>1. x.copy \in Spans /\ sp[x.copy] # Nil
        BY <1>9, <2>6, <2>7, <3>2 DEF Source
      <4>2. H # {}
        BY <4>1 DEF Held
      <4> QED
        BY <4>2 DEF Consistent
    <3> QED
      BY <3>1, <3>2
  <2>10. ASSUME c = gr PROVE FALSE
    <3>1. r.span \in Spans /\ r \in Pool(t, R, sp) /\ gr = TreeNode(t, r.span)
      BY <1>2, <1>4, <2>9
    <3>2. x.copy = "tree" /\ d.span = r.span
      BY <2>5, <2>10, <3>1, TreeNodeFacts
    <3>3. Source(f, x) = r
      BY <1>9, <3>2 DEF Source
    <3>4. b \in B
      BY <3>3, <2>2, <2>9 DEF Original
    <3>5. b \in Pool(t, R, sp) /\ d \in Pool(t, R, sp) /\ r \notin f.sub[b]
      <4>1. b \in Pool(t, R, sp)
        BY <3>4, <2>9, ConsistentTree
      <4>2. d \in Pool(t, R, sp)
        BY <4>1 DEF Consistent
      <4>3. b.trace = t
        BY <4>1, PoolFacts
      <4> QED
        BY <4>1, <4>2, <4>3, <2>4 DEF Consistent, Unlisted
    <3>6. d = r
      BY <3>1, <3>2, <3>5, PoolFacts DEF OneEach
    <3> QED
      BY <3>5, <3>6
  <2> QED
    BY <2>8, <2>10
<1> HIDE DEF g, r, sp, gr, gsp, H
<1>10. Unlisted(gr, gsp, g.sub, t)
  BY <1>2, <1>9 DEF Unlisted
<1>11. Consistent(p, gr, gsp, g.sub, t, H)
  BY <1>2, <1>5, <1>6, <1>7, <1>8, <1>10 DEF Consistent
<1> QED
  BY <1>2, <1>11 DEF g, gr, gsp

(* No node of a decoded tree is listed twice if none of the original was.  *)
LEMMA DecodedOnce ==
  ASSUME NEW f, Typed(f), NEW t \in Traces, NEW p, NEW R,
         Consistent(p, f.trace[t], f.span[t], f.sub, t, R),
         Once(R, f.span[t], f.again, t)
  PROVE  LET g == Decode(f)
         IN  Once(Held(g.span[t]), g.span[t], g.again, t)
<1> DEFINE g == Decode(f)
           H == Held(g.span[t])
<1>1. g.again = {x \in Addr : \E b, c \in Original(f, x) : b \in f.again \/ b # c}
  BY DEF Decode
<1>2. ASSUME NEW a \in Pool(t, H, g.span[t]) PROVE a \notin g.again
  <2> SUFFICES ASSUME a \in g.again PROVE FALSE
    OBVIOUS
  <2>1. a.trace = t /\ a.copy = "tree"
    <3>1. a.trace = t /\ a.span \in H /\ a = TreeOrOwn(t, H, a.span)
      BY PoolFacts
    <3>2. H \subseteq Spans
      BY DEF Held
    <3> QED
      BY <3>1, <3>2, TreeNodeFacts DEF TreeOrOwn
  <2>2. PICK b, c \in Original(f, a) : b \in f.again \/ b # c
    BY <1>1
  <2>3. Source(f, a) = f.trace[t]
    BY <2>1 DEF Source
  <2>4. /\ f.trace[t] # Nil /\ b.span = c.span
        /\ b \in Below(f.sub, f.trace[t]) /\ c \in Below(f.sub, f.trace[t])
    BY <2>2, <2>3 DEF Original
  <2>5. b \in Pool(t, R, f.span[t]) /\ c \in Pool(t, R, f.span[t])
    BY <2>4, ConsistentTree
  <2> QED
    BY <2>2, <2>4, <2>5, PoolFacts DEF OneEach, Once
<1>3. ASSUME NEW s \in Spans \ H PROVE Node(t, s) \notin g.again
  <2>1. f.span[t][s] = Nil
    BY NodeFacts DEF Decode, Held
  <2>2. Node(t, s).copy = s /\ Node(t, s).trace = t /\ s # "tree"
    BY NodeFacts, TreeNodeFacts, SpansAssumption
  <2>3. Original(f, Node(t, s)) = {}
    BY <2>1, <2>2 DEF Source, Original
  <2> QED
    BY <1>1, <2>3
<1> HIDE DEF g, H
<1>4. Once(H, g.span[t], g.again, t)
  <2>1. \A s \in Spans \ Held(g.span[t]) : Node(t, s) \notin g.again
    BY <1>3 DEF H
  <2> QED
    BY <1>2, <2>1 DEF Once
<1> QED
  BY <1>4 DEF g, H

(* What is read back is shown as it was when it was written.               *)
LEMMA DecodedIsShown ==
  ASSUME NEW f, Typed(f), NEW t \in Traces, NEW p, NEW R, f.trace[t] # Nil,
         Consistent(p, f.trace[t], f.span[t], f.sub, t, R)
  PROVE  ShownIn(Decode(f), t) = {TreeNode(t, a.span) : a \in ShownIn(f, t)}
<1> DEFINE g    == Decode(f)
           r    == f.trace[t]
           gr   == g.trace[t]
           B    == Below(f.sub, r)
           C    == Below(g.sub, gr)
           T(a) == TreeNode(t, a.span)
           U    == {T(a) : a \in B}
           V    == {a \in B : T(a) \in C}
<1>1. /\ gr = T(r)
      /\ \A a \in B : g.sub[T(a)] = {T(c) : c \in f.sub[a]}
  <2>1. CopiedTo(f, g, t)
    BY DecodedTree
  <2> QED
    BY <2>1 DEF CopiedTo
<1>2. r \in B /\ \A a \in B : f.sub[a] \subseteq B
  BY ConsistentTree
<1>3. gr # Nil
  <2>1. r \in Pool(t, R, f.span[t])
    BY DEF Consistent
  <2>2. r.span \in Spans
    BY <2>1, PoolFacts DEF Held
  <2> QED
    BY <1>1, <2>2, TreeNodeFacts
<1>4. gr \in C /\ \A a \in C : g.sub[a] \subseteq C
  BY <1>3, DecodedIsConsistent, ConsistentTree
<1> HIDE DEF g, B, C, T, r, gr
<1>5. C \subseteq U
  <2>1. gr \in U /\ \A a \in U : g.sub[a] \subseteq U
    BY <1>1, <1>2
  <2> HIDE DEF U
  <2> QED
    BY <2>1, BelowWithin DEF C
<1>6. B \subseteq V
  <2>1. r \in V
    BY <1>1, <1>2, <1>4
  <2>2. \A a \in V : f.sub[a] \subseteq V
    BY <1>1, <1>2, <1>4
  <2> HIDE DEF V
  <2> QED
    BY <2>1, <2>2, BelowWithin DEF B
<1>7. C = U
  BY <1>5, <1>6
<1>8. ShownIn(g, t) = C /\ ShownIn(f, t) = B
  BY <1>3 DEF ShownIn, C, B, gr, r
<1> QED
  BY <1>7, <1>8 DEF g, T

LEMMA DecodedView ==
  ASSUME NEW f, NEW p, Sound(p, f)
  PROVE  Sound(p, Decode(f)) /\ ViewOf(Decode(f)) = ViewOf(f)
<1> DEFINE g == Decode(f)
<1>0. Typed(f)
  BY DEF Sound
<1>1. Typed(g)
  BY <1>0, DecodeTyped
<1>2. ASSUME NEW t \in Traces
      PROVE  \E R \in SUBSET Spans :
                /\ Consistent(p[t], g.trace[t], g.span[t], g.sub, t, R)
                /\ Once(R, g.span[t], g.again, t)
  <2>1. PICK R \in SUBSET Spans : /\ Consistent(p[t], f.trace[t], f.span[t], f.sub, t, R)
                                  /\ Once(R, f.span[t], f.again, t)
    BY DEF Sound
  <2>2. Consistent(p[t], g.trace[t], g.span[t], g.sub, t, Held(g.span[t]))
    BY <1>0, <2>1, DecodedIsConsistent
  <2>3. Held(g.span[t]) \in SUBSET Spans
    BY DEF Held
  <2>4. Once(Held(g.span[t]), g.span[t], g.again, t)
    BY <1>0, <2>1, DecodedOnce
  <2> HIDE DEF g
  <2> QED
    BY <2>2, <2>3, <2>4
<1>3. ASSUME NEW t \in Traces, NEW s \in Spans
      PROVE  (IF \E a \in ShownIn(g, t) : a.span = s
              THEN g.anns[CHOOSE a \in ShownIn(g, t) : a.span = s] ELSE Nil)
             = IF \E a \in ShownIn(f, t) : a.span = s
               THEN f.anns[CHOOSE a \in ShownIn(f, t) : a.span = s] ELSE Nil
  <2>1. PICK R \in SUBSET Spans : Consistent(p[t], f.trace[t], f.span[t], f.sub, t, R)
    BY DEF Sound
  <2>2. CASE f.trace[t] = Nil
    <3>1. g.trace[t] = Nil
      BY <2>2 DEF Decode
    <3>2. ShownIn(g, t) = {} /\ ShownIn(f, t) = {}
      BY <2>2, <3>1 DEF ShownIn
    <3> QED
      BY <3>2
  <2>3. CASE f.trace[t] # Nil
    <3> DEFINE S == ShownIn(f, t)
               T == ShownIn(g, t)
    <3>1. T = {TreeNode(t, a.span) : a \in S}
      BY <1>0, <2>1, <2>3, DecodedIsShown
    <3>2. \A a \in S : a.span \in Spans /\ g.anns[TreeNode(t, a.span)] = f.anns[a]
      <4>1. CopiedTo(f, g, t)
        BY <1>0, <2>1, <2>3, DecodedTree
      <4> QED
        BY <2>3, <4>1 DEF ShownIn, CopiedTo
    <3>3. \A a, b \in S : a.span = b.span => a = b
      BY <2>1, <2>3, ConsistentTree, PoolFacts DEF ShownIn, OneEach
    <3> HIDE DEF S, T, g
    <3>4. \A a \in T : a.span = s <=> a = TreeNode(t, s)
      BY <3>1, <3>2, TreeNodeFacts
    <3>5. (\E a \in T : a.span = s) <=> \E a \in S : a.span = s
      BY <3>1, <3>2, <3>4, TreeNodeFacts
    <3>6. ASSUME NEW a \in S, a.span = s
          PROVE  g.anns[CHOOSE b \in T : b.span = s] = f.anns[CHOOSE b \in S : b.span = s]
      <4>1. (CHOOSE b \in S : b.span = s) = a
        BY <3>3, <3>6
      <4>2. TreeNode(t, s) \in T
        BY <3>1, <3>6
      <4>3. (CHOOSE b \in T : b.span = s) = TreeNode(t, s)
        BY <3>4, <4>2
      <4> QED
        BY <3>2, <3>6, <4>1, <4>3
    <3> QED
      BY <3>5, <3>6 DEF S, T
  <2> QED
    BY <2>2, <2>3
<1>4. ViewOf(g) = ViewOf(f)
  <2> HIDE DEF g
  <2> QED
    BY <1>3 DEF ViewOf
<1>5. Sound(p, g)
  <2> HIDE DEF g
  <2> QED
    BY <1>1, <1>2 DEF Sound
<1> QED
  BY <1>4, <1>5

-----------------------------------------------------------------------------
(* Collecting into a store that was read back.                             *)
InTree(t, R)   == Consistent(parent[t], trace[t], span[t], sub, t, R)
OnceEach(t, R) == Once(R, span[t], again, t)

OthersStay(T) ==
    /\ \A u \in Traces \ T : trace'[u] = trace[u] /\ span'[u] = span[u]
    /\ \A a \in Addr : a.trace \notin T => sub'[a] = sub[a]

LEMMA InTreeFacts ==
  ASSUME TypeOK, TreesWellFormed, NEW t \in Traces, NEW R, InTree(t, R)
  PROVE  /\ R \subseteq Collected(t) /\ Collected(t) \subseteq Spans
         /\ \A s \in Collected(t) : span[t][s] = Node(t, s)
         /\ trace[t] = Nil => Collected(t) = {}
         /\ trace[t] # Nil => trace[t] \in Pool(t, R, span[t])
         /\ \A x \in Pool(t, R, span[t]) : \A c \in sub[x] :
              /\ c \in Pool(t, R, span[t])
              /\ ParentID(c) = x.span \/ (x = trace[t] /\ ParentID(c) \notin Collected(t))
         /\ \A s \in Spans \ Collected(t) : sub[Node(t, s)] = {}
         /\ \A s \in Collected(t) : IsRoot(t, s) => trace[t].span = s
         /\ \A a \in Pool(t, R, span[t]) :
              /\ a \in Addr /\ a.trace = t /\ a.span \in Collected(t)
              /\ ParentID(a) = parent[t][a.span]
         /\ \A x \in Addr : x.trace = t =>
              /\ trace[t] \notin sub[x]
              /\ \A s \in Spans \ Collected(t) : Node(t, s) \notin sub[x]
<1>1. Held(span[t]) = Collected(t)
  BY DEF Held, Collected
<1>2. \A a \in Pool(t, R, span[t]) :
         /\ a \in Addr /\ a.trace = t /\ a.span \in Collected(t)
         /\ ParentID(a) = parent[t][a.span]
  BY <1>1, PoolFacts DEF OneEach, ParentID
<1>3. \A x \in Addr : x.trace = t =>
         /\ trace[t] \notin sub[x]
         /\ \A s \in Spans \ Collected(t) : Node(t, s) \notin sub[x]
  BY <1>1 DEF InTree, Consistent, Unlisted
<1> QED
  BY <1>1, <1>2, <1>3 DEF InTree, Consistent, Linked, IsRoot, Collected

(* A new span joins the nodes of its tree with the node of its map entry.  *)
LEMMA NewInPool ==
  ASSUME TypeOK, TreesWellFormed, UNCHANGED parent,
         NEW t \in Traces, NEW s \in Spans, NEW as \in Batches, CollectNew(t, s, as),
         NEW R, InTree(t, R)
  PROVE  /\ Held(span'[t]) = Collected(t) \cup {s} /\ s \notin Collected(t)
         /\ \A r \in Spans : span'[t][r] = IF r = s THEN Node(t, s) ELSE span[t][r]
         /\ \A u \in Traces : u # t => span'[u] = span[u]
         /\ Pool(t, R, span'[t]) = Pool(t, R, span[t]) \cup {Node(t, s)}
         /\ Node(t, s) \notin Pool(t, R, span[t]) /\ sub[Node(t, s)] = {}
<1>1. /\ span' = [span EXCEPT ![t][s] = Node(t, s)]
      /\ \A u \in Traces, r \in Spans :
              span'[u][r] = IF u = t /\ r = s THEN Node(t, s) ELSE span[u][r]
      /\ s \notin Collected(t) /\ Collected(t)' = Collected(t) \cup {s}
  BY NewSpanFacts, ZenonT(30)
<1>2. Held(span'[t]) = Collected(t) \cup {s} /\ Held(span[t]) = Collected(t)
  BY <1>1 DEF Held, Collected
<1>3. R \subseteq Collected(t) /\ sub[Node(t, s)] = {}
  BY <1>1, InTreeFacts
<1>4. TreeOrOwn(t, R, s) = Node(t, s)
  BY <1>1, <1>3 DEF TreeOrOwn
<1>5. Pool(t, R, span'[t]) = Pool(t, R, span[t]) \cup {Node(t, s)}
  BY <1>2, <1>4 DEF Pool
<1>6. Node(t, s) \notin Pool(t, R, span[t])
  BY <1>1, <1>2, PoolFacts, NodeFacts
<1>7. \A u \in Traces : u # t => span'[u] = span[u]
  BY <1>1 DEF TypeOK
<1>8. \A r \in Spans : span'[t][r] = IF r = s THEN Node(t, s) ELSE span[t][r]
  BY <1>1
<1> QED
  BY <1>1, <1>2, <1>3, <1>5, <1>6, <1>7, <1>8

(* Consistent, from what the heap of the new tree is.                      *)
LEMMA JoinsTree ==
  ASSUME TypeOK, TreesWellFormed, UNCHANGED parent,
         NEW t \in Traces, NEW s \in Spans, NEW as \in Batches, CollectNew(t, s, as),
         NEW R, InTree(t, R),
         trace'[t] \in Pool(t, R, span'[t]), trace'[t] # Nil,
         \A x \in Pool(t, R, span'[t]) : \A c \in sub'[x] :
            /\ c \in Pool(t, R, span'[t])
            /\ ParentID(c) = x.span \/
               (x = trace'[t] /\ ParentID(c) \notin Collected(t) \cup {s}),
         \A r \in Spans \ (Collected(t) \cup {s}) : sub'[Node(t, r)] = {},
         \A x \in Addr : x.trace = t =>
            /\ trace'[t] \notin sub'[x]
            /\ \A r \in Spans \ (Collected(t) \cup {s}) : Node(t, r) \notin sub'[x],
         \A r \in Collected(t) \cup {s} : IsRoot(t, r) => trace'[t].span = r
  PROVE  InTree(t, R)'
<1> DEFINE sp == span'[t]
<1>1. /\ Held(sp) = Collected(t) \cup {s}
      /\ \A r \in Spans : sp[r] = IF r = s THEN Node(t, s) ELSE span[t][r]
  <2>1. /\ Held(span'[t]) = Collected(t) \cup {s}
        /\ \A r \in Spans : span'[t][r] = IF r = s THEN Node(t, s) ELSE span[t][r]
    BY ONLY TypeOK, TreesWellFormed, UNCHANGED parent, CollectNew(t, s, as), InTree(t, R),
            NewInPool
  <2> QED
    BY <2>1
<1>2. R \subseteq Held(sp) /\ \A r \in Held(sp) : sp[r] = Node(t, r)
  BY <1>1, InTreeFacts
<1>3. \A c \in Pool(t, R, sp) : ParentID(c) = parent[t][c.span]
  BY PoolFacts DEF ParentID
<1>4. \A x \in Pool(t, R, sp) : \A c \in sub'[x] :
         c \in Pool(t, R, sp) /\ Linked(parent[t], trace'[t], Held(sp), x, c)
  BY <1>1, <1>3 DEF Linked
<1>5. \A r \in Held(sp) : parent[t][r] = Zero => trace'[t].span = r
  BY <1>1 DEF IsRoot
<1>7. Unlisted(trace'[t], sp, sub', t)
  BY <1>1 DEF Unlisted
<1> HIDE DEF sp
<1>6. Consistent(parent[t], trace'[t], sp, sub', t, R)
  BY <1>1, <1>2, <1>4, <1>5, <1>7 DEF Consistent, sp
<1> QED
  BY <1>6 DEF InTree, sp

LEMMA FirstJoins ==
  ASSUME TypeOK, TreesWellFormed, UNCHANGED parent,
         NEW t \in Traces, NEW s \in Spans, NEW as \in Batches, CollectNew(t, s, as),
         NEW R, InTree(t, R), trace[t] = Nil
  PROVE  TypeOK' /\ InTree(t, R)' /\ OthersStay({t})
<1> DEFINE new == Node(t, s)
<1>1. trace' = [trace EXCEPT ![t] = new] /\ UNCHANGED sub
  BY DEF CollectNew
<1>2. trace'[t] = new /\ \A u \in Traces : u # t => trace'[u] = trace[u]
  BY <1>1 DEF TypeOK
<1>3. /\ Collected(t) = {} /\ Collected(t) \subseteq Spans
      /\ Pool(t, R, span'[t]) = Pool(t, R, span[t]) \cup {new}
      /\ sub[new] = {} /\ \A u \in Traces : u # t => span'[u] = span[u]
  <2>1. Collected(t) = {} /\ Collected(t) \subseteq Spans
    BY InTreeFacts
  <2>2. /\ Pool(t, R, span'[t]) = Pool(t, R, span[t]) \cup {new}
        /\ sub[new] = {} /\ \A u \in Traces : u # t => span'[u] = span[u]
    BY NewInPool
  <2> QED
    BY <2>1, <2>2
<1>4. Pool(t, R, span[t]) = {}
  BY <1>3, InTreeFacts
<1>5. \A r \in Spans \ {s} : sub[Node(t, r)] = {}
  BY <1>3, InTreeFacts
<1>6. new \in Addr /\ new # Nil /\ new.span = s
  BY NodeFacts
<1>7. TypeOK'
  <2>1. /\ span' \in [Traces -> [Spans -> Addr \cup {Nil}]]
        /\ anns' \in [Addr -> Seq(Anns)]
    BY NewSpanFacts
  <2> QED
    BY <2>1, <1>1, <1>6 DEF TypeOK
<1>8. InTree(t, R)'
  <2>1. trace'[t] \in Pool(t, R, span'[t]) /\ trace'[t] # Nil
    BY <1>2, <1>3, <1>6
  <2>2. \A x \in Pool(t, R, span'[t]) : sub'[x] = {}
    BY <1>1, <1>3, <1>4
  <2>3. \A r \in Spans \ (Collected(t) \cup {s}) : sub'[Node(t, r)] = {}
    BY <1>1, <1>5
  <2>4. \A r \in Collected(t) \cup {s} : IsRoot(t, r) => trace'[t].span = r
    BY <1>2, <1>3, <1>6
  <2>5. \A x \in Addr : x.trace = t =>
           /\ trace'[t] \notin sub'[x]
           /\ \A r \in Spans \ (Collected(t) \cup {s}) : Node(t, r) \notin sub'[x]
    BY <1>1, <1>2, <1>3, InTreeFacts
  <2> HIDE DEF new
  <2> QED
    BY <2>1, <2>2, <2>3, <2>4, <2>5, JoinsTree
<1> QED
  BY <1>1, <1>2, <1>3, <1>7, <1>8 DEF OthersStay

LEMMA PromoteJoins ==
  ASSUME TypeOK, TreesWellFormed, UNCHANGED parent,
         NEW t \in Traces, NEW s \in Spans, NEW as \in Batches, CollectNew(t, s, as),
         NEW R, InTree(t, R), trace[t] # Nil, TakesOver(t, s, trace[t])
  PROVE  TypeOK' /\ InTree(t, R)' /\ OthersStay({t})
<1> DEFINE new  == Node(t, s)
           old  == trace[t]
           o    == old.span
           P    == Pool(t, R, span[t])
           home == HomeIn(span', new, old)
<1>0. /\ Held(span'[t]) = Collected(t) \cup {s} /\ s \notin Collected(t)
      /\ \A r \in Spans : span'[t][r] = IF r = s THEN new ELSE span[t][r]
      /\ \A u \in Traces : u # t => span'[u] = span[u]
      /\ Pool(t, R, span'[t]) = P \cup {new}
      /\ new \notin P /\ sub[new] = {}
  BY NewInPool
<1>1. /\ old \in P /\ Collected(t) \subseteq Spans
      /\ \A x \in P : \A c \in sub[x] :
           c \in P /\ (ParentID(c) = x.span \/ (x = old /\ ParentID(c) \notin Collected(t)))
      /\ \A a \in P : /\ a \in Addr /\ a.trace = t /\ a.span \in Collected(t)
                      /\ ParentID(a) = parent[t][a.span]
  BY InTreeFacts
<1>2. /\ new \in Addr /\ new # Nil /\ new.span = s /\ new.trace = t /\ old \in Addr
      /\ o \in Collected(t) /\ o \in Spans /\ o # s /\ old.trace = t
      /\ ParentID(old) = parent[t][o] /\ parent[t][o] # o
  BY <1>0, <1>1, NodeFacts DEF TreesWellFormed
<1>3. home = IF parent[t][o] \in Collected(t) \cup {s} THEN Node(t, parent[t][o]) ELSE new
  <2>1. CASE parent[t][o] \in Collected(t) \cup {s}
    <3>1. parent[t][o] \in Spans
      BY <1>1, <2>1
    <3>2. span'[t][parent[t][o]] = Node(t, parent[t][o])
      BY <1>0, <2>1, <3>1, InTreeFacts
    <3>3. Node(t, parent[t][o]) # Nil
      BY <3>1, NodeFacts
    <3> QED
      BY <2>1, <3>1, <3>2, <3>3, <1>2 DEF HomeIn
  <2>2. CASE parent[t][o] \notin Collected(t) \cup {s}
    <3>1. parent[t][o] \in Spans => span'[t][parent[t][o]] = Nil
      BY <1>0, <2>2 DEF Collected
    <3> QED
      BY <2>2, <3>1, <1>2 DEF HomeIn
  <2> QED
    BY <2>1, <2>2
<1>4. /\ home \in Addr /\ home # old /\ home.trace = t
      /\ home = new => parent[t][o] = s \/ parent[t][o] \notin Collected(t) \cup {s}
      /\ home # new => home.span = parent[t][o]
      /\ \A r \in Spans \ (Collected(t) \cup {s}) : home # Node(t, r)
  <2>1. parent[t][o] \in Collected(t) \cup {s} => parent[t][o] \in Spans
    BY <1>1
  <2> QED
    BY <1>1, <1>2, <1>3, <2>1, NodeFacts
<1>5. trace' = [trace EXCEPT ![t] = new] /\ sub' = Promote(sub, span', new, old)
  <2>1. span' = [span EXCEPT ![t][s] = new]
    BY NewSpanFacts
  <2> QED
    BY <2>1 DEF CollectNew
<1>6. trace'[t] = new /\ \A u \in Traces : u # t => trace'[u] = trace[u]
  BY <1>5 DEF TypeOK
<1>7. /\ sub' \in Heap
      /\ \A n, c \in Addr : c \in sub'[n] <=>
           \/ n = new /\ \/ c \in sub[old] /\ ParentID(c) # o
                         \/ home = new /\ c = old
           \/ n = old /\ c \in sub[old] /\ ParentID(c) = o
           \/ n # new /\ n # old /\ (c \in sub[n] \/ (n = home /\ c = old))
  <2>1. sub \in Heap
    BY DEF TypeOK, Heap
  <2>2. HomeIn(span', new, old) \in Addr /\ HomeIn(span', new, old) # old
    BY <1>4
  <2> QED
    BY <2>1, <2>2, <1>0, <1>2, <1>5, PromoteFacts, SMTT(30)
<1> HIDE DEF home
<1>8. \A n \in Addr : sub'[n] \subseteq Addr /\ sub[n] \subseteq Addr
  BY <1>7 DEF Heap, TypeOK
<1>9. TypeOK'
  <2>1. /\ span' \in [Traces -> [Spans -> Addr \cup {Nil}]]
        /\ anns' \in [Addr -> Seq(Anns)]
    BY NewSpanFacts
  <2> QED
    BY <2>1, <1>2, <1>5, <1>7 DEF TypeOK, Heap
<1>10. OthersStay({t})
  <2>1. ASSUME NEW a \in Addr, a.trace # t PROVE sub'[a] = sub[a]
    <3>1. a # new /\ a # old /\ a # home
      BY <1>2, <1>4, <2>1
    <3>2. \A c \in Addr : c \in sub'[a] <=> c \in sub[a]
      BY <1>7, <3>1
    <3> QED
      BY <1>8, <3>2
  <2> QED
    BY <2>1, <1>0, <1>6 DEF OthersStay
<1>11. ASSUME NEW x \in Pool(t, R, span'[t]), NEW c \in sub'[x]
       PROVE  /\ c \in Pool(t, R, span'[t])
              /\ ParentID(c) = x.span \/
                 (x = trace'[t] /\ ParentID(c) \notin Collected(t) \cup {s})
  <2>1. x \in P \cup {new} /\ x \in Addr /\ c \in Addr
    BY <1>0, <1>1, <1>2, <1>8
  <2>2. CASE x = new
    <3>1. \/ c \in sub[old] /\ ParentID(c) # o
          \/ home = new /\ c = old
      BY <1>7, <2>1, <2>2, <1>2
    <3>2. c \in sub[old] /\ ParentID(c) # o => c \in P /\ ParentID(c) \notin Collected(t)
      BY <1>1
    <3> QED
      BY <3>1, <3>2, <1>0, <1>1, <1>2, <1>4, <1>6, <2>2
  <2>3. CASE x = old
    <3>1. c \in sub[old] /\ ParentID(c) = o
      BY <1>0, <1>1, <1>7, <2>1, <2>3
    <3> QED
      BY <3>1, <1>0, <1>1, <2>3
  <2>4. CASE x # new /\ x # old
    <3>1. x \in P /\ (c \in sub[x] \/ (x = home /\ c = old))
      BY <1>7, <2>1, <2>4
    <3>2. c \in sub[x] => c \in P /\ ParentID(c) = x.span
      BY <1>1, <2>4, <3>1
    <3>3. x = home => x.span = parent[t][o]
      BY <1>4, <2>4
    <3> QED
      BY <3>1, <3>2, <3>3, <1>0, <1>1, <1>2
  <2> QED
    BY <2>2, <2>3, <2>4
<1>12. ASSUME NEW r \in Spans \ (Collected(t) \cup {s}) PROVE sub'[Node(t, r)] = {}
  <2>1. /\ Node(t, r) \in Addr /\ Node(t, r) # new /\ Node(t, r) # old
        /\ Node(t, r) # home /\ sub[Node(t, r)] = {}
    BY <1>2, <1>4, NodeFacts, InTreeFacts
  <2> QED
    BY <2>1, <1>7, <1>8
<1>13. ASSUME NEW r \in Collected(t) \cup {s}, IsRoot(t, r) PROVE trace'[t].span = r
  <2>1. CASE r = s
    BY <2>1, <1>2, <1>6
  <2>2. CASE r # s
    <3>1. r \in Collected(t) /\ r \in Spans /\ o = r
      BY <2>2, <1>1, <1>13, InTreeFacts
    <3>2. parent[t][o] = Zero
      BY <3>1, <1>13 DEF IsRoot
    <3>3. parent[t][s] = Zero
      BY <3>2, <1>2, SpansAssumption DEF TakesOver, IsRoot
    <3> QED
      BY <3>1, <3>2, <3>3, <1>2 DEF TreesWellFormed
  <2> QED
    BY <2>1, <2>2
<1>14. trace'[t] \in Pool(t, R, span'[t]) /\ trace'[t] # Nil
  BY <1>0, <1>2, <1>6
<1>16. ASSUME NEW x \in Addr, x.trace = t
       PROVE  /\ trace'[t] \notin sub'[x]
              /\ \A r \in Spans \ (Collected(t) \cup {s}) : Node(t, r) \notin sub'[x]
  <2>1. ASSUME NEW r \in Spans \ Collected(t) PROVE Node(t, r) \notin sub'[x]
    <3>1. Node(t, r) \in Addr /\ Node(t, r) # old
      BY <1>2, NodeFacts
    <3>2. Node(t, r) \notin sub[x] /\ Node(t, r) \notin sub[old]
      BY <1>2, <1>16, InTreeFacts
    <3> QED
      BY <1>7, <3>1, <3>2
  <2> QED
    BY <2>1, <1>0, <1>6
<1>15. InTree(t, R)'
  <2> HIDE DEF new, old, o, P
  <2> QED
    BY <1>11, <1>12, <1>13, <1>14, <1>16, JoinsTree
<1> QED
  BY <1>9, <1>10, <1>15

LEMMA AdoptJoins ==
  ASSUME TypeOK, TreesWellFormed, UNCHANGED parent,
         NEW t \in Traces, NEW s \in Spans, NEW as \in Batches, CollectNew(t, s, as),
         NEW R, InTree(t, R), trace[t] # Nil, ~TakesOver(t, s, trace[t])
  PROVE  /\ TypeOK' /\ InTree(t, R)' /\ OthersStay({t})
         /\ UNCHANGED trace
         /\ \A x, c \in Addr :
              c \in sub[x] /\ ~(x = trace[t] /\ ParentID(c) = s) => c \in sub'[x]
<1> DEFINE new  == Node(t, s)
           old  == trace[t]
           o    == old.span
           P    == Pool(t, R, span[t])
           home == HomeIn(span', old, new)
<1>0. /\ Held(span'[t]) = Collected(t) \cup {s} /\ s \notin Collected(t)
      /\ \A r \in Spans : span'[t][r] = IF r = s THEN new ELSE span[t][r]
      /\ \A u \in Traces : u # t => span'[u] = span[u]
      /\ Pool(t, R, span'[t]) = P \cup {new}
      /\ new \notin P /\ sub[new] = {}
  BY NewInPool
<1>1. /\ old \in P /\ Collected(t) \subseteq Spans
      /\ \A x \in P : \A c \in sub[x] :
           c \in P /\ (ParentID(c) = x.span \/ (x = old /\ ParentID(c) \notin Collected(t)))
      /\ \A a \in P : /\ a \in Addr /\ a.trace = t /\ a.span \in Collected(t)
                      /\ ParentID(a) = parent[t][a.span]
  BY InTreeFacts
<1>2. /\ new \in Addr /\ new # Nil /\ new.span = s /\ new.trace = t /\ old \in Addr
      /\ o \in Collected(t) /\ o \in Spans /\ o # s /\ old.trace = t /\ new # old
      /\ ParentID(new) = parent[t][s] /\ ParentID(old) = parent[t][o]
      /\ parent[t][s] # s /\ parent[t][s] # Zero
  BY <1>0, <1>1, NodeFacts DEF TreesWellFormed, TakesOver, IsRoot
<1>3. home = IF parent[t][s] \in Collected(t) THEN Node(t, parent[t][s]) ELSE old
  <2>1. CASE parent[t][s] \in Collected(t)
    <3>1. parent[t][s] \in Spans
      BY <1>1, <2>1
    <3>2. span'[t][parent[t][s]] = Node(t, parent[t][s])
      BY <1>0, <2>1, <3>1, InTreeFacts
    <3>3. Node(t, parent[t][s]) # Nil
      BY <3>1, NodeFacts
    <3> QED
      BY <2>1, <3>1, <3>2, <3>3, <1>2 DEF HomeIn
  <2>2. CASE parent[t][s] \notin Collected(t)
    <3>1. parent[t][s] \in Spans => span'[t][parent[t][s]] = Nil
      BY <1>0, <1>2, <2>2 DEF Collected
    <3> QED
      BY <2>2, <3>1, <1>2 DEF HomeIn
  <2> QED
    BY <2>1, <2>2
<1>4. /\ home \in Addr /\ home # new /\ home.trace = t
      /\ home.span = parent[t][s] \/ (home = old /\ parent[t][s] \notin Collected(t) \cup {s})
      /\ home.span \in Collected(t)
  <2>1. parent[t][s] \in Collected(t) => parent[t][s] \in Spans
    BY <1>1
  <2> QED
    BY <1>1, <1>2, <1>3, <2>1, NodeFacts
<1>5. UNCHANGED trace /\ sub' = Adopt(sub, span', old, new)
  <2>1. span' = [span EXCEPT ![t][s] = new]
    BY NewSpanFacts
  <2> QED
    BY <2>1 DEF CollectNew
<1>7. /\ sub' \in Heap
      /\ \A n, c \in Addr : c \in sub'[n] <=>
           \/ n = new /\ c \in sub[old] /\ ParentID(c) = s
           \/ n = old /\ \/ c \in sub[old] /\ ParentID(c) # s
                         \/ home = old /\ c = new
           \/ n # new /\ n # old /\ (c \in sub[n] \/ (n = home /\ c = new))
  <2>1. sub \in Heap
    BY DEF TypeOK, Heap
  <2>2. HomeIn(span', old, new) \in Addr /\ HomeIn(span', old, new) # new
    BY <1>4
  <2> QED
    BY <2>1, <2>2, <1>0, <1>2, <1>5, AdoptFacts
<1> HIDE DEF home
<1>8. \A n \in Addr : sub'[n] \subseteq Addr /\ sub[n] \subseteq Addr
  BY <1>7 DEF Heap, TypeOK
<1>9. TypeOK'
  <2>1. /\ span' \in [Traces -> [Spans -> Addr \cup {Nil}]]
        /\ anns' \in [Addr -> Seq(Anns)]
    BY NewSpanFacts
  <2> QED
    BY <2>1, <1>5, <1>7 DEF TypeOK, Heap
<1>10. OthersStay({t})
  <2>1. ASSUME NEW a \in Addr, a.trace # t PROVE sub'[a] = sub[a]
    <3>1. a # new /\ a # old /\ a # home
      BY <1>2, <1>4, <2>1
    <3>2. \A c \in Addr : c \in sub'[a] <=> c \in sub[a]
      BY <1>7, <3>1
    <3> QED
      BY <1>8, <3>2
  <2> QED
    BY <2>1, <1>0, <1>5 DEF OthersStay
<1>11. ASSUME NEW x \in Pool(t, R, span'[t]), NEW c \in sub'[x]
       PROVE  /\ c \in Pool(t, R, span'[t])
              /\ ParentID(c) = x.span \/
                 (x = trace'[t] /\ ParentID(c) \notin Collected(t) \cup {s})
  <2>1. x \in P \cup {new} /\ x \in Addr /\ c \in Addr
    BY <1>0, <1>1, <1>2, <1>8
  <2>2. CASE x = new
    <3>1. c \in sub[old] /\ ParentID(c) = s
      BY <1>7, <2>1, <2>2, <1>2
    <3> QED
      BY <3>1, <1>0, <1>1, <1>2, <2>2
  <2>3. CASE x = old
    <3>1. \/ c \in sub[old] /\ ParentID(c) # s
          \/ home = old /\ c = new
      BY <1>2, <1>7, <2>1, <2>3
    <3>2. c \in sub[old] => c \in P /\ (ParentID(c) = o \/ ParentID(c) \notin Collected(t))
      BY <1>1
    <3> QED
      BY <3>1, <3>2, <1>0, <1>2, <1>4, <1>5, <2>3
  <2>4. CASE x # new /\ x # old
    <3>1. x \in P /\ (c \in sub[x] \/ (x = home /\ c = new))
      BY <1>7, <2>1, <2>4
    <3>2. c \in sub[x] => c \in P /\ ParentID(c) = x.span
      BY <1>1, <2>4, <3>1
    <3>3. x = home => x.span = parent[t][s]
      BY <1>4, <2>4
    <3> QED
      BY <3>1, <3>2, <3>3, <1>0, <1>1, <1>2
  <2> QED
    BY <2>2, <2>3, <2>4
<1>12. ASSUME NEW r \in Spans \ (Collected(t) \cup {s}) PROVE sub'[Node(t, r)] = {}
  <2>1. /\ Node(t, r) \in Addr /\ Node(t, r) # new /\ Node(t, r) # old
        /\ Node(t, r) # home /\ sub[Node(t, r)] = {}
    BY <1>2, <1>4, NodeFacts, InTreeFacts
  <2> QED
    BY <2>1, <1>7, <1>8
<1>13. ASSUME NEW r \in Collected(t) \cup {s}, IsRoot(t, r) PROVE trace'[t].span = r
  <2>1. r \in Collected(t)
    BY <1>2, <1>13 DEF IsRoot
  <2> QED
    BY <2>1, <1>5, <1>13, InTreeFacts
<1>14. trace'[t] \in Pool(t, R, span'[t]) /\ trace'[t] # Nil
  BY <1>0, <1>1, <1>5
<1>17. ASSUME NEW x \in Addr, x.trace = t
       PROVE  /\ trace'[t] \notin sub'[x]
              /\ \A r \in Spans \ (Collected(t) \cup {s}) : Node(t, r) \notin sub'[x]
  <2>1. ASSUME NEW r \in Spans \ (Collected(t) \cup {s}) PROVE Node(t, r) \notin sub'[x]
    <3>1. Node(t, r) \in Addr /\ Node(t, r) # new
      BY <1>2, NodeFacts
    <3>2. Node(t, r) \notin sub[x] /\ Node(t, r) \notin sub[old]
      BY <1>2, <1>17, InTreeFacts
    <3> QED
      BY <1>7, <3>1, <3>2
  <2>2. old \notin sub[x] /\ old \notin sub[old]
    BY <1>2, <1>17, InTreeFacts
  <2>3. old \notin sub'[x]
    BY <1>2, <1>7, <2>2
  <2> QED
    BY <2>1, <2>3, <1>5
<1>15. InTree(t, R)'
  <2> HIDE DEF new, old, o, P
  <2> QED
    BY <1>11, <1>12, <1>13, <1>14, <1>17, JoinsTree
<1>16. \A x, c \in Addr : c \in sub[x] /\ ~(x = trace[t] /\ ParentID(c) = s) => c \in sub'[x]
  BY <1>0, <1>7
<1> QED
  BY <1>5, <1>9, <1>10, <1>15, <1>16

-----------------------------------------------------------------------------
(* What is restored whole hangs together in the decoded tree, from the     *)
(* real root down.                                                         *)
RestoredTree(t) ==
    restored[t] # {} /\ Whole(t) =>
      \A s \in restored[t] :
         /\ s \in Collected(t)
         /\ IF IsRoot(t, s) THEN trace[t] = TreeNode(t, s)
            ELSE TreeNode(t, s) \in sub[TreeNode(t, parent[t][s])]

StoreInv    == /\ TypeOK /\ TreesWellFormed /\ again \in SUBSET Addr
               /\ \A t \in Traces : \E R \in SUBSET Spans : InTree(t, R) /\ OnceEach(t, R)
FreshInv    == \A t \in Traces : restored[t] = {} => Inv({t})
RestoredInv == restored \in [Traces -> SUBSET Spans] /\ \A t \in Traces : RestoredTree(t)
FileInv     == IF file = Nil THEN saved = Empty ELSE Sound(parent, file) /\ saved = ViewOf(file)
TempInv     == temp # Nil => Sound(parent, temp) /\ writing = ViewOf(temp)

PersistInv == StoreInv /\ FreshInv /\ RestoredInv /\ FileInv /\ TempInv

LEMMA WholeHasRoot ==
  ASSUME TypeOK, TreesWellFormed, NEW t \in Traces, restored[t] \in SUBSET Spans,
         restored[t] # {}, Whole(t)
  PROVE  \E r \in restored[t] : IsRoot(t, r)
<1> SUFFICES ASSUME \A r \in restored[t] : ~IsRoot(t, r) PROVE FALSE
  OBVIOUS
<1>1. PICK B \in SUBSET Spans : B = restored[t]
  OBVIOUS
<1>2. PICK s \in B : TRUE
  BY <1>1
<1>3. \A b \in B : parent[t][b] \in B
  BY <1>1 DEF Whole
<1>4. parent[t] \in [Spans -> Spans \cup {Zero}]
  BY DEF TypeOK
<1>5. Ancestor(parent[t], s) \in B
  BY <1>3, <1>4, AncestorWithin
<1>6. Ancestor(parent[t], s) = Zero
  BY DEF TreesWellFormed
<1> QED
  BY <1>5, <1>6, SpansAssumption

(* The tree of one trace is not touched by what happens to another.        *)
LEMMA OthersInTree ==
  ASSUME UNCHANGED parent, NEW T, OthersStay(T),
         NEW u \in Traces \ T, NEW R, InTree(u, R)
  PROVE  InTree(u, R)'
<1> DEFINE P == Pool(u, R, span[u])
<1>1. trace'[u] = trace[u] /\ span'[u] = span[u]
  BY DEF OthersStay
<1>2. \A x \in P : sub'[x] = sub[x]
  BY PoolFacts DEF OneEach, OthersStay
<1>3. \A s \in Spans : sub'[Node(u, s)] = sub[Node(u, s)]
  BY NodeFacts DEF OthersStay
<1>4. Held(span[u]) \subseteq Spans
  BY DEF Held
<1>6. Unlisted(trace[u], span[u], sub, u) => Unlisted(trace[u], span[u], sub', u)
  BY DEF Unlisted, OthersStay
<1>5. Consistent(parent[u], trace[u], span[u], sub', u, R)
  BY <1>2, <1>3, <1>4, <1>6 DEF InTree, Consistent
<1> QED
  BY <1>1, <1>5 DEF InTree

LEMMA OthersFresh ==
  ASSUME UNCHANGED parent, NEW T, OthersStay(T), TypeOK', TreesWellFormed',
         NEW u \in Traces \ T, Inv({u})
  PROVE  Inv({u})'
<1>1. trace'[u] = trace[u] /\ span'[u] = span[u]
  BY DEF OthersStay
<1>2. Collected(u)' = Collected(u)
  BY <1>1 DEF Collected
<1>3. \A s \in Spans : sub'[Node(u, s)] = sub[Node(u, s)]
  BY NodeFacts DEF OthersStay
<1>4. OwnNodes({u})'
  BY <1>1, <1>2 DEF Inv, OwnNodes
<1>5. Shape({u})'
  BY <1>1, <1>2, <1>3 DEF Inv, Shape, Child
<1>6. RootsOnTop({u})'
  BY <1>1, <1>2 DEF Inv, RootsOnTop, IsRoot
<1> QED
  BY <1>4, <1>5, <1>6 DEF Inv

LEMMA OthersRestored ==
  ASSUME UNCHANGED parent, NEW T, OthersStay(T),
         NEW u \in Traces \ T, restored'[u] = restored[u], TypeOK,
         restored[u] \in SUBSET Spans, RestoredTree(u)
  PROVE  RestoredTree(u)'
<1>1. trace'[u] = trace[u] /\ span'[u] = span[u]
  BY DEF OthersStay
<1>2. Collected(u)' = Collected(u) /\ (Whole(u)' <=> Whole(u))
  BY <1>1 DEF Collected, Whole, IsRoot
<1>3. \A s \in Spans : sub'[TreeNode(u, s)] = sub[TreeNode(u, s)]
  BY TreeNodeFacts DEF OthersStay
<1>4. \A s \in Spans : parent[u][s] \in Spans \/ IsRoot(u, s)
  BY DEF TypeOK, IsRoot
<1>5. \A s \in Spans : IsRoot(u, s)' <=> IsRoot(u, s)
  BY DEF IsRoot
<1> QED
  BY <1>1, <1>2, <1>3, <1>4, <1>5 DEF RestoredTree

(* A trace with nothing in it.                                             *)
Blank(t) ==
    /\ trace[t] = Nil
    /\ \A s \in Spans : span[t][s] = Nil
    /\ \A a \in Addr : a.trace = t => sub[a] = {}

BlankIsFresh == \A t \in Traces :
    TypeOK /\ TreesWellFormed /\ Blank(t) => Inv({t}) /\ InTree(t, {})

LEMMA BlankTraces == BlankIsFresh
<1> SUFFICES ASSUME NEW t \in Traces, TypeOK, TreesWellFormed, Blank(t)
             PROVE  Inv({t}) /\ InTree(t, {})
  BY DEF BlankIsFresh
<1>1. Collected(t) = {} /\ Held(span[t]) = {}
  BY DEF Blank, Collected, Held
<1>2. OwnNodes({t})
  BY <1>1 DEF OwnNodes, Blank
<1>3. Shape({t})
  BY <1>1, NodeFacts DEF Shape, Child, Blank
<1>4. RootsOnTop({t})
  BY <1>1 DEF RootsOnTop
<1>5. Pool(t, {}, span[t]) = {}
  BY <1>1 DEF Pool
<1>6. InTree(t, {})
  <2>1. \A s \in Spans : sub[Node(t, s)] = {}
    BY NodeFacts DEF Blank
  <2>2. Unlisted(trace[t], span[t], sub, t)
    BY DEF Unlisted, Blank
  <2> QED
    BY <1>1, <1>5, <2>1, <2>2 DEF InTree, Consistent, Blank
<1> QED
  BY <1>2, <1>3, <1>4, <1>6 DEF Inv

(* While a span is collected into it, what was restored whole stays: the   *)
(* real root is there, so nothing takes over, and only temporary children  *)
(* of the root are moved.                                                  *)
LEMMA RestoredKept ==
  ASSUME TypeOK, TreesWellFormed, UNCHANGED <<parent, restored>>,
         NEW t \in Traces, NEW s \in Spans, NEW as \in Batches, CollectNew(t, s, as),
         NEW R, InTree(t, R), restored[t] \in SUBSET Spans, RestoredTree(t)
  PROVE  RestoredTree(t)'
<1> SUFFICES ASSUME restored[t] # {}, Whole(t) PROVE RestoredTree(t)'
  BY DEF RestoredTree, Whole, IsRoot
<1>1. PICK r \in restored[t] : IsRoot(t, r)
  BY WholeHasRoot
<1>2. \A q \in restored[t] :
         /\ q \in Collected(t)
         /\ IF IsRoot(t, q) THEN trace[t] = TreeNode(t, q)
            ELSE TreeNode(t, q) \in sub[TreeNode(t, parent[t][q])]
  BY DEF RestoredTree
<1>3. r \in Spans /\ r \in Collected(t) /\ trace[t] = TreeNode(t, r)
  BY <1>1, <1>2
<1>4. /\ s \notin Collected(t) /\ Collected(t)' = Collected(t) \cup {s}
  BY NewSpanFacts
<1>5. trace[t] # Nil /\ ~TakesOver(t, s, trace[t])
  <2>1. trace[t] # Nil /\ ParentID(trace[t]) = Zero
    BY <1>1, <1>3, TreeNodeFacts DEF ParentID, IsRoot
  <2>2. ~IsRoot(t, s)
    BY <1>1, <1>3, <1>4 DEF IsRoot, TreesWellFormed
  <2> QED
    BY <2>1, <2>2, SpansAssumption DEF TakesOver
<1>6. /\ UNCHANGED trace
      /\ \A x, c \in Addr :
              c \in sub[x] /\ ~(x = trace[t] /\ ParentID(c) = s) => c \in sub'[x]
  BY <1>5, AdoptJoins
<1>7. ASSUME NEW q \in restored[t]
      PROVE  /\ q \in Collected(t)'
             /\ IF IsRoot(t, q) THEN trace'[t] = TreeNode(t, q)
                ELSE TreeNode(t, q) \in sub'[TreeNode(t, parent[t][q])]
  <2>1. q \in Collected(t) /\ q \in Spans
    BY <1>2
  <2>2. CASE IsRoot(t, q)
    BY <2>1, <2>2, <1>2, <1>4, <1>6
  <2>3. CASE ~IsRoot(t, q)
    <3>1. parent[t][q] \in restored[t]
      BY <2>3 DEF Whole
    <3>2. parent[t][q] \in Spans /\ parent[t][q] # s
      BY <3>1, <1>2, <1>4
    <3>3. /\ TreeNode(t, q) \in Addr /\ TreeNode(t, parent[t][q]) \in Addr
          /\ ParentID(TreeNode(t, q)) = parent[t][q]
      BY <2>1, <3>2, TreeNodeFacts DEF ParentID
    <3>4. TreeNode(t, q) \in sub'[TreeNode(t, parent[t][q])]
      BY <1>2, <1>6, <2>3, <3>2, <3>3
    <3> QED
      BY <2>1, <2>3, <3>4, <1>4
  <2> QED
    BY <2>2, <2>3
<1> QED
  BY <1>7 DEF RestoredTree, IsRoot

(* No append of collectNoLock finds the node in the list already.          *)
LEMMA NothingAppendedAgain ==
  ASSUME TypeOK, TreesWellFormed, NEW t \in Traces, NEW s \in Spans, NEW R, InTree(t, R)
  PROVE  AppendedAgain(t, s) = {}
<1> DEFINE n   == Node(t, s)
           sp  == [span EXCEPT ![t][s] = n]
           old == trace[t]
<1> SUFFICES ASSUME span[t][s] = Nil, old # Nil PROVE AppendedAgain(t, s) = {}
  BY DEF AppendedAgain
<1>1. /\ n \in Addr /\ n.trace = t /\ n.span = s /\ ParentID(n) = parent[t][s]
      /\ s \notin Collected(t)
  BY NodeFacts DEF Collected
<1>2. /\ old \in Addr /\ old.trace = t /\ old.span \in Collected(t) /\ old # n
      /\ old.span \in Spans /\ ParentID(old) = parent[t][old.span] /\ sub[n] = {}
  BY <1>1, InTreeFacts
<1>3. \A x \in Addr : x.trace = t => old \notin sub[x] /\ n \notin sub[x]
  BY <1>1, InTreeFacts
<1>4. sub \in Heap /\ span \in [Traces -> [Spans -> Addr \cup {Nil}]]
  BY DEF TypeOK, Heap
<1>5. \A r \in Spans : sp[t][r] = IF r = s THEN n ELSE span[t][r]
  BY <1>4
<1>6. \A r \in Collected(t) : span[t][r] = Node(t, r)
  BY InTreeFacts
<1>7. ASSUME NEW x \in Addr, x.trace = t, NEW q \in Addr, q.trace = t, ParentID(x) # x.span,
             x = old \/ x = n, q = old \/ q = n, q # x
      PROVE  LET home == HomeIn(sp, q, x)
             IN  home \in Addr /\ home.trace = t /\ home # x
  <2> DEFINE r == ParentID(x)
  <2>1. HomeIn(sp, q, x) = IF r \in Spans /\ sp[t][r] # Nil THEN sp[t][r] ELSE q
    BY <1>7 DEF HomeIn
  <2> HIDE DEF sp, r
  <2>2. CASE r \in Spans /\ sp[t][r] # Nil
    <3>1. sp[t][r] = Node(t, r)
      BY <1>5, <1>6, <2>2 DEF Collected
    <3>2. Node(t, r) \in Addr /\ Node(t, r).trace = t /\ Node(t, r).span = r
      BY <2>2, NodeFacts
    <3> QED
      BY <2>1, <2>2, <3>1, <3>2, <1>7 DEF r
  <2>3. CASE ~(r \in Spans /\ sp[t][r] # Nil)
    BY <2>1, <2>3, <1>7
  <2> QED
    BY <2>2, <2>3
<1>8. ASSUME TakesOver(t, s, old)
      PROVE  LET h == ReattachChildren(sub, n, old)
                 g == Insert(h, sp, n, old)
             IN  /\ Mine(sub, n, old) \cap sub[n] = {}
                 /\ {old} \cap h[HomeIn(sp, n, old)] = {}
                 /\ Foreign(g, old) \cap g[n] = {}
  <2> DEFINE h    == ReattachChildren(sub, n, old)
             home == HomeIn(sp, n, old)
             g    == Insert(h, sp, n, old)
  <2>1. home \in Addr /\ home.trace = t /\ home # old
    <3>1. ParentID(old) # old.span
      BY <1>2 DEF TreesWellFormed
    <3> QED
      BY <1>1, <1>2, <1>7, <3>1
  <2>2. /\ h \in Heap
        /\ \A y, c \in Addr : c \in h[y] <=>
              \/ y = n /\ (c \in sub[n] \/ (c \in sub[old] /\ ParentID(c) = n.span))
              \/ y = old /\ c \in sub[old] /\ ParentID(c) # n.span
              \/ y # n /\ y # old /\ c \in sub[y]
    BY <1>1, <1>2, <1>4, ReattachFacts
  <2> HIDE DEF h, sp, n, old
  <2>3. g \in Heap /\ \A y, c \in Addr : c \in g[y] <=> c \in h[y] \/ (y = home /\ c = old)
    <3>1. HomeIn(sp, n, old) \in Addr
      BY <2>1
    <3> QED
      BY <1>1, <1>2, <2>2, <3>1, InsertFacts
  <2> HIDE DEF g, home, n, old
  <2>4. old \notin h[home]
    BY <1>1, <1>2, <1>3, <2>1, <2>2
  <2>5. ASSUME NEW c \in Foreign(g, old), c \in g[n] PROVE FALSE
    <3>1. c \in Addr /\ c \in g[old]
      BY <1>2, <2>3 DEF Foreign, Heap
    <3>2. c \in sub[old] /\ ParentID(c) # n.span
      BY <3>1, <1>2, <2>1, <2>2, <2>3
    <3>3. c \in h[n] \/ c = old
      BY <2>3, <2>5, <3>1, <1>1
    <3>4. c # old
      BY <1>2, <1>3, <3>2
    <3> QED
      BY <1>1, <1>2, <2>2, <3>1, <3>2, <3>3, <3>4
  <2> QED
    BY <1>2, <2>4, <2>5 DEF g, h, home, n, old, sp
<1>9. ASSUME ~TakesOver(t, s, old)
      PROVE  LET g == Insert(sub, sp, old, n)
             IN  /\ ~IsRoot(t, s)
                 /\ {n} \cap sub[HomeIn(sp, old, n)] = {}
                 /\ Mine(g, n, old) \cap g[n] = {}
  <2> DEFINE home == HomeIn(sp, old, n)
             g    == Insert(sub, sp, old, n)
  <2>1. home \in Addr /\ home.trace = t /\ home # n
    <3>1. ParentID(n) # n.span
      BY <1>1 DEF TreesWellFormed
    <3> QED
      BY <1>1, <1>2, <1>7, <3>1
  <2>2. \A y, c \in Addr : c \in g[y] <=> c \in sub[y] \/ (y = home /\ c = n)
    BY <1>1, <1>2, <1>4, <2>1, InsertFacts
  <2>3. g \in Heap
    BY <1>1, <1>2, <1>4, <2>1, InsertFacts
  <2> HIDE DEF g, home, n, old
  <2>4. g[n] = {}
    BY <1>1, <1>2, <2>1, <2>2, <2>3 DEF Heap
  <2>5. n \notin sub[home] /\ ~IsRoot(t, s)
    BY <1>3, <1>9, <2>1 DEF TakesOver
  <2> QED
    BY <2>4, <2>5 DEF g, home, n, old
<1> QED
  BY <1>8, <1>9 DEF AppendedAgain

LEMMA CollectKeepsStore ==
  ASSUME StoreInv, FreshInv, RestoredInv, UNCHANGED <<parent, restored>>,
         NEW t \in Traces, NEW s \in Spans, NEW as \in Batches, Collect(t, s, as),
         again' = again \cup AppendedAgain(t, s)
  PROVE  StoreInv' /\ FreshInv' /\ RestoredInv'
<1>0. TypeOK /\ TreesWellFormed /\ TreesWellFormed' /\ again \in SUBSET Addr
  BY DEF StoreInv, TreesWellFormed
<1>3. again' = again
  BY <1>0, NothingAppendedAgain DEF StoreInv
<1>1. CASE CollectKnown(t, s, as)
  <2>1. UNCHANGED <<trace, span, sub>>
    BY <1>1 DEF CollectKnown
  <2>2. TypeOK'
    <3>1. as \in Seq(Anns)
      BY BatchesAreSequences
    <3>2. \A a \in Addr : anns[a] \o as \in Seq(Anns)
      BY <1>0, <3>1, ConcatProperties DEF TypeOK
    <3>3. anns' \in [Addr -> Seq(Anns)]
      BY <1>0, <1>1, <3>2 DEF CollectKnown, TypeOK
    <3> QED
      BY <1>0, <2>1, <3>3 DEF TypeOK
  <2>3. \A u \in Traces : Collected(u)' = Collected(u)
    BY <2>1 DEF Collected
  <2>4. \A u \in Traces, R \in SUBSET Spans :
           InTree(u, R) /\ OnceEach(u, R) => InTree(u, R)' /\ OnceEach(u, R)'
    BY <1>3, <2>1 DEF InTree, OnceEach
  <2>5. ASSUME NEW u \in Traces, Inv({u}) PROVE Inv({u})'
    BY <2>1, <2>2, <2>3, <2>5, <1>0
       DEF Inv, OwnNodes, Shape, Child, RootsOnTop, IsRoot
  <2>6. ASSUME NEW u \in Traces, RestoredTree(u) PROVE RestoredTree(u)'
    BY <2>1, <2>3, <2>6 DEF RestoredTree, Whole, IsRoot
  <2> QED
    BY <1>0, <1>3, <2>2, <2>4, <2>5, <2>6 DEF StoreInv, FreshInv, RestoredInv
<1>2. CASE CollectNew(t, s, as)
  <2>1. PICK R \in SUBSET Spans : InTree(t, R) /\ OnceEach(t, R)
    BY DEF StoreInv
  <2>6. OnceEach(t, R)'
    <3>1. /\ Pool(t, R, span'[t]) = Pool(t, R, span[t]) \cup {Node(t, s)}
          /\ Held(span'[t]) = Held(span[t]) \cup {s} /\ s \notin Held(span[t])
      BY <1>0, <1>2, <2>1, NewInPool DEF Held, Collected
    <3> QED
      BY <1>3, <2>1, <3>1 DEF OnceEach, Once
  <2>2. TypeOK' /\ InTree(t, R)' /\ OthersStay({t})
    <3>1. CASE trace[t] = Nil
      BY <1>0, <1>2, <2>1, <3>1, FirstJoins
    <3>2. CASE trace[t] # Nil /\ TakesOver(t, s, trace[t])
      BY <1>0, <1>2, <2>1, <3>2, PromoteJoins
    <3>3. CASE trace[t] # Nil /\ ~TakesOver(t, s, trace[t])
      BY <1>0, <1>2, <2>1, <3>3, AdoptJoins
    <3> QED
      BY <3>1, <3>2, <3>3
  <2>3. StoreInv'
    <3>1. ASSUME NEW u \in Traces
          PROVE  \E Q \in SUBSET Spans : InTree(u, Q)' /\ OnceEach(u, Q)'
      <4>1. CASE u = t
        BY <2>2, <2>6, <4>1
      <4>2. CASE u # t
        <5>1. PICK Q \in SUBSET Spans : InTree(u, Q) /\ OnceEach(u, Q)
          BY DEF StoreInv
        <5>2. OnceEach(u, Q)'
          BY <1>3, <2>2, <4>2, <5>1 DEF OnceEach, OthersStay
        <5> QED
          BY <2>2, <4>2, <5>1, <5>2, OthersInTree
      <4> QED
        BY <4>1, <4>2
    <3> QED
      BY <1>0, <1>3, <2>2, <3>1 DEF StoreInv
  <2>4. FreshInv'
    <3>1. ASSUME NEW u \in Traces, restored[u] = {} PROVE Inv({u})'
      <4>1. Inv({u})
        BY <3>1 DEF FreshInv
      <4>2. CASE u = t
        <5>1. t \in {u} /\ {u} \in SUBSET Traces
          BY <4>2
        <5>2. CASE trace[t] = Nil
          BY <1>2, <4>1, <5>1, <5>2, FirstSpanKeeps
        <5>3. CASE trace[t] # Nil /\ TakesOver(t, s, trace[t])
          BY <1>2, <4>1, <5>1, <5>3, PromoteKeeps
        <5>4. CASE trace[t] # Nil /\ ~TakesOver(t, s, trace[t])
          BY <1>2, <4>1, <5>1, <5>4, AdoptKeeps
        <5> QED
          BY <5>2, <5>3, <5>4
      <4>3. CASE u # t
        BY <1>0, <2>2, <4>1, <4>3, OthersFresh
      <4> QED
        BY <4>2, <4>3
    <3> QED
      BY <3>1 DEF FreshInv
  <2>5. RestoredInv'
    <3>1. ASSUME NEW u \in Traces PROVE RestoredTree(u)'
      <4>1. restored[u] \in SUBSET Spans /\ RestoredTree(u)
        BY DEF RestoredInv
      <4>2. CASE u = t
        BY <1>0, <1>2, <2>1, <4>1, <4>2, RestoredKept
      <4>3. CASE u # t
        BY <1>0, <2>2, <4>1, <4>3, OthersRestored
      <4> QED
        BY <4>2, <4>3
    <3> QED
      BY <3>1 DEF RestoredInv
  <2> QED
    BY <2>3, <2>4, <2>5
<1> QED
  BY <1>1, <1>2 DEF Collect

(* Delete, and the death of the process, which forgets every trace.        *)
LEMMA ForgetKeepsStore ==
  ASSUME StoreInv, FreshInv, RestoredInv, UNCHANGED parent, TypeOK',
         NEW ts \in SUBSET Traces, OthersStay(ts), \A t \in ts : Blank(t)',
         again' = {a \in again : a.trace \notin ts},
         restored' = [t \in Traces |-> IF t \in ts THEN {} ELSE restored[t]]
  PROVE  StoreInv' /\ FreshInv' /\ RestoredInv'
<1>0. TypeOK /\ TreesWellFormed /\ TreesWellFormed'
  BY DEF StoreInv, TreesWellFormed
<1>1. \A t \in ts : Inv({t})' /\ InTree(t, {})'
  <2>1. BlankIsFresh'
    BY BlankTraces, PTL
  <2> QED
    BY <2>1, <1>0 DEF BlankIsFresh
<1>2. StoreInv'
  <2>1. ASSUME NEW u \in Traces
        PROVE  \E Q \in SUBSET Spans : InTree(u, Q)' /\ OnceEach(u, Q)'
    <3>1. CASE u \in ts
      <4>1. \A a \in Pool(u, {}, span'[u]) : a.trace = u
        BY PoolFacts
      <4>2. OnceEach(u, {})'
        BY <3>1, <4>1, NodeFacts DEF OnceEach, Once
      <4> QED
        BY <1>1, <3>1, <4>2
    <3>2. CASE u \notin ts
      <4>1. PICK Q \in SUBSET Spans : InTree(u, Q) /\ OnceEach(u, Q)
        BY DEF StoreInv
      <4>2. OnceEach(u, Q)'
        BY <3>2, <4>1 DEF OnceEach, Once, OthersStay
      <4> QED
        BY <3>2, <4>1, <4>2, OthersInTree
    <3> QED
      BY <3>1, <3>2
  <2>2. again' \in SUBSET Addr
    BY DEF StoreInv
  <2> QED
    BY <1>0, <2>1, <2>2 DEF StoreInv
<1>3. FreshInv'
  <2>1. ASSUME NEW u \in Traces \ ts, restored[u] = {} PROVE Inv({u})'
    BY <1>0, <2>1, OthersFresh DEF FreshInv
  <2> QED
    BY <1>1, <2>1 DEF FreshInv
<1>4. RestoredInv'
  <2>1. restored' \in [Traces -> SUBSET Spans]
    BY DEF RestoredInv
  <2>2. ASSUME NEW u \in Traces \ ts PROVE RestoredTree(u)'
    BY <1>0, OthersRestored DEF RestoredInv
  <2>3. \A u \in ts : RestoredTree(u)'
    BY DEF RestoredTree
  <2> QED
    BY <2>1, <2>2, <2>3 DEF RestoredInv
<1> QED
  BY <1>2, <1>3, <1>4

LEMMA DeleteForgets ==
  ASSUME StoreInv, NEW ts \in SUBSET Traces, Delete(ts), UNCHANGED parent
  PROVE  TypeOK' /\ OthersStay(ts) /\ \A t \in ts : Blank(t)'
<1>0. TypeOK
  BY DEF StoreInv
<1>1. TypeOK'
  <2>1. <<>> \in Seq(Anns)
    OBVIOUS
  <2>2. trace' \in [Traces -> Addr \cup {Nil}]
    BY <1>0 DEF Delete, TypeOK
  <2>3. span' \in [Traces -> [Spans -> Addr \cup {Nil}]]
    BY <1>0 DEF Delete, TypeOK
  <2>4. sub' \in [Addr -> SUBSET Addr]
    BY <1>0 DEF Delete, TypeOK
  <2>5. anns' \in [Addr -> Seq(Anns)]
    BY <1>0, <2>1 DEF Delete, TypeOK
  <2> QED
    BY <1>0, <2>2, <2>3, <2>4, <2>5 DEF TypeOK
<1>2. OthersStay(ts)
  BY DEF Delete, OthersStay
<1>3. \A t \in ts : Blank(t)'
  BY NodeFacts DEF Delete, Blank
<1> QED
  BY <1>1, <1>2, <1>3

LEMMA CrashForgets ==
  ASSUME StoreInv, SetMemory(NoStore), UNCHANGED parent
  PROVE  /\ TypeOK' /\ OthersStay(Traces) /\ \A t \in Traces : Blank(t)'
         /\ again' = {a \in again : a.trace \notin Traces}
<1>1. /\ trace' = [t \in Traces |-> Nil]
      /\ span' = [t \in Traces |-> [s \in Spans |-> Nil]]
      /\ sub' = [a \in Addr |-> {}]
      /\ anns' = [a \in Addr |-> <<>>]
  BY DEF SetMemory, NoStore
<1>2. TypeOK'
  <2>1. parent' \in [Traces -> [Spans -> Spans \cup {Zero}]]
    BY DEF StoreInv, TypeOK
  <2> QED
    BY <1>1, <2>1 DEF TypeOK
<1>3. \A a \in Addr : a.trace \in Traces
  BY DEF Addr
<1>4. again' = {a \in again : a.trace \notin Traces}
  BY <1>3 DEF SetMemory, NoStore, StoreInv
<1> QED
  BY <1>1, <1>2, <1>3, <1>4, NodeFacts DEF OthersStay, Blank

-----------------------------------------------------------------------------
(* Every node of a tree but its root is below another one.                 *)
LEMMA BelowHasParent ==
  ASSUME NEW h, NEW r, r \in Below(h, r), \A a \in Below(h, r) : h[a] \subseteq Below(h, r),
         NEW c \in Below(h, r), c # r
  PROVE  \E x \in Below(h, r) : c \in h[x]
<1> DEFINE U == {a \in Below(h, r) : a = r \/ \E x \in Below(h, r) : a \in h[x]}
<1>1. r \in U /\ \A a \in U : h[a] \subseteq U
  OBVIOUS
<1>2. Below(h, r) \subseteq U
  <2> HIDE DEF U
  <2> QED
    BY <1>1, BelowWithin
<1> QED
  BY <1>2

(* Right after a start, the trees are those of the file.                   *)
JustRead(t) ==
    /\ InTree(t, Collected(t))
    /\ restored[t] = {a.span : a \in Shown(t)}

JustReadIsSound == \A t \in Traces :
    TypeOK /\ TreesWellFormed /\ JustRead(t) =>
      /\ restored[t] \in SUBSET Spans
      /\ restored[t] = {} => Inv({t})
      /\ RestoredTree(t)

LEMMA TreesJustRead == JustReadIsSound
<1> SUFFICES ASSUME NEW t \in Traces, TypeOK, TreesWellFormed, JustRead(t)
             PROVE  /\ restored[t] \in SUBSET Spans
                    /\ restored[t] = {} => Inv({t})
                    /\ RestoredTree(t)
  BY DEF JustReadIsSound
<1>1. PICK R : R = Collected(t)
  OBVIOUS
<1>2. InTree(t, R)
  BY <1>1 DEF JustRead
<1> DEFINE P == Pool(t, R, span[t])
           r == trace[t]
           B == Below(sub, r)
<1>3. /\ r = Nil => Collected(t) = {}
      /\ r # Nil => r \in P
      /\ \A x \in P : \A c \in sub[x] :
           c \in P /\ (ParentID(c) = x.span \/ (x = r /\ ParentID(c) \notin Collected(t)))
      /\ \A s \in Spans \ Collected(t) : sub[Node(t, s)] = {}
      /\ \A s \in Collected(t) : IsRoot(t, s) => r.span = s
      /\ \A a \in P : a.span \in Collected(t) /\ ParentID(a) = parent[t][a.span]
      /\ Collected(t) \subseteq Spans
  BY <1>2, InTreeFacts
<1>4. \A a \in P : a = TreeNode(t, a.span)
  BY <1>1, <1>3, PoolFacts DEF TreeOrOwn
<1>5. r # Nil => r \in B /\ B \subseteq P /\ \A a \in B : sub[a] \subseteq B
  BY <1>2, ConsistentTree DEF InTree
<1>6. restored[t] = IF r = Nil THEN {} ELSE {a.span : a \in B}
  BY DEF JustRead, Shown
<1> HIDE DEF P, B
<1>7. restored[t] \in SUBSET Spans /\ restored[t] \subseteq Collected(t)
  BY <1>3, <1>5, <1>6
<1>8. ASSUME restored[t] = {} PROVE Inv({t})
  <2>1. r = Nil
    BY <1>5, <1>6, <1>8
  <2>2. Collected(t) = {}
    BY <1>3, <2>1
  <2>3. \A s \in Spans : span[t][s] = Nil /\ sub[Node(t, s)] = {}
    BY <1>3, <2>2 DEF Collected
  <2>4. OwnNodes({t}) /\ Shape({t}) /\ RootsOnTop({t})
    BY <2>1, <2>2, <2>3 DEF OwnNodes, Shape, Child, RootsOnTop
  <2> QED
    BY <2>4 DEF Inv
<1>9. ASSUME restored[t] # {}, Whole(t), NEW s \in restored[t]
      PROVE  /\ s \in Collected(t)
             /\ IF IsRoot(t, s) THEN r = TreeNode(t, s)
                ELSE TreeNode(t, s) \in sub[TreeNode(t, parent[t][s])]
  <2>1. r # Nil /\ r \in P /\ r = TreeNode(t, r.span)
    BY <1>3, <1>4, <1>6, <1>9
  <2>2. PICK q \in restored[t] : IsRoot(t, q)
    BY <1>7, <1>9, WholeHasRoot
  <2>3. r.span = q
    BY <1>3, <1>7, <2>2
  <2>4. CASE IsRoot(t, s)
    <3>1. r.span = s
      BY <1>3, <1>7, <2>4
    <3> QED
      BY <1>7, <2>1, <2>4, <3>1
  <2>5. CASE ~IsRoot(t, s)
    <3>1. PICK a \in B : a.span = s
      BY <1>6, <2>1
    <3>2. a # r /\ a \in P
      BY <1>5, <2>1, <2>2, <2>3, <2>5, <3>1
    <3>3. PICK x \in B : a \in sub[x]
      BY <1>5, <2>1, <3>1, <3>2, BelowHasParent DEF B
    <3>4. x \in P /\ a = TreeNode(t, s) /\ x = TreeNode(t, x.span)
      BY <1>4, <1>5, <2>1, <3>1, <3>2, <3>3
    <3>5. ParentID(a) = x.span \/ ParentID(a) \notin Collected(t)
      BY <1>3, <3>3, <3>4
    <3>6. ParentID(a) = parent[t][s] /\ parent[t][s] \in Collected(t)
      BY <1>3, <1>7, <1>9, <2>5, <3>1, <3>2 DEF Whole
    <3>7. TreeNode(t, s) \in sub[TreeNode(t, parent[t][s])]
      BY <3>3, <3>4, <3>5, <3>6
    <3> QED
      BY <1>7, <2>5, <3>7
  <2> QED
    BY <2>4, <2>5
<1>10. RestoredTree(t)
  BY <1>9 DEF RestoredTree
<1> QED
  BY <1>7, <1>8, <1>10

LEMMA StartRestores ==
  ASSUME StoreInv, FileInv, file # Nil, SetMemory(Decode(file)), UNCHANGED <<parent, file, saved>>,
         restored' = [t \in Traces |-> {a.span : a \in Shown(t)'}]
  PROVE  StoreInv' /\ FreshInv' /\ RestoredInv' /\ view' = saved
<1>1. PICK f, p : f = file /\ p = parent
  OBVIOUS
<1> DEFINE g == Decode(f)
<1>2. Sound(p, f) /\ saved = ViewOf(f)
  BY <1>1 DEF FileInv
<1>3. Sound(p, g) /\ ViewOf(g) = ViewOf(f) /\ Typed(f)
  BY <1>2, DecodedView DEF Sound
<1>4. /\ trace' = g.trace /\ span' = g.span /\ sub' = g.sub /\ anns' = g.anns
      /\ again' = g.again /\ parent' = p
  BY <1>1 DEF SetMemory
<1>5. \A t \in Traces : Consistent(p[t], g.trace[t], g.span[t], g.sub, t, Held(g.span[t]))
  BY <1>2, <1>3, DecodedIsConsistent DEF Sound
<1> HIDE DEF g
<1>6. TypeOK' /\ TreesWellFormed'
  <2>1. parent' \in [Traces -> [Spans -> Spans \cup {Zero}]] /\ TreesWellFormed'
    BY DEF StoreInv, TypeOK, TreesWellFormed
  <2>2. Typed(g)
    BY <1>3 DEF Sound
  <2> QED
    BY <1>4, <2>1, <2>2 DEF TypeOK, Typed
<1>7. ASSUME NEW t \in Traces PROVE JustRead(t)'
  <2>1. Collected(t)' = Held(g.span[t])
    BY <1>4 DEF Collected, Held
  <2>2. InTree(t, Collected(t))'
    BY <1>4, <1>5, <2>1 DEF InTree
  <2> QED
    BY <2>2 DEF JustRead
<1>8. JustReadIsSound'
  BY TreesJustRead, PTL
<1>9. StoreInv'
  <2>1. \A t \in Traces : \E R \in SUBSET Spans : InTree(t, R)' /\ OnceEach(t, R)'
    BY <1>3, <1>4 DEF Sound, InTree, OnceEach
  <2>2. again' \in SUBSET Addr
    BY <1>3, <1>4 DEF Sound, Typed
  <2> QED
    BY <1>6, <2>1, <2>2 DEF StoreInv
<1>10. FreshInv'
  BY <1>6, <1>7, <1>8 DEF FreshInv, JustReadIsSound
<1>11. RestoredInv'
  <2>1. \A t \in Traces : restored'[t] \in SUBSET Spans /\ RestoredTree(t)'
    BY <1>6, <1>7, <1>8 DEF JustReadIsSound
  <2>2. restored' \in [Traces -> SUBSET Spans]
    BY <2>1
  <2> QED
    BY <2>1, <2>2 DEF RestoredInv
<1>12. view' = saved
  <2>1. \A t \in Traces : Shown(t)' = ShownIn(g, t)
    BY <1>4 DEF Shown, ShownIn
  <2>2. view' = ViewOf(g)
    BY <1>4, <2>1 DEF view, ViewOf
  <2> QED
    BY <1>2, <1>3, <2>2
<1> QED
  BY <1>9, <1>10, <1>11, <1>12

LEMMA StartFromNothing ==
  ASSUME StoreInv, FreshInv, RestoredInv, SetMemory(NoStore), UNCHANGED parent,
         restored' = [t \in Traces |-> {a.span : a \in Shown(t)'}]
  PROVE  StoreInv' /\ FreshInv' /\ RestoredInv' /\ view' = Empty
<1>1. /\ TypeOK' /\ OthersStay(Traces) /\ \A t \in Traces : Blank(t)'
      /\ again' = {a \in again : a.trace \notin Traces}
  BY CrashForgets
<1>2. \A t \in Traces : Shown(t)' = {}
  BY <1>1 DEF Blank, Shown
<1>3. restored' = [t \in Traces |-> IF t \in Traces THEN {} ELSE restored[t]]
  BY <1>2
<1>4. StoreInv' /\ FreshInv' /\ RestoredInv'
  BY <1>1, <1>3, ForgetKeepsStore
<1>5. view' = Empty
  BY <1>2 DEF view, Empty
<1> QED
  BY <1>4, <1>5

-----------------------------------------------------------------------------
LEMMA PersistInit == PInit => PersistInv
<1> SUFFICES ASSUME PInit PROVE PersistInv
  OBVIOUS
<1>1. Inv(Traces)
  BY InitInv DEF PInit
<1>2. TypeOK /\ TreesWellFormed
  BY <1>1 DEF Inv
<1>3. \A t \in Traces : Blank(t)
  BY NodeFacts DEF PInit, Init, Blank
<1>4. \A t \in Traces : Inv({t}) /\ InTree(t, {})
  BY <1>2, <1>3, BlankTraces DEF BlankIsFresh
<1>5. StoreInv /\ FreshInv
  <2>1. again = {}
    BY DEF PInit
  <2>2. \A t \in Traces : OnceEach(t, {})
    BY <2>1 DEF OnceEach, Once
  <2> QED
    BY <1>2, <1>4, <2>1, <2>2 DEF StoreInv, FreshInv
<1>6. RestoredInv
  BY DEF PInit, RestoredInv, RestoredTree
<1>7. FileInv /\ TempInv
  BY DEF PInit, FileInv, TempInv
<1> QED
  BY <1>5, <1>6, <1>7 DEF PersistInv

(* What is written of a sound store is sound.                              *)
LEMMA WrittenIsSound == StoreInv => Sound(parent, Encode) /\ view = ViewOf(Encode)
<1> SUFFICES ASSUME StoreInv PROVE Sound(parent, Encode) /\ view = ViewOf(Encode)
  OBVIOUS
<1> DEFINE m == Encode
<1>1. m.trace = trace /\ m.span = span /\ m.sub = sub /\ m.anns = anns /\ m.again = again
  BY DEF Encode
<1> HIDE DEF m
<1>2. Typed(m)
  BY <1>1 DEF StoreInv, TypeOK, Typed
<1>3. Sound(parent, m)
  BY <1>1, <1>2 DEF StoreInv, InTree, OnceEach, Sound
<1>4. \A t \in Traces : ShownIn(m, t) = Shown(t)
  BY <1>1 DEF ShownIn, Shown
<1>5. view = ViewOf(m)
  BY <1>1, <1>4 DEF view, ViewOf
<1> QED
  BY <1>3, <1>5 DEF m

LEMMA PersistStep == PersistInv /\ [PNext]_allVars => PersistInv'
<1> SUFFICES ASSUME PersistInv, [PNext]_allVars PROVE PersistInv'
  OBVIOUS
<1>0. StoreInv /\ FreshInv /\ RestoredInv /\ FileInv /\ TempInv
  BY DEF PersistInv
<1>1. ASSUME UNCHANGED <<vars, again, restored>>
      PROVE  StoreInv' /\ FreshInv' /\ RestoredInv'
  <2>1. UNCHANGED <<parent, trace, span, sub, anns, again, restored>>
    BY <1>1 DEF vars, memVars
  <2>2. \A t \in Traces : Collected(t)' = Collected(t)
    BY <2>1 DEF Collected
  <2>3. StoreInv'
    BY <1>0, <2>1 DEF StoreInv, TypeOK, TreesWellFormed, InTree, OnceEach
  <2>4. ASSUME NEW t \in Traces, Inv({t}) PROVE Inv({t})'
    BY <2>1, <2>2, <2>4
       DEF Inv, TypeOK, TreesWellFormed, OwnNodes, Shape, Child, RootsOnTop, IsRoot
  <2>5. ASSUME NEW t \in Traces, RestoredTree(t) PROVE RestoredTree(t)'
    BY <2>1, <2>2, <2>5 DEF RestoredTree, Whole, IsRoot
  <2> QED
    BY <1>0, <2>1, <2>3, <2>4, <2>5 DEF FreshInv, RestoredInv
<1>2. ASSUME UNCHANGED <<parent, file, saved>> PROVE FileInv'
  BY <1>0, <1>2 DEF FileInv
<1>3. ASSUME UNCHANGED <<parent, temp, writing>> PROVE TempInv'
  BY <1>0, <1>3 DEF TempInv
<1>4. CASE ClientCollect
  <2>1. UNCHANGED <<parent, file, temp, saved, writing, restored>>
    BY <1>4 DEF ClientCollect, diskVars, procVars
  <2>2. PICK t \in Traces, s \in Spans, as \in Batches :
           Collect(t, s, as) /\ again' = again \cup AppendedAgain(t, s)
    BY <1>4 DEF ClientCollect
  <2>3. StoreInv' /\ FreshInv' /\ RestoredInv'
    BY <1>0, <2>1, <2>2, CollectKeepsStore
  <2> QED
    BY <1>2, <1>3, <2>1, <2>3 DEF PersistInv
<1>5. CASE ClientDelete
  <2>1. UNCHANGED <<parent, file, temp, saved, writing>>
    BY <1>5 DEF ClientDelete, diskVars
  <2>2. PICK ts \in SUBSET Traces :
           /\ Delete(ts) /\ again' = {a \in again : a.trace \notin ts}
           /\ restored' = [t \in Traces |-> IF t \in ts THEN {} ELSE restored[t]]
    BY <1>5 DEF ClientDelete
  <2>3. TypeOK' /\ OthersStay(ts) /\ \A t \in ts : Blank(t)'
    BY <1>0, <2>1, <2>2, DeleteForgets
  <2>4. StoreInv' /\ FreshInv' /\ RestoredInv'
    BY <1>0, <2>1, <2>2, <2>3, ForgetKeepsStore
  <2> QED
    BY <1>2, <1>3, <2>1, <2>4 DEF PersistInv
<1>6. CASE PersistWrite
  <2>1. UNCHANGED <<vars, again, restored, file, saved>> /\ UNCHANGED parent
    BY <1>6 DEF PersistWrite, procVars, vars
  <2>2. temp' = Encode /\ writing' = view
    BY <1>6 DEF PersistWrite
  <2>3. TempInv'
    BY <1>0, <2>1, <2>2, WrittenIsSound DEF TempInv
  <2> QED
    BY <1>1, <1>2, <2>1, <2>3 DEF PersistInv
<1>7. CASE PersistRename
  <2>1. UNCHANGED <<vars, again, restored, writing>> /\ UNCHANGED parent
    BY <1>7 DEF PersistRename, procVars, vars
  <2>2. temp # Nil /\ file' = temp /\ temp' = Nil /\ saved' = writing
    BY <1>7 DEF PersistRename
  <2>3. FileInv' /\ TempInv'
    BY <1>0, <2>1, <2>2 DEF FileInv, TempInv
  <2> QED
    BY <1>1, <2>1, <2>3 DEF PersistInv
<1>8. CASE Crash
  <2>1. UNCHANGED <<parent, file, saved>> /\ temp' = Nil /\ SetMemory(NoStore)
    BY <1>8 DEF Crash
  <2>2. /\ TypeOK' /\ OthersStay(Traces) /\ \A t \in Traces : Blank(t)'
        /\ again' = {a \in again : a.trace \notin Traces}
    BY <1>0, <2>1, CrashForgets
  <2>3. restored' = [t \in Traces |-> IF t \in Traces THEN {} ELSE restored[t]]
    BY <1>8 DEF Crash
  <2>4. StoreInv' /\ FreshInv' /\ RestoredInv'
    BY <1>0, <2>1, <2>2, <2>3, ForgetKeepsStore
  <2>5. TempInv'
    BY <2>1 DEF TempInv
  <2> QED
    BY <1>2, <2>1, <2>4, <2>5 DEF PersistInv
<1>9. CASE Start
  <2>1. /\ UNCHANGED <<parent, file, temp, saved, writing>>
        /\ SetMemory(IF file = Nil THEN NoStore ELSE Decode(file))
        /\ restored' = [t \in Traces |-> {a.span : a \in Shown(t)'}]
    BY <1>9 DEF Start, diskVars
  <2>2. CASE file = Nil
    <3>1. SetMemory(NoStore)
      BY <2>1, <2>2
    <3> QED
      BY <1>0, <1>2, <1>3, <2>1, <3>1, StartFromNothing DEF PersistInv
  <2>3. CASE file # Nil
    <3>1. SetMemory(Decode(file))
      BY <2>1, <2>3
    <3> QED
      BY <1>0, <1>2, <1>3, <2>1, <2>3, <3>1, StartRestores DEF PersistInv
  <2> QED
    BY <2>2, <2>3
<1>10. CASE UNCHANGED allVars
  <2>1. UNCHANGED <<vars, again, file, temp, saved, writing, restored>> /\ UNCHANGED parent
    BY <1>10 DEF allVars, diskVars, procVars, vars
  <2> QED
    BY <1>1, <1>2, <1>3, <2>1 DEF PersistInv
<1> QED
  BY <1>4, <1>5, <1>6, <1>7, <1>8, <1>9, <1>10 DEF PNext

LEMMA PersistAlways == PSpec => []PersistInv
BY PersistInit, PersistStep, PTL DEF PSpec

(* A start shows exactly what the store held at the last completed round   *)
(* of PersistEvery, whenever the process died: nothing is lost in encoding *)
(* and decoding, and no half-written round is ever read.                   *)
THEOREM StartShowsTheLastSave == PSpec => StartShowsLastSave
<1> DEFINE Shows == ~up /\ up' => view' = saved
<1>1. PersistInv /\ [PNext]_allVars => [Shows]_allVars
  <2> SUFFICES ASSUME PersistInv, PNext, ~up, up' PROVE view' = saved
    OBVIOUS
  <2>1. Start
    BY DEF PNext, ClientCollect, ClientDelete, PersistWrite, PersistRename, Crash
  <2>2. /\ UNCHANGED <<parent, file, saved>>
        /\ SetMemory(IF file = Nil THEN NoStore ELSE Decode(file))
        /\ restored' = [t \in Traces |-> {a.span : a \in Shown(t)'}]
        /\ StoreInv /\ FreshInv /\ RestoredInv /\ FileInv
    BY <2>1 DEF Start, diskVars, PersistInv
  <2>3. CASE file = Nil
    <3>1. SetMemory(NoStore) /\ saved = Empty
      BY <2>2, <2>3 DEF FileInv
    <3> QED
      BY <2>2, <3>1, StartFromNothing
  <2>4. CASE file # Nil
    <3>1. SetMemory(Decode(file))
      BY <2>2, <2>4
    <3> QED
      BY <2>2, <2>4, <3>1, StartRestores
  <2> QED
    BY <2>3, <2>4
<1>2. PSpec => [][Shows]_allVars
  BY PersistAlways, <1>1, PTL DEF PSpec
<1> QED
  BY <1>2 DEF StartShowsLastSave

(* Through any number of starts and Collects, a reader of the tree that    *)
(* Trace returns meets no span twice, although the store holds several     *)
(* copies of it: no list of the tree holds a node twice, no two lists hold *)
(* the same node or nodes of the same span, and none holds the root.       *)
THEOREM EachShownOnce == PSpec => []ShownOnce
<1>1. PersistInv => ShownOnce
  <2> SUFFICES ASSUME PersistInv, NEW t \in Traces
               PROVE  /\ Shown(t) \cap again = {}
                      /\ \A a, b \in Shown(t) :
                            /\ a.span = b.span => a = b
                            /\ sub[a] \cap sub[b] # {} => a = b
                            /\ trace[t] \notin sub[a]
    BY DEF ShownOnce
  <2>1. PICK R \in SUBSET Spans : InTree(t, R) /\ OnceEach(t, R)
    BY DEF PersistInv, StoreInv
  <2>2. TypeOK /\ TreesWellFormed
    BY DEF PersistInv, StoreInv
  <2>3. Shown(t) \subseteq Pool(t, R, span[t])
    BY <2>1, ConsistentTree DEF InTree, Shown
  <2>4. OneEach(Pool(t, R, span[t]))
    BY PoolFacts
  <2>5. ASSUME NEW a \in Shown(t), NEW b \in Shown(t), NEW c \in sub[a] \cap sub[b]
        PROVE  a.span = b.span
    <3>1. /\ a.span \in Collected(t) /\ b.span \in Collected(t)
          /\ ParentID(c) = a.span \/ (a = trace[t] /\ ParentID(c) \notin Collected(t))
          /\ ParentID(c) = b.span \/ (b = trace[t] /\ ParentID(c) \notin Collected(t))
      BY <2>1, <2>2, <2>3, InTreeFacts
    <3> QED
      BY <3>1
  <2>6. \A a \in Shown(t) : trace[t] \notin sub[a]
    BY <2>1, <2>2, <2>3, InTreeFacts
  <2> QED
    BY <2>1, <2>3, <2>4, <2>5, <2>6 DEF OneEach, OnceEach, Once
<1> QED
  BY PersistAlways, <1>1, PTL

(* A trace that was saved whole stays whole, and on show, whatever is      *)
(* collected into it after the start.                                      *)
THEOREM WholeStaysShown == PSpec => []RestoredWholeStaysShown
<1>1. PersistInv => RestoredWholeStaysShown
  <2> SUFFICES ASSUME PersistInv, NEW t \in Traces, Whole(t), NEW s \in restored[t]
               PROVE  view[t][s] # Nil
    BY DEF RestoredWholeStaysShown
  <2>1. TypeOK /\ TreesWellFormed /\ restored[t] \in SUBSET Spans /\ RestoredTree(t)
    BY DEF PersistInv, StoreInv, RestoredInv
  <2>2. PICK R \in SUBSET Spans : InTree(t, R)
    BY DEF PersistInv, StoreInv
  <2> DEFINE B == Below(sub, trace[t])
  <2>3. \A q \in restored[t] :
           IF IsRoot(t, q) THEN trace[t] = TreeNode(t, q)
           ELSE TreeNode(t, q) \in sub[TreeNode(t, parent[t][q])]
    BY <2>1 DEF RestoredTree
  <2>4. trace[t] # Nil
    <3>1. PICK r \in restored[t] : IsRoot(t, r)
      BY <2>1, WholeHasRoot
    <3> QED
      BY <2>1, <2>3, <3>1, TreeNodeFacts
  <2>5. trace[t] \in B /\ B \subseteq Addr /\ \A a \in B : sub[a] \subseteq B
    BY <2>2, <2>4, ConsistentTree, PoolFacts DEF InTree, OneEach
  <2> HIDE DEF B
  <2> DEFINE Missed == {q \in restored[t] : TreeNode(t, q) \notin B}
  <2>6. PICK M \in SUBSET Spans : M = Missed
    BY <2>1
  <2>7. ASSUME NEW q \in M PROVE parent[t][q] \in M
    <3>1. q \in restored[t] /\ TreeNode(t, q) \notin B
      BY <2>6
    <3>2. ~IsRoot(t, q) /\ TreeNode(t, q) \in sub[TreeNode(t, parent[t][q])]
      BY <2>3, <2>5, <3>1
    <3>3. parent[t][q] \in restored[t]
      BY <3>1, <3>2 DEF Whole
    <3> QED
      BY <2>5, <2>6, <3>1, <3>2, <3>3
  <2>8. M = {}
    <3> SUFFICES ASSUME NEW q \in M PROVE FALSE
      OBVIOUS
    <3>1. parent[t] \in [Spans -> Spans \cup {Zero}] /\ Ancestor(parent[t], q) = Zero
      BY <2>1 DEF TypeOK, TreesWellFormed
    <3>2. Ancestor(parent[t], q) \in M
      BY <2>7, <3>1, AncestorWithin
    <3> QED
      BY <3>1, <3>2, SpansAssumption
  <2>9. TreeNode(t, s) \in Shown(t) /\ Shown(t) \subseteq Addr
    BY <2>4, <2>5, <2>6, <2>8 DEF Shown, B
  <2>10. TreeNode(t, s).span = s /\ s \in Spans
    BY <2>1, TreeNodeFacts
  <2>11. view[t][s] = anns[CHOOSE a \in Shown(t) : a.span = s]
    BY <2>9, <2>10 DEF view
  <2>12. (CHOOSE a \in Shown(t) : a.span = s) \in Addr
    BY <2>9, <2>10
  <2> QED
    BY <2>1, <2>11, <2>12, NilAssumption DEF TypeOK
<1> QED
  BY PersistAlways, <1>1, PTL

(* A trace of which the file held nothing is shown complete, as if the     *)
(* server had never been down.                                             *)
THEOREM FreshAreComplete == PSpec => []FreshTracesComplete
<1>1. PersistInv => FreshTracesComplete
  <2> SUFFICES ASSUME PersistInv, NEW t \in Traces, restored[t] = {}
               PROVE  Shown(t) = {span[t][s] : s \in Collected(t)}
    BY DEF FreshTracesComplete
  <2>1. Inv({t})
    BY DEF PersistInv, FreshInv
  <2>2. Shown(t) = {Node(t, s) : s \in Collected(t)}
    BY <2>1, ShownIsCollected DEF ShowsCollected
  <2>3. \A s \in Collected(t) : span[t][s] = Node(t, s)
    BY <2>1 DEF Inv, OwnNodes, Collected
  <2> QED
    BY <2>2, <2>3
<1> QED
  BY PersistAlways, <1>1, PTL

(* The variables of PersistentStore keep their types, and the server is    *)
(* started MaxStarts times at most.                                        *)
THEOREM PersistTypeCorrect == PSpec => []PTypeOK
<1> DEFINE Files  == /\ file = Nil \/ DOMAIN file = {"trace", "span", "sub", "anns", "again"}
                     /\ temp = Nil \/ DOMAIN temp = {"trace", "span", "sub", "anns", "again"}
           Starts == up \in BOOLEAN /\ starts \in 1..MaxStarts
<1>1. PInit => Files /\ Starts
  BY MaxStartsAssumption DEF PInit
<1>2. DOMAIN Encode = {"trace", "span", "sub", "anns", "again"}
  BY DEF Encode
<1>3. Files /\ Starts /\ [PNext]_allVars => Files' /\ Starts'
  <2> SUFFICES ASSUME Files, Starts, [PNext]_allVars PROVE Files' /\ Starts'
    OBVIOUS
  <2>1. CASE ClientCollect \/ ClientDelete
    BY <2>1 DEF ClientCollect, ClientDelete, diskVars, procVars
  <2>2. CASE PersistWrite
    BY <1>2, <2>2 DEF PersistWrite, procVars
  <2>3. CASE PersistRename
    BY <2>3 DEF PersistRename, procVars
  <2>4. CASE Crash
    BY <2>4 DEF Crash
  <2>5. CASE Start
    BY <2>5, MaxStartsAssumption DEF Start, diskVars
  <2>6. CASE UNCHANGED allVars
    BY <2>6 DEF allVars, diskVars, procVars
  <2> QED
    BY <2>1, <2>2, <2>3, <2>4, <2>5, <2>6 DEF PNext
<1>4. PersistInv /\ Files /\ Starts => PTypeOK
  BY DEF PersistInv, StoreInv, PTypeOK
<1> HIDE DEF Files, Starts
<1> QED
  BY PersistAlways, <1>1, <1>3, <1>4, PTL DEF PSpec
=============================================================================
