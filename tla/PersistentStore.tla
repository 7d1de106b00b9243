--------------------------- MODULE PersistentStore ---------------------------
(***************************************************************************)
(* The MemoryStore of `appdash serve --store-file`: the goroutine that     *)
(* runs PersistEvery (store.go) beside the clients of the store, the file  *)
(* it renames into place, the death of the process at any moment, and the  *)
(* start that reads the file back (cmd/appdash/serve_cmd.go).              *)
(***************************************************************************)
EXTENDS MemoryStore

CONSTANT MaxStarts  \* bound: how often the server is started

ASSUME MaxStartsAssumption == MaxStarts \in Nat \ {0}

VARIABLES
    file,       \* the store file: encoded store contents, Nil if there is none
    temp,       \* the temporary file PersistEvery is writing, Nil between rounds
    starts,     \* number of starts so far; the server is up iff up
    up,
    again,      \* history: the nodes that an append put into a list holding them
    saved,      \* history: the contents the store had at the last Write that was renamed
    writing,    \* history: the contents at the Write under way
    restored    \* history: the spans Trace(t) showed right after the start

diskVars == <<file, temp, saved, writing>>
procVars == <<starts, up, restored>>
allVars  == <<vars, again, diskVars, procVars>>

NoStore == [trace |-> [t \in Traces |-> Nil],
            span  |-> [t \in Traces |-> [s \in Spans |-> Nil]],
            sub   |-> [a \in Addr |-> {}],
            anns  |-> [a \in Addr |-> <<>>],
            again |-> {}]

Empty == [t \in Traces |-> [s \in Spans |-> Nil]]

(* ms.Write encodes memoryStoreData{ms.trace, ms.span} by value: gob       *)
(* flattens every pointer, so each map entry is written with a subtree of  *)
(* its own.  The encoding is kept as the heap it was made from.            *)
Encode == [trace |-> trace, span |-> span, sub |-> sub, anns |-> anns,
           again |-> again]

(* Decoding allocates a node for every occurrence in the file: the tree of *)
(* trace t is copied with copy = "tree", the one under ms.span[t][s] with  *)
(* copy = s.  No two of these trees share a node.  (A subtree of the span  *)
(* map can hold a span twice; one address stands for both, and is marked   *)
(* as listed twice.)                                                       *)
Source(f, a) ==
    IF a.copy = "tree" THEN f.trace[a.trace] ELSE f.span[a.trace][a.copy]

Original(f, a) ==
    IF Source(f, a) = Nil THEN {}
    ELSE {b \in Below(f.sub, Source(f, a)) : b.span = a.span}

(* Slip: only ms.span is read back.                                        *)
DecodeSpans(f) ==
    [trace |-> [t \in Traces |-> Nil],
     span  |-> f.span,
     sub   |-> f.sub,
     anns  |-> f.anns,
     again |-> f.again]

Decode(f) ==
    [trace |-> [t \in Traces |-> IF f.trace[t] = Nil THEN Nil
                                 ELSE [f.trace[t] EXCEPT !.copy = "tree"]],
     span  |-> [t \in Traces |-> [s \in Spans |->
                    IF f.span[t][s] = Nil THEN Nil ELSE Node(t, s)]],
     sub   |-> [a \in Addr |-> UNION {{[c EXCEPT !.copy = a.copy] : c \in f.sub[b]}
                                        : b \in Original(f, a)}],
     anns  |-> [a \in Addr |-> IF Original(f, a) = {} THEN <<>>
                               ELSE f.anns[CHOOSE b \in Original(f, a) : TRUE]],
     again |-> {a \in Addr : \E b, c \in Original(f, a) : b \in f.again \/ b # c}]

SetMemory(m) == /\ trace' = m.trace /\ span' = m.span
                /\ sub' = m.sub     /\ anns' = m.anns
                /\ again' = m.again

PInit ==
    /\ Init
    /\ file = Nil /\ temp = Nil
    /\ up = TRUE /\ starts = 1 /\ again = {}
    /\ saved = Empty /\ writing = Empty
    /\ restored = [t \in Traces |-> {}]

-----------------------------------------------------------------------------
(* The nodes that collectNoLock appends to a Sub list that holds them: the *)
(* sets of MemoryStore's heap would hide the second entry.                 *)
AppendedAgain(t, s) ==
    LET n   == Node(t, s)
        sp  == [span EXCEPT ![t][s] = n]
        old == trace[t]
        Promoted == LET h == ReattachChildren(sub, n, old)
                        g == Insert(h, sp, n, old)
                    IN  (Mine(sub, n, old) \cap sub[n])
                          \cup ({old} \cap h[HomeIn(sp, n, old)])
                          \cup (Foreign(g, old) \cap g[n])
        Adopted  == LET g == IF IsRoot(t, s) THEN sub ELSE Insert(sub, sp, old, n)
                    IN  (IF IsRoot(t, s) THEN {} ELSE {n} \cap sub[HomeIn(sp, old, n)])
                          \cup (Mine(g, n, old) \cap g[n])
    IN  IF span[t][s] # Nil \/ old = Nil THEN {}
        ELSE IF TakesOver(t, s, old) THEN Promoted ELSE Adopted

(* A client's call, while the server is up.                                *)
ClientCollect ==
    /\ up
    /\ \E t \in Traces, s \in Spans, as \in Batches :
          /\ WithinBound(t, s, as) /\ Collect(t, s, as)
          /\ again' = again \cup AppendedAgain(t, s)
    /\ UNCHANGED <<parent, diskVars, procVars>>

ClientDelete ==
    /\ up
    /\ \E ts \in (SUBSET Traces) \ {{}} :
          /\ Delete(ts)
          /\ again' = {a \in again : a.trace \notin ts}
          /\ restored' = [t \in Traces |-> IF t \in ts THEN {} ELSE restored[t]]
    /\ UNCHANGED <<parent, diskVars, starts, up>>

(* Slip: writes the store file in place.                                   *)
PersistInPlace ==
    /\ up /\ temp = Nil
    /\ temp' = Encode /\ file' = Encode
    /\ writing' = view
    /\ UNCHANGED <<vars, again, saved, procVars>>

(* One round of PersistEvery: write a temporary file under ms's lock ...   *)
PersistWrite ==
    /\ up /\ temp = Nil
    /\ temp' = Encode
    /\ writing' = view
    /\ UNCHANGED <<vars, again, file, saved, procVars>>

(* ... and rename it over the store file.                                  *)
PersistRename ==
    /\ up /\ temp # Nil
    /\ file' = temp /\ temp' = Nil
    /\ saved' = writing
    /\ UNCHANGED <<vars, again, writing, procVars>>

(* The process dies: a kill, or log.Fatal because a step of PersistEvery   *)
(* failed.  A temporary file stays behind and is never looked at again.    *)
Crash ==
    /\ up
    /\ up' = FALSE
    /\ temp' = Nil
    /\ SetMemory(NoStore)
    /\ restored' = [t \in Traces |-> {}]
    /\ UNCHANGED <<parent, file, saved, writing, starts>>

Start ==
    /\ ~up /\ starts < MaxStarts
    /\ up' = TRUE /\ starts' = starts + 1
    /\ SetMemory(IF file = Nil THEN NoStore ELSE Decode(file))
    /\ restored' = [t \in Traces |-> {a.span : a \in Shown(t)'}]
    /\ UNCHANGED <<parent, diskVars>>

PNext == ClientCollect \/ ClientDelete \/ PersistWrite \/ PersistRename \/ Crash \/ Start

PSpec == PInit /\ [][PNext]_allVars

-----------------------------------------------------------------------------
PTypeOK ==
    /\ TypeOK
    /\ file = Nil \/ DOMAIN file = {"trace", "span", "sub", "anns", "again"}
    /\ temp = Nil \/ DOMAIN temp = {"trace", "span", "sub", "anns", "again"}
    /\ again \subseteq Addr
    /\ up \in BOOLEAN /\ starts \in 1..MaxStarts

(* A start shows the contents the store had at the last completed round of *)
(* PersistEvery, all of it and nothing of a round that was cut short: the  *)
(* rename makes a round atomic (store.go, PersistEvery).                   *)
StartShowsLastSave ==
    [][~up /\ up' => view' = saved]_allVars

(* A reader of the tree that Trace returns meets no span twice, although   *)
(* ReadFrom leaves several copies of a span in memory and later Collects   *)
(* link some of them to each other: the nodes are of different spans, each *)
(* is listed once, in the Sub list of one of them, and the root in none.   *)
ShownOnce ==
    \A t \in Traces :
      /\ Shown(t) \cap again = {}
      /\ \A a, b \in Shown(t) :
            /\ a.span = b.span => a = b
            /\ sub[a] \cap sub[b] # {} => a = b
            /\ trace[t] \notin sub[a]

(* A trace that was saved whole, with the parent of each of its spans,     *)
(* stays as it was restored: collecting more of it takes no restored span  *)
(* out of the tree (ReadFrom, then collectNoLock).                         *)
Whole(t) == \A s \in restored[t] : IsRoot(t, s) \/ parent[t][s] \in restored[t]

RestoredWholeStaysShown ==
    \A t \in Traces : Whole(t) => \A s \in restored[t] : view[t][s] # Nil

(* A trace that was not in the file is shown complete after a restart as   *)
(* it would be without one.                                                *)
FreshTracesComplete ==
    \A t \in Traces : restored[t] = {} =>
        Shown(t) = {span[t][s] : s \in Collected(t)}
=============================================================================
