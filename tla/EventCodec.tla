------------------------------ MODULE EventCodec ------------------------------
(***************************************************************************)
(* How an event becomes annotations of a span and an event again:          *)
(* MarshalEvent and UnmarshalEvents (event.go) over flattenValue and       *)
(* unflattenValue (reflect.go).                                            *)
(*                                                                         *)
(* A key "A.B.0" is the sequence of its names.  Names are numbers in the   *)
(* byte order of the strings, except that those that are a list index are  *)
(* numbered by it (in the order of the bytes as long as there are ten);    *)
(* the name of a schema annotation ("_schema:X") is the schema.  Names     *)
(* hold no byte below "." (the code wants them alphanumeric), so that keys *)
(* compare name by name; but the rest of a key below a map may be one name *)
(* as well.                                                                *)
(*                                                                         *)
(* The struct type of an event is the function from the keys of its        *)
(* fields, of the fields of its fields, and so on, to their kinds, with    *)
(* the struct itself at the empty key.  The parts are the fields that are  *)
(* no structs, and a value of the type a function from the parts: to a     *)
(* string, to a sequence of strings for a list, and for a map to a         *)
(* function from the rest of the key to strings.  Numbers, times and       *)
(* durations, alone or in lists and maps, are strings that parse as such.  *)
(***************************************************************************)
EXTENDS Arranging

CONSTANTS
    Schemas,    \* registered schemas: the names of their schema annotations
    TypeOf,     \* schema -> type of its events
    Longer,     \* pairs of names <<a, b>>: the string b starts with the string a
    Indices,    \* the names that are list indices
    Numbers     \* the strings that parse as a number, time or duration

LeafKinds   == {"leaf", "number"}
ListKinds   == {"list", "numbers"}
MapKinds    == {"map", "numberMap"}
NumberKinds == {"number", "numbers", "numberMap"}
Kinds       == {"struct"} \cup LeafKinds \cup ListKinds \cup MapKinds

Key == Seq(Nat)

AtOrWithin(k, p) == Len(p) <= Len(k) /\ \A i \in 1..Len(p) : k[i] = p[i]
Within(k, p)     == Len(p) < Len(k) /\ AtOrWithin(k, p)

(* Field names are not taken for schemas, and what a struct holds is named *)
(* after it.                                                               *)
IsType(T) ==
    /\ IsFiniteSet(DOMAIN T) /\ DOMAIN T \subseteq Key
    /\ <<>> \in DOMAIN T /\ T[<<>>] = "struct"
    /\ \A p \in DOMAIN T :
        /\ T[p] \in Kinds
        /\ p # <<>> => Front(p) \in DOMAIN T
        /\ \A q \in DOMAIN T : Within(p, q) => T[q] = "struct"
        /\ p # <<>> => p[1] \notin Schemas

ASSUME TypesAssumption ==
    /\ Schemas \subseteq Nat /\ IsFiniteSet(Schemas)
    /\ DOMAIN TypeOf = Schemas /\ \A s \in Schemas : IsType(TypeOf[s])
    /\ Indices \subseteq Nat /\ \A i \in Indices : 0..i \subseteq Indices

(* A longer string is a later one.                                         *)
ASSUME NamesAssumption == Longer \subseteq {ab \in Nat \X Nat : ab[1] < ab[2]}

(* (The provers have to be told that "" is a string.)                      *)
ASSUME NumbersAssumption == Numbers \cup {""} \subseteq STRING /\ "0" \in Numbers

(* The zero value of a leaf or an element.                                 *)
Empty(kind) == IF kind \in NumberKinds THEN "0" ELSE ""

Parts(T) == {p \in DOMAIN T : T[p] # "struct"}

Zero(T) ==
    [p \in Parts(T) |-> CASE T[p] \in LeafKinds -> Empty(T[p])
                          [] T[p] \in ListKinds -> <<>>
                          [] T[p] \in MapKinds  -> [k \in {} |-> ""]]

-----------------------------------------------------------------------------
(* The annotations of one value, as a set of key-value pairs.              *)
Pair(k, v) == [key |-> k, val |-> v]

PartPairs(kind, p, x) ==
    CASE kind \in LeafKinds -> {Pair(p, x)}
      [] kind \in ListKinds -> {Pair(Append(p, i - 1), x[i]) : i \in DOMAIN x}
      [] kind \in MapKinds  -> {Pair(p \o k, x[k]) : k \in DOMAIN x}

Flatten(T, v) == UNION {PartPairs(T[p], p, v[p]) : p \in Parts(T)}

Event(s, v) == [schema |-> s, val |-> v]

(* Bytewise order of keys.                                                 *)
Before(k, l) ==
    \E n \in 1..Len(l) :
        /\ n <= Len(k) + 1
        /\ \A i \in 1..(n - 1) : k[i] = l[i]
        /\ n = Len(k) + 1 \/ k[n] < l[n]

Sorted(pairs) == Ranked(pairs, {pq \in pairs \X pairs : Before(pq[1].key, pq[2].key)})

MarshalEvent(e) ==
    Append(Sorted(Flatten(TypeOf[e.schema], e.val)), Pair(<<e.schema>>, ""))

-----------------------------------------------------------------------------
(* strings.HasPrefix(key, prefix), which may end within a name; Within is  *)
(* strings.HasPrefix(key, prefix + ".").                                   *)
HasPrefix(k, p) ==
    /\ Len(p) <= Len(k)
    /\ \A i \in 1..Len(p) : k[i] = p[i] \/ (i = Len(p) /\ <<p[i], k[i]>> \in Longer)

Parses(kind, s) == kind \in NumberKinds => s \in Numbers

(* The state of unflattenValue: the value made, the index of the first of  *)
(* the pairs that are left, and whether there was no error yet.            *)
Got(v, next, ok) == [val |-> v, next |-> next, ok |-> ok]

(* The first index from i on with the property of those in S; the end of   *)
(* kv if there is none.                                                    *)
FirstIn(S, i, kv) == Smallest({j \in S : i <= j} \cup {Len(kv) + 1})

(* Pairs that do not start with the prefix are dropped, all of them if     *)
(* none does, except for a map.                                            *)
Skipped(kind, p, kv, i) ==
    IF kind \in MapKinds THEN i ELSE FirstIn({j \in DOMAIN kv : HasPrefix(kv[j].key, p)}, i, kv)

Put(g, p, x, next) == Got([g.val EXCEPT ![p] = x], next, TRUE)
Failed(g, next)    == Got(g.val, next, FALSE)

TakeLeaf(kind, p, kv, g, i) ==
    IF Parses(kind, kv[i].val) THEN Put(g, p, kv[i].val, i + 1) ELSE Failed(g, i)

(* Slip: an element that does not parse is skipped.                        *)
TakeMapSkips(kind, p, kv, g, i) ==
    LET mine == {j \in i..Len(kv) : Within(kv[j].key, p)}
        good == {j \in mine : Parses(kind, kv[j].val)}
        rest(j) == SubSeq(kv[j].key, Len(p) + 1, Len(kv[j].key))
    IN  Put(g, p, [k \in {rest(j) : j \in good} |->
                      kv[CHOOSE j \in good : rest(j) = k].val],
            i + Cardinality(mine))

(* A map takes the pairs below its prefix, wherever they are, and then as  *)
(* many off the front.  An element that does not parse ends that, and the  *)
(* map is not set.                                                         *)
TakeMap(kind, p, kv, g, i) ==
    LET mine == {j \in i..Len(kv) : Within(kv[j].key, p)}
        bad  == {j \in mine : ~Parses(kind, kv[j].val)}
        rest(j) == SubSeq(kv[j].key, Len(p) + 1, Len(kv[j].key))
    IN  IF bad # {} THEN Failed(g, i + Cardinality({j \in mine : j < Smallest(bad)}))
        ELSE Put(g, p, [k \in {rest(j) : j \in mine} |->
                           kv[CHOOSE j \in mine : rest(j) = k].val],
                 i + Cardinality(mine))

IsElement(k, p) == Len(k) = Len(p) + 1 /\ Last(k) \in Indices

(* A list takes pairs below its prefix off the front, and fails at a key   *)
(* that does not end with an index.  It has at least one element then, and *)
(* its elements are set up to the first that does not parse.               *)
TakeList(kind, p, kv, g, i) ==
    LET end   == FirstIn({j \in DOMAIN kv : ~Within(kv[j].key, p)}, i, kv)
        deep  == {j \in i..(end - 1) : ~IsElement(kv[j].key, p)}
        index == [j \in i..(end - 1) |-> Last(kv[j].key)]
        bad   == {j \in i..(end - 1) : ~Parses(kind, kv[j].val)}
        at(n) == {j \in i..(end - 1) : index[j] = n - 1 /\ \A b \in bad : j < b}
        elems == [n \in 1..(Greatest(Range(index) \cup {0}) + 1) |->
                     IF at(n) = {} THEN Empty(kind) ELSE kv[CHOOSE j \in at(n) : TRUE].val]
    IN  IF deep # {} THEN Failed(g, Smallest(deep))
        ELSE Got([g.val EXCEPT ![p] = elems], end, bad = {})

InOrder(keys) == Ranked(keys, {kl \in keys \X keys : Before(kl[1], kl[2])})

(* Slip: the fields in another order than the keys.                        *)
FieldOrderBackwards(T) == Reverse(InOrder(DOMAIN T))

(* The fields of a struct after it, sorted by name.                        *)
FieldOrder(T) == InOrder(DOMAIN T)

(* One call of unflattenValue, but for the fields of a struct.             *)
Visit(T, p, kv, g) ==
    LET i == Skipped(T[p], p, kv, g.next)
    IN  IF ~g.ok THEN g
        ELSE IF i > Len(kv) THEN Got(g.val, i, TRUE)
        ELSE CASE T[p] \in LeafKinds -> TakeLeaf(T[p], p, kv, g, i)
               [] T[p] \in ListKinds -> TakeList(T[p], p, kv, g, i)
               [] T[p] \in MapKinds  -> TakeMap(T[p], p, kv, g, i)
               [] T[p] = "struct"    -> Got(g.val, i, TRUE)

Unflatten(T, kv) ==
    LET order == FieldOrder(T)
        got[n \in 0..Len(order)] ==
            IF n = 0 THEN Got(Zero(T), 1, TRUE) ELSE Visit(T, order[n], kv, got[n - 1])
    IN  got[Len(order)]

(* Annotations.StringMap and mapToKVs: the last annotation of a key counts. *)
StringMap(anns) ==
    {anns[i] : i \in {j \in DOMAIN anns :
        \A k \in DOMAIN anns : anns[k].key = anns[j].key => k <= j}}

(* Annotations.schemas: those of registered events.                        *)
IsSchema(k) == Len(k) = 1 /\ k[1] \in Schemas

SchemasOf(anns) ==
    LET found == Only(anns, {a \in ToSet(anns) : IsSchema(a.key)})
    IN  [i \in DOMAIN found |-> found[i].key[1]]

(* UnmarshalEvent, whose caller never sees an error of unflattenValue, for *)
(* each schema.                                                            *)
UnmarshalEvents(anns) ==
    LET kv == Sorted(StringMap(anns))
    IN  [i \in DOMAIN SchemasOf(anns) |->
            LET s == SchemasOf(anns)[i]
            IN  Event(s, Unflatten(TypeOf[s], kv).val)]
=============================================================================
