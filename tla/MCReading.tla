------------------------------- MODULE MCReading -------------------------------
(* Model checking of Reading: events of two schemas whose keys share names   *)
(* and beginnings, all trees of up to three spans, and the samples of two    *)
(* names in two minutes.                                                     *)
EXTENDS Reading, TLC

(* Names, in byte order: fields, map keys, an annotation of no event, and    *)
(* the annotations of the schemas.                                           *)
MCSchemas == {30, 40, 50}
MCIndices == 0..2
MCLonger  == {<<10, 11>>, <<13, 15>>}
MCNumbers == {"0", "7"}

MCTypeOf ==
    30 :> (<<>> :> "struct" @@ <<10>> :> "list" @@ <<11>> :> "leaf" @@ <<12>> :> "map") @@
    40 :> (<<>> :> "struct" @@ <<13>> :> "struct" @@ <<14>> :> "map"
            @@ <<13, 10>> :> "number" @@ <<13, 12>> :> "list") @@
    50 :> (<<>> :> "struct" @@ <<8>> :> "map" @@ <<16>> :> "numberMap" @@ <<17>> :> "numbers"
            @@ <<18>> :> "leaf")

Maps == {[k \in {} |-> ""], <<20>> :> "a", <<20>> :> "" @@ <<21, 20>> :> "a"}

Lists == {<<>>, <<"a">>, <<"b", "a">>}

First  == {Event(30, <<10>> :> l @@ <<11>> :> v @@ <<12>> :> m) :
            l \in Lists, v \in {"", "a"}, m \in Maps}
Second == {Event(40, <<13, 10>> :> n @@ <<13, 12>> :> l @@ <<14>> :> m) :
            n \in {"0", "7"}, l \in {<<"a">>, <<"", "b">>}, m \in Maps}

Third  == {Event(50, <<8>> :> m @@ <<16>> :> c @@ <<17>> :> l @@ <<18>> :> "a") :
            m \in {[k \in {} |-> ""], <<20>> :> "a"},
            c \in {[k \in {} |-> ""], <<20>> :> "7", <<20>> :> "0" @@ <<21, 20>> :> "7"},
            l \in {<<"7">>, <<"7", "0">>}}

One == {<<e>> : e \in First \cup Second \cup Third}
Two == {<<e, f>> : e \in First, f \in Second} \cup {<<f, e>> : e \in First, f \in Second}

MCSpanInputs ==
    {{s} : s \in One \cup Two}
    \cup {{<<e>>, s} : e \in First, s \in {<<f>> : f \in Second}}
    \cup {{<<e>>, <<f>>} : e, f \in First}
    \cup {{<<e>>, <<f>>} : e, f \in Third}
    \cup {{<<e, g>>, <<f>>} : e, f \in Third,
                               g \in {x \in First : x.val[<<11>>] = "a" /\ x.val[<<10>>] = <<"b", "a">>}}
    \cup {{<<f>>, <<e, g>>} : e \in {x \in First : x.val[<<11>>] = "a" /\ x.val[<<10>>] # <<>>},
                               f, g \in {x \in Second : x.val[<<13, 10>>] = "7"}}

MCExtras == {<<>>, <<Pair(<<15>>, "x"), Pair(<<9>>, "y"), Pair(<<11, 20>>, "z")>>}

Times == {<<>>, <<<<2, 3>>>>, <<<<3, 6>>, <<2, 5>>>>, <<<<0, 4>>>>, <<<<3, 3>>>>}

Node(id, isRoot, n, ts, sub) ==
    [id |-> id, isRoot |-> isRoot, name |-> n, times |-> ts, sub |-> sub]

Names == {"", "n"}

Tops(sub)     == {Node("a", r, n, ts, sub) : r \in BOOLEAN, n \in Names, ts \in Times}
Inner(id, sub) == {Node(id, FALSE, n, ts, sub) : n \in Names, ts \in Times}

Trees ==
    {<<<<>> :> x @@ <<1>> :> y @@ <<1, 1>> :> z>> :
        x \in Tops(1), y \in Inner("b", 1), z \in Inner("c", 0)}
    \cup {<<<<>> :> x @@ <<1>> :> y @@ <<2>> :> z>> :
        x \in Tops(2), y \in Inner("b", 0), z \in Inner("c", 0)}

Pairs ==
    LET some(id, sub) == {Node(id, TRUE, n, ts, sub) : n \in Names, ts \in {<<>>, <<<<2, 5>>>>}}
        tree(r, s) == {<<>> :> Node(r, TRUE, "n", <<<<2, 5>>>>, 1) @@ <<1>> :> b : b \in some(s, 0)}
        single(r)  == {<<>> :> x : x \in some(r, 0)}
    IN  {<<x, y>> : x \in tree("a", "b") \cup single("a"), y \in tree("c", "d") \cup single("c")}

MCTreeInputs == Trees \cup Pairs

(* What a span holds: a name and a timespan in some order, or more, or less. *)
Found == {<<<<1>>, <<2, 4>>>>, <<<<2, 5>>, <<1>>>>, <<<<2>>, <<2, 4>>>>,
          <<<<2>>, <<2, 4>>, <<3, 9>>>>, <<<<2, 7>>, <<3, 9>>>>, <<<<2>>>>}

MCMinutes == {1, 2}

Samples(t, found, seen) == [trace : {t}, minute : MCMinutes, found : found, seen : seen]

(* Points that were all there when the continuous queries ran; and two of    *)
(* three that the queries may miss, with a name and a timespan each.         *)
MCSampleInputs ==
    LET prompt(t) == Samples(t, Found, {Queries})
        late(t)   == Samples(t, {f \in Found : {Len(f[i]) : i \in DOMAIN f} = {1, 2} /\ Len(f) = 2},
                             SUBSET Queries)
        fits(p, q) == p.minute = q.minute => p.seen \subseteq q.seen \/ q.seen \subseteq p.seen
        some      == {x \in late("t2") \X late("t3") : fits(x[1], x[2])}
    IN  {{p, q, r} : p \in prompt("t1"), q \in prompt("t2"), r \in prompt("t3")}
        \cup {{p, x[1], x[2]} : p \in prompt("t1"), x \in some}
=============================================================================
