--------------------------- MODULE MCJsonRedaction ---------------------------
(* Values for the constants of JsonRedaction: every value of up to two     *)
(* entries in up to two levels, and some with three levels.  The entries   *)
(* of an object are in the order of their keys, as serde_json keeps them.  *)
EXTENDS JsonRedaction, FiniteSets

KeyOrder == <<"label", "payer_secret", "rune">>
MCKeys == {"label", "payer_secret", "rune"}
MCTerms == [label |-> {}, payer_secret |-> {"secret"}, rune |-> {"rune"}]
MCDangerFields == {"rune", "secret"}
MCTexts == {"t1", "t2", "t3", "text"}
MCOperators == {"operator#A", "operator#B"}
MCRuneParts == [t1 |-> <<"method=pay", "operator#A", "operator#B">>,
                t2 |-> <<"operator#B">>, t3 |-> <<"method=pay">>]

Object(entries) == [is |-> "object", entries |-> entries]
Array(entries) == [is |-> "array", entries |-> entries]

Leaf0 == {String(t) : t \in MCTexts} \cup {Scalar}

EntriesOf(m) ==
    LET ks == SelectSeq(KeyOrder, LAMBDA k : k \in DOMAIN m)
    IN  [i \in DOMAIN ks |-> [key |-> ks[i], value |-> m[ks[i]]]]

Containers(n, vs) ==
    {Object(EntriesOf(m)) : m \in UNION {[ks -> vs] : ks \in {k \in SUBSET Keys : Cardinality(k) <= n}}}
        \cup {Array([i \in DOMAIN q |-> [value |-> q[i]]]) :
                 q \in UNION {[1..i -> vs] : i \in 0..n}}

MCRequests ==
    Containers(2, Leaf0 \cup Containers(2, Leaf0 \ {Scalar}))
        \cup Containers(1, Containers(2, Leaf0 \cup Containers(1, Leaf0)))
=============================================================================
