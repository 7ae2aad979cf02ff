--------------------------- MODULE MCMetricsServer ---------------------------
(* Values for the constants of MetricsServer. *)
EXTENDS MetricsServer, Bitwise, SequencesExt

(* The comparison of tokens as the code computes it: the fold of `or' over *)
(* the zipped bytes, in constant time.  Like the comparison in pairs it    *)
(* accepts a word and no other, for bytes of every width.                  *)
Differences(provided, expected) ==
    FoldLeft(LAMBDA acc, i : acc | (provided[i] ^^ expected[i]), 0, [i \in DOMAIN expected |-> i])
FoldMatches(provided, expected) ==
    Len(provided) = Len(expected) /\ Differences(provided, expected) = 0

Bytes == {0, 1, 2, 7, 8, 127, 128, 254, 255}
Words == BoundedSeq(0 .. 3, 3) \cup [1 .. 2 -> Bytes]

ASSUME FoldIsEquality == \A a, b \in Words : FoldMatches(a, b) <=> a = b

MCPayloads ==
    {[metric |-> Hook, label |-> "", wellFormed |-> FALSE],
     [metric |-> "forward_events_total", label |-> "settled", wellFormed |-> TRUE],
     [metric |-> "forward_events_total", label |-> "settled", wellFormed |-> FALSE],
     [metric |-> "channel_state_changes_total", label |-> "unknown", wellFormed |-> TRUE]}
MCRawTokens == {<<0, 0>>, <<0, 1>>, <<1, 2>>, <<0, 1, 2, 0>>}
MCBearers == {<<1, 2>>, <<1>>, <<2, 1>>, <<1, 2, 0>>}
=============================================================================
