------------------------- MODULE MCMetricsSnapshot -------------------------
(* Small answers of listpeerchannels for MetricsSnapshot: of three channels *)
(* at least one has no id.                                                 *)
EXTENDS MetricsSnapshot

CONSTANTS p1, p2, s1, i1

TwoPeers      == {p1, p2}
OneScid       == {s1}
OneChannelId  == {i1}
TwoAmounts    == {1, 2}
TwoCounts     == {1, 2}
=============================================================================
