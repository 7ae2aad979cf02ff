-------------------------- MODULE MCMetricsRefresh --------------------------
(* Model values for MetricsRefresh.                                       *)
EXTENDS MetricsRefresh

CONSTANTS r1, r2

TwoReaders == {r1, r2}
=============================================================================
