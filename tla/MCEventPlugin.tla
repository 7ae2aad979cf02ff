--------------------------- MODULE MCEventPlugin ---------------------------
(* Model values for EventPlugin.                                          *)
EXTENDS EventPlugin

CONSTANTS e1, e2, e3

TwoEvents   == {e1, e2}
ThreeEvents == {e1, e2, e3}
=============================================================================
