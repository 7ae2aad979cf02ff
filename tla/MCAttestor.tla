----------------------------- MODULE MCAttestor -----------------------------
(* Model values for Attestor.                                             *)
EXTENDS Attestor

CONSTANTS c1, c2, r1

TwoCoins   == {c1, c2}
OneRequest == {r1}
=============================================================================
