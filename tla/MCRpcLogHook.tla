---------------------------- MODULE MCRpcLogHook ----------------------------
(* Two calls of one method and two of another, of which the hook can read  *)
(* one, for RpcLogHook.                                                    *)
EXTENDS RpcLogHook, TLC

CONSTANTS k1, k2, k3, k4, pay, checkrune

FourCommands == {k1, k2, k3, k4}
TwoMethods   == {pay, checkrune}
Calls        == k1 :> pay @@ k2 :> pay @@ k3 :> checkrune @@ k4 :> checkrune
=============================================================================
