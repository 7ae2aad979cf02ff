--------------------------- MODULE EventDelivery ---------------------------
(***************************************************************************)
(* What the event plugin promises to the consumer of its RabbitMQ queue:   *)
(* the queue holds notifications that CLN really emitted, each at most     *)
(* once, and what was delivered is never taken back or reordered.  There   *)
(* is no promise that an emitted notification arrives, and none that       *)
(* notifications arrive in the order of their emission: publishing is      *)
(* best effort and handlers run concurrently.                              *)
(***************************************************************************)
EXTENDS Sequences, Functions

CONSTANT Events     \* the notifications CLN may emit

VARIABLES
    offered,        \* the notifications CLN has emitted so far
    log             \* what the consumer of the queue sees, in order

vars == <<offered, log>>

TypeOK == offered \subseteq Events /\ log \in Seq(Events)

Init == offered = {} /\ log = <<>>

(* CLN emits e for the first time. *)
Offer(e) ==
    /\ e \notin offered
    /\ offered' = offered \cup {e}
    /\ UNCHANGED log

(* e reaches the queue. *)
Deliver(e) ==
    /\ e \in offered
    /\ e \notin Range(log)
    /\ log' = Append(log, e)
    /\ UNCHANGED offered

Next == \E e \in Events : Offer(e) \/ Deliver(e)

Spec == Init /\ [][Next]_vars
=============================================================================
