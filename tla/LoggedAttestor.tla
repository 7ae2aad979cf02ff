--------------------------- MODULE LoggedAttestor ---------------------------
(***************************************************************************)
(* Two plugins of one node: get-signed-balance of the attestor, and every  *)
(* RPC call it makes, pass through the rpc_command hook of the RPC log     *)
(* plugin (on_hook_rpc_command) before CLN runs them.                      *)
(*                                                                         *)
(* A command is a pair of a request and a method.  CLN runs it when the    *)
(* hook has let it continue; what CLN does with one whose hook call failed *)
(* or was lost is open: it runs it or fails it.  Without the log plugin    *)
(* nothing is asked.                                                       *)
(*                                                                         *)
(* What the coins do delays no call and fails none, so this module takes   *)
(* the attestor of a node without coins; Attestor has them.                *)
(***************************************************************************)
EXTENDS FiniteSets, Naturals

CONSTANTS
    Requests,           \* as in Attestor
    Lists               \* the values of log-rpc-list to look at

VARIABLES
    wallet, channel, stage, inputs, genuine, moved,     \* Attestor
    rpcList, alive, storage, hook, bucket               \* RpcLogHook

(* The commands of one request, in their order, and one of somebody else's *)
(* methods.                                                                *)
Entry == "get-signed-balance"
Calls == {"getinfo", "listfunds", "listpeerchannels", "signmessage", "checkmessage"}
Methods == {Entry, "pay"} \cup Calls
Commands == Requests \X ({Entry} \cup Calls)
MethodOf == [c \in Commands |-> c[2]]

(* The requests of the attestor are objects, and so, here, is its caller's. *)
Unreadable == {}

A == INSTANCE Attestor WITH Coins <- {}
H == INSTANCE RpcLogHook

attestor == <<wallet, channel, stage, inputs, genuine, moved>>
hooks    == <<rpcList, alive, storage, hook, bucket>>
vars     == <<attestor, hooks>>

ASSUME ListsAssumption == Lists \subseteq SUBSET Methods

Init ==
    /\ A!Init
    /\ H!Init
    /\ rpcList \in Lists

-----------------------------------------------------------------------------
(* What CLN does for a request when it runs one of its commands.           *)
Runs(r, m) ==
    \/ m = Entry /\ A!Call(r)
    \/ m = "getinfo" /\ A!Getinfo(r)
    \/ m = "listfunds" /\ A!Listfunds(r)
    \/ m = "listpeerchannels" /\ A!Listpeerchannels(r)
    \/ m = "signmessage" /\ A!Sign(r)
    \/ m = "checkmessage" /\ A!Check(r)

(* The request is at the point of making this call.                        *)
Due(r, m) ==
    stage[r] = CASE m = Entry -> "idle"
                 [] m = "signmessage" -> "sign"
                 [] m = "checkmessage" -> "check"
                 [] OTHER -> m

(* The call reaches CLN, which asks the hook.                              *)
Send(r, m) ==
    /\ Due(r, m)
    /\ H!Call(<<r, m>>)
    /\ UNCHANGED attestor

(* The hook has let the command continue.                                  *)
Continued(r, m) ==
    /\ H!Run(<<r, m>>)
    /\ IF Due(r, m) THEN Runs(r, m) ELSE UNCHANGED attestor

(* The hook call failed or was lost: CLN runs the command, or fails it.    *)
Undecided(r, m) ==
    /\ hook[<<r, m>>] \in {"failed", "lost"}
    /\ Due(r, m)
    /\ Runs(r, m) \/ A!RpcFails(r)
    /\ UNCHANGED hooks

(* No plugin, no hook.                                                     *)
UnhookedWhen(r, m) == hook[<<r, m>>] \in {"new", "called"}
Unhooked(r, m) == ~alive /\ hook[<<r, m>>] = "new"

RunUnhooked(r, m) ==
    /\ Unhooked(r, m)
    /\ Runs(r, m)
    /\ UNCHANGED hooks

(* The connection to CLN is made without a command, and may break at any   *)
(* time, while a command of it is still in the hook.                       *)
Connect(r) == A!Connect(r) /\ UNCHANGED hooks
Breaks(r) == A!RpcFails(r) /\ UNCHANGED hooks

HookStep(c) == H!Hook(c) /\ UNCHANGED attestor
LogPlugin == (H!Stop \/ H!StorageTurns) /\ UNCHANGED attestor

Next ==
    \/ \E r \in Requests, m \in {Entry} \cup Calls :
          Send(r, m) \/ Continued(r, m) \/ Undecided(r, m) \/ RunUnhooked(r, m)
    \/ \E r \in Requests : Connect(r) \/ Breaks(r)
    \/ \E c \in Commands : HookStep(c)
    \/ LogPlugin

Spec == Init /\ [][Next]_vars

(* Both plugins run what they can, and CLN what it may; the store need not *)
(* answer.                                                                 *)
FairSpec ==
    /\ Spec
    /\ \A r \in Requests : WF_vars(Connect(r))
    /\ \A r \in Requests, m \in Calls :
          /\ WF_vars(Send(r, m)) /\ WF_vars(HookStep(<<r, m>>))
          /\ WF_vars(Continued(r, m) \/ Undecided(r, m) \/ RunUnhooked(r, m))

-----------------------------------------------------------------------------
(* Properties.                                                             *)

(* A statement that leaves the node has a record of every call that was to *)
(* be logged, unless the store failed on that call or the log plugin was   *)
(* stopped.                                                                *)
StatementIsLogged ==
    \A r \in Requests : stage[r] = "done" =>
        \A m \in Calls :
            H!ToLog(<<r, m>>) /\ hook[<<r, m>>] # "failed" /\ alive => <<r, m>> \in bucket

(* The calls of a request that are made before this one.                   *)
Earlier(m) ==
    CASE m = "getinfo" -> {}
      [] m = "listfunds" -> {"getinfo"}
      [] m = "listpeerchannels" -> {"getinfo", "listfunds"}
      [] m = "signmessage" -> {"getinfo", "listfunds", "listpeerchannels"}
      [] m = "checkmessage" -> Calls \ {"checkmessage"}

(* The records of a request have no gaps: next to the record of a call are *)
(* those of the calls the request made before, as far as they were to be   *)
(* logged and the store did not fail on them.  It holds for requests that  *)
(* end halfway too, when the connection breaks while the hook has the      *)
(* call, and after the end of the log plugin, whose last uploads may still *)
(* reach the bucket.                                                       *)
RecordsHaveNoGaps ==
    \A r \in Requests, m \in Calls : <<r, m>> \in bucket =>
        \A e \in Earlier(m) :
            H!ToLog(<<r, e>>) /\ hook[<<r, e>>] # "failed" => <<r, e>> \in bucket

(* The attestor waits for as long as the store of the logs does, and no    *)
(* longer: a store that answers, well or not, lets every request end.      *)
LoggedEnds == <>[](storage # "hung") => A!CallsEnd
=============================================================================
