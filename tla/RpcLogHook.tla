----------------------------- MODULE RpcLogHook -----------------------------
(***************************************************************************)
(* The RPC log plugin: CLN asks the rpc_command hook before it runs a      *)
(* command; the plugin uploads a record of the commands it is to log and   *)
(* then lets CLN continue (on_hook_rpc_command and upload_rpc_log in       *)
(* main.rs).  Commands of different callers are in the hook at the same    *)
(* time.                                                                   *)
(*                                                                         *)
(* CLN runs a command after the hook's answer `continue'.  What CLN does   *)
(* with a command whose hook call failed or was never answered is CLN's    *)
(* decision and outside of this model, which says only what the plugin     *)
(* told it.                                                                *)
(***************************************************************************)
EXTENDS FiniteSets

CONSTANTS
    Commands,           \* the calls of RPC commands
    Methods,            \* the names of RPC methods
    MethodOf,           \* the method of each command
    Unreadable          \* the calls whose request is no RpcCommandEvent

ASSUME MethodAssumption == MethodOf \in [Commands -> Methods] /\ Unreadable \subseteq Commands

VARIABLES
    rpcList,            \* log-rpc-list after parsing, fixed at startup
    alive,              \* the plugin runs
    storage,            \* the object store: "up", "failing" or "hung"
    hook,               \* the state of each command
    bucket              \* the commands with a record in the bucket

vars == <<rpcList, alive, storage, hook, bucket>>

-----------------------------------------------------------------------------
TypeOK ==
    /\ rpcList \subseteq Methods
    /\ alive \in BOOLEAN
    /\ storage \in {"up", "failing", "hung"}
    /\ hook \in [Commands -> {"new", "called", "upload", "passed", "ran", "failed", "lost"}]
    /\ bucket \subseteq Commands

Init ==
    /\ rpcList \in SUBSET Methods
    /\ alive = TRUE
    /\ storage = "up"
    /\ hook = [c \in Commands |-> "new"]
    /\ bucket = {}

(* An empty list logs every method.                                        *)
InLogListAlways(m) == TRUE
InLogList(m) == rpcList = {} \/ m \in rpcList

-----------------------------------------------------------------------------
(* A caller sends command c and CLN calls the hook.                        *)
Call(c) ==
    /\ alive
    /\ hook[c] = "new"
    /\ hook' = [hook EXCEPT ![c] = "called"]
    /\ UNCHANGED <<rpcList, alive, storage, bucket>>

(* The request is read first, whatever its method, and the `?' makes the   *)
(* hook fail on one that cannot be: its parameters, say, are a string.     *)
ReadFails(c) ==
    /\ alive
    /\ hook[c] = "called"
    /\ c \in Unreadable
    /\ hook' = [hook EXCEPT ![c] = "failed"]
    /\ UNCHANGED <<rpcList, alive, storage, bucket>>

(* The hook looks the method up: a listed one is uploaded first, any other *)
(* continues at once.                                                      *)
LogFirst(c) ==
    /\ alive
    /\ hook[c] = "called" /\ c \notin Unreadable
    /\ InLogList(MethodOf[c])
    /\ hook' = [hook EXCEPT ![c] = "upload"]
    /\ UNCHANGED <<rpcList, alive, storage, bucket>>

PassUnlisted(c) ==
    /\ alive
    /\ hook[c] = "called" /\ c \notin Unreadable
    /\ ~InLogList(MethodOf[c])
    /\ hook' = [hook EXCEPT ![c] = "passed"]
    /\ UNCHANGED <<rpcList, alive, storage, bucket>>

(* The record is stored and the command continues.                         *)
Upload(c) ==
    /\ alive
    /\ hook[c] = "upload"
    /\ storage = "up"
    /\ bucket' = bucket \cup {c}
    /\ hook' = [hook EXCEPT ![c] = "passed"]
    /\ UNCHANGED <<rpcList, alive, storage>>

(* The upload fails, the record stored or not, and the `?' makes the hook  *)
(* fail.                                                                   *)
AfterFailureContinue == "passed"
AfterFailureRetry == "upload"
AfterFailure == "failed"

UploadFails(c) ==
    /\ alive
    /\ hook[c] = "upload"
    /\ storage = "failing"
    /\ bucket' \in {bucket, bucket \cup {c}}
    /\ hook' = [hook EXCEPT ![c] = AfterFailure]
    /\ UNCHANGED <<rpcList, alive, storage>>

Hook(c) == ReadFails(c) \/ LogFirst(c) \/ PassUnlisted(c) \/ Upload(c) \/ UploadFails(c)

(* CLN runs a command that the hook let continue (external).               *)
Run(c) ==
    /\ hook[c] = "passed"
    /\ hook' = [hook EXCEPT ![c] = "ran"]
    /\ UNCHANGED <<rpcList, alive, storage, bucket>>

(* The plugin stops: it is dynamic.  Answers it has not given are lost,    *)
(* while an upload that is under way may still reach the bucket.           *)
Stop ==
    /\ alive
    /\ alive' = FALSE
    /\ hook' = [c \in Commands |-> IF hook[c] \in {"called", "upload"} THEN "lost" ELSE hook[c]]
    /\ bucket' \in {bucket \cup cs : cs \in SUBSET {c \in Commands : hook[c] = "upload"}}
    /\ UNCHANGED <<rpcList, storage>>

StorageTurns ==
    /\ storage' \in {"up", "failing", "hung"} \ {storage}
    /\ UNCHANGED <<rpcList, alive, hook, bucket>>

Next ==
    \/ \E c \in Commands : Call(c) \/ Hook(c) \/ Run(c)
    \/ Stop \/ StorageTurns

Spec == Init /\ [][Next]_vars

(* The runtime polls every hook call and CLN runs what it may; the store   *)
(* need not answer.                                                        *)
FairSpec == Spec /\ \A c \in Commands : WF_vars(Hook(c)) /\ WF_vars(Run(c))

-----------------------------------------------------------------------------
(* Properties.                                                             *)

ToLog(c) == rpcList = {} \/ MethodOf[c] \in rpcList

(* A command that is to be logged is let continue only with its record in  *)
(* the bucket, whatever the store does and when the plugin stops: the      *)
(* upload comes before the answer, and a failed one is not answered with   *)
(* `continue'.                                                             *)
LoggedBeforeRun ==
    \A c \in Commands : hook[c] \in {"passed", "ran"} /\ ToLog(c) => c \in bucket

(* A method outside a non-empty list leaves no record.                     *)
OnlyListedRecorded == \A c \in bucket : ToLog(c)

(* Trouble with the store stops listed commands only: of the others, all   *)
(* that the hook can read run as long as the plugin does.                  *)
UnlistedRun ==
    \A c \in Commands \ Unreadable :
        hook[c] = "called" /\ ~ToLog(c) ~> hook[c] = "ran" \/ ~alive
=============================================================================
