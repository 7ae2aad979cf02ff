------------------------ MODULE LoggedAttestorProofs ------------------------
(***************************************************************************)
(* The composition LoggedAttestor for any number of requests and any log   *)
(* lists: a statement that leaves the node has its calls recorded, and the *)
(* records of a request have no gaps.  What is proved of each component is *)
(* used for the two together.                                              *)
(***************************************************************************)
EXTENDS LoggedAttestor, TLAPS

(* The components with what is proved of them.                             *)
AP == INSTANCE AttestorProofs WITH Coins <- {}
HP == INSTANCE RpcLogHookProofs

(* The stages at which a request that has not failed has a call behind it. *)
After(m) ==
    CASE m = "getinfo" -> {"listfunds", "listpeerchannels", "sign", "check", "done"}
      [] m = "listfunds" -> {"listpeerchannels", "sign", "check", "done"}
      [] m = "listpeerchannels" -> {"sign", "check", "done"}
      [] m = "signmessage" -> {"check", "done"}
      [] m = "checkmessage" -> {"done"}

(* Only the end of the log plugin loses an answer.                         *)
NoneLost == alive => \A c \in Commands : hook[c] # "lost"

(* While the log plugin runs, a request gets past a call only when the     *)
(* hook let the call continue or failed on it.                             *)
CallsAnswered ==
    alive => \A r \in Requests, m \in Calls :
        stage[r] \in After(m) => hook[<<r, m>>] \in {"ran", "failed"}

(* A call is sent when those before it are answered, and they stay so.     *)
SentInOrder ==
    \A r \in Requests, m \in Calls : hook[<<r, m>>] # "new" =>
        \A e \in Earlier(m) : hook[<<r, e>>] \in {"ran", "failed"}

(* Only a call that was sent has a record.                                 *)
RecordsSent == \A c \in bucket : hook[c] # "new"

Types == stage \in [Requests -> A!Stages] /\ HP!TypeOK

Rest == NoneLost /\ CallsAnswered /\ SentInOrder /\ RecordsSent

LoggedInv == Types /\ HP!HookInv /\ Rest

-----------------------------------------------------------------------------
(* The hook.                                                               *)

LEMMA MethodsFit == HP!MethodAssumption
  BY DEF HP!MethodAssumption, MethodOf, Commands, Methods, Unreadable

(* The two instances of RpcLogHook, with and without its theorems, say the *)
(* same.                                                                   *)
LEMMA SameHook ==
    /\ H!Init <=> HP!Init
    /\ \A c \in Commands : H!Call(c) \/ H!Hook(c) \/ H!Run(c) <=> HP!Call(c) \/ HP!Hook(c) \/ HP!Run(c)
    /\ H!Stop \/ H!StorageTurns <=> HP!Stop \/ HP!StorageTurns
<1>1. H!Init <=> HP!Init
  BY DEF H!Init, HP!Init
<1>2. ASSUME NEW c \in Commands
      PROVE  H!Call(c) \/ H!Hook(c) \/ H!Run(c) <=> HP!Call(c) \/ HP!Hook(c) \/ HP!Run(c)
  <2>1. H!Call(c) <=> HP!Call(c)
    BY DEF H!Call, HP!Call
  <2>2. H!LogFirst(c) <=> HP!LogFirst(c)
    BY DEF H!LogFirst, HP!LogFirst, H!InLogList, HP!InLogList
  <2>3. H!PassUnlisted(c) <=> HP!PassUnlisted(c)
    BY DEF H!PassUnlisted, HP!PassUnlisted, H!InLogList, HP!InLogList
  <2>4. H!Upload(c) <=> HP!Upload(c)
    BY DEF H!Upload, HP!Upload
  <2>5. H!UploadFails(c) <=> HP!UploadFails(c)
    BY DEF H!UploadFails, HP!UploadFails, H!AfterFailure, HP!AfterFailure
  <2>6. H!Run(c) <=> HP!Run(c)
    BY DEF H!Run, HP!Run
  <2>7. H!ReadFails(c) <=> HP!ReadFails(c)
    BY DEF H!ReadFails, HP!ReadFails
  <2>. QED  BY <2>1, <2>2, <2>3, <2>4, <2>5, <2>6, <2>7 DEF H!Hook, HP!Hook
<1>3. H!Stop <=> HP!Stop
  BY DEF H!Stop, HP!Stop
<1>4. H!StorageTurns <=> HP!StorageTurns
  BY DEF H!StorageTurns, HP!StorageTurns
<1>. QED  BY <1>1, <1>2, <1>3, <1>4

(* To the log plugin a step of the composition is one of its own or none.  *)
LEMMA HookSteps == [Next]_vars => [H!Next]_(H!vars)
<1>. SUFFICES ASSUME [Next]_vars PROVE H!Next \/ UNCHANGED hooks
  BY DEF hooks, H!vars
<1>1. ASSUME NEW r \in Requests, NEW m \in {Entry} \cup Calls,
             Send(r, m) \/ Continued(r, m) \/ Undecided(r, m) \/ RunUnhooked(r, m)
      PROVE  H!Next \/ UNCHANGED hooks
  <2>1. <<r, m>> \in Commands
    BY DEF Commands
  <2>2. H!Call(<<r, m>>) => H!Next
    BY <2>1 DEF H!Next
  <2>3. H!Run(<<r, m>>) => H!Next
    BY <2>1 DEF H!Next
  <2>. QED  BY <1>1, <2>2, <2>3 DEF Send, Continued, Undecided, RunUnhooked
<1>2. ASSUME NEW r \in Requests, Connect(r) \/ Breaks(r) PROVE UNCHANGED hooks
  BY <1>2 DEF Connect, Breaks
<1>3. ASSUME NEW c \in Commands, HookStep(c) PROVE H!Next
  BY <1>3 DEF HookStep, H!Next
<1>4. LogPlugin => H!Next
  BY DEF LogPlugin, H!Next
<1>5. UNCHANGED vars => UNCHANGED hooks
  BY DEF vars, hooks
<1>. QED  BY <1>1, <1>2, <1>3, <1>4, <1>5 DEF Next

-----------------------------------------------------------------------------
(* The attestor.                                                           *)

(* What CLN runs for a request is a step of the attestor.                  *)
LEMMA RunsAreSteps ==
    ASSUME NEW r \in Requests, NEW m, Runs(r, m)
    PROVE  A!Call(r) \/ A!Step(r)
  BY DEF Runs, A!Step

(* To the attestor a step of the composition is one of its own, made when  *)
(* CLN runs or fails its call, or none: what happens in the hook.          *)
LEMMA AttestorSteps == [Next]_vars => [A!Next]_(A!vars)
<1>. SUFFICES ASSUME [Next]_vars PROVE A!Next \/ UNCHANGED attestor
  BY DEF attestor, A!vars
<1>0. ASSUME NEW r \in Requests, A!Call(r) \/ A!Step(r) PROVE A!Next
  BY <1>0 DEF A!Next
<1>1. ASSUME NEW r \in Requests, NEW m \in {Entry} \cup Calls, Send(r, m)
      PROVE  UNCHANGED attestor
  BY <1>1 DEF Send
<1>2. ASSUME NEW r \in Requests, NEW m \in {Entry} \cup Calls, Continued(r, m)
      PROVE  A!Next \/ UNCHANGED attestor
  BY <1>0, <1>2, RunsAreSteps DEF Continued
<1>3. ASSUME NEW r \in Requests, NEW m \in {Entry} \cup Calls,
             Undecided(r, m) \/ RunUnhooked(r, m)
      PROVE  A!Next
  <2>1. Runs(r, m) \/ A!RpcFails(r)
    BY <1>3 DEF Undecided, RunUnhooked
  <2>. QED  BY <1>0, <2>1, RunsAreSteps DEF A!Step
<1>4. ASSUME NEW r \in Requests, Connect(r) \/ Breaks(r) PROVE A!Next
  BY <1>0, <1>4 DEF Connect, Breaks, A!Step
<1>5. ASSUME NEW c \in Commands, HookStep(c) PROVE UNCHANGED attestor
  BY <1>5 DEF HookStep
<1>6. LogPlugin => UNCHANGED attestor
  BY DEF LogPlugin
<1>7. UNCHANGED vars => UNCHANGED attestor
  BY DEF vars, attestor
<1>. QED  BY <1>1, <1>2, <1>3, <1>4, <1>5, <1>6, <1>7 DEF Next

(* The two instances of Attestor say the same.                             *)
LEMMA SameAttestor == (A!Init <=> AP!Init) /\ (A!Next <=> AP!Next)
<1>1. A!Init <=> AP!Init
  BY DEF A!Init, AP!Init, A!NoInputs, AP!NoInputs, A!Buckets, AP!Buckets
<1>2. ASSUME NEW r \in Requests
      PROVE  A!Call(r) \/ A!Step(r) \/ A!Forget(r) <=> AP!Call(r) \/ AP!Step(r) \/ AP!Forget(r)
  <2>. USE DEF A!Goto, AP!Goto, A!node, AP!node
  <2>1. A!Call(r) <=> AP!Call(r)
    BY DEF A!Call, AP!Call
  <2>2. A!Connect(r) <=> AP!Connect(r)
    BY DEF A!Connect, AP!Connect
  <2>3. A!Getinfo(r) <=> AP!Getinfo(r)
    BY DEF A!Getinfo, AP!Getinfo
  <2>4. A!Listfunds(r) <=> AP!Listfunds(r)
    BY DEF A!Listfunds, AP!Listfunds, A!Spendable, AP!Spendable, A!InWallet, AP!InWallet
  <2>5. A!Listpeerchannels(r) <=> AP!Listpeerchannels(r)
    BY DEF A!Listpeerchannels, AP!Listpeerchannels, A!Usable, AP!Usable
  <2>6. A!Sign(r) <=> AP!Sign(r)
    BY DEF A!Sign, AP!Sign
  <2>7. A!Check(r) <=> AP!Check(r)
    BY DEF A!Check, AP!Check, A!Verdict, AP!Verdict, A!Refused, AP!Refused
  <2>8. A!RpcFails(r) <=> AP!RpcFails(r)
    BY DEF A!RpcFails, AP!RpcFails, A!Waiting, AP!Waiting, A!Refused, AP!Refused
  <2>9. A!Forget(r) <=> AP!Forget(r)
    BY DEF A!Forget, AP!Forget, A!NoInputs, AP!NoInputs, A!Buckets, AP!Buckets
  <2>. QED  BY <2>1, <2>2, <2>3, <2>4, <2>5, <2>6, <2>7, <2>8, <2>9 DEF A!Step, AP!Step
<1>3. A!Next <=> \E r \in Requests : A!Call(r) \/ A!Step(r) \/ A!Forget(r)
  BY DEF A!Next
<1>4. AP!Next <=> \E r \in Requests : AP!Call(r) \/ AP!Step(r) \/ AP!Forget(r)
  BY DEF AP!Next
<1>. QED  BY <1>1, <1>2, <1>3, <1>4

-----------------------------------------------------------------------------
(* LoggedInv is inductive.                                                 *)

(* How a request goes from one stage to the next: by the call of a method  *)
(* that CLN runs, at the entry and on the connection, or into an error.    *)
Leads(m, from, to) ==
    \/ from = "idle" /\ to = "connect"
    \/ from = "connect" /\ to = "getinfo"
    \/ m = "getinfo" /\ from = "getinfo" /\ to = "listfunds"
    \/ m = "listfunds" /\ from = "listfunds" /\ to = "listpeerchannels"
    \/ m = "listpeerchannels" /\ from = "listpeerchannels" /\ to = "sign"
    \/ m = "signmessage" /\ from = "sign" /\ to = "check"
    \/ m = "checkmessage" /\ from = "check" /\ to = "done"
    \/ to = "failed"

Moves(r, m) ==
    \E to \in A!Stages : Leads(m, stage[r], to) /\ stage' = [stage EXCEPT ![r] = to]

LEMMA RunMoves ==
    ASSUME NEW r \in Requests, NEW m, Runs(r, m)
    PROVE  Moves(r, m)
  BY DEF Runs, Moves, Leads, A!Call, A!Getinfo, A!Listfunds, A!Listpeerchannels, A!Sign,
         A!Check, A!Goto, A!Refused, A!Stages

LEMMA OtherMoves ==
    ASSUME NEW r \in Requests, NEW m, A!Connect(r) \/ A!RpcFails(r)
    PROVE  Moves(r, m)
  BY DEF Moves, Leads, A!Connect, A!RpcFails, A!Goto, A!Refused, A!Stages

(* A move puts no call behind the request but the one that was run.        *)
LEMMA MoveAfter ==
    ASSUME stage \in [Requests -> A!Stages], NEW r \in Requests, NEW m, Moves(r, m)
    PROVE  /\ stage' \in [Requests -> A!Stages]
           /\ \A q \in Requests, n \in Calls :
                stage'[q] \in After(n) => stage[q] \in After(n) \/ (q = r /\ n = m)
<1>1. PICK to \in A!Stages : Leads(m, stage[r], to) /\ stage' = [stage EXCEPT ![r] = to]
  BY DEF Moves
<1>2. stage' \in [Requests -> A!Stages]
  BY <1>1
<1>3. ASSUME NEW q \in Requests, NEW n \in Calls, stage'[q] \in After(n), q # r
      PROVE  stage[q] \in After(n)
  BY <1>1, <1>3
<1>4. ASSUME NEW n \in Calls, stage'[r] \in After(n), n # m
      PROVE  stage[r] \in After(n)
  <2>1. stage'[r] = to
    BY <1>1
  <2>2. to \in After(n) => stage[r] \in After(n)
    BY <1>1, <1>4 DEF Calls, After, Leads
  <2>. QED  BY <1>4, <2>1, <2>2
<1>. QED  BY <1>2, <1>3, <1>4

LEMMA LoggedInit == Init => LoggedInv
<1>. SUFFICES ASSUME Init PROVE LoggedInv
  OBVIOUS
<1>1. HP!HookInv /\ HP!TypeOK
  BY MethodsFit, SameHook, HP!HookInit DEF Init, HP!HookInv
<1>2. stage = [r \in Requests |-> "idle"] /\ hook = [c \in Commands |-> "new"]
  BY DEF Init, A!Init, H!Init
<1>3. Types
  BY <1>1, <1>2 DEF Types, A!Stages
<1>4. NoneLost
  BY <1>2 DEF NoneLost
<1>5. CallsAnswered
  BY <1>2 DEF CallsAnswered, After, Calls
<1>6. SentInOrder /\ RecordsSent
  <2>1. bucket = {} /\ \A r \in Requests, m \in Calls : <<r, m>> \in Commands
    BY DEF Init, H!Init, Commands
  <2>. QED  BY <1>2, <2>1 DEF SentInOrder, RecordsSent
<1>. QED  BY <1>1, <1>3, <1>4, <1>5, <1>6 DEF LoggedInv, Rest

(* What a step does in the hook: an answered call stays answered, and an   *)
(* answer is lost only when the plugin ends, which does not come back.  A  *)
(* call once sent stays so, and only an upload that waits leaves a record. *)
LEMMA HookKeeps ==
    ASSUME HP!TypeOK, H!Next \/ UNCHANGED hooks
    PROVE  /\ alive' => alive
           /\ \A c \in Commands : hook[c] \in {"ran", "failed"} => hook'[c] = hook[c]
           /\ alive' => \A c \in Commands : hook'[c] = "lost" => hook[c] = "lost"
           /\ \A c \in Commands : hook[c] # "new" => hook'[c] # "new"
           /\ bucket' \subseteq bucket \cup {c \in Commands : hook[c] = "upload"}
<1>. USE DEF HP!TypeOK
<1>1. ASSUME NEW c \in Commands, H!Call(c) \/ H!Run(c)
      PROVE  /\ alive' = alive
             /\ \A d \in Commands : hook[d] \in {"ran", "failed"} => hook'[d] = hook[d]
             /\ \A d \in Commands : hook'[d] = "lost" => hook[d] = "lost"
             /\ \A d \in Commands : hook[d] # "new" => hook'[d] # "new"
             /\ bucket' = bucket
  BY <1>1 DEF H!Call, H!Run
<1>2. ASSUME NEW c \in Commands, H!Hook(c)
      PROVE  /\ alive' = alive
             /\ \A d \in Commands : hook[d] \in {"ran", "failed"} => hook'[d] = hook[d]
             /\ \A d \in Commands : hook'[d] = "lost" => hook[d] = "lost"
             /\ \A d \in Commands : hook[d] # "new" => hook'[d] # "new"
             /\ bucket' = bucket \/ (bucket' = bucket \cup {c} /\ hook[c] = "upload")
  BY <1>2 DEF H!Hook, H!ReadFails, H!LogFirst, H!PassUnlisted, H!Upload, H!UploadFails, H!AfterFailure
<1>3. CASE H!Stop
  BY <1>3 DEF H!Stop
<1>4. CASE H!StorageTurns
  BY <1>4 DEF H!StorageTurns
<1>5. CASE UNCHANGED hooks
  BY <1>5 DEF hooks
<1>. QED  BY <1>1, <1>2, <1>3, <1>4, <1>5 DEF H!Next

(* A call gets to the hook only when the request is at the point of making *)
(* it.                                                                     *)
LEMMA NewlySent ==
    ASSUME HP!TypeOK, [Next]_vars, NEW r \in Requests, NEW m \in Calls,
           hook[<<r, m>>] = "new", hook'[<<r, m>>] # "new"
    PROVE  alive /\ Due(r, m)
<1>. USE DEF HP!TypeOK
<1>0. <<r, m>> \in Commands
  BY DEF Commands
<1>1. ASSUME NEW q \in Requests, NEW n \in {Entry} \cup Calls, Send(q, n)
      PROVE  alive /\ Due(r, m)
  <2>1. alive /\ Due(q, n) /\ hook' = [hook EXCEPT ![<<q, n>>] = "called"]
    BY <1>1 DEF Send, H!Call
  <2>2. <<q, n>> = <<r, m>>
    BY <1>0, <2>1
  <2>. QED  BY <2>1, <2>2
<1>2. ASSUME NEW q \in Requests, NEW n \in {Entry} \cup Calls,
             Continued(q, n) \/ Undecided(q, n) \/ RunUnhooked(q, n)
      PROVE  FALSE
  <2>1. Continued(q, n) => hook[<<q, n>>] = "passed" /\ hook' = [hook EXCEPT ![<<q, n>>] = "ran"]
    BY DEF Continued, H!Run
  <2>2. Undecided(q, n) \/ RunUnhooked(q, n) => hook' = hook
    BY DEF Undecided, RunUnhooked, hooks
  <2>. QED  BY <1>0, <1>2, <2>1, <2>2
<1>3. ASSUME NEW q \in Requests, Connect(q) \/ Breaks(q) PROVE FALSE
  BY <1>3 DEF Connect, Breaks, hooks
<1>4. ASSUME NEW c \in Commands, HookStep(c) PROVE FALSE
  BY <1>0, <1>4 DEF HookStep, H!Hook, H!ReadFails, H!LogFirst, H!PassUnlisted, H!Upload,
                    H!UploadFails, H!AfterFailure
<1>5. LogPlugin => FALSE
  BY <1>0 DEF LogPlugin, H!Stop, H!StorageTurns
<1>6. UNCHANGED vars => FALSE
  BY DEF vars, hooks
<1>. QED  BY <1>1, <1>2, <1>3, <1>4, <1>5, <1>6 DEF Next

LEMMA LoggedStep == LoggedInv /\ [Next]_vars => LoggedInv'
<1>. SUFFICES ASSUME LoggedInv, [Next]_vars PROVE LoggedInv'
  OBVIOUS
<1>0. stage \in [Requests -> A!Stages] /\ HP!TypeOK /\ NoneLost /\ CallsAnswered
      /\ SentInOrder /\ RecordsSent
  BY DEF LoggedInv, Types, Rest
<1>1. HP!HookInv'
  <2>1. [HP!Next]_(HP!vars)
    BY HookSteps, SameHook DEF H!Next, HP!Next, H!vars, HP!vars
  <2>. QED  BY <2>1, MethodsFit, HP!HookStep DEF LoggedInv
<1>2. HP!TypeOK'
  BY <1>1 DEF HP!HookInv
<1>3. H!Next \/ UNCHANGED hooks
  BY HookSteps DEF H!vars, hooks
<1>4. NoneLost'
  BY <1>0, <1>3, HookKeeps DEF NoneLost
<1>5. stage' \in [Requests -> A!Stages] /\ CallsAnswered'
  <2>. DEFINE Goal == stage' \in [Requests -> A!Stages] /\ CallsAnswered'
  <2>1. ASSUME NEW r \in Requests, NEW m, Moves(r, m),
               alive' /\ m \in Calls => hook'[<<r, m>>] \in {"ran", "failed"}
        PROVE  Goal
    <3>1. \A q \in Requests, n \in Calls : <<q, n>> \in Commands
      BY DEF Commands
    <3>2. /\ stage' \in [Requests -> A!Stages]
          /\ \A q \in Requests, n \in Calls :
               stage'[q] \in After(n) => stage[q] \in After(n) \/ (q = r /\ n = m)
      BY <1>0, <2>1, MoveAfter
    <3>3. ASSUME NEW q \in Requests, NEW n \in Calls, alive', stage'[q] \in After(n)
          PROVE  hook'[<<q, n>>] \in {"ran", "failed"}
      BY <1>0, <1>3, <2>1, <3>1, <3>2, <3>3, HookKeeps DEF CallsAnswered
    <3>. QED  BY <3>2, <3>3 DEF CallsAnswered
  <2>2. ASSUME UNCHANGED stage PROVE Goal
    <3>1. \A q \in Requests, n \in Calls : <<q, n>> \in Commands
      BY DEF Commands
    <3>. QED  BY <1>0, <1>3, <2>2, <3>1, HookKeeps DEF CallsAnswered
  <2>. HIDE DEF Goal
  <2>3. ASSUME NEW r \in Requests, NEW m \in {Entry} \cup Calls, Send(r, m) PROVE Goal
    BY <2>2, <2>3 DEF Send, attestor
  <2>4. ASSUME NEW r \in Requests, NEW m \in {Entry} \cup Calls, Continued(r, m) PROVE Goal
    <3>1. hook'[<<r, m>>] = "ran"
      BY <1>0, <2>4 DEF Continued, H!Run, HP!TypeOK, Commands
    <3>. QED  BY <2>1, <2>2, <2>4, <3>1, RunMoves DEF Continued, attestor
  <2>5. ASSUME NEW r \in Requests, NEW m \in {Entry} \cup Calls, Undecided(r, m) PROVE Goal
    <3>1. alive' => hook'[<<r, m>>] = "failed"
      BY <1>0, <2>5 DEF Undecided, NoneLost, hooks, Commands
    <3>2. Moves(r, m)
      BY <2>5, RunMoves, OtherMoves DEF Undecided
    <3>. QED  BY <2>1, <3>1, <3>2
  <2>6. ASSUME NEW r \in Requests, NEW m \in {Entry} \cup Calls, RunUnhooked(r, m) PROVE Goal
    <3>1. ~alive'
      BY <2>6 DEF RunUnhooked, Unhooked, hooks
    <3>. QED  BY <2>1, <2>6, <3>1, RunMoves DEF RunUnhooked
  <2>7. ASSUME NEW r \in Requests, Connect(r) \/ Breaks(r) PROVE Goal
    <3>1. Moves(r, Entry)
      BY <2>7, OtherMoves DEF Connect, Breaks
    <3>. QED  BY <2>1, <3>1 DEF Entry, Calls
  <2>8. ASSUME NEW c \in Commands, HookStep(c) PROVE Goal
    BY <2>2, <2>8 DEF HookStep, attestor
  <2>9. LogPlugin \/ UNCHANGED vars => Goal
    BY <2>2 DEF LogPlugin, attestor, vars
  <2>. QED  BY <2>3, <2>4, <2>5, <2>6, <2>7, <2>8, <2>9 DEF Next, Goal
<1>6. RecordsSent'
  <2>1. bucket \subseteq Commands
    BY <1>0 DEF HP!TypeOK
  <2>. QED  BY <1>0, <1>3, <2>1, HookKeeps DEF RecordsSent
<1>7. SentInOrder'
  <2>. SUFFICES ASSUME NEW r \in Requests, NEW m \in Calls, hook'[<<r, m>>] # "new",
                       NEW e \in Earlier(m)
                PROVE  hook'[<<r, e>>] \in {"ran", "failed"}
    BY DEF SentInOrder
  <2>1. <<r, m>> \in Commands /\ e \in Calls /\ <<r, e>> \in Commands
    BY DEF Commands, Earlier, Calls
  <2>2. CASE hook[<<r, m>>] # "new"
    BY <1>0, <1>3, <2>1, <2>2, HookKeeps DEF SentInOrder
  <2>3. CASE hook[<<r, m>>] = "new"
    <3>1. alive /\ Due(r, m)
      BY <1>0, <2>1, <2>3, NewlySent
    <3>2. stage[r] \in After(e)
      BY <3>1 DEF Due, Earlier, After, Calls, Entry
    <3>. QED  BY <1>0, <1>3, <2>1, <3>1, <3>2, HookKeeps DEF CallsAnswered
  <2>. QED  BY <2>2, <2>3
<1>. QED  BY <1>1, <1>2, <1>4, <1>5, <1>6, <1>7 DEF LoggedInv, Types, Rest

-----------------------------------------------------------------------------
(* The inductive invariant of the composition.                             *)
THEOREM Invariance == Spec => []LoggedInv
<1>1. Init => LoggedInv
  BY LoggedInit
<1>2. LoggedInv /\ [Next]_vars => LoggedInv'
  BY LoggedStep
<1>. QED  BY <1>1, <1>2, PTL DEF Spec

(* A statement that leaves the node has a record of every call that was to *)
(* be logged, unless the store failed on that call or the log plugin was   *)
(* stopped: for any number of requests that interleave, and any list.      *)
THEOREM StatementsAreLogged == Spec => []StatementIsLogged
<1>1. LoggedInv => StatementIsLogged
  <2>. SUFFICES ASSUME LoggedInv, NEW r \in Requests, stage[r] = "done", NEW m \in Calls,
                       H!ToLog(<<r, m>>), hook[<<r, m>>] # "failed", alive
                PROVE  <<r, m>> \in bucket
    BY DEF StatementIsLogged
  <2>1. "done" \in After(m)
    BY DEF After, Calls
  <2>2. hook[<<r, m>>] = "ran"
    BY <2>1 DEF LoggedInv, Rest, CallsAnswered
  <2>3. HP!ToLog(<<r, m>>)
    BY DEF H!ToLog, HP!ToLog
  <2>4. <<r, m>> \in Commands
    BY DEF Commands
  <2>. QED  BY <2>2, <2>3, <2>4 DEF LoggedInv, HP!HookInv, HP!LoggedBeforeRun
<1>. QED  BY <1>1, Invariance, PTL

(* The records of a request have no gaps, for any number of requests that  *)
(* interleave and any list, also when the log plugin or a connection ends  *)
(* halfway.                                                                *)
THEOREM NoGaps == Spec => []RecordsHaveNoGaps
<1>1. LoggedInv => RecordsHaveNoGaps
  <2>. SUFFICES ASSUME LoggedInv, NEW r \in Requests, NEW m \in Calls, <<r, m>> \in bucket,
                       NEW e \in Earlier(m), H!ToLog(<<r, e>>), hook[<<r, e>>] # "failed"
                PROVE  <<r, e>> \in bucket
    BY DEF RecordsHaveNoGaps
  <2>1. hook[<<r, m>>] # "new"
    BY DEF LoggedInv, Rest, RecordsSent
  <2>2. hook[<<r, e>>] = "ran"
    BY <2>1 DEF LoggedInv, Rest, SentInOrder
  <2>3. HP!ToLog(<<r, e>>)
    BY DEF H!ToLog, HP!ToLog
  <2>4. <<r, e>> \in Commands
    BY DEF Commands, Earlier, Calls
  <2>. QED  BY <2>2, <2>3, <2>4 DEF LoggedInv, HP!HookInv, HP!LoggedBeforeRun
<1>. QED  BY <1>1, Invariance, PTL

(* What is proved of the attestor holds behind the hook: whatever the hook *)
(* delays or fails, only a statement that the node's key verifies leaves.  *)
COROLLARY VerifiedBehindHook == Spec => []A!OnlyVerifiedLeaves
<1>1. A!Init => AP!Init
  BY SameAttestor
<1>2. [A!Next]_(A!vars) => [AP!Next]_(AP!vars)
  BY SameAttestor DEF A!vars, AP!vars
<1>3. AP!Spec => []AP!OnlyVerifiedLeaves
  BY AP!VerifiedLeaves
<1>4. AP!OnlyVerifiedLeaves => A!OnlyVerifiedLeaves
  BY DEF A!OnlyVerifiedLeaves, AP!OnlyVerifiedLeaves
<1>5. Init => A!Init
  BY DEF Init
<1>6. [Next]_vars => [A!Next]_(A!vars)
  BY AttestorSteps
<1>. QED  BY <1>1, <1>2, <1>3, <1>4, <1>5, <1>6, PTL DEF Spec, AP!Spec
=============================================================================
