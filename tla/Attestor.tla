------------------------------ MODULE Attestor ------------------------------
(***************************************************************************)
(* The reserves attestor: get-signed-balance asks CLN for getinfo,         *)
(* listfunds and listpeerchannels, one after the other, puts every coin it *)
(* sees into a bucket, signs the totals with the node's key and checks the *)
(* signature before it answers (get_signed_balance in main.rs, rpc.rs).    *)
(*                                                                         *)
(* The node's money is a set of coins.  A coin is seen by listfunds in its *)
(* `wallet' state and by listpeerchannels in its `channel' state; the node *)
(* (external) moves coins between the two as transactions confirm and      *)
(* channels open and close.  A bucket is the set of the coins it adds up,  *)
(* so a coin in two buckets is money counted twice.                        *)
(***************************************************************************)
EXTENDS FiniteSets, Naturals

CONSTANTS
    Coins,              \* the coins the node controls at some time
    Requests            \* concurrent calls of get-signed-balance

VARIABLES
    wallet,             \* the output of each coin, as listfunds shows it
    channel,            \* the channel each coin is in, as listpeerchannels shows it
    stage,              \* where each request stands
    inputs,             \* BalanceStatementInputs of each request
    genuine,            \* the signature of each request is the node's
    moved               \* history: coins that moved between the two listings

node == <<wallet, channel>>
vars == <<wallet, channel, stage, inputs, genuine, moved>>

-----------------------------------------------------------------------------
Outputs  == {"none", "unconfirmed", "immature", "confirmed", "reserved"}
Channels == {"none", "opening", "open", "closing"}
Stages   == {"idle", "connect", "getinfo", "listfunds", "listpeerchannels", "sign",
             "check", "done", "failed"}
Waiting  == {"connect", "getinfo", "listfunds", "listpeerchannels", "sign", "check"}
Buckets  == {"onchain", "unconfirmed", "reserved", "immature", "open", "pending"}

NoInputs == [b \in Buckets |-> {}]

TypeOK ==
    /\ wallet \in [Coins -> Outputs]
    /\ channel \in [Coins -> Channels]
    /\ stage \in [Requests -> Stages]
    /\ inputs \in [Requests -> [Buckets -> SUBSET Coins]]
    /\ genuine \in [Requests -> BOOLEAN]
    /\ moved \in [Requests -> SUBSET Coins]

Init ==
    /\ wallet = [c \in Coins |-> "none"]
    /\ channel = [c \in Coins |-> "none"]
    /\ stage = [r \in Requests |-> "idle"]
    /\ inputs = [r \in Requests |-> NoInputs]
    /\ genuine = [r \in Requests |-> FALSE]
    /\ moved = [r \in Requests |-> {}]

-----------------------------------------------------------------------------
(* The node (external).                                                    *)

Between(r) == stage[r] = "listpeerchannels"

(* Coin c goes from one pair of states to another.                         *)
Move(c, w, ch, w2, ch2) ==
    /\ wallet[c] = w
    /\ channel[c] = ch
    /\ wallet' = [wallet EXCEPT ![c] = w2]
    /\ channel' = [channel EXCEPT ![c] = ch2]
    /\ moved' = [r \in Requests |-> IF Between(r) THEN moved[r] \cup {c} ELSE moved[r]]
    /\ UNCHANGED <<stage, inputs, genuine>>

(* On chain: received or mined, confirmed, reserved for a transaction and  *)
(* released again, spent.                                                  *)
OnChain(c) ==
    \/ \E w \in {"unconfirmed", "immature"} : Move(c, "none", "none", w, "none")
    \/ \E w \in {"unconfirmed", "immature"} : Move(c, w, "none", "confirmed", "none")
    \/ Move(c, "confirmed", "none", "reserved", "none")
    \/ Move(c, "reserved", "none", "confirmed", "none")
    \/ Move(c, "reserved", "none", "none", "none")

(* In a channel: funded from a reserved output, which leaves the wallet    *)
(* before or after the channel becomes usable; received and paid over      *)
(* Lightning; closed.  A closing channel is listed until it is forgotten,  *)
(* when its output may long be in the wallet.                              *)
InChannel(c) ==
    \/ Move(c, "reserved", "none", "reserved", "opening")
    \/ Move(c, "reserved", "opening", "reserved", "none")
    \/ \E ch \in {"opening", "open"} : Move(c, "reserved", ch, "none", ch)
    \/ \E w \in {"reserved", "none"} : Move(c, w, "opening", w, "open")
    \/ Move(c, "none", "none", "none", "open")
    \/ Move(c, "none", "open", "none", "none")
    \/ Move(c, "none", "open", "none", "closing")
    \/ Move(c, "none", "closing", "unconfirmed", "closing")
    \/ Move(c, "unconfirmed", "closing", "confirmed", "closing")
    \/ Move(c, "confirmed", "closing", "confirmed", "none")

-----------------------------------------------------------------------------
(* get-signed-balance.                                                     *)

Goto(r, from, to) ==
    /\ stage[r] = from
    /\ stage' = [stage EXCEPT ![r] = to]
    /\ UNCHANGED node

(* What becomes of a request that meets an error: it ends with it.         *)
Refused == "failed"

(* Every call may fail.                                                    *)
RpcFails(r) ==
    /\ stage[r] \in Waiting
    /\ stage' = [stage EXCEPT ![r] = Refused]
    /\ UNCHANGED <<node, inputs, genuine, moved>>

Call(r)    == Goto(r, "idle", "connect") /\ UNCHANGED <<inputs, genuine, moved>>
Connect(r) == Goto(r, "connect", "getinfo") /\ UNCHANGED <<inputs, genuine, moved>>
Getinfo(r) == Goto(r, "getinfo", "listfunds") /\ UNCHANGED <<inputs, genuine, moved>>

InWallet(w) == {c \in Coins : wallet[c] = w}

(* The outputs by status; a reserved output is not spendable.              *)
SpendableReserved == InWallet("confirmed") \cup InWallet("reserved")
Spendable == InWallet("confirmed")

Listfunds(r) ==
    /\ Goto(r, "listfunds", "listpeerchannels")
    /\ inputs' = [inputs EXCEPT ![r] =
                    [@ EXCEPT !["onchain"] = Spendable,
                              !["reserved"] = InWallet("reserved"),
                              !["unconfirmed"] = InWallet("unconfirmed"),
                              !["immature"] = InWallet("immature")]]
    /\ UNCHANGED <<genuine, moved>>

(* The channels: in CHANNELD_NORMAL, or in any other state.                *)
UsableAnyState == {c \in Coins : channel[c] # "none"}
Usable == {c \in Coins : channel[c] = "open"}

Listpeerchannels(r) ==
    /\ Goto(r, "listpeerchannels", "sign")
    /\ inputs' = [inputs EXCEPT ![r] =
                    [@ EXCEPT !["open"] = Usable,
                              !["pending"] = {c \in Coins : channel[c] # "none"} \ Usable]]
    /\ UNCHANGED <<genuine, moved>>

(* signmessage; the signature may be faulty.                               *)
Sign(r) ==
    /\ Goto(r, "sign", "check")
    /\ \E good \in BOOLEAN : genuine' = [genuine EXCEPT ![r] = good]
    /\ UNCHANGED <<inputs, moved>>

(* checkmessage against the node's id, and the answer.                     *)
VerdictIgnored(r) == TRUE
Verdict(r) == genuine[r]

Check(r) ==
    /\ Goto(r, "check", IF Verdict(r) THEN "done" ELSE Refused)
    /\ UNCHANGED <<inputs, genuine, moved>>

Step(r) ==
    \/ Connect(r) \/ Getinfo(r) \/ Listfunds(r) \/ Listpeerchannels(r)
    \/ Sign(r) \/ Check(r)
    \/ RpcFails(r)

(* The next call on the same connection to CLN.                            *)
Forget(r) ==
    /\ stage[r] \in {"done", "failed"}
    /\ stage' = [stage EXCEPT ![r] = "idle"]
    /\ inputs' = [inputs EXCEPT ![r] = NoInputs]
    /\ genuine' = [genuine EXCEPT ![r] = FALSE]
    /\ moved' = [moved EXCEPT ![r] = {}]
    /\ UNCHANGED node

-----------------------------------------------------------------------------
Next ==
    \/ \E c \in Coins : OnChain(c) \/ InChannel(c)
    \/ \E r \in Requests : Call(r) \/ Step(r) \/ Forget(r)

Spec == Init /\ [][Next]_vars

-----------------------------------------------------------------------------
(* Properties.                                                             *)

Counted(r) == inputs[r]["onchain"] \cup inputs[r]["open"]
OutputBuckets == {"onchain", "unconfirmed", "reserved", "immature"}

(* A coin that did not move between the two listings is counted at most    *)
(* once, although the output that funds a channel may be in the wallet     *)
(* when the channel is open, and it is in one on-chain bucket at most.     *)
StillCoinsCountedOnce ==
    \A r \in Requests : stage[r] \in {"sign", "check", "done"} =>
        \A c \in Coins \ moved[r] :
            /\ ~(c \in inputs[r]["onchain"] /\ c \in inputs[r]["open"])
            /\ Cardinality({b \in OutputBuckets : c \in inputs[r][b]}) <= 1

(* Only a statement whose signature the node's key verifies leaves the     *)
(* node: after a faulty signature the call fails.                          *)
OnlyVerifiedLeaves == \A r \in Requests : stage[r] = "done" => genuine[r]

(* While no coin is between the listings, the total is the node's          *)
(* spendable money at the moment of the first listing: nothing that is     *)
(* neither spendable on chain nor in an open channel leaks into it, and    *)
(* nothing that is is left out.                                            *)
TotalIsExactWhenStill ==
    [][\A r \in Requests :
         Listpeerchannels(r) /\ moved[r] = {} =>
            Counted(r)' = {c \in Coins : wallet[c] = "confirmed" \/ channel[c] = "open"}]_vars

(* Every call ends with a statement or an error.                           *)
CallsEnd == \A r \in Requests : stage[r] = "connect" ~> stage[r] \in {"done", "failed"}

(* The README: a node's balance at a point in time.  At no point in time   *)
(* is a coin both on chain and in an open channel.                         *)
PointInTime ==
    \A r \in Requests : stage[r] = "done" => inputs[r]["onchain"] \cap inputs[r]["open"] = {}
=============================================================================
