--------------------------- MODULE AttestorProofs ---------------------------
(***************************************************************************)
(* The safety of Attestor for any coins and any number of concurrent       *)
(* requests: which coins a statement counts, and which statements leave.   *)
(***************************************************************************)
EXTENDS Attestor, FiniteSetTheorems, TLAPS

(* A coin that is spendable on chain is not in an open channel.            *)
NodeInv == \A c \in Coins : wallet[c] = "confirmed" => channel[c] # "open"

(* Between the listings the inputs still tell where the coins are that did *)
(* not move.                                                               *)
BetweenInv ==
    \A r \in Requests : stage[r] = "listpeerchannels" =>
        \A c \in Coins \ moved[r] : c \in inputs[r]["onchain"] <=> wallet[c] = "confirmed"

(* An output has one status.                                               *)
Listed == {"listpeerchannels", "sign", "check", "done"}
BucketsInv ==
    \A r \in Requests : stage[r] \in Listed =>
        \A a, b \in OutputBuckets : a # b => inputs[r][a] \cap inputs[r][b] = {}

(* A coin that did not move is not counted twice.                          *)
StillInv ==
    \A r \in Requests : stage[r] \in {"sign", "check", "done"} =>
        \A c \in Coins \ moved[r] :
            ~(c \in inputs[r]["onchain"] /\ c \in inputs[r]["open"])

Rest == NodeInv /\ BetweenInv /\ BucketsInv /\ StillInv /\ OnlyVerifiedLeaves

AttestorInv == TypeOK /\ Rest

-----------------------------------------------------------------------------
(* What the node does to a coin is a move that does not make it both       *)
(* spendable on chain and part of an open channel.                         *)
LEMMA MovesAreSound ==
    ASSUME NEW c \in Coins, OnChain(c) \/ InChannel(c)
    PROVE  \E w, w2 \in Outputs, ch, ch2 \in Channels :
               Move(c, w, ch, w2, ch2) /\ (w2 = "confirmed" => ch2 # "open")
<1>. DEFINE Sound == \E w, w2 \in Outputs, ch, ch2 \in Channels :
                         Move(c, w, ch, w2, ch2) /\ (w2 = "confirmed" => ch2 # "open")
<1>1. ASSUME NEW w \in Outputs, NEW w2 \in Outputs, NEW ch \in Channels, NEW ch2 \in Channels,
             Move(c, w, ch, w2, ch2), w2 = "confirmed" => ch2 # "open"
      PROVE  Sound
  BY <1>1
<1>. HIDE DEF Sound
<1>. USE DEF Outputs, Channels
<1>2. CASE OnChain(c)
  <2>1. ASSUME NEW w \in {"unconfirmed", "immature"}, Move(c, "none", "none", w, "none")
        PROVE  Sound
    BY <1>1, <2>1
  <2>2. ASSUME NEW w \in {"unconfirmed", "immature"}, Move(c, w, "none", "confirmed", "none")
        PROVE  Sound
    BY <1>1, <2>2
  <2>3. Move(c, "confirmed", "none", "reserved", "none") => Sound
    BY <1>1
  <2>4. Move(c, "reserved", "none", "confirmed", "none") => Sound
    BY <1>1
  <2>5. Move(c, "reserved", "none", "none", "none") => Sound
    BY <1>1
  <2>. QED  BY <1>2, <2>1, <2>2, <2>3, <2>4, <2>5 DEF OnChain, Sound
<1>3. CASE InChannel(c)
  <2>1. Move(c, "reserved", "none", "reserved", "opening") => Sound
    BY <1>1
  <2>2. Move(c, "reserved", "opening", "reserved", "none") => Sound
    BY <1>1
  <2>3. ASSUME NEW ch \in {"opening", "open"}, Move(c, "reserved", ch, "none", ch)
        PROVE  Sound
    BY <1>1, <2>3
  <2>4. ASSUME NEW w \in {"reserved", "none"}, Move(c, w, "opening", w, "open")
        PROVE  Sound
    BY <1>1, <2>4
  <2>5. Move(c, "none", "none", "none", "open") => Sound
    BY <1>1
  <2>6. Move(c, "none", "open", "none", "none") => Sound
    BY <1>1
  <2>7. Move(c, "none", "open", "none", "closing") => Sound
    BY <1>1
  <2>8. Move(c, "none", "closing", "unconfirmed", "closing") => Sound
    BY <1>1
  <2>9. Move(c, "unconfirmed", "closing", "confirmed", "closing") => Sound
    BY <1>1
  <2>10. Move(c, "confirmed", "closing", "confirmed", "none") => Sound
    BY <1>1
  <2>. QED
    BY <1>3, <2>1, <2>2, <2>3, <2>4, <2>5, <2>6, <2>7, <2>8, <2>9, <2>10 DEF InChannel, Sound
<1>. QED  BY <1>2, <1>3 DEF Sound

(* The steps of a request, as the disjuncts of Next use them.              *)
LEMMA RequestSteps ==
    ASSUME NEW r \in Requests, Call(r) \/ Step(r) \/ Forget(r)
    PROVE  \/ Call(r) \/ Connect(r) \/ Getinfo(r) \/ Listfunds(r) \/ Listpeerchannels(r)
           \/ Sign(r) \/ Check(r) \/ RpcFails(r) \/ Forget(r)
  BY DEF Step

-----------------------------------------------------------------------------
(* The type invariant is inductive.                                        *)
LEMMA TypeInit == Init => TypeOK
  BY DEF Init, TypeOK, NoInputs, Outputs, Channels, Stages

LEMMA TypeMove ==
    ASSUME TypeOK, NEW c \in Coins, NEW w \in Outputs, NEW w2 \in Outputs,
           NEW ch \in Channels, NEW ch2 \in Channels, Move(c, w, ch, w2, ch2)
    PROVE  TypeOK'
<1>1. wallet' \in [Coins -> Outputs] /\ channel' \in [Coins -> Channels]
  BY DEF TypeOK, Move
<1>2. moved' \in [Requests -> SUBSET Coins]
  BY DEF TypeOK, Move
<1>3. UNCHANGED <<stage, inputs, genuine>>
  BY DEF Move
<1>. QED  BY <1>1, <1>2, <1>3 DEF TypeOK

LEMMA TypeStep == TypeOK /\ [Next]_vars => TypeOK'
<1>. SUFFICES ASSUME TypeOK, [Next]_vars PROVE TypeOK'
  OBVIOUS
<1>1. ASSUME NEW c \in Coins, OnChain(c) \/ InChannel(c) PROVE TypeOK'
  BY <1>1, MovesAreSound, TypeMove
<1>2. ASSUME NEW r \in Requests, Call(r) \/ Step(r) \/ Forget(r) PROVE TypeOK'
  <2>. USE DEF TypeOK, Stages
  <2>1. CASE Call(r) \/ Connect(r) \/ Getinfo(r)
    BY <2>1 DEF Call, Connect, Getinfo, Goto, node
  <2>2. CASE Listfunds(r)
    <3>1. inputs' \in [Requests -> [Buckets -> SUBSET Coins]]
      BY <2>2 DEF Listfunds, Spendable, InWallet
    <3>. QED  BY <2>2, <3>1 DEF Listfunds, Goto, node
  <2>3. CASE Listpeerchannels(r)
    <3>1. inputs' \in [Requests -> [Buckets -> SUBSET Coins]]
      BY <2>3 DEF Listpeerchannels, Usable
    <3>. QED  BY <2>3, <3>1 DEF Listpeerchannels, Goto, node
  <2>4. CASE Sign(r)
    BY <2>4 DEF Sign, Goto, node
  <2>5. CASE Check(r)
    BY <2>5 DEF Check, Goto, Refused, node
  <2>6. CASE RpcFails(r)
    BY <2>6 DEF RpcFails, Refused, node
  <2>7. CASE Forget(r)
    BY <2>7 DEF Forget, NoInputs, node
  <2>. QED  BY <1>2, <2>1, <2>2, <2>3, <2>4, <2>5, <2>6, <2>7, RequestSteps
<1>3. CASE UNCHANGED vars
  BY <1>3 DEF TypeOK, vars
<1>. QED  BY <1>1, <1>2, <1>3 DEF Next

-----------------------------------------------------------------------------
(* AttestorInv is inductive.                                               *)
LEMMA InvInit == Init => AttestorInv
<1>. SUFFICES ASSUME Init PROVE Rest
  BY TypeInit DEF AttestorInv
<1>. QED
  BY DEF Init, Rest, NodeInv, BetweenInv, BucketsInv, StillInv, OnlyVerifiedLeaves, Listed

(* A move leaves the inputs alone; a coin that moves between the listings  *)
(* is one that moved.                                                      *)
LEMMA InvMove ==
    ASSUME AttestorInv, NEW c \in Coins, NEW w \in Outputs, NEW w2 \in Outputs,
           NEW ch \in Channels, NEW ch2 \in Channels, Move(c, w, ch, w2, ch2),
           w2 = "confirmed" => ch2 # "open"
    PROVE  Rest'
<1>. USE DEF AttestorInv, Rest
<1>1. /\ \A d \in Coins : d # c => wallet'[d] = wallet[d] /\ channel'[d] = channel[d]
      /\ wallet'[c] = w2 /\ channel'[c] = ch2
      /\ UNCHANGED <<stage, inputs, genuine>>
  BY DEF Move, TypeOK
<1>2. \A r \in Requests :
         /\ moved[r] \subseteq moved'[r]
         /\ stage[r] = "listpeerchannels" => c \in moved'[r]
  BY DEF Move, Between, TypeOK
<1>3. NodeInv'
  BY <1>1 DEF NodeInv
<1>4. BetweenInv'
  BY <1>1, <1>2 DEF BetweenInv
<1>5. BucketsInv'
  BY <1>1 DEF BucketsInv
<1>6. StillInv'
  BY <1>1, <1>2 DEF StillInv
<1>7. OnlyVerifiedLeaves'
  BY <1>1 DEF OnlyVerifiedLeaves
<1>. QED  BY <1>3, <1>4, <1>5, <1>6, <1>7

(* A step that takes request r to a stage and leaves inputs and history    *)
(* alone keeps what is known of the inputs, unless the stage says more.    *)
LEMMA InvGoto ==
    ASSUME AttestorInv, NEW r \in Requests, NEW to \in Stages,
           stage' = [stage EXCEPT ![r] = to], UNCHANGED <<wallet, channel, inputs, moved>>,
           to # "listpeerchannels",
           to \in {"sign", "check", "done"} => stage[r] \in {"sign", "check"}
    PROVE  NodeInv' /\ BetweenInv' /\ BucketsInv' /\ StillInv'
<1>. USE DEF AttestorInv, Rest
<1>1. stage'[r] = to /\ \A q \in Requests : q # r => stage'[q] = stage[q]
  BY DEF TypeOK
<1>2. NodeInv'
  BY DEF NodeInv
<1>3. BetweenInv'
  BY <1>1 DEF BetweenInv
<1>4. BucketsInv'
  BY <1>1 DEF BucketsInv, Listed
<1>5. StillInv'
  BY <1>1 DEF StillInv
<1>. QED  BY <1>2, <1>3, <1>4, <1>5

LEMMA InvStep == AttestorInv /\ [Next]_vars => AttestorInv'
<1>. SUFFICES ASSUME AttestorInv, [Next]_vars PROVE Rest'
  BY TypeStep DEF AttestorInv
<1>. USE DEF AttestorInv
<1>1. ASSUME NEW c \in Coins, OnChain(c) \/ InChannel(c) PROVE Rest'
  BY <1>1, MovesAreSound, InvMove
<1>2. ASSUME NEW r \in Requests, Call(r) \/ Step(r) \/ Forget(r) PROVE Rest'
  <2>. DEFINE Others == \A q \in Requests : q # r =>
                  stage'[q] = stage[q] /\ inputs'[q] = inputs[q] /\ genuine'[q] = genuine[q]
                     /\ moved'[q] = moved[q]
  <2>1. CASE Call(r) \/ Connect(r) \/ Getinfo(r)
    <3>1. PICK to \in {"connect", "getinfo", "listfunds"} :
              stage' = [stage EXCEPT ![r] = to] /\ UNCHANGED <<node, inputs, genuine, moved>>
      BY <2>1 DEF Call, Connect, Getinfo, Goto
    <3>2. NodeInv' /\ BetweenInv' /\ BucketsInv' /\ StillInv'
      BY <3>1, InvGoto DEF node, Stages
    <3>3. OnlyVerifiedLeaves'
      BY <3>1 DEF OnlyVerifiedLeaves, TypeOK, Rest
    <3>. QED  BY <3>2, <3>3 DEF Rest
  <2>2. CASE Listfunds(r)
    <3>. DEFINE new == [inputs[r] EXCEPT !["onchain"] = InWallet("confirmed"),
                                         !["reserved"] = InWallet("reserved"),
                                         !["unconfirmed"] = InWallet("unconfirmed"),
                                         !["immature"] = InWallet("immature")]
    <3>1. /\ Others
          /\ stage'[r] = "listpeerchannels" /\ inputs'[r] = new
          /\ UNCHANGED <<wallet, channel, genuine, moved>>
      BY <2>2 DEF Listfunds, Goto, Spendable, TypeOK, node
    <3>2. /\ new["onchain"] = InWallet("confirmed") /\ new["reserved"] = InWallet("reserved")
          /\ new["unconfirmed"] = InWallet("unconfirmed")
          /\ new["immature"] = InWallet("immature")
      BY DEF TypeOK, Buckets
    <3>. HIDE DEF new
    <3>3. NodeInv'
      BY <3>1 DEF Rest, NodeInv
    <3>4. BetweenInv'
      BY <3>1, <3>2 DEF Rest, BetweenInv, InWallet
    <3>5. \A a, b \in OutputBuckets : a # b => new[a] \cap new[b] = {}
      BY <3>2 DEF OutputBuckets, InWallet
    <3>6. BucketsInv'
      BY <3>1, <3>5 DEF Rest, BucketsInv
    <3>7. StillInv'
      BY <3>1 DEF Rest, StillInv
    <3>8. OnlyVerifiedLeaves'
      BY <3>1 DEF Rest, OnlyVerifiedLeaves
    <3>. QED  BY <3>3, <3>4, <3>6, <3>7, <3>8 DEF Rest
  <2>3. CASE Listpeerchannels(r)
    <3>1. /\ Others
          /\ stage[r] = "listpeerchannels" /\ stage'[r] = "sign"
          /\ UNCHANGED <<wallet, channel, genuine, moved>>
      BY <2>3 DEF Listpeerchannels, Goto, TypeOK, node
    <3>2. /\ inputs'[r]["open"] = Usable
          /\ \A b \in OutputBuckets : inputs'[r][b] = inputs[r][b]
      BY <2>3 DEF Listpeerchannels, TypeOK, Buckets, OutputBuckets
    <3>3. NodeInv'
      BY <3>1 DEF Rest, NodeInv
    <3>4. BetweenInv'
      BY <3>1 DEF Rest, BetweenInv
    <3>5. BucketsInv'
      BY <3>1, <3>2 DEF Rest, BucketsInv, Listed
    <3>6. StillInv'
      BY <3>1, <3>2 DEF Rest, StillInv, BetweenInv, NodeInv, Usable, OutputBuckets
    <3>7. OnlyVerifiedLeaves'
      BY <3>1 DEF Rest, OnlyVerifiedLeaves
    <3>. QED  BY <3>3, <3>4, <3>5, <3>6, <3>7 DEF Rest
  <2>4. CASE Sign(r)
    <3>1. stage[r] = "sign" /\ stage' = [stage EXCEPT ![r] = "check"]
          /\ UNCHANGED <<wallet, channel, inputs, moved>>
      BY <2>4 DEF Sign, Goto, node
    <3>2. NodeInv' /\ BetweenInv' /\ BucketsInv' /\ StillInv'
      BY <3>1, InvGoto DEF Stages
    <3>3. OnlyVerifiedLeaves'
      BY <2>4 DEF Sign, Goto, OnlyVerifiedLeaves, TypeOK, Rest
    <3>. QED  BY <3>2, <3>3 DEF Rest
  <2>5. CASE Check(r)
    <3>1. PICK to \in {"done", "failed"} :
              /\ stage[r] = "check" /\ stage' = [stage EXCEPT ![r] = to]
              /\ to = "done" => genuine[r]
              /\ UNCHANGED <<node, inputs, genuine, moved>>
      BY <2>5 DEF Check, Goto, Verdict, Refused
    <3>2. NodeInv' /\ BetweenInv' /\ BucketsInv' /\ StillInv'
      BY <3>1, InvGoto DEF Stages, node
    <3>3. OnlyVerifiedLeaves'
      BY <3>1 DEF OnlyVerifiedLeaves, TypeOK, Rest
    <3>. QED  BY <3>2, <3>3 DEF Rest
  <2>6. CASE RpcFails(r)
    <3>1. NodeInv' /\ BetweenInv' /\ BucketsInv' /\ StillInv'
      BY <2>6, InvGoto DEF RpcFails, Refused, Stages, node
    <3>2. OnlyVerifiedLeaves'
      BY <2>6 DEF RpcFails, Refused, OnlyVerifiedLeaves, TypeOK, Rest
    <3>. QED  BY <3>1, <3>2 DEF Rest
  <2>7. CASE Forget(r)
    <3>1. Others /\ stage'[r] = "idle" /\ UNCHANGED <<wallet, channel>>
      BY <2>7 DEF Forget, TypeOK, node
    <3>. QED
      BY <3>1 DEF Rest, NodeInv, BetweenInv, BucketsInv, StillInv, OnlyVerifiedLeaves, Listed
  <2>. QED  BY <1>2, <2>1, <2>2, <2>3, <2>4, <2>5, <2>6, <2>7, RequestSteps
<1>3. CASE UNCHANGED vars
  BY <1>3 DEF vars, Rest, NodeInv, BetweenInv, BucketsInv, StillInv, OnlyVerifiedLeaves, Listed
<1>. QED  BY <1>1, <1>2, <1>3 DEF Next

(* What the invariant says of a coin that did not move.                    *)
LEMMA InvImpliesStill == AttestorInv => StillCoinsCountedOnce
<1>. SUFFICES ASSUME AttestorInv, NEW r \in Requests, stage[r] \in {"sign", "check", "done"},
                     NEW c \in Coins \ moved[r]
              PROVE  /\ ~(c \in inputs[r]["onchain"] /\ c \in inputs[r]["open"])
                     /\ Cardinality({b \in OutputBuckets : c \in inputs[r][b]}) <= 1
  BY DEF StillCoinsCountedOnce
<1>. DEFINE In == {b \in OutputBuckets : c \in inputs[r][b]}
<1>1. \A a, b \in In : a = b
  BY DEF AttestorInv, Rest, BucketsInv, Listed
<1>2. In = {} \/ \E b : In = {b}
  BY <1>1
<1>3. Cardinality(In) = 0 \/ Cardinality(In) = 1
  BY <1>2, FS_EmptySet, FS_Singleton
<1>4. ~(c \in inputs[r]["onchain"] /\ c \in inputs[r]["open"])
  BY DEF AttestorInv, Rest, StillInv
<1>. QED  BY <1>3, <1>4

(* With no coin between the listings, the second one completes a total     *)
(* that is exact.                                                          *)
LEMMA InvImpliesExact ==
    ASSUME AttestorInv, NEW r \in Requests, Listpeerchannels(r), moved[r] = {}
    PROVE  Counted(r)' = {c \in Coins : wallet[c] = "confirmed" \/ channel[c] = "open"}
<1>1. /\ inputs'[r]["open"] = Usable
      /\ inputs'[r]["onchain"] = inputs[r]["onchain"]
  BY DEF AttestorInv, Listpeerchannels, TypeOK, Buckets
<1>2. inputs[r]["onchain"] \subseteq Coins
  BY DEF AttestorInv, TypeOK, Buckets
<1>3. \A c \in Coins : c \in inputs[r]["onchain"] <=> wallet[c] = "confirmed"
  BY DEF AttestorInv, Rest, BetweenInv, Listpeerchannels, Goto
<1>. QED  BY <1>1, <1>2, <1>3 DEF Counted, Usable

-----------------------------------------------------------------------------
(* Every variable keeps its type.                                          *)
THEOREM TypeCorrect == Spec => []TypeOK
<1>1. Init => TypeOK
  BY TypeInit
<1>2. TypeOK /\ [Next]_vars => TypeOK'
  BY TypeStep
<1>. QED  BY <1>1, <1>2, PTL DEF Spec

(* The inductive invariant.                                                *)
THEOREM Invariance == Spec => []AttestorInv
<1>1. Init => AttestorInv
  BY InvInit
<1>2. AttestorInv /\ [Next]_vars => AttestorInv'
  BY InvStep
<1>. QED  BY <1>1, <1>2, PTL DEF Spec

(* A coin that does not move between the listings is counted at most once. *)
THEOREM StillCountedOnce == Spec => []StillCoinsCountedOnce
  BY Invariance, InvImpliesStill, PTL

(* Only a statement that the node's key verifies leaves the node.          *)
THEOREM VerifiedLeaves == Spec => []OnlyVerifiedLeaves
<1>1. AttestorInv => OnlyVerifiedLeaves
  BY DEF AttestorInv, Rest
<1>. QED  BY <1>1, Invariance, PTL

(* While no coin is between the listings, a statement counts exactly what  *)
(* the node can spend.                                                     *)
THEOREM ExactWhenStill == Spec => TotalIsExactWhenStill
<1>. DEFINE Exact == \A r \in Requests :
                Listpeerchannels(r) /\ moved[r] = {} =>
                    Counted(r)' = {c \in Coins : wallet[c] = "confirmed" \/ channel[c] = "open"}
<1>1. AttestorInv /\ [Next]_vars => [Exact]_vars
  BY InvImpliesExact
<1>. QED  BY <1>1, Invariance, PTL DEF Spec, TotalIsExactWhenStill
=============================================================================
