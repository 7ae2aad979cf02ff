------------------------ MODULE MetricsRefreshProofs ------------------------
(***************************************************************************)
(* The safety of MetricsRefresh for any readers, any period and lag, and   *)
(* any number of refreshes and of changes of the node.                     *)
(***************************************************************************)
EXTENDS MetricsRefresh, TLAPS

(* What a reader that holds the guard has read is still in the cache, so   *)
(* both parts of its answer come from one refresh.                         *)
GuardInv ==
    \A r \in Readers :
        /\ reader[r] = "channels" => seen[r].scalars = cache.from
        /\ reader[r] = "done" => seen[r].scalars = seen[r].channels

(* What fetch has read so far is in the order of its calls.                *)
DraftInv ==
    /\ pc \in {"listpeerchannels", "listfunds", "store"} =>
         draft.node <= (IF pc = "listpeerchannels" THEN version ELSE draft.channels)
    /\ pc \in {"listfunds", "store"} =>
         draft.channels <= (IF pc = "listfunds" THEN version ELSE draft.funds)
    /\ pc = "store" => draft.funds <= version

(* Between its two writes the task still knows the number of the refresh   *)
(* that filled the cache.                                                  *)
StampInv == StampFollowsCache /\ (pc = "stamp" => cache.from = number)

(* The next deadline is at least a period after the last start.            *)
PaceInv == IF since < Period THEN timer + since = Period ELSE timer <= 0

Rest == GuardInv /\ DraftInv /\ CacheInCallOrder /\ StampInv /\ PaceInv

RefreshInv == TypeOK /\ Rest

-----------------------------------------------------------------------------
USE PeriodAssumption, LagAssumption, VersionAssumption, WrapAssumption

(* The constants' types, as the steps use them.                            *)
LEMMA NextNumber == \A n \in Numbers : (n + 1) % Wrap \in Numbers
  BY DEF Numbers

(* A step of the refresh task is one of its actions.                       *)
LEMMA RefreshSteps ==
    ASSUME Refresh
    PROVE  Tick \/ Connect \/ Getinfo \/ Listpeerchannels \/ Listfunds \/ FetchFails
           \/ Store \/ Stamp
  BY DEF Refresh

(* The next deadline after a tick, late or not, is a period away.          *)
LEMMA DeadlineAfterTick == TypeOK /\ timer <= 0 => NextDeadline = Period
  BY DEF TypeOK, NextDeadline

-----------------------------------------------------------------------------
(* The type invariant is inductive.                                        *)
LEMMA TypeInit == Init => TypeOK
  BY DEF Init, TypeOK, Empty, Data, Versions, Numbers, Locked

LEMMA TypeStep == TypeOK /\ [Next]_vars => TypeOK'
<1>. SUFFICES ASSUME TypeOK, [Next]_vars PROVE TypeOK'
  OBVIOUS
<1>. USE DEF TypeOK, node
<1>1. CASE Clock
  <2>1. timer' \in -MaxLag .. Period /\ since' \in 0 .. Period
    BY <1>1 DEF Clock
  <2>. QED  BY <1>1, <2>1 DEF Clock
<1>2. CASE Refresh
  <2>1. CASE Tick
    <3>1. timer' \in -MaxLag .. Period /\ since' \in 0 .. Period
      BY <2>1, DeadlineAfterTick DEF Tick
    <3>2. number' \in Numbers /\ draft' \in Data
      BY <2>1, NextNumber DEF Tick, Empty, Data, Versions
    <3>. QED  BY <2>1, <3>1, <3>2 DEF Tick, Calls
  <2>2. CASE Connect \/ Getinfo \/ Listpeerchannels \/ Listfunds
    <3>1. draft' \in Data
      BY <2>2 DEF Connect, Getinfo, Listpeerchannels, Listfunds, Data
    <3>. QED
      BY <2>2, <3>1 DEF Connect, Getinfo, Listpeerchannels, Listfunds, Answer, Calls
  <2>3. CASE FetchFails
    BY <2>3, NextNumber DEF FetchFails, Kept
  <2>4. CASE Store
    BY <2>4 DEF Store
  <2>5. CASE Stamp
    BY <2>5 DEF Stamp
  <2>. QED  BY <1>2, <2>1, <2>2, <2>3, <2>4, <2>5, RefreshSteps
<1>3. ASSUME NEW r \in Readers, Request(r) \/ Read(r) PROVE TypeOK'
  <2>. USE DEF task, Locked
  <2>1. CASE Request(r)
    BY <2>1 DEF Request
  <2>2. CASE ReadLock(r)
    BY <2>2 DEF ReadLock
  <2>3. CASE CollectScalars(r)
    BY <2>3 DEF CollectScalars
  <2>4. CASE CollectChannels(r)
    BY <2>4 DEF CollectChannels
  <2>5. CASE Respond(r)
    <3>1. 0 \in Numbers
      BY DEF Numbers
    <3>. QED  BY <2>5, <3>1 DEF Respond
  <2>. QED  BY <1>3, <2>1, <2>2, <2>3, <2>4, <2>5 DEF Read
<1>4. CASE Change
  BY <1>4 DEF Change, task, Versions
<1>5. CASE RpcTurns
  BY <1>5 DEF RpcTurns, task
<1>6. CASE UNCHANGED vars
  BY <1>6 DEF vars
<1>. QED  BY <1>1, <1>2, <1>3, <1>4, <1>5, <1>6 DEF Next

-----------------------------------------------------------------------------
(* RefreshInv is inductive: the clock, the refresh task, a reader, CLN.    *)
LEMMA InvInit == Init => RefreshInv
<1>. SUFFICES ASSUME Init PROVE Rest
  BY TypeInit DEF RefreshInv
<1>. QED
  BY DEF Init, Empty, Rest, GuardInv, DraftInv, CacheInCallOrder, StampInv,
         StampFollowsCache, PaceInv

LEMMA InvClock == ASSUME RefreshInv, Clock PROVE Rest'
<1>1. PaceInv'
  BY DEF RefreshInv, TypeOK, Rest, PaceInv, Clock
<1>2. (GuardInv /\ DraftInv /\ CacheInCallOrder /\ StampInv)'
  BY DEF RefreshInv, Rest, GuardInv, DraftInv, CacheInCallOrder, StampInv,
         StampFollowsCache, Clock, node
<1>. QED  BY <1>1, <1>2 DEF Rest

LEMMA InvRefresh == ASSUME RefreshInv, Refresh PROVE Rest'
<1>. USE DEF RefreshInv, Rest, TypeOK, node
<1>1. GuardInv'
  <2>1. UNCHANGED <<reader, seen>>
    BY DEF Refresh, Tick, Connect, Getinfo, Listpeerchannels, Listfunds, Answer, FetchFails,
           Store, Stamp
  <2>2. CASE Store
    BY <2>1, <2>2 DEF Store, NoReader, Locked, GuardInv
  <2>3. CASE ~Store
    <3>1. cache' = cache
      BY <2>3 DEF Refresh, Tick, Connect, Getinfo, Listpeerchannels, Listfunds, Answer,
                  FetchFails, Kept, Stamp
    <3>. QED  BY <2>1, <3>1 DEF GuardInv
  <2>. QED  BY <2>2, <2>3
<1>2. DraftInv' /\ CacheInCallOrder'
  <2>. USE DEF DraftInv, CacheInCallOrder
  <2>1. CASE Tick
    BY <2>1 DEF Tick
  <2>2. CASE Connect
    BY <2>2 DEF Connect, Answer
  <2>3. CASE Getinfo
    BY <2>3 DEF Getinfo, Answer, Data, Versions
  <2>4. CASE Listpeerchannels
    BY <2>4 DEF Listpeerchannels, Answer, Data, Versions
  <2>5. CASE Listfunds
    BY <2>5 DEF Listfunds, Answer, Data, Versions
  <2>6. CASE FetchFails
    BY <2>6 DEF FetchFails, Kept
  <2>7. CASE Store
    BY <2>7 DEF Store, Data, Versions
  <2>8. CASE Stamp
    BY <2>8 DEF Stamp
  <2>. QED  BY <2>1, <2>2, <2>3, <2>4, <2>5, <2>6, <2>7, <2>8, RefreshSteps
<1>3. StampInv'
  <2>. USE DEF StampInv, StampFollowsCache
  <2>1. CASE Tick
    BY <2>1 DEF Tick
  <2>2. CASE Connect \/ Getinfo \/ Listpeerchannels \/ Listfunds
    BY <2>2 DEF Connect, Getinfo, Listpeerchannels, Listfunds, Answer, Calls
  <2>3. CASE FetchFails
    BY <2>3 DEF FetchFails, Kept, Calls
  <2>4. CASE Store
    BY <2>4 DEF Store
  <2>5. CASE Stamp
    BY <2>5 DEF Stamp
  <2>. QED  BY <2>1, <2>2, <2>3, <2>4, <2>5, RefreshSteps
<1>4. PaceInv'
  <2>1. CASE Tick
    BY <2>1, DeadlineAfterTick DEF Tick, PaceInv
  <2>2. CASE ~Tick
    BY <2>2 DEF PaceInv, Refresh, Connect, Getinfo, Listpeerchannels, Listfunds, Answer,
                FetchFails, Store, Stamp
  <2>. QED  BY <2>1, <2>2
<1>. QED  BY <1>1, <1>2, <1>3, <1>4

LEMMA InvReader ==
    ASSUME RefreshInv, NEW r \in Readers, Request(r) \/ Read(r)
    PROVE  Rest'
<1>1. UNCHANGED task /\ UNCHANGED node
  BY DEF Request, Read, ReadLock, CollectScalars, CollectChannels, Respond
<1>2. (DraftInv /\ CacheInCallOrder /\ StampInv /\ PaceInv)'
  BY <1>1 DEF RefreshInv, Rest, DraftInv, CacheInCallOrder, StampInv, StampFollowsCache,
              PaceInv, task, node
<1>3. GuardInv'
  <2>. USE DEF RefreshInv, Rest, GuardInv, TypeOK, task
  <2>1. CASE Request(r)
    BY <2>1 DEF Request
  <2>2. CASE ReadLock(r)
    BY <2>2 DEF ReadLock
  <2>3. CASE CollectScalars(r)
    BY <2>3 DEF CollectScalars
  <2>4. CASE CollectChannels(r)
    BY <2>4 DEF CollectChannels
  <2>5. CASE Respond(r)
    BY <2>5 DEF Respond
  <2>. QED  BY <2>1, <2>2, <2>3, <2>4, <2>5 DEF Read
<1>. QED  BY <1>2, <1>3 DEF Rest

LEMMA InvNode == ASSUME RefreshInv, Change \/ RpcTurns PROVE Rest'
<1>1. UNCHANGED <<task, reader, seen>> /\ (version' = version \/ version' = version + 1)
  BY DEF Change, RpcTurns
<1>2. (GuardInv /\ StampInv /\ PaceInv)'
  BY <1>1 DEF RefreshInv, Rest, GuardInv, StampInv, StampFollowsCache, PaceInv, task
<1>3. (DraftInv /\ CacheInCallOrder)'
  BY <1>1 DEF RefreshInv, Rest, TypeOK, Data, Versions, DraftInv, CacheInCallOrder, task
<1>. QED  BY <1>2, <1>3 DEF Rest

LEMMA InvStep == RefreshInv /\ [Next]_vars => RefreshInv'
<1>. SUFFICES ASSUME RefreshInv, [Next]_vars PROVE Rest'
  BY TypeStep DEF RefreshInv
<1>1. CASE UNCHANGED vars
  BY <1>1 DEF RefreshInv, Rest, GuardInv, DraftInv, CacheInCallOrder, StampInv,
              StampFollowsCache, PaceInv, vars
<1>. QED  BY <1>1, InvClock, InvRefresh, InvReader, InvNode DEF Next

-----------------------------------------------------------------------------
(* Every variable keeps its type.                                          *)
THEOREM TypeCorrect == Spec => []TypeOK
<1>1. Init => TypeOK
  BY TypeInit
<1>2. TypeOK /\ [Next]_vars => TypeOK'
  BY TypeStep
<1>. QED  BY <1>1, <1>2, PTL DEF Spec

(* The inductive invariant.                                                *)
THEOREM Invariance == Spec => []RefreshInv
<1>1. Init => RefreshInv
  BY InvInit
<1>2. RefreshInv /\ [Next]_vars => RefreshInv'
  BY InvStep
<1>. QED  BY <1>1, <1>2, PTL DEF Spec

(* However many readers overlap, each answers from one cache value.        *)
THEOREM ReadsAreWhole == Spec => []NoTornRead
<1>1. RefreshInv => NoTornRead
  BY DEF RefreshInv, Rest, GuardInv, NoTornRead
<1>. QED  BY <1>1, Invariance, PTL

(* The cache is in the order of fetch's calls, after failures as well.     *)
THEOREM CacheOrdered == Spec => []CacheInCallOrder
<1>1. RefreshInv => CacheInCallOrder
  BY DEF RefreshInv, Rest
<1>. QED  BY <1>1, Invariance, PTL

(* The timestamp is that of the cache, or about to be.                     *)
THEOREM StampIsHonest == Spec => []StampFollowsCache
<1>1. RefreshInv => StampFollowsCache
  BY DEF RefreshInv, Rest, StampInv
<1>. QED  BY <1>1, Invariance, PTL

(* For any period and any lag, no two refreshes start within a period.     *)
THEOREM NoBurst == Spec => RefreshIsPaced
<1>1. RefreshInv /\ [Next]_vars => [pc = "tick" /\ pc' = "connect" => since = Period]_vars
  <2>. SUFFICES ASSUME RefreshInv, Next, pc = "tick", pc' = "connect" PROVE since = Period
    OBVIOUS
  <2>1. Tick
    BY DEF Next, Clock, Refresh, Connect, Getinfo, Listpeerchannels, Listfunds, Answer,
           FetchFails, Store, Stamp, Request, Read, ReadLock, CollectScalars, CollectChannels,
           Respond, Change, RpcTurns, task
  <2>. QED  BY <2>1 DEF Tick, RefreshInv, TypeOK, Rest, PaceInv
<1>. QED  BY <1>1, Invariance, PTL DEF Spec, RefreshIsPaced
=============================================================================
