--------------------------- MODULE MetricsRefresh ---------------------------
(***************************************************************************)
(* The metrics plugin's cache: one refresh task fills it from CLN every    *)
(* Period seconds (spawn_refresh_loop in main.rs, fetch in cache.rs), the  *)
(* scrapes of /metrics (DerivedCollector::collect in metrics.rs) and the   *)
(* metrics-status call (rpc_status in main.rs) read it.                    *)
(*                                                                         *)
(* The node is a version that grows; what an RPC call returns is the       *)
(* version at the moment of its answer.  Refreshes are numbered, the cache *)
(* remembers the number of the refresh that wrote it.                      *)
(*                                                                         *)
(* The cache sits behind a std::sync::RwLock.  As its Linux implementation *)
(* does, a writer that waits keeps new readers out.                        *)
(***************************************************************************)
EXTENDS Integers

CONSTANTS
    Readers,            \* concurrent scrapes and status calls
    Period,             \* refresh_secs, in ticks of the clock
    MaxLag,             \* bound: how late a tick may be taken
    MaxVersion,         \* bound: how often the node changes
    Wrap                \* bound: refresh numbers and failures are counted modulo Wrap

ASSUME PeriodAssumption  == Period \in Nat \ {0}
ASSUME LagAssumption     == MaxLag \in Nat
ASSUME VersionAssumption == MaxVersion \in Nat
ASSUME WrapAssumption    == Wrap \in Nat /\ Wrap > 1

VARIABLES
    pc,                 \* where the refresh task stands
    timer,              \* ticks until the next deadline, negative when it is overdue
    since,              \* history: ticks since the last refresh started, up to Period
    rpc,                \* how CLN answers: "up", "failing" or "hung"
    version,            \* the node's state
    number,             \* the number of the current or last refresh
    draft,              \* what fetch has read so far
    cache,              \* CachedData, and the number of the refresh it comes from
    stamp,              \* last_refresh_timestamp_seconds, as a refresh number
    failures,           \* refresh_failures_total
    reader,             \* the state of each reader
    seen                \* the refresh each part of a reader's answer comes from

task == <<pc, timer, since, number, draft, cache, stamp, failures>>
node == <<rpc, version>>
vars == <<pc, timer, since, rpc, version, number, draft, cache, stamp, failures, reader, seen>>

-----------------------------------------------------------------------------
Versions == 0 .. MaxVersion
Numbers  == 0 .. Wrap - 1
Calls    == {"connect", "getinfo", "listpeerchannels", "listfunds"}
Data     == [node : Versions, channels : Versions, funds : Versions]
Locked   == {"scalars", "channels"}

Empty == [node |-> 0, channels |-> 0, funds |-> 0]

TypeOK ==
    /\ pc \in Calls \cup {"tick", "store", "stamp"}
    /\ timer \in -MaxLag .. Period
    /\ since \in 0 .. Period
    /\ rpc \in {"up", "failing", "hung"}
    /\ version \in Versions
    /\ number \in Numbers
    /\ draft \in Data
    /\ cache \in [data : Data, from : Numbers]
    /\ stamp \in Numbers
    /\ failures \in Numbers
    /\ reader \in [Readers -> Locked \cup {"idle", "waiting", "done"}]
    /\ seen \in [Readers -> [scalars : Numbers, channels : Numbers]]

Init ==
    /\ pc = "tick"
    /\ timer = 0
    /\ since = Period
    /\ rpc = "up"
    /\ version = 0
    /\ number = 0
    /\ draft = Empty
    /\ cache = [data |-> Empty, from |-> 0]
    /\ stamp = 0
    /\ failures = 0
    /\ reader = [r \in Readers |-> "idle"]
    /\ seen = [r \in Readers |-> [scalars |-> 0, channels |-> 0]]

-----------------------------------------------------------------------------
(* The ticker.                                                             *)

(* The clock; it stops when nothing distinguishes more time.               *)
Clock ==
    /\ timer > -MaxLag \/ since < Period
    /\ timer' = IF timer > -MaxLag THEN timer - 1 ELSE timer
    /\ since' = IF since < Period THEN since + 1 ELSE since
    /\ UNCHANGED <<pc, number, draft, cache, stamp, failures, reader, seen, node>>

(* MissedTickBehavior::Delay puts the next deadline a full period after a  *)
(* late tick; Burst would keep to the original grid.                       *)
NextDeadlineBurst == timer + Period
NextDeadline == IF timer < 0 THEN Period ELSE timer + Period

Tick ==
    /\ pc = "tick"
    /\ timer <= 0
    /\ pc' = "connect"
    /\ timer' = NextDeadline
    /\ since' = 0
    /\ number' = (number + 1) % Wrap
    /\ draft' = Empty
    /\ UNCHANGED <<cache, stamp, failures, reader, seen, node>>

(* The calls of fetch, in order on one connection, without a timeout.      *)
Answer(call, next) ==
    /\ pc = call
    /\ rpc = "up"
    /\ pc' = next
    /\ UNCHANGED <<timer, since, number, cache, stamp, failures, reader, seen, node>>

Connect          == Answer("connect", "getinfo") /\ UNCHANGED draft
Getinfo          == Answer("getinfo", "listpeerchannels")
                    /\ draft' = [draft EXCEPT !.node = version]
Listpeerchannels == Answer("listpeerchannels", "listfunds")
                    /\ draft' = [draft EXCEPT !.channels = version]
Listfunds        == Answer("listfunds", "store")
                    /\ draft' = [draft EXCEPT !.funds = version]

(* Any of them fails: the failure is counted, cache and timestamp stay.    *)
KeptPartial == [data |-> draft, from |-> number]
Kept == cache

FetchFails ==
    /\ pc \in Calls
    /\ rpc = "failing"
    /\ pc' = "tick"
    /\ failures' = (failures + 1) % Wrap
    /\ cache' = Kept
    /\ UNCHANGED <<timer, since, number, draft, stamp, reader, seen, node>>

(* The write lock, then the timestamp.                                     *)
NoReaderIgnored == TRUE
NoReader == \A r \in Readers : reader[r] \notin Locked

Store ==
    /\ pc = "store"
    /\ NoReader
    /\ cache' = [data |-> draft, from |-> number]
    /\ pc' = "stamp"
    /\ UNCHANGED <<timer, since, number, draft, stamp, failures, reader, seen, node>>

Stamp ==
    /\ pc = "stamp"
    /\ stamp' = number
    /\ pc' = "tick"
    /\ UNCHANGED <<timer, since, number, draft, cache, failures, reader, seen, node>>

Refresh == Tick \/ Connect \/ Getinfo \/ Listpeerchannels \/ Listfunds \/ FetchFails
           \/ Store \/ Stamp

-----------------------------------------------------------------------------
(* The readers: a scrape collects the scalar gauges and totals, then the   *)
(* families of the channels and peers, under one read guard.               *)

Request(r) ==
    /\ reader[r] = "idle"
    /\ reader' = [reader EXCEPT ![r] = "waiting"]
    /\ UNCHANGED <<seen, task, node>>

WriterYields == TRUE
WriterHoldsForCalls == pc \notin Calls \cup {"store"}
WriterWaits == pc # "store"

ReadLock(r) ==
    /\ reader[r] = "waiting"
    /\ WriterWaits
    /\ reader' = [reader EXCEPT ![r] = "scalars"]
    /\ UNCHANGED <<seen, task, node>>

CollectScalars(r) ==
    /\ reader[r] = "scalars"
    /\ seen' = [seen EXCEPT ![r].scalars = cache.from]
    /\ reader' = [reader EXCEPT ![r] = "channels"]
    /\ UNCHANGED <<task, node>>

CollectChannels(r) ==
    /\ reader[r] = "channels"
    /\ seen' = [seen EXCEPT ![r].channels = cache.from]
    /\ reader' = [reader EXCEPT ![r] = "done"]
    /\ UNCHANGED <<task, node>>

(* The answer is sent, the guard already released.                         *)
Respond(r) ==
    /\ reader[r] = "done"
    /\ reader' = [reader EXCEPT ![r] = "idle"]
    /\ seen' = [seen EXCEPT ![r] = [scalars |-> 0, channels |-> 0]]
    /\ UNCHANGED <<task, node>>

Read(r) == ReadLock(r) \/ CollectScalars(r) \/ CollectChannels(r) \/ Respond(r)

-----------------------------------------------------------------------------
(* CLN.                                                                    *)

Change ==
    /\ version < MaxVersion
    /\ version' = version + 1
    /\ UNCHANGED <<rpc, task, reader, seen>>

RpcTurns ==
    /\ rpc' \in {"up", "failing", "hung"} \ {rpc}
    /\ UNCHANGED <<version, task, reader, seen>>

-----------------------------------------------------------------------------
Next ==
    \/ Clock
    \/ Refresh
    \/ \E r \in Readers : Request(r) \/ Read(r)
    \/ Change \/ RpcTurns

Spec == Init /\ [][Next]_vars

(* The clock runs and the runtime polls every task; a reader that waits for *)
(* the lock is woken when the writer releases it.  Nothing makes a client  *)
(* ask, the node change or CLN answer.                                     *)
Fairness ==
    /\ WF_vars(Clock)
    /\ WF_vars(Refresh)
    /\ \A r \in Readers : WF_vars(Read(r)) /\ SF_vars(ReadLock(r))

FairSpec == Spec /\ Fairness

-----------------------------------------------------------------------------
(* Properties.                                                             *)

(* A scrape's answer comes from one cache value: the totals are the totals *)
(* of the channels beside them, although a refresh may want to write       *)
(* between the two.                                                        *)
NoTornRead == \A r \in Readers : reader[r] = "done" => seen[r].scalars = seen[r].channels

(* The parts of the cache are read in the order of fetch's calls, so no    *)
(* part is older than the one before it, and none is newer than the node.  *)
CacheInCallOrder ==
    /\ cache.data.node <= cache.data.channels
    /\ cache.data.channels <= cache.data.funds
    /\ cache.data.funds <= version

(* The timestamp speaks of the refresh that filled the cache; only between *)
(* the two writes is it behind, and it is never ahead.                     *)
StampFollowsCache == stamp = cache.from \/ pc = "stamp"

(* The refresh task never asks CLN again within a period of its last       *)
(* start, even after a refresh that took longer than a period.             *)
RefreshIsPaced == [][pc = "tick" /\ pc' = "connect" => since = Period]_vars

(* When CLN answers again for good, the cache catches up with the node and *)
(* stays there: a failure does not end the loop and the readers cannot     *)
(* keep the writer out.                                                    *)
CacheCatchesUp ==
    <>[](rpc = "up") =>
        <>[](cache.data = [node |-> version, channels |-> version, funds |-> version])

(* Every request is answered, whatever CLN does: readers need the cache    *)
(* only, and the writer holds it for no call.                              *)
ReadersAnswered == \A r \in Readers : reader[r] = "waiting" ~> reader[r] = "done"
=============================================================================
