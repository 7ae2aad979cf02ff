# A TLA+ model of the cln-plugins

This directory holds a formal model of the four Core Lightning (CLN) plugins of
this repository: TLA+ modules, TLC configurations that check them on small
instances, and machine-checked TLAPS proofs of the most important results.

`PROJECT.json` relates every definition to the source lines it models, lists
the runs with their properties, the hazards each property is aimed at, the
disagreements found between code and documentation, and the theorems.

    tlc -workers 2 -config EventPlugin.cfg MCEventPlugin.tla   # model checking
    tlapm EventPluginProofs.tla                                # proofs, and so for every *Proofs.tla

## 1. Inventory

Each plugin is one tokio process that CLN starts and talks to over its stdin and
stdout. The plugins share no state with one another; they meet only in CLN (the
`rpc_command` hook of one plugin sees the RPC calls the others make).

| Component | State | Operations | Interacts with |
|---|---|---|---|
| event-plugin: publishing and lifecycle (`main.rs`, `broker.rs`, `events.rs`) | the phase of `main()`; the slot `Arc<RwLock<Option<Channel>>>`; the AMQP connection; one task per notification | startup with seven ways to fail; `on_event`, `on_warning`, `publish_bytes`; join, empty the slot, close | CLN (handshake, notifications, end of stdin), RabbitMQ |
| event-plugin: event ids (`events.rs`) | a global snowflake generator with a clock of its own | `init_event_id_generator`, `new_envelope`, `next_event_id` | the clocks; the handlers above |
| event-plugin: event list (`config.rs`) | none (environment and file) | priority of environment, TOML, defaults | `main()` |
| event-plugin: envelope (`proto/`) | none | encoding | consumers |
| metrics-plugin: refresh and scrapes (`main.rs`, `cache.rs`, `metrics.rs`) | `Arc<RwLock<CachedData>>`, two health metrics, the ticker | the refresh loop, `fetch`, `collect`, `rpc_status` | CLN RPC, HTTP clients |
| metrics-plugin: series (`cache.rs`, `metrics.rs`) | channel snapshots, per-peer counts, metric families | the loops of `fetch` and of `collect` | Prometheus |
| metrics-plugin: startup and authentication | the token | token matrix, bind, start, serve | HTTP clients |
| metrics-plugin: event counters (`events.rs`) | atomic counters | three notifications and one hook | CLN |
| reserves-attestor-plugin | none between calls | `get-signed-balance`: getinfo, listfunds, listpeerchannels, signmessage, checkmessage | CLN RPC |
| rpc-log-plugin: hook | the method list, fixed at startup | `on_hook_rpc_command`, `upload_rpc_log` | CLN, Google Cloud Storage |
| rpc-log-plugin: redaction and caller (`main.rs`, `rune.rs`) | none | recursive redaction, search for a rune | the hook |

What is hard about them, and what makes them correct:

* **event-plugin.** Handlers are concurrent, hold a read guard over two awaits,
  and race with the shutdown, which takes the write lock and then closes the
  connection under them. Connections break, processes are killed, publisher
  confirms are off, and a failing publish makes CLN send a further notification.
  Correct means: publishing and closing exclude each other, nothing is published
  twice, a clean exit loses no acknowledged event, the shutdown ends, CLN learns
  of a startup that failed, and failures do not feed themselves. Ids come from a
  generator that all handlers share and no restart remembers, and `emitted_at`
  from another, finer clock: ids have to be unique and follow arrival, and the
  time in an id has to be near the time of its event. The subscription has to be
  what the operator wrote in one of two places.
* **metrics-plugin.** One writer and any number of readers share a blocking
  lock; the writer's data come from three RPC calls that may fail, hang, or take
  longer than the refresh period. Correct means: a scrape shows one cache value,
  a failed refresh changes nothing but the failure counter, the timestamp is
  never ahead of the data, CLN is not called in bursts, the cache catches up
  when CLN recovers; and the series agree with CLN's channels although channels
  may lack ids and share labels. Around the cache, notifications are counted
  while scrapes read the counters, and the HTTP server is bound before CLN is
  told of the start and served after it.
* **reserves-attestor-plugin.** The two listings show different states of the
  node. Correct means: coins that stand still are counted once and exactly, and
  only a verified statement leaves the node.
* **rpc-log-plugin.** The upload decides whether a command may continue and has
  no timeout. Correct means: nothing to be logged continues without its record,
  commands that are not listed are never held up if the hook can read them, and the record names the
  caller and holds no sensitive value. The commands in the hook include the RPC
  calls of the other plugins.

`PROJECT.json` lists these as hazards at their lines.

## 2. Modules

| Module | What it is |
|---|---|
| `EventDelivery` | abstract: what a consumer of the queue may rely on (at most once, only what CLN emitted, nothing taken back) |
| `EventPlugin` | the whole life of the event plugin; implements `EventDelivery` |
| `EventPluginProofs` | proofs: types, shutdown, at-most-once, the refinement, what is in the queue after a clean exit, and in which order |
| `MetricsRefreshProofs`, `MetricsServerProofs`, `AttestorProofs`, `RpcLogHookProofs`, `EventIdsProofs` | proofs: all safety of the module of that name that its run checks |
| `DataProofs` | proofs: all safety of `MetricsSnapshot` and `JsonRedaction`, the two modules that compute with data; they share an induction lemma |
| `LoggedAttestorProofs` | proofs: the composition logs what it must, and its log of a request has no gaps |
| `MetricsRefresh` | refresh task, cache lock, readers, the RPC calls as environment |
| `MetricsSnapshot` | from CLN's list of channels to labelled series, one loop turn per step |
| `Attestor` | a balance statement while coins move |
| `RpcLogHook` | the `rpc_command` hook with an unreliable store |
| `EventConfig` | operators: the layers of the event list, used by `EventIds` |
| `EventIds` | subscriptions, envelopes and their ids over several lives and two clocks |
| `MetricsServer` | startup, authentication, event counters and the HTTP server of the metrics plugin |
| `JsonRedaction` | the redaction and the search for the caller, as recursive functions |
| `LoggedAttestor` | composition: the calls of `Attestor` pass through `RpcLogHook` |
| `MC*` | small values for the constants of the module of that name |

A definition whose name ends like a variant of its neighbour (`NoReadersTryLock`
before `NoReaders`, `KeptPartial` before `Kept`) is not part of the model. It
states a plausible mistake in that place and is used only to confirm that a
property would notice it.

### EventPlugin

| Model | Code |
|---|---|
| `main` | where `main()` stands: `configure` (l. 60), `options` (67), `getinfo` (93), `sourceKind` (94), `connect` and `declare` (`connect_rabbitmq`), `start` (140), `running` (141), `clear` (145), `close` (146), `exited` |
| `answer`, `code` | what CLN was told (`disable`, `start`) and the exit status, for every early return |
| `slot` | the `Option<Channel>`: filled at the end of `connect_rabbitmq`, emptied at l. 145 |
| `conn`, `wire`, `queue`, `bound` | the AMQP connection, frames handed to it, the consumer's queue, whether the exchange is bound |
| `h[e]` | the task of one notification: `unsent`, `piped` (in stdin), `ready` (spawned, before the lock), `guard` (read guard held, before the first await), `sent` (between the two awaits), `ok`, `err`, `cancelled` (dropped at exit) |
| `warnDue`, `warnPiped` | log lines CLN will turn into a `warning`, and that notification on its way |
| `before[e]` | history: the publishes that had succeeded when `e` was emitted |

The write lock is represented by its two effects: `ClearSlot` needs
`NoReaders`, and because tokio's `RwLock` is fair, `LockFree` keeps new readers
out while `main` waits in `clear`. `Exit` drops unfinished tasks and an open
connection, as the end of the runtime does. `Abort` is a kill, or an error from
`start` or `join`, at any moment. Nothing is persisted, so a restart is a new
`Init`. The event list and the envelope are the subject of `EventIds`: here the
first is good or bad (`OptionsOk`, `OptionsBad`), and the second is always made.

### MetricsRefresh

`pc` is the refresh task: `tick`, the four steps of `fetch` (`connect`,
`getinfo`, `listpeerchannels`, `listfunds`), `store` (waiting for the write
lock) and `stamp` (setting the timestamp). The node is a version number; a call
returns the version of the moment of its answer, so a `draft` may mix versions.
`NextDeadline` is tokio's `MissedTickBehavior::Delay`. A reader takes the read
lock unless a writer waits (`std::sync::RwLock` on Linux), collects the scalar
gauges and then the channel families, and answers after the guard is dropped.
Refresh numbers and failures count modulo `Wrap`; only equality and change are
ever looked at.

### MetricsSnapshot

The loops, one turn per step: `fetch` turns each channel into a snapshot and
counts channels and connected channels per peer; `collect` first takes the totals
from the snapshots and then writes each snapshot under the labels `(peer, scid)`,
where a missing short channel id is replaced by the channel id or by the empty
string. Of thirteen figures per channel one gauge, which also goes into a total,
and one counter are kept; the others are handled like one of the two. The gauges
of the node and of its funds copy single answers and are left out.

### Attestor

`wallet[c]` and `channel[c]` say how `listfunds` and `listpeerchannels` show coin
`c`; `OnChain` and `InChannel` are the movements a CLN node can make. A bucket
of the statement is the set of coins it adds up, which tells a coin that is
counted twice from two coins of equal size. The amounts, and the overflow check
of the addition, are left out.

### RpcLogHook

A command is `new`, `called` (in the hook), `upload` (waiting for the store),
`passed` (answered `continue`), `ran`, `failed` (the hook returned an error) or
`lost` (the plugin stopped first). A failing upload may or may not have stored
the record, and so may one that was under way when the plugin stopped. The calls
of `Unreadable` do not deserialise as an `RpcCommandEvent`: the hook's first `?`
makes it fail on them before it looks at the method, so this also keeps commands
from continuing that nobody wants logged (`ReadFails`). What CLN does with a command whose hook call failed is outside of the model.

### EventConfig and EventIds

`EventConfig` has what each of the two sources may hold, the layer it becomes,
and `Over`, by which a layer replaces the one below. What the `config` crate does
is taken from how `config.rs` calls it and from its tests: `ignore_empty` makes an
empty variable an unset one, `try_parsing` makes a boolean or a number of a value
that reads as one (`EVENT_PLUGIN_EVENTS=true`), which `get` refuses, even where the
file has a list; `required(false)` lets a file be absent or unreadable, or have a
name without the extension of a known format, but not be malformed; and an error
of any layer is the result even if a higher layer has a list.

In `EventIds`, `plugin` and `life` say whether a process runs and which. `wall` is
the clock that `new_envelope` reads, in parts of a millisecond, of which there are
`Parts`; `emittedAt` keeps all of it, as the nanoseconds of `emitted_at` do. It may
be set. `clock` is the generator's `MonotonicClock`, in whole milliseconds: set
from the wall clock, truncated, at a start (`ClockAtStart`), and from then on moved
forward by ticks of its own (`ClockTick`). `behind` is how far time is past the
beginning of the millisecond the clock shows. A tick may come up to `Lag`
milliseconds late: at least one, since the part of the millisecond in which the
process started is lost to the truncation and the ticks come from a thread; the
proofs hold for any `Lag`. It is never early. `gen` is the last id. A handler
reads `emitted_at` (`Begin`), waits, and gets its id (`Number`) when the millisecond
has one left. Handlers are numbered by arrival. `Stop` ends the handlers that
wait. The ten bits of the node id are the same for all events of a node and left
out. Two assumptions about restarts: a process does not start in the millisecond
in which the one before it ended, nor on a clock before 1970.

### MetricsServer

`main` is where `main()` stands, `told` that CLN has been answered, `port` the
listener between `bind` (clients can connect), `axum::serve` (they are answered)
and the end of the process. Tokens are sequences of numbers, one of which is
white space, so trimming, the length check and the comparison are those of the
code. `tokens_match` says what the code's fold computes, that the lengths are
equal and no position differs; the fold itself, with its `xor` and its `or`, is
`FoldMatches` in `MCMetricsServer`. That it, too, accepts a word and no other is an
assumption there, which TLC evaluates for short words. A handler is `spawned`, has
`counted`, and is `done` when it has returned; one that cannot deserialise its
payload ends in `error`. A scrape reads one metric after another in any order,
since the registry's order is its own.

### JsonRedaction

A value is an object, an array, a string or another scalar. Objects and arrays
have their entries in the order of iteration: that of the keys for a map, as
`serde_json` keeps it here. A key is told by the terms its lower-case form
contains, a text by the restrictions it has if it is a rune. `sanitize_json_value`
and `rune_from_json_value` are recursive functions of a key and a value, and recurse
as the code's functions of these names do; the code's `*_array` variants do for the
outermost value what the others do for an inner one, and are calls without a key.
`Values` has the values of up to `MaxDepth` levels, which stands for the recursion
limit of `serde_json`. `Leaves` is the reference: all leaves with their paths, a
step of which has the key and the position of an entry.

### LoggedAttestor

Instances of `Attestor` (of a node without coins, which delay no call) and of
`RpcLogHook`, whose commands are the six commands of a request, all of which the
hook can read. CLN is what joins
them: it asks the hook before it runs a call (`Send`), runs it when the hook has
let it continue (`Continued`), runs or fails one whose hook call failed or was
lost (`Undecided`, CLN's choice), and does not ask without the log plugin. A
connection may break while a command is in the hook; the command is then logged
and run for nobody.

## 3. What the runs check

| Run | Instance | Shows |
|---|---|---|
| `event_plugin` | 3 events; 155 485 states | all invariants, liveness and the refinement of `EventPlugin` |
| `event_ok_means_queued` | 2 events | finding: `Ok` from `publish_bytes` does not mean the event is queued |
| `event_failed_publish_logged` | 2 events | finding: a publish that fails on a broken connection is not logged at `ERROR` |
| `metrics_refresh` | 2 readers, period 2, lag 2; 222 480 states | the cache against overlapping readers, failures and late ticks |
| `metrics_snapshot` | every list of up to 3 channels; 2 253 892 states | series, counters and gauges agree with the channels |
| `attestor` | 2 coins; 589 824 states | the statement against moving coins |
| `attestor_point_in_time` | 2 coins | finding: a moving coin may be counted twice |
| `rpclog` | 4 commands, 2 methods, every list; 17 892 states | the hook against a store that fails and hangs, and a request it cannot read |
| `event_ids` | 3 notifications, 2 lives, 2 ids per millisecond; 757 354 states | ids, timestamps and the event list over a restart and a wall clock that is set |
| `metrics_server` | 2 events, 1 scrape, 5 tokens; 192 034 states | startup, authentication, counters and answers |
| `json_redaction` | every value of bounded size; 84 804 states | redaction and caller against the reference |
| `logged_attestor` | 1 request, 3 lists; 61 845 states | a statement whose calls pass through the hook |

The properties, by the question they answer:

* *Shutdown against publishers.* `NoPublishDuringClose`, `CleanExitDeliversAcked`
  (after a clean exit the queue holds exactly the acknowledged events),
  `ShutdownCompletes`, `EmptySlotOnlyAtShutdown`.
* *Delivery.* `AtMostOnce`, `RealTimeOrder` (the only order that concurrent
  handlers keep: an event emitted after another had been acknowledged is behind
  it), `ImplementsDelivery`.
* *Startup and feedback.* `NoSilentExit`, `WarningsSettle`.
* *Cache.* `NoTornRead`, `CacheInCallOrder`, `StampFollowsCache`,
  `RefreshIsPaced`, `CacheCatchesUp`, `ReadersAnswered`.
* *Series.* `PeerSeriesAreRight`, `AmountsAreShown`, `TotalsCountAll`. Channels without an id may hide one another in a gauge
  family, but neither in a counter family nor in a total.
* *Statement.* `StillCoinsCountedOnce`, `TotalIsExactWhenStill`,
  `OnlyVerifiedLeaves`.
* *Hook.* `LoggedBeforeRun`, `UnlistedRun`.
* *Ids.* `UniqueInLife` whatever is done to the wall clock, `UniqueAcrossLives`
  unless it was set back, `IdsFollowArrival`, `IdsComeLive`, and while nobody sets
  the clock `EmittedWithinLag`: `emitted_at` may be after the time in the id, being
  finer and of another clock, but by less than `Lag` + 1 milliseconds, so a
  consumer that compares the two has to allow for that.
* *Event list.* `SourcesDecide`: the plugin subscribes to what the first source
  with a list says, and the event list keeps it from starting exactly when a file
  that is read is not TOML or the first source that says something gives no list.
  A file that is skipped, be it for its name, leaves the defaults.
* *Metrics server.* `AccessIsChosen`, `ScrapeIsCurrent` (an
  answer has every event that was handled before the request, such as an HTLC
  that CLN was told to continue with), `HtlcsContinue`, `ScrapesAnswered`.
* *Record.* `NothingSensitive`, `RestIsKept`, `CallerIsFirstNamed`.
* *Two plugins.* `StatementIsLogged`, `RecordsHaveNoGaps` (also for requests that
  end halfway: next to the record of a call are those of the calls before it, so
  that whoever reads the log sees a request up to its last record, less the calls
  on which the store failed), `LoggedEnds` (every call of the attestor comes to an end
  when the store answers, well or not, which includes that every hook call does).

`TypeOK` of `EventPlugin` is both checked and proved; those of `MetricsRefresh`,
`Attestor`, `RpcLogHook` and `EventIds` are proved only, as is
`OnlyListedRecorded` of the hook (a method outside of a non-empty list leaves no
record). The values of the other modules are those their `Init` and actions
construct.

### Bounds, and why they are enough

* **Three events.** Each handler interacts with `main` through the lock and with
  the others only through the order of frames. Two events give every order of a
  pair; the third lets one handler hold the guard, one wait behind the writer and
  one be acknowledged at the same time. An event is emitted once, as no two
  notifications are the same.
* **Two readers, `Period` 2, `MaxLag` 2, `MaxVersion` 1, `Wrap` 2.** Two readers
  can overlap for ever, which is what could keep a writer out. The lag reaches a
  full period, so that a late tick misses a whole deadline. One change of the
  node tells old from new data; the clock stops where more time would change
  nothing.
* **Three channels, two peers, one short channel id, one channel id.** Of three
  channels at least one has neither id, which is the case in which labels
  collide; two channels of one peer and one of another occur, and so do two
  channels with the same labels.
* **Two coins, one request.** Requests share no state in the plugin: each has
  its own connection and inputs. Two coins make the buckets' contents differ.
* **Four commands, two methods, every list.** Two calls of one listed method
  overlap with two of another, and with the empty list. One of the latter is
  unreadable; it is listed under some lists and unlisted under others.
* **Three notifications, `MaxSeq` 1, two lives, one setting of the wall clock,
  three milliseconds of two parts, `Lag` 1.** Two ids in a millisecond and three
  events make one of them wait for the next millisecond; with two lives there are
  ids before and after a restart, and one setting, to the millisecond before or
  after, is enough to put a start before an earlier id. Two parts tell a time from
  its truncation, and with them the clock is between nothing and three parts
  behind. The last `Slack` milliseconds are kept for events that wait, so that the
  bound on time never keeps an event from its id. The second life does not end:
  nothing is compared with what would come after it.
* **Two events, one scrape; five values of `METRICS_TOKEN`.** Unset, white space
  only, too short after trimming, good, and good with white space around it;
  clients send the token, a prefix, a permutation, one with white space, and no
  token. Two events can count under one series or two while the scrape is between
  two metrics. Scrapes do not see one another.
* **Values of up to two entries on two levels, and some of three levels.** They
  have objects in arrays, arrays in objects, sensitive keys above and below
  others, keys with a term inside, runes with a tag, with another restriction
  before it, with two tags, and without one. `MaxDepth` is 3; the proofs hold for any depth.
* **One request behind the hook.** It makes its calls one after the other, and a
  call of a broken connection stays in the hook beside the rest, so commands do
  overlap; commands of several callers are in `rpclog`. The lists log everything,
  another method only, or three calls of the request.

The runs use no symmetry: it would be unsound for those that check liveness, and
the others are small enough without.

### Fairness

* `EventPlugin`: weak fairness for startup steps, shutdown steps, the stdin
  driver, `on_warning`, each handler, the broker reading what it was sent, and
  CLN turning log lines into warnings. The tokio runtime polls every task that
  can run. There is no fairness for CLN emitting events or closing stdin, for a
  broken connection, or for a kill. The assumption about the broker is a real
  one: `conn.close()` and `basic_publish` have no timeout, and a broker that
  keeps the connection open without reading would hold up the shutdown.
* `MetricsRefresh`: weak fairness for the clock, the refresh task and each
  reader, and strong fairness for `ReadLock`, since a waiting reader is woken
  whenever the writer releases the lock. None for clients, the node or CLN's
  answers; `CacheCatchesUp` assumes in its statement that CLN answers for good.
* `RpcLogHook`: weak fairness for the hook's own steps, where an upload is enabled
  only while the store answers, and for CLN running what may continue. `Attestor`
  is checked for safety only; that a call ends is `LoggedEnds` of the composition.
* `EventIds`: weak fairness for time on both clocks and for each handler that can be numbered.
  None for notifications, starts, stops or the wall clock.
* `MetricsServer`: weak fairness for the steps of a startup that can go on, for
  `join`, for the handlers and for the server. None for events, clients, failures
  or the end of stdin.
* `LoggedAttestor`: weak fairness for connecting and for each call: CLN asks the
  hook, the hook does what it can, CLN runs or fails what came back. None for the
  store; `LoggedEnds` assumes in its statement that it does not hang for ever.

Four runs do not check for deadlock, since the system may stop: `metrics_snapshot`
and `json_redaction` when the scrape or the record is complete, `metrics_server`
when the process has ended, `event_ids` when the bound on time is reached.

## 4. Findings

Where the code and what is said about it differ. Each is a run that TLC ends
with a counterexample.

1. **`Ok` is not delivery.** `broker.rs:38` says Ok means the message was
   published. The channel has no publisher confirms, `mandatory` is false, and
   the passive declares do not look at the binding: an unroutable message, or one
   lost with the connection, is reported as published.
2. **Failed publishes are not all logged at `ERROR`.** The event plugin's README
   (l. 69-70) promises that. Only the empty slot is logged so; an error of
   `basic_publish` is returned by `?`.
3. **A statement is not of a point in time.** The attestor's README (l. 12). A
   coin confirmed on chain at `listfunds` and in an open channel at
   `listpeerchannels` is in the signed total twice.

Seen while reading, without a run: an event file whose name does not end in
`.toml` is skipped in silence even if it exists, and the plugin comes up on the
defaults (`unknown format` in `EventConfig`); the comment in the hook (rpc-log
`main.rs` l. 155) that it does not interrupt commands holds neither for an upload
that fails nor for a request that does not deserialise; a scrape shows one cache value (`NoTornRead`),
but `fetch` fills it with three calls, so its gauges may describe different states
of the node (`CacheInCallOrder` says which part may be older), which the comment
in `metrics.rs` (l. 138-139) may be read to exclude; a `METRICS_TOKEN` that is not
Unicode counts as unset (`env::var(..).ok()`); the event plugin's README (l. 22-28) describes
two hooks that are not registered; it says (l. 67) that the plugin exits with an
error when RabbitMQ is not available, where `main` answers `disable` and exits
with status 0; the rpc-log README says (l. 124-125) that methods absent from the
list are not uploaded, while the empty list uploads everything, and shows a
`peer_id` field (l. 141) that `RpcLog` does not have; the metrics README (l.
23-24) promises a warning for `--metrics-disable-auth` that is not given when
`METRICS_TOKEN` is set as well.

## 5. What is proved

`EventPluginProofs` proves, for every set `Events`, finite or not, and with no
other assumption:

| Theorem | Statement |
|---|---|
| `TypeCorrect` | `Spec => []TypeOK` |
| `Invariance` | `Spec => []IInv` |
| `CloseIsExclusive` | `Spec => []NoPublishDuringClose` |
| `SlotFilledWhileRunning` | `Spec => []EmptySlotOnlyAtShutdown` |
| `PublishedAtMostOnce` | `Spec => []AtMostOnce` |
| `Refinement` | `Spec => ImplementsDelivery` |
| `DeliveryInvariance` | `Spec => []DeliveryInv` |
| `AckedAreDelivered` | `Spec => []CleanExitDeliversAcked` |
| `OrderKept` | `Spec => []RealTimeOrder` |
| `ExitIsAnnounced` | `Spec => []NoSilentExit` |

All safety properties of `EventPlugin` that the run checks are thereby proved.

The other components, for any values of their constants that satisfy the named
assumptions of their modules: a positive period, `Wrap` above 1, natural bounds;
a default list and operators' lists of CLN's notifications; tokens that are
sequences of numbers; and, for the labels of a channel, that no short channel id
is also a channel id and neither is empty. The last is a matter of their formats
(`block x transaction x output` against 64 hexadecimal digits), and without it
two channels that have ids could share labels. Of `JsonRedaction` they assume that
the parameters are an object or an array of some depth and that no operator is
called like the absence of one; keys, terms and runes are arbitrary.

| Module | Theorem | Statement |
|---|---|---|
| `MetricsRefreshProofs` | `TypeCorrect`, `Invariance` | `Spec => []TypeOK`, `Spec => []RefreshInv` |
| | `ReadsAreWhole` | `Spec => []NoTornRead` |
| | `CacheOrdered` | `Spec => []CacheInCallOrder` |
| | `StampIsHonest` | `Spec => []StampFollowsCache` |
| | `NoBurst` | `Spec => RefreshIsPaced` |
| `AttestorProofs` | `TypeCorrect`, `Invariance` | `Spec => []TypeOK`, `Spec => []AttestorInv` |
| | `StillCountedOnce` | `Spec => []StillCoinsCountedOnce` |
| | `VerifiedLeaves` | `Spec => []OnlyVerifiedLeaves` |
| | `ExactWhenStill` | `Spec => TotalIsExactWhenStill` |
| `RpcLogHookProofs` | `TypeCorrect` | `Spec => []TypeOK` |
| | `LoggedFirst` | `Spec => []LoggedBeforeRun` |
| | `NothingElseRecorded` | `Spec => []OnlyListedRecorded` |
| `EventIdsProofs` | `TypeCorrect`, `Invariance` | `Spec => []TypeOK`, `Spec => []IdsInv` |
| | `UniqueIds` | `Spec => []UniqueInLife` |
| | `UniqueIdsOverRestarts` | `Spec => []UniqueAcrossLives` |
| | `ArrivalOrder` | `Spec => []IdsFollowArrival` |
| | `IdTimeIsNear` | `Spec => []EmittedWithinLag` |
| | `SourcesAreFollowed` | `Spec => SourcesDecide` |
| `MetricsServerProofs` | `Invariance` | `Spec => []ServerInv` |
| | `ServedByChoice` | `Spec => []AccessIsChosen` |
| | `ScrapesAreCurrent` | `Spec => []ScrapeIsCurrent` |
| `DataProofs` | `Invariance` | `Spec => []SnapInv` |
| | `PeersAreCounted` | `Spec => []PeerSeriesAreRight` |
| | `FamiliesShowAmounts` | `Spec => []AmountsAreShown` |
| | `NothingIsMissedInTotals` | `Spec => []TotalsCountAll` |
| | `RecordIsClean` | `RecordSpec => []NothingSensitive` |
| | `RecordIsComplete` | `RecordSpec => []RestIsKept` |
| | `CallerIsFound` | `RecordSpec => []CallerIsFirstNamed` |
| `LoggedAttestorProofs` | `Invariance` | `Spec => []LoggedInv` |
| | `StatementsAreLogged` | `Spec => []StatementIsLogged` |
| | `NoGaps` | `Spec => []RecordsHaveNoGaps` |
| | `VerifiedBehindHook` | `Spec => []A!OnlyVerifiedLeaves` |

Every safety property that a passing run checks is thereby proved.

### The event plugin


The safety properties are not inductive by themselves. `IInv` adds what they
rest on:

* `InboxInv`: a notification is in the inbox once and only while its handler is
  `piped`. Without it `Dispatch` could reset a handler that has already handed
  its frame over, which would then do so again.
* `FramesInv`: no frame is on the wire or in the queue twice, not in both, and
  none exists for a handler that is still before its first await. This is the
  strengthening of `AtMostOnce`: `HandOff` starts in `guard`, so its frame is new.
* `PhaseInv`: before `start` no notification exists; from `start` to `clear` the
  slot is full; in `close` it is empty and no task holds a guard, which is kept
  because `Acquire` needs a full slot; after `join` stdin is closed.

The proof takes one step per action of `Next`; `QuietStep` collects the steps
that touch neither frames nor inbox, and `FramesStay` and `LateStaysLate` say
what a handler's progress does to frames that exist. The refinement maps
`offered` to the notifications CLN has emitted and `log` to the queue: `Emit` is
`Offer`, `Receive` on a bound exchange is `Deliver`, everything else stutters.

`DeliveryInv` is inductive relative to `IInv`:

* `FlowInv`: as long as the connection has not broken and the exchange is bound,
  the frames on the wire and in the queue are exactly those of the handlers that
  are past their first await; a connection is closed normally only with an empty
  wire. At the clean exit no handler is between its awaits, so the queue holds
  exactly the acknowledged events.
* `HistoryInv`: what had succeeded before an event was emitted has succeeded for
  good and does not include the event, so a frame that is handed over is in
  nobody's history, and appending it keeps `Ordered`. Receiving moves a frame
  without changing the whole sequence, or, unbound, drops the first one of a
  sequence whose queue part is empty.
* `StatusInv`: `main` runs only after `start`.

### The other components

Their inductive invariants stand beside the proofs.

* `RefreshInv`: what a reader under the guard has read is still in the cache
  (`GuardInv`: nobody writes while it holds the guard); what `fetch` has read so
  far is in the order of its calls (`DraftInv`); between the write of the cache
  and that of the timestamp the task still has the number of that refresh
  (`StampInv`); and while less than a period has passed since the last start, the
  timer is exactly what is left of it (`PaceInv`), which is what `Delay` gives and
  `Burst` would not.
* `AttestorInv`: no coin is confirmed on chain and in an open channel at one
  moment (`NodeInv`, over every move a node can make), and between the listings
  the inputs still tell where every coin is that did not move (`BetweenInv`). So
  the second listing cannot count such a coin again.
* The hook: only a listed command ever waits for the store (`UploadsListed`), so
  neither a failed upload nor the end of the plugin can record anything else.
* `IdsInv`: no id of the present life is after the generator's last one
  (`GenInv`); no envelope belongs to a life to come, and only the present life has
  handlers that wait (`LifeInv`); the events that an event's id has to follow have
  theirs when it arrives (`ArrivalInv`). Across lives the argument is one of
  clocks: unless the wall clock was set back it is never behind an id, and when a
  process may start it is past the millisecond of each of them (`ClockInv`), so
  the truncation at the start gives a later one. While it is not set at all, the
  generator's clock is as far behind it as its ticks are late (`EmittedInv`).
* `ServerInv`: a client that is being judged or has been served came to a server
  whose token and option are those the startup had checked, so the answer is the
  one `AccessIsChosen` demands. For the counters, a series holds exactly the
  events whose handlers have counted; what a scrape has read of a series is
  between that of the moment of the request and the present one, and the counted
  events are finitely many at any time even if CLN has infinitely many to send.
* `SnapInv`, an invariant of two loops: after `k - 1` turns of the first the
  snapshots and the counts per peer are those of the first `k - 1` channels, and
  after `k - 1` turns of the second the families show the first `k - 1` snapshots.
  That an entry is overwritten only by a channel without an id, of the same peer,
  is `LabelsCollide`.
* `LoggedInv`: while the log plugin runs, no answer of the hook is lost, and a
  request has a call behind it only when the hook let the call run or failed on
  it. With the invariant of `RpcLogHook`, taken over, such a call has its record.
  A call gets to the hook only from a request at that point, so those before it
  have been answered for good (`SentInOrder`), which holds beyond the end of the
  log plugin and gives `RecordsHaveNoGaps`.

Three parts of these proofs are of use beyond them.

* **Sums.** `Total` is the fold of the community modules, a function defined by
  recursion on the choice of an element. `SumExists` shows that the recursion has a
  solution on every finite domain and `SumStep` that any element may be taken away,
  whatever the order of the choices; `TotalWith` then says what one map entry does
  to the total, and is all that the loops need. The induction over the size of the
  set is first order: `SetInduction` is stated for a set of numbers instead of a
  predicate, and follows from the least element of a non-empty set (`WFMin`). In
  this form it is within the provers' reach, as the induction theorems with an
  operator parameter are not.
* **Recursion over values.** `RecordInv` says only that the record is what the
  functions return, so the proof is about these. `SanitizerIs`, `FinderIs` and
  `LeavesAre` show that each recursion has a solution on the values of every depth,
  by the same induction, and `Unfold` gives the equation that the rest uses. The
  redaction is then one statement: under a key that is not sensitive, the leaves of
  the result are those of the argument, each kept or cut at its first sensitive
  step (`RedactsAll`). The search is another: what is found in a value under a key
  is the operator of the first leaf that names one there (`FindsAll`). Each is an
  induction on the depth in which the entries of a container are put below their
  steps (`RedactsBelow`, `FindsInEntries`).
* **Composition.** By its construction every step of `LoggedAttestor` is one of
  `RpcLogHook` or leaves it alone, and likewise for `Attestor` (`HookSteps`,
  `AttestorSteps`). `StatementsAreLogged` and `NoGaps` use the invariant of the
  hook, and `VerifiedBehindHook` the theorem about the attestor's statements,
  without a second proof of either.

Only model-checked: all liveness and everything about `ENABLED`, which are out of
the prover's reach. That the code's fold decides what `tokens_match` says is
evaluated for short words.

## 6. What is not modelled

* The wording of statements, logs and errors, the Prometheus text format, HTTP,
  TLS and AMQP framing: no property is about them.
* The envelope and generated code: layouts without behaviour.
* `hook_htlc_accepted` of the event plugin, which is not registered.
* The chunked reading of getinfo's answer: it succeeds or fails.
* The node id: its ten bits in an event id, which two nodes may share, and the panic on one shorter than two
  bytes, which CLN does not send. The end of the 41-bit timestamp in 2039.
* The amounts: a statement's sums are sets of coins, the funds gauges are left
  out. All of Bitcoin in millisatoshis fits 63 bits. A counter that CLN leaves out
  is zero to `cache.rs` (l. 113-120); `MetricsSnapshot` has the amounts after that.
* The few milliseconds by which tokio lets a tick be late without moving the
  deadlines after it: `RefreshIsPaced` is meant up to them.
* An output's status and its reservation are one state of a coin in `Attestor`,
  and no reservation expires while the channel it funds is open without a
  confirmation.
* How late the thread that moves the generator's clock can be: `Lag` is a
  parameter. Event sources that are not Unicode.
* Tests, the regtest harness, Docker and build files: read for the behaviour
  they expect.

## 7. Plan

All modules of the plan exist, and every safety property that a passing run checks
is proved. What is left is out of the prover's reach (liveness) or of the model's
(section 6). A change of the code should begin at the definitions that `map` in
`PROJECT.json` names for its lines.
