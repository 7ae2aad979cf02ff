------------------------------ MODULE EventIds ------------------------------
(***************************************************************************)
(* The envelopes of the event plugin: which notifications get one, the     *)
(* time `emitted_at' it carries, and the event id (new_envelope and        *)
(* next_event_id in events.rs), over several lives of the plugin.          *)
(*                                                                         *)
(* An id is a pair of a millisecond and a sequence number; its ten bits of *)
(* the node id are the same for all events of a node and left out.  A      *)
(* millisecond has ids for MaxSeq + 1 events; the next one waits for the   *)
(* clock.  The generator (ferroid, external) has a clock of its own that   *)
(* counts milliseconds: it is set from the wall clock when the plugin      *)
(* starts and from then on only goes forward, with ticks of its own.  The  *)
(* wall clock is finer, and may be set.                                    *)
(***************************************************************************)
EXTENDS EventConfig, Integers

CONSTANTS
    Notifications,      \* bound: how many notifications arrive
    Warning,            \* the notification `warning'
    Parts,              \* the instants of a millisecond that the wall clock tells apart
    Lag,                \* how many milliseconds the generator's clock may be late
    MaxSeq,             \* last sequence number of a millisecond
    MaxTime,            \* bound: the generator's clock, in milliseconds
    MaxLives,           \* bound: starts of the plugin
    MaxSets             \* bound: how often the wall clock is set

ASSUME IdAssumption ==
    /\ Warning \in EventTypes
    /\ Parts \in Nat \ {0} /\ Lag \in Nat \ {0}
    /\ Notifications \in Nat /\ MaxSeq \in Nat
    /\ MaxTime \in Nat /\ MaxLives \in Nat /\ MaxSets \in Nat

VARIABLES
    subscribed,         \* the notifications the plugin has subscribed to
    plugin,             \* "up"; "stopped", in this millisecond; "down", before it
    life,               \* how often the plugin has started
    wall,               \* the wall clock, in parts; millisecond 0 is any time before 1970
    clock,              \* the generator's clock, in milliseconds
    behind,             \* the parts since the beginning of the millisecond it shows
    gen,                \* the generator: the last id
    h,                  \* where each handler stands; "ended" is without an envelope
    envelope,           \* its envelope
    sets,               \* how often the wall clock was set
    setBack,            \* history: it was set back once
    earlier             \* history: the handlers that had an id when this one began

time    == <<wall, clock, behind, sets, setBack>>
tasks   == <<h, envelope, earlier>>
vars    == <<subscribed, plugin, life, time, gen, tasks>>

-----------------------------------------------------------------------------
(* The notifications as they arrive, each with its handler.                *)
Handlers == 1..Notifications

Ids == [ms : Nat, seq : 0..MaxSeq]
NoId == [ms |-> 0, seq |-> 0]
NoEnvelope == [emittedAt |-> 0, id |-> NoId, life |-> 0]

Before(a, b) == a.ms < b.ms \/ (a.ms = b.ms /\ a.seq < b.seq)

TypeOK ==
    /\ subscribed \subseteq EventTypes
    /\ plugin \in {"up", "stopped", "down"}
    /\ life \in 0..MaxLives
    /\ wall \in Nat
    /\ clock \in 0..MaxTime
    /\ behind \in Nat
    /\ gen \in Ids
    /\ h \in [Handlers -> {"idle", "waiting", "done", "ended"}]
    /\ envelope \in [Handlers -> [emittedAt : Nat, id : Ids, life : 0..MaxLives]]
    /\ sets \in 0..MaxSets
    /\ setBack \in BOOLEAN
    /\ earlier \in [Handlers -> SUBSET Handlers]

Init ==
    /\ subscribed = {}
    /\ plugin = "down"
    /\ life = 0
    /\ wall = Parts
    /\ clock = 0
    /\ behind = 0
    /\ gen = NoId
    /\ h = [n \in Handlers |-> "idle"]
    /\ envelope = [n \in Handlers |-> NoEnvelope]
    /\ sets = 0
    /\ setBack = FALSE
    /\ earlier = [n \in Handlers |-> {}]

-----------------------------------------------------------------------------
(* Time (external).                                                        *)

(* The millisecond of a time, and its first instant.                       *)
Ms(t) == t \div Parts
First(ms) == ms * Parts

(* A part of a millisecond passes.  The generator's clock, which misses    *)
(* the part of the millisecond in which it was set and is moved by a       *)
(* thread, is at most Lag milliseconds late and never early.               *)
Tick ==
    /\ IF plugin = "up" THEN behind + 1 < First(Lag + 1) ELSE wall < First(MaxTime)
    /\ wall' = wall + 1
    /\ behind' = IF plugin = "up" THEN behind + 1 ELSE behind
    /\ plugin' = IF plugin = "stopped" /\ wall' % Parts = 0 THEN "down" ELSE plugin
    /\ UNCHANGED <<subscribed, life, clock, gen, tasks, sets, setBack>>

(* A new millisecond starts a new sequence; a millisecond that has no      *)
(* number left is waited out.                                              *)
HasRoom(now) == now > gen.ms \/ (now = gen.ms /\ gen.seq < MaxSeq)

(* Bound: the last Slack milliseconds, in which no notification begins,    *)
(* pass only when one that is full has to be waited out.                   *)
Slack == Notifications \div (MaxSeq + 1)

ClockTick ==
    /\ plugin = "up"
    /\ Parts <= behind
    /\ clock < MaxTime /\ (clock + Slack < MaxTime \/ ~HasRoom(clock))
    /\ clock' = clock + 1
    /\ behind' = behind - Parts
    /\ UNCHANGED <<subscribed, plugin, life, wall, gen, tasks, sets, setBack>>

(* Bound: the wall clock is set to the millisecond before or after.        *)
SetWall ==
    /\ sets < MaxSets
    /\ \E ms \in {clock - 1, clock + 1} \cap Nat :
          /\ First(ms) # wall
          /\ wall' = First(ms)
          /\ setBack' = (setBack \/ First(ms) < wall)
    /\ sets' = sets + 1
    /\ UNCHANGED <<subscribed, plugin, life, clock, behind, gen, tasks>>

-----------------------------------------------------------------------------
(* The generator's clock counts from 1970 (UNIX_EPOCH) in whole            *)
(* milliseconds, and the generator is new.                                 *)
ClockFromStart == 0
ClockAtStart == Ms(wall)

(* CLN starts the plugin, which reads the sources of its event list as     *)
(* they are then.  No process starts in the millisecond in which the one   *)
(* before it ended, nor before 1970.                                       *)
Start(env, file) ==
    /\ plugin = "down"
    /\ life < MaxLives
    /\ Parts <= wall /\ Ms(wall) <= MaxTime
    /\ Resolved(env, file)
    /\ subscribed' = Subscribed(env, file)
    /\ plugin' = "up"
    /\ life' = life + 1
    /\ clock' = ClockAtStart
    /\ behind' = wall % Parts
    /\ gen' = NoId
    /\ UNCHANGED <<wall, sets, setBack, tasks>>

(* main answers `disable' and ends.                                        *)
StartRefused(env, file) ==
    /\ plugin = "down"
    /\ ~Resolved(env, file)
    /\ plugin' = "stopped"
    /\ UNCHANGED <<subscribed, life, time, gen, tasks>>

(* The plugin ends, and its handlers with it; CLN forgets what it had      *)
(* subscribed to.  Bound: the last life does not end.                      *)
Stop ==
    /\ plugin = "up" /\ life < MaxLives
    /\ plugin' = "stopped"
    /\ subscribed' = {}
    /\ h' = [n \in Handlers |-> IF h[n] = "waiting" THEN "ended" ELSE h[n]]
    /\ envelope' = [n \in Handlers |-> IF h[n] = "waiting" THEN NoEnvelope ELSE envelope[n]]
    /\ UNCHANGED <<life, time, gen, earlier>>

-----------------------------------------------------------------------------
(* on_event and new_envelope.                                              *)

Done == {n \in Handlers : h[n] = "done"}

(* A notification that was subscribed arrives.                             *)
Notified(n, t) ==
    /\ plugin = "up"
    /\ clock + Slack <= MaxTime
    /\ h[n] = "idle" /\ \A m \in 1..n - 1 : h[m] # "idle"
    /\ t \in subscribed
    /\ UNCHANGED <<subscribed, plugin, life, time, gen>>

(* on_warning publishes nothing.                                           *)
Ignore(n, t) ==
    /\ Notified(n, t)
    /\ t = Warning
    /\ h' = [h EXCEPT ![n] = "ended"]
    /\ UNCHANGED <<envelope, earlier>>

(* The wall clock is read, to its last part, which fails before 1970, and  *)
(* the id awaited.                                                         *)
ClockFails(n, t) ==
    /\ Notified(n, t)
    /\ t # Warning
    /\ wall < Parts
    /\ h' = [h EXCEPT ![n] = "ended"]
    /\ UNCHANGED <<envelope, earlier>>

Begin(n, t) ==
    /\ Notified(n, t)
    /\ t # Warning
    /\ Parts <= wall
    /\ h' = [h EXCEPT ![n] = "waiting"]
    /\ envelope' = [envelope EXCEPT ![n] =
                      [emittedAt |-> wall, id |-> NoId, life |-> life]]
    /\ earlier' = [earlier EXCEPT ![n] = Done]

(* next_id_async.                                                          *)
IdTimeEmitted(n) == Ms(envelope[n].emittedAt)
IdTime(n) == clock

NextId(now) ==
    IF now > gen.ms THEN [ms |-> now, seq |-> 0] ELSE [gen EXCEPT !.seq = @ + 1]

(* One generator serves all handlers.                                      *)
KeptByHandler(id) == gen
Kept(id) == id

Number(n) ==
    /\ h[n] = "waiting"
    /\ HasRoom(IdTime(n))
    /\ LET id == NextId(IdTime(n)) IN
          /\ gen' = Kept(id)
          /\ envelope' = [envelope EXCEPT ![n].id = id]
    /\ h' = [h EXCEPT ![n] = "done"]
    /\ UNCHANGED <<subscribed, plugin, life, time, earlier>>

-----------------------------------------------------------------------------
Next ==
    \/ Tick \/ ClockTick \/ SetWall
    \/ \E env \in EnvSources, file \in FileSources : Start(env, file) \/ StartRefused(env, file)
    \/ Stop
    \/ \E n \in Handlers, t \in EventTypes : Ignore(n, t) \/ ClockFails(n, t) \/ Begin(n, t)
    \/ \E n \in Handlers : Number(n)

Spec == Init /\ [][Next]_vars

(* Time passes, on both clocks, and the runtime polls every handler.       *)
FairSpec ==
    /\ Spec
    /\ WF_vars(Tick) /\ WF_vars(ClockTick)
    /\ \A n \in Handlers : WF_vars(Number(n))

-----------------------------------------------------------------------------
(* Properties.                                                             *)

SameLife(m, n) == envelope[m].life = envelope[n].life

(* No two envelopes of one life have the same id, although handlers ask    *)
(* for ids at the same time and in the same millisecond.                   *)
UniqueInLife ==
    \A m, n \in Done : m # n /\ SameLife(m, n) => envelope[m].id # envelope[n].id

(* Nor do two envelopes of different lives, as long as the wall clock was  *)
(* never set back: the generator forgets its last id, and only the clock   *)
(* keeps a new one apart from the old ones.                                *)
UniqueAcrossLives ==
    ~setBack => \A m, n \in Done : m # n => envelope[m].id # envelope[n].id

(* Whatever is done to the wall clock: within a life, an event that        *)
(* arrives when another one has its envelope gets a larger id.  Events     *)
(* whose handlers overlap may be numbered in any order.                    *)
IdsFollowArrival ==
    \A n \in Done : \A m \in earlier[n] :
        SameLife(m, n) => Before(envelope[m].id, envelope[n].id)

(* While nobody sets the wall clock, the time in an id may be before the   *)
(* time its event carries, since it is a whole millisecond of a clock that *)
(* may be late, but by no more than that: emitted_at is read first, and    *)
(* both count from 1970.                                                   *)
EmittedWithinLag ==
    sets = 0 => \A n \in Done : envelope[n].emittedAt < First(envelope[n].id.ms + 1 + Lag)

(* The sources in the order of priority that config.rs states: t is wanted *)
(* when the first source that gives a list has it.                         *)
EnvSilent(env) == env.kind \in {"unset", "empty"}
FileSilent(file) == file.kind \in {"unset", "unreadable", "unknown format", "no key"}

Wanted(env, file) ==
    {t \in EventTypes :
        \/ t \in env.list
        \/ EnvSilent(env) /\ t \in file.list
        \/ EnvSilent(env) /\ FileSilent(file) /\ t \in DefaultEvents}

(* What the operator wrote is not understood: the file is not TOML, or the *)
(* first source that says something gives no list.                         *)
Garbled(env, file) ==
    \/ file.kind = "malformed"
    \/ env.kind = "scalar"
    \/ EnvSilent(env) /\ file.kind = "scalar"

(* The plugin subscribes to what is wanted.  When a source that is read is *)
(* not understood the event list keeps it from coming up, and only then; a *)
(* file that is silent, be it for its name, leaves the choice to the       *)
(* defaults.                                                               *)
SourcesDecide ==
    [][\A env \in EnvSources, file \in FileSources :
         /\ Start(env, file) => ~Garbled(env, file) /\ subscribed' = Wanted(env, file)
         /\ StartRefused(env, file) => Garbled(env, file)]_vars

(* Every event that waits for an id gets one unless the plugin ends: the   *)
(* clock leaves a full millisecond behind.                                 *)
IdsComeLive == \A n \in Handlers : h[n] = "waiting" ~> h[n] \in {"done", "ended"}
=============================================================================
