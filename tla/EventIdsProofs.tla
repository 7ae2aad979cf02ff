--------------------------- MODULE EventIdsProofs ---------------------------
(***************************************************************************)
(* The safety of EventIds for any notifications, any number of ids in a    *)
(* millisecond, of restarts and of settings of the wall clock.             *)
(***************************************************************************)
EXTENDS EventIds, TLAPS

NotAfter(a, b) == a.ms < b.ms \/ (a.ms = b.ms /\ a.seq <= b.seq)

Waiting == {n \in Handlers : h[n] = "waiting"}

(* Envelopes belong to lives that have begun; the handlers that wait are   *)
(* those of the present one.                                               *)
LifeInv ==
    /\ \A n \in Done : envelope[n].life <= life
    /\ \A n \in Waiting : plugin = "up" /\ envelope[n].life = life

(* No id of the present life is after the generator's last one.            *)
GenInv == \A n \in Done : envelope[n].life = life => NotAfter(envelope[n].id, gen)

(* A handler's predecessors have their envelopes, and it is not one.       *)
ArrivalInv ==
    \A n \in Done \cup Waiting : earlier[n] \subseteq Done \ {n}

(* As long as the wall clock is not set back, it is at least at every id,  *)
(* and past every id of an earlier life when a process runs or may start.  *)
ClockInv ==
    ~setBack =>
        /\ plugin = "up" => First(clock) + behind <= wall /\ gen.ms <= clock
        /\ \A n \in Done :
             /\ First(envelope[n].id.ms) <= wall
             /\ plugin = "down" => First(envelope[n].id.ms + 1) <= wall
             /\ plugin = "up" /\ envelope[n].life < life => envelope[n].id.ms < clock

(* While nobody sets the wall clock the generator's clock is as far from   *)
(* it as its ticks are late, which is less than the lag and a millisecond. *)
EmittedInv ==
    sets = 0 =>
        /\ plugin = "up" => wall = First(clock) + behind /\ behind < First(Lag + 1)
        /\ \A n \in Waiting : envelope[n].emittedAt <= wall

Rest ==
    /\ LifeInv /\ GenInv /\ ArrivalInv /\ ClockInv /\ EmittedInv
    /\ UniqueInLife /\ UniqueAcrossLives /\ IdsFollowArrival /\ EmittedWithinLag

IdsInv == TypeOK /\ Rest

-----------------------------------------------------------------------------
USE IdAssumption, ConfigAssumption

(* Milliseconds and their first instants.                                  *)
LEMMA FirstFacts ==
    ASSUME NEW a \in Nat, NEW b \in Nat
    PROVE  /\ First(a) \in Nat
           /\ First(a) + First(b) = First(a + b)
           /\ First(a + 1) = First(a) + Parts
           /\ a <= b => First(a) <= First(b)
<1>1. First(a) \in Nat /\ First(a + 1) = First(a) + Parts
  BY DEF First
<1>2. First(a) + First(b) = First(a + b)
  BY DEF First
<1>3. ASSUME a <= b PROVE First(a) <= First(b)
  <2>1. b - a \in Nat /\ b = a + (b - a)
    BY <1>3
  <2>2. First(b - a) \in Nat
    BY <2>1 DEF First
  <2>3. First(b) = First(a) + First(b - a)
    BY DEF First
  <2>. QED  BY <1>1, <2>2, <2>3
<1>. QED  BY <1>1, <1>2, <1>3

LEMMA MsFacts ==
    ASSUME NEW t \in Nat
    PROVE  Ms(t) \in Nat /\ (t % Parts) \in 0..Parts - 1 /\ t = First(Ms(t)) + (t % Parts)
  BY DEF Ms, First

(* A millisecond that has begun is over when the next one begins.          *)
LEMMA MsEnds ==
    ASSUME NEW a \in Nat, NEW t \in Nat, First(a) <= t, ((t + 1) % Parts) = 0
    PROVE  First(a + 1) <= t + 1
<1>1. Ms(t + 1) \in Nat /\ First(Ms(t + 1)) = t + 1
  <2>1. t + 1 \in Nat
    OBVIOUS
  <2>2. Ms(t + 1) \in Nat /\ t + 1 = First(Ms(t + 1)) + ((t + 1) % Parts)
    BY <2>1, MsFacts
  <2>3. First(Ms(t + 1)) \in Nat
    BY <2>2, FirstFacts
  <2>. QED  BY <2>2, <2>3
<1>2. a + 1 <= Ms(t + 1)
  <2>1. First(a) \in Nat /\ (Ms(t + 1) <= a => First(Ms(t + 1)) <= First(a))
    BY <1>1, FirstFacts
  <2>. QED  BY <1>1, <2>1
<1>. QED  BY <1>1, <1>2, FirstFacts

(* A time at which a millisecond is over is in a later one.                *)
LEMMA MsOver ==
    ASSUME NEW a \in Nat, NEW t \in Nat, First(a + 1) <= t
    PROVE  a < Ms(t)
<1>1. Ms(t) \in Nat /\ (t % Parts) < Parts /\ (t % Parts) \in Nat /\ t = First(Ms(t)) + (t % Parts)
  BY MsFacts
<1>2. First(a + 1) = First(a) + Parts /\ First(a) \in Nat /\ First(Ms(t)) \in Nat
      /\ (Ms(t) <= a => First(Ms(t)) <= First(a))
  BY <1>1, FirstFacts
<1>. QED  BY <1>1, <1>2

(* The generator's next id is after its last one and in the present        *)
(* millisecond.                                                            *)
LEMMA NextIdIsNew ==
    ASSUME gen \in Ids, clock \in Nat, HasRoom(clock)
    PROVE  /\ NextId(clock) \in Ids
           /\ Before(gen, NextId(clock))
           /\ NextId(clock).ms = clock
  BY DEF Ids, HasRoom, NextId, Before

(* Before and NotAfter are an order and its reflexive closure.             *)
LEMMA OrderFacts ==
    ASSUME NEW a \in Ids, NEW b \in Ids, NEW c \in Ids, NotAfter(a, b), Before(b, c)
    PROVE  Before(a, c) /\ NotAfter(a, c) /\ a # c
  BY DEF Ids, Before, NotAfter

(* What the two layers say, for every value of the sources.                *)
LEMMA EnvSays ==
    ASSUME NEW env \in EnvSources
    PROVE  /\ env.kind \in {"unset", "empty", "scalar", "list"}
           /\ env.kind = "list" => EnvLayer(env).says = "list" /\ EnvLayer(env).list = env.list
           /\ env.kind = "scalar" => EnvLayer(env).says = "scalar"
           /\ EnvSilent(env) => EnvLayer(env).says = "nothing"
           /\ env.kind # "list" => env.list = {}
           /\ env.list \subseteq EventTypes
<1>1. CASE env \in [kind : {"list"}, list : Lists \ {{}}]
  BY <1>1 DEF EnvLayer, Listed, EnvSilent
<1>2. CASE env \in [kind : {"unset", "empty", "scalar"}, list : {{}}]
  BY <1>2 DEF EnvLayer, Nothing, Scalar, EnvSilent
<1>. QED  BY <1>1, <1>2 DEF EnvSources

LEMMA FileSays ==
    ASSUME NEW file \in FileSources
    PROVE  /\ file.kind = "list" =>
                FileLayer(file).says = "list" /\ FileLayer(file).list = file.list
           /\ file.kind # "list" => file.list = {}
           /\ file.kind = "scalar" =>
                FileLayer(file).says = "scalar" /\ FileLayer(file).list = {}
           /\ file.kind = "malformed" => FileLayer(file).says = "broken"
           /\ FileSilent(file) => FileLayer(file).says = "nothing"
           /\ file.kind \in {"list", "scalar", "malformed"} <=> ~FileSilent(file)
           /\ file.list \subseteq EventTypes
  BY DEF FileSources, FileLayer, FileSilent, Listed, Nothing, Scalar, Broken

(* A start arrives at a list exactly when the sources are not garbled, and *)
(* it is the list that is wanted.                                          *)
LEMMA ResolvedIsWanted ==
    ASSUME NEW env \in EnvSources, NEW file \in FileSources
    PROVE  /\ Resolved(env, file) <=> ~Garbled(env, file)
           /\ Resolved(env, file) => Subscribed(env, file) = Wanted(env, file)
<1>. USE EnvSays, FileSays
<1>. USE DEF Resolved, Subscribed, Resolve, Over, Garbled, Wanted, EnvSilent
<1>1. Listed(DefaultEvents).says = "list" /\ Listed(DefaultEvents).list = DefaultEvents
  BY DEF Listed
<1>2. CASE FileSilent(file)
  <2>1. Over(Listed(DefaultEvents), FileLayer(file)) = Listed(DefaultEvents)
    BY <1>2
  <2>2. file.list = {} /\ file.kind # "malformed" /\ file.kind # "scalar"
    BY <1>2
  <2>3. CASE env.kind = "list"
    BY <1>1, <1>2, <2>1, <2>2, <2>3
  <2>4. CASE EnvSilent(env)
    BY <1>1, <1>2, <2>1, <2>2, <2>4
  <2>5. CASE env.kind = "scalar"
    BY <1>1, <2>1, <2>5
  <2>. QED  BY <2>3, <2>4, <2>5
<1>3. CASE file.kind = "list"
  <2>1. Over(Listed(DefaultEvents), FileLayer(file)) = FileLayer(file)
    BY <1>1, <1>3
  <2>2. CASE env.kind = "list"
    BY <1>3, <2>1, <2>2
  <2>3. CASE EnvSilent(env)
    BY <1>3, <2>1, <2>3
  <2>4. CASE env.kind = "scalar"
    BY <1>3, <2>1, <2>4
  <2>. QED  BY <2>2, <2>3, <2>4
<1>4. CASE file.kind = "scalar"
  <2>1. Over(Listed(DefaultEvents), FileLayer(file)) = FileLayer(file)
    BY <1>1, <1>4
  <2>2. CASE env.kind = "list"
    BY <1>4, <2>1, <2>2
  <2>3. CASE EnvSilent(env)
    BY <1>4, <2>1, <2>3
  <2>4. CASE env.kind = "scalar"
    BY <1>4, <2>1, <2>4
  <2>. QED  BY <2>2, <2>3, <2>4
<1>5. CASE file.kind = "malformed"
  BY <1>1, <1>5
<1>. QED  BY <1>2, <1>3, <1>4, <1>5

(* The list a start arrives at is a set of notifications.                  *)
LEMMA SubscribedType ==
    ASSUME NEW env \in EnvSources, NEW file \in FileSources, Resolved(env, file)
    PROVE  Subscribed(env, file) \subseteq EventTypes
  BY ResolvedIsWanted DEF Wanted

-----------------------------------------------------------------------------
(* The type invariant is inductive.                                        *)
LEMMA NoEnvelopeType == NoId \in Ids /\ NoEnvelope \in [emittedAt : Nat, id : Ids, life : 0..MaxLives]
<1>1. NoId \in Ids
  BY DEF NoId, Ids
<1>. QED  BY <1>1 DEF NoEnvelope

LEMMA TypeInit == Init => TypeOK
<1>. SUFFICES ASSUME Init PROVE TypeOK
  OBVIOUS
<1>1. behind \in Nat /\ life \in 0..MaxLives /\ clock \in 0..MaxTime /\ sets \in 0..MaxSets /\ wall \in Nat
  BY DEF Init
<1>2. gen \in Ids /\ envelope \in [Handlers -> [emittedAt : Nat, id : Ids, life : 0..MaxLives]]
  BY NoEnvelopeType DEF Init
<1>3. h \in [Handlers -> {"idle", "waiting", "done", "ended"}]
  BY DEF Init
<1>4. subscribed \subseteq EventTypes /\ setBack \in BOOLEAN
      /\ plugin \in {"up", "stopped", "down"} /\ earlier \in [Handlers -> SUBSET Handlers]
  BY DEF Init
<1>. QED  BY <1>1, <1>2, <1>3, <1>4 DEF TypeOK

LEMMA TypeStep == TypeOK /\ [Next]_vars => TypeOK'
<1>. SUFFICES ASSUME TypeOK, [Next]_vars PROVE TypeOK'
  OBVIOUS
<1>. USE DEF TypeOK, time, tasks
<1>1. CASE Tick
  BY <1>1 DEF Tick
<1>2. CASE SetWall
  <2>1. PICK ms \in Nat : wall' = First(ms) /\ setBack' = (setBack \/ First(ms) < wall)
    BY <1>2 DEF SetWall
  <2>2. wall' \in Nat /\ setBack' \in BOOLEAN
    BY <2>1, FirstFacts
  <2>. QED  BY <1>2, <2>2 DEF SetWall
<1>3. ASSUME NEW env \in EnvSources, NEW file \in FileSources,
             Start(env, file) \/ StartRefused(env, file)
      PROVE  TypeOK'
  <2>1. CASE Start(env, file)
    <3>1. Ms(wall) \in 0..MaxTime /\ (wall % Parts) \in Nat
      BY <2>1, MsFacts DEF Start
    <3>. QED  BY <2>1, <3>1, SubscribedType, NoEnvelopeType DEF Start, ClockAtStart
  <2>2. CASE StartRefused(env, file)
    BY <2>2 DEF StartRefused
  <2>. QED  BY <1>3, <2>1, <2>2
<1>4. CASE Stop
  BY <1>4, NoEnvelopeType DEF Stop
<1>5. ASSUME NEW n \in Handlers, NEW t \in EventTypes,
             Ignore(n, t) \/ ClockFails(n, t) \/ Begin(n, t)
      PROVE  TypeOK'
  <2>1. CASE Ignore(n, t) \/ ClockFails(n, t)
    BY <2>1 DEF Ignore, ClockFails, Notified
  <2>2. CASE Begin(n, t)
    <3>1. [emittedAt |-> wall, id |-> NoId, life |-> life]
             \in [emittedAt : Nat, id : Ids, life : 0..MaxLives]
      BY DEF NoId, Ids
    <3>. QED  BY <2>2, <3>1 DEF Begin, Notified, Done
  <2>. QED  BY <1>5, <2>1, <2>2
<1>6. ASSUME NEW n \in Handlers, Number(n) PROVE TypeOK'
  <2>1. NextId(clock) \in Ids
    BY <1>6, NextIdIsNew DEF Number, IdTime
  <2>. QED  BY <1>6, <2>1 DEF Number, IdTime, Kept
<1>7. CASE UNCHANGED vars
  BY <1>7 DEF vars
<1>8. CASE ClockTick
  BY <1>8 DEF ClockTick
<1>. QED  BY <1>1, <1>2, <1>3, <1>4, <1>5, <1>6, <1>7, <1>8 DEF Next

-----------------------------------------------------------------------------
(* IdsInv is inductive.                                                    *)
LEMMA InvInit == Init => IdsInv
<1>. SUFFICES ASSUME Init PROVE Rest
  BY TypeInit DEF IdsInv
<1>1. Done = {} /\ Waiting = {} /\ plugin = "down"
  BY DEF Init, Done, Waiting
<1>. QED
  BY <1>1 DEF Rest, LifeInv, GenInv, ArrivalInv, ClockInv, EmittedInv, UniqueInLife,
              UniqueAcrossLives, IdsFollowArrival, EmittedWithinLag

(* A step that makes no envelope keeps what is promised of those there are. *)
LEMMA NoNewEnvelope ==
    ASSUME IdsInv, Done' = Done,
           \A n \in Done : envelope'[n] = envelope[n] /\ earlier'[n] = earlier[n],
           ~setBack' => ~setBack, sets' = 0 => sets = 0
    PROVE  (UniqueInLife /\ UniqueAcrossLives /\ IdsFollowArrival /\ EmittedWithinLag)'
<1>. USE DEF IdsInv, Rest
<1>1. UniqueInLife'
  BY DEF UniqueInLife, SameLife
<1>2. UniqueAcrossLives'
  BY DEF UniqueAcrossLives
<1>3. IdsFollowArrival'
  BY DEF IdsFollowArrival, SameLife, ArrivalInv
<1>4. EmittedWithinLag'
  BY DEF EmittedWithinLag
<1>. QED  BY <1>1, <1>2, <1>3, <1>4

(* Time passes or the wall clock is set; no handler moves.                 *)
LEMMA InvTime == ASSUME IdsInv, Tick \/ ClockTick \/ SetWall PROVE Rest'
<1>. USE DEF IdsInv, Rest
<1>1. /\ UNCHANGED <<h, envelope, earlier, life, gen>>
      /\ Done' = Done /\ Waiting' = Waiting
      /\ ~setBack' => ~setBack /\ wall <= wall'
      /\ sets' = 0 => sets = 0 /\ ~SetWall
      /\ plugin' = "up" <=> plugin = "up"
      /\ plugin' = "down" =>
            plugin = "down" \/ (wall' = wall + 1 /\ (wall + 1) % Parts = 0)
  <2>1. CASE Tick
    BY <2>1 DEF Tick, SetWall, tasks, Done, Waiting, TypeOK
  <2>2. CASE ClockTick
    BY <2>2 DEF ClockTick, SetWall, tasks, Done, Waiting, TypeOK
  <2>3. CASE SetWall
    <3>1. PICK ms \in Nat : wall' = First(ms) /\ setBack' = (setBack \/ First(ms) < wall)
      BY <2>3 DEF SetWall
    <3>2. ~setBack' => ~setBack /\ ~(First(ms) < wall)
      BY <3>1, Zenon
    <3>3. ~(First(ms) < wall) => wall <= wall'
      BY <3>1, FirstFacts DEF TypeOK
    <3>4. UNCHANGED <<h, envelope, earlier, life, gen, plugin>> /\ sets' # 0
      BY <2>3 DEF SetWall, tasks, TypeOK
    <3>. QED  BY <3>2, <3>3, <3>4 DEF Done, Waiting
  <2>. QED  BY <2>1, <2>2, <2>3
<1>2. LifeInv' /\ GenInv' /\ ArrivalInv'
  BY <1>1 DEF LifeInv, GenInv, ArrivalInv
<1>3. wall' \in Nat /\ wall \in Nat /\ clock \in Nat /\ clock' \in Nat /\ gen.ms \in Nat
      /\ First(clock) \in Nat /\ behind \in Nat /\ behind' \in Nat
      /\ \A n \in Done : envelope[n].id.ms \in Nat /\ First(envelope[n].id.ms) \in Nat
  <2>1. TypeOK'
    BY TypeStep DEF Next
  <2>2. \A n \in Done : envelope[n].id.ms \in Nat
    BY DEF TypeOK, Ids, Done
  <2>3. gen.ms \in Nat /\ clock \in Nat
    BY DEF TypeOK, Ids
  <2>4. wall \in Nat /\ behind \in Nat /\ wall' \in Nat /\ behind' \in Nat /\ clock' \in Nat
    BY <2>1 DEF TypeOK
  <2>5. First(clock) \in Nat
    BY <2>3, FirstFacts
  <2>6. \A n \in Done : First(envelope[n].id.ms) \in Nat
    BY <2>2, FirstFacts
  <2>. QED  BY <2>2, <2>3, <2>4, <2>5, <2>6
<1>4. /\ clock <= clock'
      /\ Tick /\ plugin = "up" => First(clock') + behind' = First(clock) + behind + 1
      /\ Tick => wall' = wall + 1
      /\ ClockTick => wall' = wall /\ First(clock') + behind' = First(clock) + behind
      /\ SetWall => UNCHANGED <<clock, behind>>
  <2>1. ClockTick => First(clock') = First(clock) + Parts
    BY <1>3, FirstFacts DEF ClockTick
  <2>2. ClockTick => wall' = wall /\ clock' = clock + 1 /\ behind' = behind - Parts
    BY DEF ClockTick
  <2>3. Tick => wall' = wall + 1 /\ clock' = clock
    BY DEF Tick
  <2>4. Tick /\ plugin = "up" => behind' = behind + 1
    BY DEF Tick
  <2>5. SetWall => UNCHANGED <<clock, behind>>
    BY DEF SetWall
  <2>6. clock' = clock => First(clock') = First(clock)
    OBVIOUS
  <2>7. CASE Tick
    BY <1>3, <2>1, <2>2, <2>3, <2>4, <2>5, <2>6, <2>7
  <2>8. CASE ~Tick
    BY <1>3, <2>1, <2>2, <2>5, <2>8
  <2>. QED  BY <2>7, <2>8
<1>5. ClockInv'
  <2>. SUFFICES ASSUME ~setBack'
                PROVE  /\ plugin' = "up" => First(clock') + behind' <= wall' /\ gen.ms <= clock'
                       /\ \A n \in Done :
                            /\ First(envelope[n].id.ms) <= wall'
                            /\ plugin' = "down" => First(envelope[n].id.ms + 1) <= wall'
                            /\ plugin' = "up" /\ envelope[n].life < life =>
                                 envelope[n].id.ms < clock'
    BY <1>1 DEF ClockInv
  <2>1. wall <= wall' /\ ClockInv /\ ~setBack
    BY <1>1
  <2>2. plugin' = "up" => First(clock') + behind' <= wall' /\ gen.ms <= clock'
    <3>1. First(clock') \in Nat
      BY <1>3, FirstFacts
    <3>. QED  BY <1>1, <1>3, <1>4, <2>1, <3>1 DEF ClockInv
  <2>3. ASSUME NEW n \in Done
        PROVE  /\ First(envelope[n].id.ms) <= wall'
               /\ plugin' = "down" => First(envelope[n].id.ms + 1) <= wall'
               /\ plugin' = "up" /\ envelope[n].life < life => envelope[n].id.ms < clock'
    <3>1. First(envelope[n].id.ms) <= wall /\ First(envelope[n].id.ms) <= wall'
      BY <1>3, <2>1 DEF ClockInv
    <3>2. plugin' = "down" => First(envelope[n].id.ms + 1) <= wall'
      <4>1. CASE plugin = "down"
        <5>1. First(envelope[n].id.ms + 1) <= wall
          BY <2>1, <4>1 DEF ClockInv
        <5>2. envelope[n].id.ms + 1 \in Nat
          BY <1>3
        <5>3. First(envelope[n].id.ms + 1) \in Nat
          BY <5>2, FirstFacts
        <5>. QED  BY <1>3, <2>1, <5>1, <5>3
      <4>2. CASE plugin # "down" /\ plugin' = "down"
        BY <1>1, <1>3, <3>1, <4>2, MsEnds
      <4>. QED  BY <4>1, <4>2
    <3>3. plugin' = "up" /\ envelope[n].life < life => envelope[n].id.ms < clock'
      BY <1>1, <1>3, <1>4, <2>1 DEF ClockInv
    <3>. QED  BY <3>1, <3>2, <3>3
  <2>. QED  BY <2>2, <2>3
<1>6. EmittedInv'
  <2>1. CASE sets' = 0
    <3>1. sets = 0 /\ (Tick \/ ClockTick)
      BY <1>1, <2>1
    <3>2. plugin' = "up" => wall' = First(clock') + behind' /\ behind' < First(Lag + 1)
      <4>1. CASE Tick
        <5>1. wall' = wall + 1 /\ (plugin = "up" => behind' < First(Lag + 1))
          BY <4>1 DEF Tick
        <5>. QED  BY <1>1, <1>3, <1>4, <3>1, <4>1, <5>1 DEF EmittedInv
      <4>2. CASE ClockTick
        <5>1. wall' = wall /\ behind' <= behind /\ plugin = "up"
              /\ First(clock') + behind' = First(clock) + behind
          BY <1>3, <4>2, FirstFacts DEF ClockTick
        <5>2. First(Lag + 1) \in Nat
          BY FirstFacts
        <5>. QED  BY <1>3, <3>1, <5>1, <5>2 DEF EmittedInv
      <4>. QED  BY <3>1, <4>1, <4>2
    <3>3. wall <= wall' /\ \A n \in Waiting : envelope[n].emittedAt \in Nat
      BY <1>3, <1>4, <3>1 DEF TypeOK, Waiting
    <3>4. \A n \in Waiting : envelope[n].emittedAt <= wall'
      BY <1>3, <3>1, <3>3 DEF EmittedInv
    <3>. QED  BY <1>1, <3>2, <3>4 DEF EmittedInv
  <2>2. CASE sets' # 0
    BY <2>2 DEF EmittedInv
  <2>. QED  BY <2>1, <2>2
<1>7. (UniqueInLife /\ UniqueAcrossLives /\ IdsFollowArrival /\ EmittedWithinLag)'
  BY <1>1, NoNewEnvelope
<1>. QED  BY <1>2, <1>5, <1>6, <1>7

(* A life begins: the generator forgets, but every id is of an earlier     *)
(* life.                                                                   *)
LEMMA InvStart ==
    ASSUME IdsInv, NEW env \in EnvSources, NEW file \in FileSources,
           Start(env, file) \/ StartRefused(env, file)
    PROVE  Rest'
<1>. USE DEF IdsInv, Rest
<1>1. /\ UNCHANGED <<h, envelope, earlier, wall, sets, setBack>>
      /\ Done' = Done /\ Waiting' = Waiting /\ Waiting = {}
      /\ plugin = "down"
  BY DEF Start, StartRefused, tasks, time, Done, Waiting, LifeInv
<1>2. (UniqueInLife /\ UniqueAcrossLives /\ IdsFollowArrival /\ EmittedWithinLag)'
  BY <1>1, NoNewEnvelope
<1>3. \A n \in Done : envelope[n].life \in 0..MaxLives /\ envelope[n].id.ms \in Nat
  BY DEF TypeOK, Ids, Done
<1>4. CASE Start(env, file)
  <2>1. life' = life + 1 /\ gen' = NoId /\ clock' = Ms(wall) /\ behind' = wall % Parts
        /\ plugin' = "up" /\ life \in Nat /\ wall \in Nat
    BY <1>4 DEF Start, ClockAtStart, TypeOK
  <2>2. \A n \in Done : envelope[n].life < life'
    BY <1>3, <2>1 DEF LifeInv
  <2>3. LifeInv' /\ GenInv' /\ ArrivalInv'
    BY <1>1, <1>3, <2>1, <2>2 DEF LifeInv, GenInv, ArrivalInv
  <2>4. First(clock') + behind' = wall /\ clock' \in Nat /\ behind' < First(Lag + 1)
    <3>1. First(Lag + 1) = First(Lag) + Parts /\ First(Lag) \in Nat
      BY FirstFacts
    <3>. QED  BY <2>1, <3>1, MsFacts
  <2>5. ClockInv'
    <3>1. ~setBack => \A n \in Done : envelope[n].id.ms < clock'
      BY <1>1, <1>3, <2>1, MsOver DEF ClockInv
    <3>. QED  BY <1>1, <1>3, <2>1, <2>4, <3>1 DEF ClockInv, NoId
  <2>6. EmittedInv'
    BY <1>1, <2>1, <2>4 DEF EmittedInv
  <2>. QED  BY <1>2, <2>3, <2>5, <2>6
<1>5. CASE StartRefused(env, file)
  <2>1. UNCHANGED <<life, gen, clock, behind>> /\ plugin' = "stopped"
    BY <1>5 DEF StartRefused, time
  <2>2. LifeInv' /\ GenInv' /\ ArrivalInv' /\ ClockInv' /\ EmittedInv'
    BY <1>1, <2>1 DEF LifeInv, GenInv, ArrivalInv, ClockInv, EmittedInv
  <2>. QED  BY <1>2, <2>2
<1>. QED  BY <1>4, <1>5

(* A life ends, and what waited with it.                                   *)
LEMMA InvStop == ASSUME IdsInv, Stop PROVE Rest'
<1>. USE DEF IdsInv, Rest
<1>1. /\ Done' = Done /\ Waiting' = {} /\ plugin' = "stopped"
      /\ UNCHANGED <<life, gen, earlier, wall, clock, behind, sets, setBack>>
      /\ \A n \in Done : envelope'[n] = envelope[n]
  BY DEF Stop, time, Done, Waiting, TypeOK
<1>2. (UniqueInLife /\ UniqueAcrossLives /\ IdsFollowArrival /\ EmittedWithinLag)'
  BY <1>1, NoNewEnvelope
<1>3. LifeInv' /\ GenInv' /\ ArrivalInv' /\ ClockInv' /\ EmittedInv'
  BY <1>1 DEF LifeInv, GenInv, ArrivalInv, ClockInv, EmittedInv
<1>. QED  BY <1>2, <1>3

(* A notification arrives.                                                 *)
LEMMA InvArrival ==
    ASSUME IdsInv, NEW n \in Handlers, NEW t \in EventTypes,
           Ignore(n, t) \/ ClockFails(n, t) \/ Begin(n, t)
    PROVE  Rest'
<1>. USE DEF IdsInv, Rest
<1>1. /\ Done' = Done /\ n \notin Done /\ n \notin Waiting
      /\ plugin = "up"
      /\ UNCHANGED <<plugin, life, gen, wall, clock, behind, sets, setBack>>
      /\ \A m \in Done \cup Waiting : envelope'[m] = envelope[m] /\ earlier'[m] = earlier[m]
  BY DEF Ignore, ClockFails, Begin, Notified, time, Done, Waiting, TypeOK
<1>2. (UniqueInLife /\ UniqueAcrossLives /\ IdsFollowArrival /\ EmittedWithinLag)'
  BY <1>1, NoNewEnvelope
<1>3. GenInv' /\ ClockInv'
  BY <1>1 DEF GenInv, ClockInv
<1>4. CASE Begin(n, t)
  <2>1. /\ Waiting' = Waiting \cup {n}
        /\ envelope'[n].life = life /\ envelope'[n].emittedAt = wall /\ earlier'[n] = Done
    BY <1>4 DEF Begin, Waiting, TypeOK
  <2>2. LifeInv' /\ ArrivalInv'
    BY <1>1, <2>1 DEF LifeInv, ArrivalInv
  <2>3. EmittedInv'
    BY <1>1, <2>1 DEF EmittedInv, TypeOK
  <2>. QED  BY <1>2, <1>3, <2>2, <2>3
<1>5. CASE Ignore(n, t) \/ ClockFails(n, t)
  <2>1. Waiting' = Waiting
    BY <1>1, <1>5 DEF Ignore, ClockFails, Waiting, TypeOK
  <2>2. LifeInv' /\ ArrivalInv' /\ EmittedInv'
    BY <1>1, <2>1 DEF LifeInv, ArrivalInv, EmittedInv
  <2>. QED  BY <1>2, <1>3, <2>2
<1>. QED  BY <1>4, <1>5

(* A handler gets its id: it is after every id of this life, and in a      *)
(* millisecond after those of earlier lives.                               *)
LEMMA InvNumber == ASSUME IdsInv, NEW n \in Handlers, Number(n) PROVE Rest'
<1>. DEFINE id == NextId(clock)
<1>. USE DEF IdsInv, Rest
<1>1. id \in Ids /\ Before(gen, id) /\ id.ms = clock /\ gen \in Ids
  BY NextIdIsNew DEF Number, IdTime, TypeOK
<1>. HIDE DEF id
<1>2. /\ n \in Waiting /\ n \notin Done /\ plugin = "up" /\ envelope[n].life = life
      /\ earlier[n] \subseteq Done
  BY DEF Number, Waiting, Done, LifeInv, ArrivalInv
<1>3. /\ gen' = id
      /\ UNCHANGED <<subscribed, plugin, life, wall, clock, behind, sets, setBack, earlier>>
      /\ Done' = Done \cup {n} /\ Waiting' = Waiting \ {n}
  BY DEF Number, IdTime, Kept, time, Done, Waiting, TypeOK, id
<1>4. /\ envelope'[n].id = id /\ envelope'[n].life = life
      /\ envelope'[n].emittedAt = envelope[n].emittedAt
      /\ \A m \in Handlers : m # n => envelope'[m] = envelope[m]
  BY <1>2 DEF Number, IdTime, TypeOK, id
<1>5. /\ Done \subseteq Handlers /\ Waiting \subseteq Handlers
      /\ \A m \in Handlers : envelope[m].id \in Ids
  BY DEF Done, Waiting, TypeOK
<1>6. \A m \in Done : envelope[m].life = life =>
          Before(envelope[m].id, id) /\ NotAfter(envelope[m].id, id) /\ envelope[m].id # id
  BY <1>1, <1>5, OrderFacts DEF GenInv
<1>7. LifeInv'
  BY <1>2, <1>3, <1>4, <1>5 DEF LifeInv, TypeOK
<1>8. GenInv'
  <2>1. NotAfter(id, id)
    BY <1>1 DEF NotAfter, Ids
  <2>. QED  BY <1>2, <1>3, <1>4, <1>5, <1>6, <2>1 DEF GenInv
<1>9. ArrivalInv'
  BY <1>2, <1>3 DEF ArrivalInv
<1>10. ClockInv'
  <2>. SUFFICES ASSUME ~setBack
                PROVE  /\ First(clock) + behind <= wall /\ id.ms <= clock
                       /\ \A m \in Done' :
                            /\ First(envelope'[m].id.ms) <= wall
                            /\ envelope'[m].life < life => envelope'[m].id.ms < clock
    BY <1>2, <1>3 DEF ClockInv
  <2>1. First(clock) + behind <= wall /\ clock \in Nat /\ life \in Nat
        /\ First(clock) <= wall
    <3>1. clock \in Nat /\ behind \in Nat /\ wall \in Nat /\ life \in Nat
      BY DEF TypeOK
    <3>2. First(clock) \in Nat
      BY <3>1, FirstFacts
    <3>3. First(clock) + behind <= wall
      BY <1>2 DEF ClockInv
    <3>. QED  BY <3>1, <3>2, <3>3
  <2>2. \A m \in Done : /\ First(envelope[m].id.ms) <= wall
                        /\ envelope[m].life < life => envelope[m].id.ms < clock
    BY <1>2 DEF ClockInv
  <2>. QED  BY <1>1, <1>2, <1>3, <1>4, <1>5, <2>1, <2>2
<1>11. EmittedInv'
  BY <1>2, <1>3, <1>4, <1>5 DEF EmittedInv
<1>12. UniqueInLife'
  BY <1>2, <1>3, <1>4, <1>5, <1>6 DEF UniqueInLife, SameLife
<1>13. UniqueAcrossLives'
  <2>. SUFFICES ASSUME ~setBack, NEW m \in Done PROVE envelope[m].id # id
    BY <1>2, <1>3, <1>4, <1>5 DEF UniqueAcrossLives
  <2>1. CASE envelope[m].life = life
    BY <1>6, <2>1
  <2>2. CASE envelope[m].life # life
    <3>1. envelope[m].life < life
      BY <2>2 DEF LifeInv, TypeOK, Done
    <3>2. envelope[m].id.ms < clock
      BY <1>2, <3>1 DEF ClockInv
    <3>. QED  BY <1>1, <1>5, <3>2 DEF TypeOK, Ids
  <2>. QED  BY <2>1, <2>2
<1>14. IdsFollowArrival'
  <2>. SUFFICES ASSUME NEW k \in Done', NEW m \in earlier[k], SameLife(m, k)'
                PROVE  Before(envelope'[m].id, envelope'[k].id)
    BY <1>3 DEF IdsFollowArrival
  <2>1. CASE k = n
    BY <1>2, <1>3, <1>4, <1>5, <1>6, <2>1 DEF SameLife
  <2>2. CASE k # n
    <3>1. k \in Done /\ m \in Done
      BY <1>3, <2>2 DEF ArrivalInv
    <3>. QED  BY <1>2, <1>4, <1>5, <2>2, <3>1 DEF IdsFollowArrival, SameLife
  <2>. QED  BY <2>1, <2>2
<1>15. EmittedWithinLag'
  <2>. SUFFICES ASSUME sets = 0, NEW m \in Done'
                PROVE  envelope'[m].emittedAt < First(envelope'[m].id.ms + 1 + Lag)
    BY <1>3 DEF EmittedWithinLag
  <2>1. CASE m = n
    <3>1. envelope[n].emittedAt <= wall /\ wall = First(clock) + behind
          /\ behind < First(Lag + 1)
      BY <1>2 DEF EmittedInv
    <3>2. First(clock) + First(Lag + 1) = First(clock + 1 + Lag)
          /\ First(clock) \in Nat /\ First(Lag + 1) \in Nat
      <4>1. clock \in Nat /\ Lag + 1 \in Nat /\ clock + (Lag + 1) = clock + 1 + Lag
        BY DEF TypeOK
      <4>2. First(clock) + First(Lag + 1) = First(clock + (Lag + 1))
        BY <4>1, FirstFacts
      <4>. QED  BY <4>1, <4>2, FirstFacts
    <3>3. envelope[n].emittedAt \in Nat /\ behind \in Nat
      BY <1>2, <1>5 DEF TypeOK
    <3>. QED  BY <1>1, <1>4, <2>1, <3>1, <3>2, <3>3
  <2>2. CASE m # n
    BY <1>3, <1>4, <1>5, <2>2 DEF EmittedWithinLag
  <2>. QED  BY <2>1, <2>2
<1>. QED  BY <1>7, <1>8, <1>9, <1>10, <1>11, <1>12, <1>13, <1>14, <1>15

LEMMA InvStep == IdsInv /\ [Next]_vars => IdsInv'
<1>. SUFFICES ASSUME IdsInv, [Next]_vars PROVE Rest'
  BY TypeStep DEF IdsInv
<1>1. CASE UNCHANGED vars
  <2>1. (UniqueInLife /\ UniqueAcrossLives /\ IdsFollowArrival /\ EmittedWithinLag)'
    BY <1>1, NoNewEnvelope DEF vars, time, tasks, Done
  <2>. QED
    BY <1>1, <2>1 DEF vars, time, tasks, IdsInv, Rest, LifeInv, GenInv, ArrivalInv, ClockInv,
                      EmittedInv, Done, Waiting
<1>. QED  BY <1>1, InvTime, InvStart, InvStop, InvArrival, InvNumber DEF Next

-----------------------------------------------------------------------------
(* Every variable keeps its type.                                          *)
THEOREM TypeCorrect == Spec => []TypeOK
<1>1. Init => TypeOK
  BY TypeInit
<1>2. TypeOK /\ [Next]_vars => TypeOK'
  BY TypeStep
<1>. QED  BY <1>1, <1>2, PTL DEF Spec

(* The inductive invariant.                                                *)
THEOREM Invariance == Spec => []IdsInv
<1>1. Init => IdsInv
  BY InvInit
<1>2. IdsInv /\ [Next]_vars => IdsInv'
  BY InvStep
<1>. QED  BY <1>1, <1>2, PTL DEF Spec

(* In one life ids are unique, whatever is done to the wall clock.         *)
THEOREM UniqueIds == Spec => []UniqueInLife
<1>1. IdsInv => UniqueInLife
  BY DEF IdsInv, Rest
<1>. QED  BY <1>1, Invariance, PTL

(* Over any number of lives they are unique if it is not set back.         *)
THEOREM UniqueIdsOverRestarts == Spec => []UniqueAcrossLives
<1>1. IdsInv => UniqueAcrossLives
  BY DEF IdsInv, Rest
<1>. QED  BY <1>1, Invariance, PTL

(* The id of an event is after those of the events that had one when it    *)
(* arrived.                                                                *)
THEOREM ArrivalOrder == Spec => []IdsFollowArrival
<1>1. IdsInv => IdsFollowArrival
  BY DEF IdsInv, Rest
<1>. QED  BY <1>1, Invariance, PTL

(* While nobody sets the wall clock, the time in an id is before the time  *)
(* its event carries by less than the lag of the generator's clock and a   *)
(* millisecond, for any lag and any resolution of the wall clock.          *)
THEOREM IdTimeIsNear == Spec => []EmittedWithinLag
<1>1. IdsInv => EmittedWithinLag
  BY DEF IdsInv, Rest
<1>. QED  BY <1>1, Invariance, PTL

(* For any list in any of the sources, the plugin subscribes to what is    *)
(* wanted or refuses what cannot be understood.                            *)
THEOREM SourcesAreFollowed == Spec => SourcesDecide
<1>. DEFINE Follows == \A env \in EnvSources, file \in FileSources :
                /\ Start(env, file) => ~Garbled(env, file) /\ subscribed' = Wanted(env, file)
                /\ StartRefused(env, file) => Garbled(env, file)
<1>1. Follows
  BY ResolvedIsWanted DEF Start, StartRefused
<1>. QED  BY <1>1, PTL DEF SourcesDecide
=============================================================================
