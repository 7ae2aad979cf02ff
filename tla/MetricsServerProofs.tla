------------------------ MODULE MetricsServerProofs -------------------------
(***************************************************************************)
(* The safety of MetricsServer for any tokens, any number of scrapes and   *)
(* any stream of events: who is served, and what an answer counts.         *)
(***************************************************************************)
EXTENDS MetricsServer, FiniteSetTheorems, WellFoundedInduction, TLAPS

Stages == {"idle", "sent", "gather", "answered", "dropped"}
Tasks  == {"unsent", "spawned", "error", "counted", "done", "cancelled"}

Records == [stage : Stages, header : Headers, status : {0, 200, 401}, unread : SUBSET Metrics]

Types ==
    /\ task \in [Events -> Tasks]
    /\ payload \in [Events -> Payloads \cup {NoPayload}]
    /\ counters \in [Series -> Nat]
    /\ scrape \in [Clients -> Records]
    /\ shown \in [Clients -> [Series -> Nat]]
    /\ before \in [Clients -> SUBSET Events]
    /\ token \subseteq RawTokens

-----------------------------------------------------------------------------
(* Who is served.                                                          *)

(* The options are checked before anything listens.                        *)
PastOptions == {"getinfo", "bind", "start", "serve", "running"}

OptionsChecked ==
    /\ main \in PastOptions => MayServe /\ auth = {Trim(t) : t \in token}
    /\ port # "closed" => main \in PastOptions

Admitted(c) ==
    /\ token = {} => disableAuth
    /\ \A t \in token : Shows(c, Trim(t)) /\ Len(Trim(t)) >= MinTokenLen

(* A request is judged by its header, which it keeps.                      *)
RequestsJudged ==
    \A c \in Clients :
        /\ scrape[c].stage = "gather" \/ scrape[c].status = 200 => Admitted(c)
        /\ scrape[c].status = 401 => \E t \in token : ~Shows(c, Trim(t))
        /\ scrape[c].status # 0 => scrape[c].stage = "answered"

AuthInv == OptionsChecked /\ RequestsJudged

-----------------------------------------------------------------------------
(* What an answer counts.                                                  *)

(* The events that may have been counted: a task that was cancelled is one *)
(* of them whether it had counted or not.                                  *)
Processed == {e \in Events : task[e] \in {"counted", "done", "cancelled"}}
ProcessedIn(s) == {e \in Processed : SeriesOf(payload[e]) = s}
BeforeIn(c, s) == {e \in before[c] : SeriesOf(payload[e]) = s}

(* At any time there have been finitely many events, each with a payload.  *)
EventsFinite ==
    /\ IsFiniteSet({e \in Events : task[e] # "unsent"})
    /\ \A e \in Events : task[e] # "unsent" => payload[e] \in Payloads

(* While the process lives a counter is the number of events in it.        *)
CountersExact ==
    main # "exited" =>
        /\ \A e \in Events : task[e] # "cancelled"
        /\ \A s \in Series : counters[s] = Cardinality(ProcessedIn(s))

(* The end of the process ends the requests.                               *)
ExitEndsScrapes ==
    main = "exited" => \A c \in Clients : scrape[c].stage \notin {"sent", "gather"}

(* The scrape has read the series.                                         *)
Read(c, s) ==
    /\ scrape[c].stage = "gather" \/ scrape[c].status = 200
    /\ s[1] \notin scrape[c].unread

(* What a scrape has read of a metric is not older than the request and    *)
(* not ahead of the events.                                                *)
Between(c) ==
    /\ \A e \in before[c] : task[e] = "done"
    /\ \A s \in Series :
         /\ shown[c][s] <= Cardinality(ProcessedIn(s))
         /\ Read(c, s) => Cardinality(BeforeIn(c, s)) <= shown[c][s]
    /\ scrape[c].status = 200 => scrape[c].unread = {}

ShownBetween == \A c \in Clients : Between(c)

CountInv == EventsFinite /\ CountersExact /\ ExitEndsScrapes /\ ShownBetween

ServerInv == Types /\ AuthInv /\ CountInv

-----------------------------------------------------------------------------
(* Tokens.                                                                 *)

Lt == {ss \in Nat \X Nat : ss[1] < ss[2]}

LEMMA LeastOf ==
    ASSUME NEW T \in SUBSET Nat, T # {}
    PROVE  \E x \in T : \A y \in T : x <= y
<1>1. IsWellFoundedOn(Lt, Nat)
  BY NatLessThanWellFounded DEF OpToRel, Lt
<1>2. PICK x \in T : \A y \in T : ~ (<<y, x>> \in Lt)
  BY <1>1, WFMin
<1>3. ASSUME NEW y \in T PROVE x <= y
  <2>1. x \in Nat /\ y \in Nat
    OBVIOUS
  <2>2. ~ (y < x)
    BY <1>2, <2>1 DEF Lt
  <2>. QED  BY <2>1, <2>2
<1>. QED  BY <1>3

LEMMA GreatestOf ==
    ASSUME NEW n \in Nat, NEW T \in SUBSET (1 .. n), T # {}
    PROVE  \E x \in T : \A y \in T : y <= x
<1>. DEFINE U == {n - i : i \in T}
<1>0. \A i \in T : i \in Nat /\ n - i \in Nat
  OBVIOUS
<1>1. U \in SUBSET Nat /\ U # {}
  BY <1>0
<1>2. PICK u \in U : \A v \in U : u <= v
  BY <1>1, LeastOf
<1>3. PICK x \in T : u = n - x
  OBVIOUS
<1>4. ASSUME NEW y \in T PROVE y <= x
  <2>1. n - x <= n - y
    BY <1>2, <1>3
  <2>. QED  BY <2>1
<1>. QED  BY <1>4

(* A token without the white space around it is a token.                   *)
LEMMA TrimType == ASSUME NEW raw \in Seq(Nat) PROVE Trim(raw) \in Seq(Nat)
<1>. DEFINE solid == {i \in DOMAIN raw : raw[i] # Space}
            first == CHOOSE i \in solid : \A j \in solid : i <= j
            last  == CHOOSE i \in solid : \A j \in solid : j <= i
<1>1. CASE solid = {}
  BY <1>1 DEF Trim
<1>2. CASE solid # {}
  <2>1. solid \in SUBSET (1 .. Len(raw)) /\ Len(raw) \in Nat
    OBVIOUS
  <2>2. first \in solid
    <3>1. solid \in SUBSET Nat
      BY <2>1
    <3>2. \E i \in solid : \A j \in solid : i <= j
      BY <1>2, <3>1, LeastOf
    <3>. QED  BY <3>2
  <2>3. last \in solid
    <3>1. \E i \in solid : \A j \in solid : j <= i
      BY <1>2, <2>1, GreatestOf
    <3>. QED  BY <3>1
  <2>. HIDE DEF first, last
  <2>4. SubSeq(raw, first, last) \in Seq(Nat)
    BY <2>1, <2>2, <2>3
  <2>. QED  BY <1>2, <2>4 DEF Trim, first, last
<1>. QED  BY <1>1, <1>2

(* Tokens that match are equal, and equal ones match.                      *)
LEMMA MatchIsEqual ==
    ASSUME NEW a \in Seq(Nat), NEW b \in Seq(Nat)
    PROVE  tokens_match(a, b) <=> a = b
  BY DEF tokens_match

-----------------------------------------------------------------------------
(* The steps by what they change: the startup and the end of stdin leave   *)
(* the events and the requests alone.                                      *)
Ends == \E status \in {"ok", "error"} : Exit(status)

LEMMA Steps ==
    ASSUME [Next]_vars
    PROVE  \/ Startup /\ UNCHANGED <<config, stdin, events, http>>
           \/ Ends
           \/ UNCHANGED <<config, process, events, http>>
           \/ \E e \in Events, p \in Payloads : Emit(e, p)
           \/ \E e \in Events : Handler(e)
           \/ \E c \in Clients, header \in Headers : Request(c, header)
           \/ \E c \in Clients : Server(c)
<1>1. Startup => UNCHANGED <<config, stdin, events, http>>
  BY DEF Startup, Configure, OptionsOk, Getinfo, Bind, Start, Serve, Advance, config, events, http
<1>2. NoConfigure \/ OptionsBad \/ StartupFails \/ Join \/ Kill => Ends
  BY DEF NoConfigure, OptionsBad, StartupFails, Join, Kill, Ends
<1>3. CloseStdin \/ UNCHANGED vars => UNCHANGED <<config, process, events, http>>
  BY DEF CloseStdin, vars
<1>. QED  BY <1>1, <1>2, <1>3 DEF Next

(* What a step makes of the request of client c.                           *)
Becomes(c, stage, header, status, unread) ==
    /\ scrape' \in [Clients -> Records]
    /\ scrape'[c].stage = stage
    /\ scrape'[c].header = header
    /\ scrape'[c].status = status
    /\ scrape'[c].unread = unread
    /\ \A d \in Clients \ {c} : scrape'[d] = scrape[d]

LEMMA Edited ==
    ASSUME scrape \in [Clients -> Records], NEW c \in Clients, NEW new \in Records,
           scrape' = [scrape EXCEPT ![c] = new]
    PROVE  Becomes(c, new.stage, new.header, new.status, new.unread)
  BY DEF Becomes

LEMMA RequestBecomes ==
    ASSUME Types, NEW c \in Clients, NEW header \in Headers, Request(c, header)
    PROVE  Becomes(c, "sent", header, scrape[c].status, scrape[c].unread)
<1>. DEFINE new == [[scrape[c] EXCEPT !.stage = "sent"] EXCEPT !.header = header]
<1>1. scrape \in [Clients -> Records] /\ scrape[c] \in Records
  BY DEF Types
<1>2. /\ new \in Records
      /\ new.stage = "sent" /\ new.header = header
      /\ new.status = scrape[c].status /\ new.unread = scrape[c].unread
  BY <1>1 DEF Records, Stages
<1>3. scrape' = [scrape EXCEPT ![c] = new]
  BY <1>1 DEF Request
<1>. HIDE DEF new
<1>4. Becomes(c, new.stage, new.header, new.status, new.unread)
  BY <1>1, <1>2, <1>3, Edited
<1>. QED  BY <1>2, <1>4

LEMMA AnsweredBecomes ==
    ASSUME Types, NEW c \in Clients, NEW status \in {200, 401},
           scrape' = [scrape EXCEPT ![c].stage = "answered", ![c].status = status]
    PROVE  Becomes(c, "answered", scrape[c].header, status, scrape[c].unread)
<1>. DEFINE new == [[scrape[c] EXCEPT !.stage = "answered"] EXCEPT !.status = status]
<1>1. scrape \in [Clients -> Records] /\ scrape[c] \in Records
  BY DEF Types
<1>2. /\ new \in Records
      /\ new.stage = "answered" /\ new.header = scrape[c].header
      /\ new.status = status /\ new.unread = scrape[c].unread
  BY <1>1 DEF Records, Stages
<1>3. scrape' = [scrape EXCEPT ![c] = new]
  BY <1>1, <1>2
<1>. HIDE DEF new
<1>4. Becomes(c, new.stage, new.header, new.status, new.unread)
  BY <1>1, <1>2, <1>3, Edited
<1>. QED  BY <1>2, <1>4

LEMMA AdmitBecomes ==
    ASSUME Types, NEW c \in Clients, Admit(c)
    PROVE  Becomes(c, "gather", scrape[c].header, scrape[c].status, Metrics)
<1>. DEFINE new == [[scrape[c] EXCEPT !.stage = "gather"] EXCEPT !.unread = Metrics]
<1>1. scrape \in [Clients -> Records] /\ scrape[c] \in Records
  BY DEF Types
<1>2. /\ new \in Records
      /\ new.stage = "gather" /\ new.header = scrape[c].header
      /\ new.status = scrape[c].status /\ new.unread = Metrics
  BY <1>1 DEF Records, Stages
<1>3. scrape' = [scrape EXCEPT ![c] = new]
  BY <1>1 DEF Admit
<1>. HIDE DEF new
<1>4. Becomes(c, new.stage, new.header, new.status, new.unread)
  BY <1>1, <1>2, <1>3, Edited
<1>. QED  BY <1>2, <1>4

LEMMA GatherBecomes ==
    ASSUME Types, NEW c \in Clients, NEW m \in Metrics, Gather(c, m)
    PROVE  Becomes(c, "gather", scrape[c].header, scrape[c].status, scrape[c].unread \ {m})
<1>. DEFINE new == [scrape[c] EXCEPT !.unread = scrape[c].unread \ {m}]
<1>1. scrape \in [Clients -> Records] /\ scrape[c] \in Records
  BY DEF Types
<1>2. /\ new \in Records
      /\ new.stage = "gather" /\ new.header = scrape[c].header
      /\ new.status = scrape[c].status /\ new.unread = scrape[c].unread \ {m}
  BY <1>1 DEF Records, Gather
<1>3. scrape' = [scrape EXCEPT ![c] = new]
  BY <1>1 DEF Gather
<1>. HIDE DEF new
<1>4. Becomes(c, new.stage, new.header, new.status, new.unread)
  BY <1>1, <1>2, <1>3, Edited
<1>. QED  BY <1>2, <1>4

(* The end of the process drops the requests that were not answered.       *)
Dropped ==
    /\ scrape' \in [Clients -> Records]
    /\ \A c \in Clients :
         /\ scrape[c].stage \in {"sent", "gather"} => scrape'[c].stage = "dropped"
         /\ scrape[c].stage \notin {"sent", "gather"} => scrape'[c].stage = scrape[c].stage
         /\ scrape'[c].header = scrape[c].header
         /\ scrape'[c].status = scrape[c].status
         /\ scrape'[c].unread = scrape[c].unread

LEMMA EndDrops == ASSUME Types, NEW status, Exit(status) PROVE Dropped
<1>. DEFINE New(c) == [scrape[c] EXCEPT !.stage = "dropped"]
<1>1. ASSUME NEW c \in Clients
      PROVE  /\ scrape[c] \in Records /\ New(c) \in Records
             /\ New(c).stage = "dropped" /\ New(c).header = scrape[c].header
             /\ New(c).status = scrape[c].status /\ New(c).unread = scrape[c].unread
  <2>1. scrape[c] \in Records
    BY DEF Types
  <2>. QED  BY <2>1 DEF Records, Stages
<1>2. scrape' = [c \in Clients |->
                   IF scrape[c].stage \in {"sent", "gather"} THEN New(c) ELSE scrape[c]]
  BY DEF Exit
<1>. HIDE DEF New
<1>. QED  BY <1>1, <1>2 DEF Dropped

LEMMA TypesInit == Init => Types
<1>. SUFFICES ASSUME Init PROVE Types
  OBVIOUS
<1>1. token \subseteq RawTokens
  BY DEF Init
<1>2. task \in [Events -> Tasks] /\ payload \in [Events -> Payloads \cup {NoPayload}]
  BY DEF Init, Tasks
<1>3. counters \in [Series -> Nat] /\ shown \in [Clients -> [Series -> Nat]]
  BY DEF Init, Nothing
<1>4. scrape \in [Clients -> Records]
  BY DEF Init, Idle, Stages, Headers, Records
<1>5. before \in [Clients -> SUBSET Events]
  BY DEF Init
<1>. QED  BY <1>1, <1>2, <1>3, <1>4, <1>5 DEF Types

LEMMA TypesStep == Types /\ [Next]_vars => Types'
<1>. SUFFICES ASSUME Types, [Next]_vars PROVE Types'
  OBVIOUS
<1>1. ASSUME UNCHANGED <<config, events, http>> PROVE Types'
  BY <1>1 DEF Types, config, events, http
<1>2. CASE Ends
  <2>1. PICK status \in {"ok", "error"} : Exit(status)
    BY <1>2 DEF Ends
  <2>2. task' \in [Events -> Tasks]
    BY <2>1 DEF Types, Tasks, Exit
  <2>3. scrape' \in [Clients -> Records]
    BY <2>1, EndDrops DEF Dropped
  <2>. QED  BY <2>1, <2>2, <2>3 DEF Types, Exit, config
<1>3. ASSUME NEW e \in Events, NEW p \in Payloads, Emit(e, p) PROVE Types'
  BY <1>3 DEF Types, Tasks, Emit, config, http
<1>4. ASSUME NEW e \in Events, Handler(e) PROVE Types'
  <2>1. CASE Malformed(e)
    BY <2>1 DEF Types, Tasks, Malformed, config, http
  <2>2. CASE Count(e)
    <3>. DEFINE x == SeriesOf(payload[e])
    <3>0. counters' = [counters EXCEPT ![x] = counters[x] + 1]
      BY <2>2 DEF Count
    <3>. HIDE DEF x
    <3>1. counters' \in [Series -> Nat]
      <4>1. CASE x \in Series
        <5>1. counters[x] + 1 \in Nat
          BY <4>1 DEF Types
        <5>. QED  BY <3>0, <5>1 DEF Types
      <4>2. CASE x \notin Series
        BY <3>0, <4>2 DEF Types
      <4>. QED  BY <4>1, <4>2
    <3>. QED  BY <2>2, <3>1 DEF Types, Tasks, Count, config, http
  <2>3. CASE Reply(e)
    BY <2>3 DEF Types, Tasks, Reply, config, http
  <2>. QED  BY <1>4, <2>1, <2>2, <2>3 DEF Handler
<1>5. ASSUME NEW c \in Clients, NEW header \in Headers, Request(c, header) PROVE Types'
  <2>1. scrape' \in [Clients -> Records]
    BY <1>5, RequestBecomes DEF Becomes
  <2>. QED  BY <1>5, <2>1 DEF Types, Request, config, events
<1>6. ASSUME NEW c \in Clients, Server(c) PROVE Types'
  <2>1. CASE Refuse(c)
    <3>1. Becomes(c, "answered", scrape[c].header, 401, scrape[c].unread)
      BY <2>1, AnsweredBecomes DEF Refuse
    <3>. QED  BY <2>1, <3>1 DEF Types, Becomes, Refuse, config, events
  <2>2. CASE Admit(c)
    <3>1. scrape' \in [Clients -> Records]
      BY <2>2, AdmitBecomes DEF Becomes
    <3>. QED  BY <2>2, <3>1 DEF Types, Admit, config, events
  <2>3. ASSUME NEW m \in Metrics, Gather(c, m) PROVE Types'
    <3>1. scrape' \in [Clients -> Records]
      BY <2>3, GatherBecomes DEF Becomes
    <3>2. shown' \in [Clients -> [Series -> Nat]]
      BY <2>3 DEF Types, Gather
    <3>. QED  BY <2>3, <3>1, <3>2 DEF Types, Gather, config, events
  <2>4. CASE Answer(c)
    <3>1. Becomes(c, "answered", scrape[c].header, 200, scrape[c].unread)
      BY <2>4, AnsweredBecomes DEF Answer
    <3>. QED  BY <2>4, <3>1 DEF Types, Becomes, Answer, config, events
  <2>. QED  BY <1>6, <2>1, <2>2, <2>3, <2>4 DEF Server
<1>. QED  BY <1>1, <1>2, <1>3, <1>4, <1>5, <1>6, Steps

-----------------------------------------------------------------------------
(* Who is served: AuthInv is inductive, whatever the events do.            *)

LEMMA AuthInit == Init => AuthInv
  BY DEF Init, AuthInv, OptionsChecked, RequestsJudged, PastOptions, Idle

(* The checks of the options come first, and the port is open only while   *)
(* the process is past them.                                               *)
LEMMA OptionsStep == OptionsChecked /\ [Next]_vars => OptionsChecked'
<1>. SUFFICES ASSUME OptionsChecked, [Next]_vars PROVE OptionsChecked'
  OBVIOUS
<1>. USE DEF OptionsChecked, PastOptions
<1>1. ASSUME UNCHANGED <<config, main, auth, port>> PROVE OptionsChecked'
  BY <1>1 DEF config, MayServe
<1>2. CASE Startup /\ UNCHANGED <<config, stdin, events, http>>
  <2>1. MayServe' <=> MayServe
    BY <1>2 DEF MayServe, config
  <2>2. UNCHANGED token
    BY <1>2 DEF config
  <2>3. CASE Configure
    BY <2>3 DEF Configure, Advance
  <2>4. CASE OptionsOk
    BY <2>1, <2>2, <2>4 DEF OptionsOk, Advance
  <2>5. CASE Getinfo
    BY <2>1, <2>2, <2>5 DEF Getinfo, Advance
  <2>6. CASE Bind
    BY <2>1, <2>2, <2>6 DEF Bind, Advance
  <2>7. CASE Start
    BY <2>1, <2>2, <2>7 DEF Start
  <2>8. CASE Serve
    BY <2>1, <2>2, <2>8 DEF Serve, Serves, Advance
  <2>. QED  BY <1>2, <2>3, <2>4, <2>5, <2>6, <2>7, <2>8 DEF Startup
<1>3. CASE Ends
  BY <1>3 DEF Ends, Exit
<1>4. CASE UNCHANGED <<config, process, events, http>>
  BY <1>1, <1>4 DEF process
<1>5. ASSUME NEW e \in Events, NEW p \in Payloads, Emit(e, p) PROVE OptionsChecked'
  BY <1>1, <1>5 DEF Emit, process
<1>6. ASSUME NEW e \in Events, Handler(e) PROVE OptionsChecked'
  BY <1>1, <1>6 DEF Handler, Malformed, Count, Reply, process
<1>7. ASSUME NEW c \in Clients, NEW header \in Headers, Request(c, header) PROVE OptionsChecked'
  BY <1>1, <1>7 DEF Request, process
<1>8. ASSUME NEW c \in Clients, Server(c) PROVE OptionsChecked'
  BY <1>1, <1>8 DEF Server, Refuse, Admit, Gather, Answer, process
<1>. QED  BY <1>2, <1>3, <1>4, <1>5, <1>6, <1>7, <1>8, Steps

(* The middleware lets a request in when its header shows the operator's   *)
(* token, and refuses it only when it does not.                            *)
LEMMA AdmitJudges ==
    ASSUME Types, OptionsChecked, NEW c \in Clients, Admit(c)
    PROVE  Admitted(c)
<1>1. MayServe /\ auth = {Trim(t) : t \in token}
  BY DEF Admit, OptionsChecked
<1>2. token = {} => disableAuth
  BY <1>1 DEF MayServe
<1>3. ASSUME NEW t \in token PROVE Shows(c, Trim(t)) /\ Len(Trim(t)) >= MinTokenLen
  <2>1. Len(Trim(t)) >= MinTokenLen
    BY <1>1 DEF MayServe, LongEnough
  <2>2. is_authorized(scrape[c].header) /\ Trim(t) \in auth
    BY <1>1 DEF Admit
  <2>3. PICK b \in Bearers : scrape[c].header = Bearer(b)
    <3>1. scrape[c] \in Records
      BY DEF Types
    <3>2. scrape[c].header \in Headers
      BY <3>1 DEF Records
    <3>3. NoBearer.is # "bearer"
      BY DEF NoBearer
    <3>. QED  BY <2>2, <3>2, <3>3 DEF Headers, is_authorized
  <2>4. tokens_match(b, Trim(t))
    BY <2>2, <2>3 DEF is_authorized, Bearer
  <2>5. b \in Seq(Nat) /\ Trim(t) \in Seq(Nat)
    BY TokensAssumption, TrimType DEF Types
  <2>6. b = Trim(t)
    BY <2>4, <2>5, MatchIsEqual
  <2>. QED  BY <2>1, <2>3, <2>6 DEF Shows
<1>. QED  BY <1>2, <1>3 DEF Admitted

LEMMA RefuseJudges ==
    ASSUME Types, OptionsChecked, NEW c \in Clients, Refuse(c)
    PROVE  \E t \in token : ~Shows(c, Trim(t))
<1>1. auth = {Trim(t) : t \in token}
  BY DEF Refuse, OptionsChecked
<1>. SUFFICES ASSUME \A t \in token : Shows(c, Trim(t)) PROVE FALSE
  OBVIOUS
<1>2. token # {}
  BY <1>1 DEF Refuse
<1>3. ASSUME NEW t \in token
      PROVE  /\ scrape[c].header.is = "bearer"
             /\ tokens_match(scrape[c].header.token, Trim(t))
  <2>1. scrape[c].header = [is |-> "bearer", token |-> Trim(t)]
    BY DEF Shows, Bearer
  <2>2. Trim(t) \in Seq(Nat)
    BY TokensAssumption, TrimType DEF Types
  <2>3. tokens_match(Trim(t), Trim(t))
    BY <2>2, MatchIsEqual
  <2>. QED  BY <2>1, <2>3
<1>4. is_authorized(scrape[c].header)
  BY <1>1, <1>2, <1>3 DEF is_authorized
<1>. QED  BY <1>4 DEF Refuse

(* What was judged stays judged: of the same token, option and header.     *)
LEMMA StayJudged ==
    ASSUME RequestsJudged, UNCHANGED config,
           \A c \in Clients :
               \/ UNCHANGED scrape[c]
               \/ scrape'[c].status = 0 /\ scrape'[c].stage # "gather"
               \/ /\ scrape'[c].header = scrape[c].header
                  /\ scrape'[c].status = scrape[c].status
                  /\ scrape'[c].stage = "gather" => scrape[c].stage = "gather"
                  /\ scrape[c].stage = "answered" => scrape'[c].stage = "answered"
    PROVE  RequestsJudged'
  BY DEF RequestsJudged, Admitted, Shows, config

LEMMA JudgedStep == Types /\ AuthInv /\ [Next]_vars => RequestsJudged'
<1>. SUFFICES ASSUME Types, OptionsChecked, RequestsJudged, [Next]_vars PROVE RequestsJudged'
  BY DEF AuthInv
<1>1. ASSUME UNCHANGED <<config, http>> PROVE RequestsJudged'
  BY <1>1, StayJudged DEF http
<1>2. CASE Ends
  <2>1. PICK status \in {"ok", "error"} : Exit(status)
    BY <1>2 DEF Ends
  <2>2. Dropped
    BY <2>1, EndDrops
  <2>. QED  BY <2>1, <2>2, StayJudged DEF Exit, Dropped
<1>3. ASSUME NEW e \in Events, NEW p \in Payloads, Emit(e, p) PROVE RequestsJudged'
  BY <1>1, <1>3 DEF Emit
<1>4. ASSUME NEW e \in Events, Handler(e) PROVE RequestsJudged'
  BY <1>1, <1>4 DEF Handler, Malformed, Count, Reply
<1>5. ASSUME NEW c \in Clients, NEW header \in Headers, Request(c, header) PROVE RequestsJudged'
  <2>1. Becomes(c, "sent", header, scrape[c].status, scrape[c].unread)
    BY <1>5, RequestBecomes
  <2>2. scrape'[c].status = 0
    BY <1>5, <2>1 DEF RequestsJudged, Request, Becomes
  <2>. QED  BY <1>5, <2>1, <2>2, StayJudged DEF Request, Becomes
<1>6. ASSUME NEW c \in Clients, Server(c) PROVE RequestsJudged'
  <2>. DEFINE Judged(d) ==
         /\ scrape[d].stage = "gather" \/ scrape[d].status = 200 => Admitted(d)
         /\ scrape[d].status = 401 => \E t \in token : ~Shows(d, Trim(t))
         /\ scrape[d].status # 0 => scrape[d].stage = "answered"
  <2>1. UNCHANGED config
    BY <1>6 DEF Server, Refuse, Admit, Gather, Answer
  <2>2. ASSUME scrape'[c].header = scrape[c].header
        PROVE  /\ Admitted(c)' <=> Admitted(c)
               /\ \A t \in token : Shows(c, Trim(t))' <=> Shows(c, Trim(t))
    BY <2>1, <2>2 DEF Admitted, Shows, config
  <2>3. ASSUME Judged(c)', \A d \in Clients \ {c} : scrape'[d] = scrape[d]
        PROVE  RequestsJudged'
    <3>1. ASSUME NEW d \in Clients \ {c} PROVE Judged(d)'
      BY <2>1, <2>3 DEF RequestsJudged, Admitted, Shows, config
    <3>. QED  BY <2>3, <3>1 DEF RequestsJudged
  <2>4. Judged(c)
    BY DEF RequestsJudged
  <2>5. CASE Refuse(c)
    <3>1. Becomes(c, "answered", scrape[c].header, 401, scrape[c].unread)
      BY <2>5, AnsweredBecomes DEF Refuse
    <3>2. \E t \in token : ~Shows(c, Trim(t))
      BY <2>5, RefuseJudges
    <3>3. Judged(c)'
      BY <2>1, <2>2, <3>1, <3>2 DEF Becomes, config
    <3>. QED  BY <2>3, <3>1, <3>3 DEF Becomes
  <2>6. CASE Admit(c)
    <3>1. Becomes(c, "gather", scrape[c].header, scrape[c].status, Metrics)
      BY <2>6, AdmitBecomes
    <3>2. Admitted(c)
      BY <2>6, AdmitJudges
    <3>3. scrape[c].status = 0
      BY <2>4, <2>6 DEF Admit, Types, Records
    <3>4. Judged(c)'
      BY <2>2, <3>1, <3>2, <3>3 DEF Becomes
    <3>. QED  BY <2>3, <3>1, <3>4 DEF Becomes
  <2>7. ASSUME NEW m \in Metrics, Gather(c, m) PROVE RequestsJudged'
    <3>1. Becomes(c, "gather", scrape[c].header, scrape[c].status, scrape[c].unread \ {m})
      BY <2>7, GatherBecomes
    <3>2. Admitted(c) /\ scrape[c].status = 0
      BY <2>4, <2>7 DEF Gather
    <3>3. Judged(c)'
      BY <2>2, <3>1, <3>2 DEF Becomes
    <3>. QED  BY <2>3, <3>1, <3>3 DEF Becomes
  <2>8. CASE Answer(c)
    <3>1. Becomes(c, "answered", scrape[c].header, 200, scrape[c].unread)
      BY <2>8, AnsweredBecomes DEF Answer
    <3>2. Admitted(c)
      BY <2>4, <2>8 DEF Answer
    <3>3. Judged(c)'
      BY <2>2, <3>1, <3>2 DEF Becomes
    <3>. QED  BY <2>3, <3>1, <3>3 DEF Becomes
  <2>. QED  BY <1>6, <2>5, <2>6, <2>7, <2>8 DEF Server
<1>. QED  BY <1>1, <1>2, <1>3, <1>4, <1>5, <1>6, Steps

-----------------------------------------------------------------------------
(* What an answer counts: CountInv is inductive.                           *)

LEMMA CountInit == Init => CountInv
<1>. SUFFICES ASSUME Init PROVE CountInv
  OBVIOUS
<1>1. \A e \in Events : task[e] = "unsent"
  BY DEF Init
<1>2. {e \in Events : task[e] # "unsent"} = {} /\ Processed = {}
  BY <1>1 DEF Processed
<1>3. EventsFinite
  BY <1>1, <1>2, FS_EmptySet DEF EventsFinite
<1>4. ASSUME NEW s \in Series PROVE Cardinality(ProcessedIn(s)) = 0
  BY <1>2, FS_EmptySet DEF ProcessedIn
<1>5. CountersExact
  BY <1>1, <1>4 DEF CountersExact, Init, Nothing
<1>6. ExitEndsScrapes
  BY DEF ExitEndsScrapes, Init
<1>7. ShownBetween
  BY <1>4 DEF ShownBetween, Between, Read, Init, Nothing, Idle
<1>. QED  BY <1>3, <1>5, <1>6, <1>7 DEF CountInv

(* No event is taken back: it keeps its payload, it stays done, and it     *)
(* stays among those that may have been counted.                           *)
EventsKept ==
    /\ \A e \in Events : task[e] # "unsent" => task'[e] # "unsent" /\ payload'[e] = payload[e]
    /\ \A e \in Events : task[e] = "done" => task'[e] = "done"
    /\ Processed \subseteq Processed'

LEMMA EventsStep == Types /\ EventsFinite /\ [Next]_vars => EventsKept /\ EventsFinite'
<1>. SUFFICES ASSUME Types, EventsFinite, [Next]_vars PROVE EventsKept /\ EventsFinite'
  OBVIOUS
<1>. DEFINE Emitted == {e \in Events : task[e] # "unsent"}
<1>1. ASSUME UNCHANGED payload,
             \A e \in Events : task[e] = "unsent" <=> task'[e] = "unsent",
             \A e \in Events : task[e] = "done" => task'[e] = "done",
             Processed \subseteq Processed'
      PROVE  EventsKept /\ EventsFinite'
  <2>1. Emitted' = Emitted
    BY <1>1
  <2>. QED  BY <1>1, <2>1 DEF EventsKept, EventsFinite
<1>2. ASSUME UNCHANGED events PROVE EventsKept /\ EventsFinite'
  BY <1>2 DEF EventsKept, EventsFinite, Processed, events
<1>3. CASE Ends
  <2>1. PICK status \in {"ok", "error"} : Exit(status)
    BY <1>3 DEF Ends
  <2>2. \A e \in Events : task'[e] = IF task[e] \in {"spawned", "counted"} THEN "cancelled" ELSE task[e]
    BY <2>1 DEF Exit
  <2>. QED  BY <1>1, <2>1, <2>2 DEF Exit, Processed
<1>4. ASSUME NEW e \in Events, NEW p \in Payloads, Emit(e, p) PROVE EventsKept /\ EventsFinite'
  <2>1. task[e] = "unsent" /\ task' = [task EXCEPT ![e] = "spawned"]
    BY <1>4 DEF Emit
  <2>2. payload' = [payload EXCEPT ![e] = p]
    BY <1>4 DEF Emit
  <2>3. Emitted' = Emitted \cup {e}
    BY <2>1 DEF Types
  <2>4. IsFiniteSet(Emitted')
    BY <2>3, FS_AddElement DEF EventsFinite
  <2>5. \A f \in Events : task'[f] # "unsent" => payload'[f] \in Payloads
    BY <2>1, <2>2 DEF Types, EventsFinite
  <2>. QED  BY <2>1, <2>2, <2>4, <2>5 DEF Types, EventsKept, EventsFinite, Processed
<1>5. ASSUME NEW e \in Events, Handler(e) PROVE EventsKept /\ EventsFinite'
  <2>1. CASE Malformed(e)
    BY <1>1, <2>1 DEF Types, Malformed, Processed
  <2>2. CASE Count(e)
    BY <1>1, <2>2 DEF Types, Count, Processed
  <2>3. CASE Reply(e)
    BY <1>1, <2>3 DEF Types, Reply, Replies, Processed
  <2>. QED  BY <1>5, <2>1, <2>2, <2>3 DEF Handler
<1>6. ASSUME NEW c \in Clients, NEW header \in Headers, Request(c, header)
      PROVE  EventsKept /\ EventsFinite'
  BY <1>2, <1>6 DEF Request
<1>7. ASSUME NEW c \in Clients, Server(c) PROVE EventsKept /\ EventsFinite'
  BY <1>2, <1>7 DEF Server, Refuse, Admit, Gather, Answer
<1>. QED  BY <1>2, <1>3, <1>4, <1>5, <1>6, <1>7, Steps

(* So the number of events in a series is a number that only grows.        *)
LEMMA CountsAreNumbers ==
    ASSUME EventsFinite, NEW s
    PROVE  IsFiniteSet(ProcessedIn(s)) /\ Cardinality(ProcessedIn(s)) \in Nat
<1>1. ProcessedIn(s) \subseteq {e \in Events : task[e] # "unsent"}
  BY DEF ProcessedIn, Processed
<1>. QED  BY <1>1, FS_Subset, FS_CardinalityType DEF EventsFinite

LEMMA CountsGrow ==
    ASSUME EventsKept, EventsFinite', NEW s
    PROVE  /\ ProcessedIn(s) \subseteq ProcessedIn(s)'
           /\ Cardinality(ProcessedIn(s)) \in Nat
           /\ Cardinality(ProcessedIn(s))' \in Nat
           /\ Cardinality(ProcessedIn(s)) <= Cardinality(ProcessedIn(s))'
<1>1. ProcessedIn(s) \subseteq ProcessedIn(s)'
  BY DEF EventsKept, ProcessedIn, Processed
<1>2. ProcessedIn(s)' \subseteq {e \in Events : task'[e] # "unsent"}
  BY DEF ProcessedIn, Processed
<1>3. IsFiniteSet(ProcessedIn(s)')
  BY <1>2, FS_Subset DEF EventsFinite
<1>. QED  BY <1>1, <1>3, FS_Subset, FS_CardinalityType

(* A counter is increased with the event that it counts.                   *)
LEMMA CountersStep ==
    Types /\ EventsFinite /\ CountersExact /\ [Next]_vars => CountersExact'
<1>. SUFFICES ASSUME Types, EventsFinite, CountersExact, [Next]_vars PROVE CountersExact'
  OBVIOUS
<1>1. ASSUME main' # "exited" => main # "exited", UNCHANGED <<counters, payload>>,
             \A e \in Events : task'[e] = "cancelled" => task[e] = "cancelled",
             Processed' = Processed
      PROVE  CountersExact'
  <2>1. \A s \in Series : ProcessedIn(s)' = ProcessedIn(s)
    BY <1>1 DEF ProcessedIn
  <2>. QED  BY <1>1, <2>1 DEF CountersExact
<1>2. ASSUME main' # "exited" => main # "exited", UNCHANGED events PROVE CountersExact'
  BY <1>1, <1>2 DEF events, Processed
<1>3. CASE Startup /\ UNCHANGED <<config, stdin, events, http>>
  BY <1>2, <1>3 DEF Startup, Configure, OptionsOk, Getinfo, Bind, Start, Serve, Serves, Advance
<1>4. CASE Ends
  BY <1>4 DEF Ends, Exit, CountersExact
<1>5. CASE UNCHANGED <<config, process, events, http>>
  BY <1>2, <1>5 DEF process
<1>6. ASSUME NEW e \in Events, NEW p \in Payloads, Emit(e, p) PROVE CountersExact'
  <2>1. task[e] = "unsent" /\ task' = [task EXCEPT ![e] = "spawned"]
    BY <1>6 DEF Emit
  <2>2. payload' = [payload EXCEPT ![e] = p]
    BY <1>6 DEF Emit
  <2>3. Processed' = Processed /\ e \notin Processed
    BY <2>1 DEF Types, Processed
  <2>4. ASSUME NEW s \in Series PROVE ProcessedIn(s)' = ProcessedIn(s)
    BY <2>2, <2>3 DEF Types, ProcessedIn, Processed
  <2>5. UNCHANGED <<main, counters>>
    BY <1>6 DEF Emit, process
  <2>. QED  BY <2>1, <2>4, <2>5 DEF Types, CountersExact
<1>7. ASSUME NEW e \in Events, Handler(e) PROVE CountersExact'
  <2>1. CASE Malformed(e)
    BY <1>1, <2>1 DEF Types, Malformed, Processed, process
  <2>2. CASE Count(e)
    <3>. DEFINE x == SeriesOf(payload[e])
    <3>1. /\ task[e] = "spawned" /\ task' = [task EXCEPT ![e] = "counted"]
          /\ counters' = [counters EXCEPT ![x] = counters[x] + 1]
          /\ UNCHANGED <<main, payload>>
      BY <2>2 DEF Count, process
    <3>. HIDE DEF x
    <3>2. Processed' = Processed \cup {e} /\ e \notin Processed
      BY <3>1 DEF Types, Processed
    <3>3. ASSUME main # "exited", NEW s \in Series
          PROVE  counters'[s] = Cardinality(ProcessedIn(s)')
      <4>1. counters[s] = Cardinality(ProcessedIn(s))
        BY <3>3 DEF CountersExact
      <4>2. CASE s = x
        <5>1. ProcessedIn(s)' = ProcessedIn(s) \cup {e} /\ e \notin ProcessedIn(s)
          BY <3>1, <3>2, <4>2 DEF ProcessedIn, x
        <5>2. Cardinality(ProcessedIn(s)') = Cardinality(ProcessedIn(s)) + 1
          BY <5>1, CountsAreNumbers, FS_AddElement
        <5>. QED  BY <3>1, <4>1, <4>2, <5>2 DEF Types
      <4>3. CASE s # x
        <5>1. ProcessedIn(s)' = ProcessedIn(s)
          BY <3>1, <3>2, <4>3 DEF ProcessedIn, x
        <5>. QED  BY <3>1, <4>1, <4>3, <5>1 DEF Types
      <4>. QED  BY <4>2, <4>3
    <3>. QED  BY <3>1, <3>3 DEF Types, CountersExact
  <2>3. CASE Reply(e)
    BY <1>1, <2>3 DEF Types, Reply, Replies, Processed, process
  <2>. QED  BY <1>7, <2>1, <2>2, <2>3 DEF Handler
<1>8. ASSUME NEW c \in Clients, NEW header \in Headers, Request(c, header) PROVE CountersExact'
  BY <1>2, <1>8 DEF Request, process
<1>9. ASSUME NEW c \in Clients, Server(c) PROVE CountersExact'
  BY <1>2, <1>9 DEF Server, Refuse, Admit, Gather, Answer, process
<1>. QED  BY <1>3, <1>4, <1>5, <1>6, <1>7, <1>8, <1>9, Steps

LEMMA ExitStep ==
    Types /\ OptionsChecked /\ ExitEndsScrapes /\ [Next]_vars => ExitEndsScrapes'
<1>. SUFFICES ASSUME Types, OptionsChecked, ExitEndsScrapes, [Next]_vars,
                     main' = "exited", NEW c \in Clients
              PROVE  scrape'[c].stage \notin {"sent", "gather"}
  BY DEF ExitEndsScrapes
<1>1. ASSUME main = "exited", UNCHANGED scrape PROVE scrape'[c].stage \notin {"sent", "gather"}
  BY <1>1 DEF ExitEndsScrapes
<1>2. CASE Startup
  BY <1>2 DEF Startup, Configure, OptionsOk, Getinfo, Bind, Start, Serve, Advance
<1>3. CASE Ends
  <2>1. PICK status \in {"ok", "error"} : Exit(status)
    BY <1>3 DEF Ends
  <2>. QED  BY <2>1, EndDrops DEF Dropped
<1>4. CASE UNCHANGED <<config, process, events, http>>
  BY <1>1, <1>4 DEF process, http
<1>5. ASSUME NEW e \in Events, NEW p \in Payloads, Emit(e, p)
      PROVE  scrape'[c].stage \notin {"sent", "gather"}
  BY <1>1, <1>5 DEF Emit, process, http
<1>6. ASSUME NEW e \in Events, Handler(e) PROVE scrape'[c].stage \notin {"sent", "gather"}
  BY <1>1, <1>6 DEF Handler, Malformed, Count, Reply, process, http
<1>7. ASSUME NEW d \in Clients, NEW header \in Headers, Request(d, header) PROVE FALSE
  <2>1. port # "closed" /\ main = "exited"
    BY <1>7 DEF Request, process
  <2>. QED  BY <2>1 DEF OptionsChecked, PastOptions
<1>8. ASSUME NEW d \in Clients, Server(d) PROVE FALSE
  <2>1. main = "exited" /\ scrape[d].stage \in {"sent", "gather"}
    BY <1>8 DEF Server, Refuse, Admit, Gather, Answer, process
  <2>. QED  BY <2>1 DEF ExitEndsScrapes
<1>. QED  BY <1>2, <1>3, <1>4, <1>5, <1>6, <1>7, <1>8, Steps

(* A request keeps what it has read, while the events go on.               *)
LEMMA StayBetween ==
    ASSUME Types, EventsFinite, EventsKept, EventsFinite', NEW c \in Clients, Between(c),
           UNCHANGED <<shown[c], before[c]>>,
           \A s \in Series : Read(c, s)' => Read(c, s),
           scrape'[c].status = 200 => scrape'[c].unread = {}
    PROVE  Between(c)'
<1>1. \A e \in before[c] : e \in Events /\ task[e] = "done" /\ task'[e] = "done"
                          /\ payload'[e] = payload[e]
  BY DEF Types, Between, EventsKept
<1>2. ASSUME NEW s \in Series
      PROVE  /\ BeforeIn(c, s)' = BeforeIn(c, s)
             /\ shown'[c][s] <= Cardinality(ProcessedIn(s)')
  <2>1. BeforeIn(c, s)' = BeforeIn(c, s)
    BY <1>1 DEF BeforeIn
  <2>2. shown[c][s] \in Nat /\ shown[c][s] <= Cardinality(ProcessedIn(s))
    BY DEF Types, Between
  <2>3. /\ Cardinality(ProcessedIn(s)) <= Cardinality(ProcessedIn(s))'
        /\ Cardinality(ProcessedIn(s)) \in Nat /\ Cardinality(ProcessedIn(s))' \in Nat
    BY CountsGrow
  <2>4. shown'[c][s] = shown[c][s]
    OBVIOUS
  <2>. QED  BY <2>1, <2>2, <2>3, <2>4
<1>3. ASSUME NEW s \in Series, Read(c, s)' PROVE Cardinality(BeforeIn(c, s)') <= shown'[c][s]
  <2>1. Cardinality(BeforeIn(c, s)) <= shown[c][s]
    BY <1>3 DEF Between
  <2>. QED  BY <1>2, <2>1
<1>. QED  BY <1>1, <1>2, <1>3 DEF Between

(* What gather() reads now is not older than the request.                  *)
LEMMA ReadsAreCurrent ==
    ASSUME Types, EventsFinite, CountersExact, main # "exited", NEW c \in Clients, Between(c),
           NEW s \in Series
    PROVE  /\ counters[s] = Cardinality(ProcessedIn(s))
           /\ Cardinality(BeforeIn(c, s)) <= counters[s]
<1>1. BeforeIn(c, s) \subseteq ProcessedIn(s)
  BY DEF Types, Between, BeforeIn, ProcessedIn, Processed
<1>2. Cardinality(BeforeIn(c, s)) <= Cardinality(ProcessedIn(s))
  BY <1>1, CountsAreNumbers, FS_Subset
<1>. QED  BY <1>2 DEF CountersExact

LEMMA ShownStep ==
    Types /\ AuthInv /\ CountInv /\ [Next]_vars => ShownBetween'
<1>. SUFFICES ASSUME Types, AuthInv, CountInv, [Next]_vars, NEW c \in Clients
              PROVE  Between(c)'
  BY DEF ShownBetween
<1>0. /\ EventsFinite /\ EventsKept /\ EventsFinite'
      /\ CountersExact /\ ExitEndsScrapes /\ RequestsJudged /\ Between(c)
  BY EventsStep DEF CountInv, ShownBetween, AuthInv
<1>1. ASSUME UNCHANGED <<scrape[c], shown[c], before[c]>> PROVE Between(c)'
  <2>1. \A s \in Series : Read(c, s)' => Read(c, s)
    BY <1>1 DEF Read
  <2>2. scrape'[c].status = 200 => scrape'[c].unread = {}
    BY <1>0, <1>1 DEF Between
  <2>. QED  BY <1>0, <1>1, <2>1, <2>2, StayBetween
<1>2. CASE Ends
  <2>1. PICK status \in {"ok", "error"} : Exit(status)
    BY <1>2 DEF Ends
  <2>2. Dropped
    BY <2>1, EndDrops
  <2>3. \A s \in Series : Read(c, s)' => Read(c, s)
    BY <2>2 DEF Read, Dropped
  <2>4. scrape'[c].status = 200 => scrape'[c].unread = {}
    BY <1>0, <2>2 DEF Between, Dropped
  <2>5. UNCHANGED <<shown[c], before[c]>>
    BY <2>1 DEF Exit
  <2>. QED  BY <1>0, <2>3, <2>4, <2>5, StayBetween
<1>3. ASSUME UNCHANGED http PROVE Between(c)'
  BY <1>1, <1>3 DEF http
<1>4. ASSUME NEW e \in Events, NEW p \in Payloads, Emit(e, p) PROVE Between(c)'
  BY <1>3, <1>4 DEF Emit
<1>5. ASSUME NEW e \in Events, Handler(e) PROVE Between(c)'
  BY <1>3, <1>5 DEF Handler, Malformed, Count, Reply
<1>6. ASSUME NEW d \in Clients, NEW header \in Headers, Request(d, header) PROVE Between(c)'
  <2>1. Becomes(d, "sent", header, scrape[d].status, scrape[d].unread)
    BY <1>6, RequestBecomes
  <2>2. CASE d # c
    BY <1>1, <1>6, <2>1, <2>2 DEF Request, Becomes, Types
  <2>3. CASE d = c
    <3>1. scrape'[c].stage = "sent" /\ scrape'[c].status = 0
      BY <1>0, <1>6, <2>1, <2>3 DEF Becomes, Request, RequestsJudged
    <3>2. before'[c] = {e \in Events : task[e] = "done"} /\ UNCHANGED <<shown, events>>
      BY <1>6, <2>3 DEF Request, Types
    <3>3. \A s \in Series : ~Read(c, s)'
      BY <3>1 DEF Read
    <3>4. ASSUME NEW s \in Series PROVE shown'[c][s] <= Cardinality(ProcessedIn(s)')
      <4>1. ProcessedIn(s)' = ProcessedIn(s)
        BY <3>2 DEF ProcessedIn, Processed, events
      <4>. QED  BY <1>0, <3>2, <4>1 DEF Between
    <3>5. \A e \in before'[c] : task'[e] = "done"
      BY <3>2 DEF events
    <3>. QED  BY <3>1, <3>3, <3>4, <3>5 DEF Between
  <2>. QED  BY <2>2, <2>3
<1>7. ASSUME NEW d \in Clients, Server(d) PROVE Between(c)'
  <2>1. CASE Refuse(d)
    <3>1. Becomes(d, "answered", scrape[d].header, 401, scrape[d].unread)
      BY <2>1, AnsweredBecomes DEF Refuse
    <3>2. UNCHANGED <<shown, before>>
      BY <2>1 DEF Refuse
    <3>3. CASE d # c
      BY <1>1, <3>1, <3>2, <3>3 DEF Becomes
    <3>4. CASE d = c
      <4>1. \A s \in Series : ~Read(c, s)'
        BY <3>1, <3>4 DEF Becomes, Read
      <4>. QED  BY <1>0, <3>1, <3>2, <3>4, <4>1, StayBetween DEF Becomes
    <3>. QED  BY <3>3, <3>4
  <2>2. CASE Admit(d)
    <3>1. Becomes(d, "gather", scrape[d].header, scrape[d].status, Metrics)
      BY <2>2, AdmitBecomes
    <3>2. UNCHANGED <<shown, before>>
      BY <2>2 DEF Admit
    <3>3. CASE d # c
      BY <1>1, <3>1, <3>2, <3>3 DEF Becomes
    <3>4. CASE d = c
      <4>1. \A s \in Series : s[1] \in Metrics
        BY DEF Series, SeriesOf, Metrics
      <4>2. \A s \in Series : ~Read(c, s)'
        BY <3>1, <3>4, <4>1 DEF Becomes, Read
      <4>3. scrape'[c].status # 200
        BY <1>0, <2>2, <3>1, <3>4 DEF Becomes, Admit, RequestsJudged
      <4>. QED  BY <1>0, <3>2, <4>2, <4>3, StayBetween
    <3>. QED  BY <3>3, <3>4
  <2>3. ASSUME NEW m \in Metrics, Gather(d, m) PROVE Between(c)'
    <3>1. Becomes(d, "gather", scrape[d].header, scrape[d].status, scrape[d].unread \ {m})
      BY <2>3, GatherBecomes
    <3>2. UNCHANGED <<before, events>>
      BY <2>3 DEF Gather
    <3>3. CASE d # c
      <4>1. shown'[c] = shown[c]
        BY <2>3, <3>3 DEF Gather, Types
      <4>. QED  BY <1>1, <3>1, <3>2, <3>3, <4>1 DEF Becomes
    <3>4. CASE d = c
      <4>1. scrape[c].stage = "gather" /\ scrape[c].status = 0
        BY <1>0, <2>3, <3>4 DEF Gather, RequestsJudged
      <4>2. main # "exited"
        BY <1>0, <4>1 DEF ExitEndsScrapes
      <4>3. \A s \in Series : shown'[c][s] = IF s[1] = m THEN counters[s] ELSE shown[c][s]
        BY <2>3, <3>4 DEF Gather, Types
      <4>4. /\ scrape'[c].stage = "gather" /\ scrape'[c].status = 0
            /\ scrape'[c].unread = scrape[c].unread \ {m}
        BY <3>1, <3>4, <4>1 DEF Becomes
      <4>5. ASSUME NEW s \in Series
            PROVE  /\ ProcessedIn(s)' = ProcessedIn(s)
                   /\ BeforeIn(c, s)' = BeforeIn(c, s)
                   /\ counters[s] = Cardinality(ProcessedIn(s))
                   /\ Cardinality(BeforeIn(c, s)) <= counters[s]
        BY <1>0, <3>2, <4>2, ReadsAreCurrent DEF ProcessedIn, Processed, BeforeIn, events
      <4>6. ASSUME NEW s \in Series PROVE shown'[c][s] <= Cardinality(ProcessedIn(s)')
        <5>1. CASE s[1] = m
          BY <1>0, <4>3, <4>5, <5>1, CountsAreNumbers
        <5>2. CASE s[1] # m
          BY <1>0, <4>3, <4>5, <5>2 DEF Between
        <5>. QED  BY <5>1, <5>2
      <4>7. ASSUME NEW s \in Series, Read(c, s)' PROVE Cardinality(BeforeIn(c, s)') <= shown'[c][s]
        <5>1. CASE s[1] = m
          BY <4>3, <4>5, <5>1
        <5>2. CASE s[1] # m
          <6>1. Read(c, s)
            BY <4>1, <4>4, <4>7, <5>2 DEF Read
          <6>. QED  BY <1>0, <4>3, <4>5, <5>2, <6>1 DEF Between
        <5>. QED  BY <5>1, <5>2
      <4>8. \A e \in before'[c] : task'[e] = "done"
        BY <1>0, <3>2 DEF Between, events
      <4>. QED  BY <4>4, <4>6, <4>7, <4>8 DEF Between
    <3>. QED  BY <3>3, <3>4
  <2>4. CASE Answer(d)
    <3>1. Becomes(d, "answered", scrape[d].header, 200, scrape[d].unread)
      BY <2>4, AnsweredBecomes DEF Answer
    <3>2. UNCHANGED <<shown, before>>
      BY <2>4 DEF Answer
    <3>3. CASE d # c
      BY <1>1, <3>1, <3>2, <3>3 DEF Becomes
    <3>4. CASE d = c
      <4>1. scrape[c].stage = "gather" /\ scrape[c].unread = {}
        BY <2>4, <3>4 DEF Answer
      <4>2. \A s \in Series : Read(c, s)
        BY <4>1 DEF Read
      <4>3. scrape'[c].unread = {}
        BY <3>1, <3>4, <4>1 DEF Becomes
      <4>. QED  BY <1>0, <3>2, <4>2, <4>3, StayBetween
    <3>. QED  BY <3>3, <3>4
  <2>. QED  BY <1>7, <2>1, <2>2, <2>3, <2>4 DEF Server
<1>. QED  BY <1>2, <1>3, <1>4, <1>5, <1>6, <1>7, Steps

-----------------------------------------------------------------------------
(* The inductive invariant of the startup, the events and the scrapes.     *)
THEOREM Invariance == Spec => []ServerInv
<1>1. Init => ServerInv
  BY TypesInit, AuthInit, CountInit DEF ServerInv
<1>2. ServerInv /\ [Next]_vars => ServerInv'
  <2>. SUFFICES ASSUME ServerInv, [Next]_vars PROVE ServerInv'
    OBVIOUS
  <2>1. Types'
    BY TypesStep DEF ServerInv
  <2>2. AuthInv'
    BY OptionsStep, JudgedStep DEF ServerInv, AuthInv
  <2>3. CountInv'
    BY EventsStep, CountersStep, ExitStep, ShownStep DEF ServerInv, AuthInv, CountInv
  <2>. QED  BY <2>1, <2>2, <2>3 DEF ServerInv
<1>. QED  BY <1>1, <1>2, PTL DEF Spec

(* Metrics are served without a token only when the operator gave none and *)
(* disabled authentication; given one, exactly the requests that show it   *)
(* without the white space around it are served: for any tokens, whatever  *)
(* clients send and when.                                                  *)
THEOREM ServedByChoice == Spec => []AccessIsChosen
<1>1. ServerInv => AccessIsChosen
  BY DEF ServerInv, AuthInv, RequestsJudged, Admitted, AccessIsChosen, Served
<1>. QED  BY <1>1, Invariance, PTL

(* An answer has every event that was handled before the request was made, *)
(* and none that was not counted, for any number of events and scrapes     *)
(* that overlap in any way.                                                *)
THEOREM ScrapesAreCurrent == Spec => []ScrapeIsCurrent
<1>1. ServerInv => ScrapeIsCurrent
  <2>. SUFFICES ASSUME ServerInv, NEW c \in Clients, Served(c), NEW s \in Series
                PROVE  /\ InSeries(before[c], s) <= shown[c][s]
                       /\ shown[c][s] <= InSeries({e \in Events : task[e] \notin {"unsent", "error"}}, s)
    BY DEF ScrapeIsCurrent
  <2>. DEFINE sent == {e \in Events : task[e] # "unsent"}
              known == {e \in Events : task[e] \notin {"unsent", "error"}}
              knownIn == {e \in known : SeriesOf(payload[e]) = s}
  <2>0. Types /\ EventsFinite /\ Between(c)
    BY DEF ServerInv, CountInv, ShownBetween
  <2>1. Read(c, s)
    BY <2>0 DEF Read, Served, Between
  <2>2. InSeries(before[c], s) <= shown[c][s]
    BY <2>0, <2>1 DEF Between, InSeries, BeforeIn
  <2>3. ProcessedIn(s) \subseteq knownIn /\ knownIn \subseteq sent
    BY DEF ProcessedIn, Processed
  <2>4. Cardinality(ProcessedIn(s)) <= Cardinality(knownIn)
    BY <2>0, <2>3, FS_Subset DEF EventsFinite
  <2>5. Cardinality(ProcessedIn(s)) \in Nat /\ Cardinality(knownIn) \in Nat
    BY <2>0, <2>3, FS_Subset, FS_CardinalityType, CountsAreNumbers DEF EventsFinite
  <2>6. shown[c][s] \in Nat /\ shown[c][s] <= Cardinality(ProcessedIn(s))
    BY <2>0 DEF Types, Between
  <2>7. shown[c][s] <= Cardinality(knownIn)
    BY <2>4, <2>5, <2>6
  <2>8. Cardinality(knownIn) = InSeries(known, s)
    BY DEF InSeries
  <2>. QED  BY <2>2, <2>7, <2>8
<1>. QED  BY <1>1, Invariance, PTL
=============================================================================
