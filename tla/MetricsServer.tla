---------------------------- MODULE MetricsServer ----------------------------
(***************************************************************************)
(* The metrics plugin around its cache: the startup with its choice of     *)
(* authentication, the event counters, and the HTTP server whose scrapes   *)
(* read them (main.rs, events.rs, metrics.rs).  The cache and its refresh  *)
(* task are the subject of MetricsRefresh.                                 *)
(*                                                                         *)
(* A token is a sequence of bytes, and an optional one a set of at most    *)
(* one.  The handlers of notifications and of the htlc_accepted hook are   *)
(* tasks of their own, and so are scrapes; a scrape reads one metric after *)
(* another, in no particular order.                                        *)
(***************************************************************************)
EXTENDS Naturals, Sequences, FiniteSets

CONSTANTS
    Events,             \* notifications and hook calls
    Payloads,           \* what they may carry: [metric, label, wellFormed]
    Clients,            \* scrapes
    RawTokens,          \* values of METRICS_TOKEN
    Bearers,            \* the tokens clients send
    Space,              \* the byte that is whitespace
    MinTokenLen         \* MIN_TOKEN_LEN

ASSUME TokensAssumption == RawTokens \cup Bearers \subseteq Seq(Nat)

VARIABLES
    token, disableAuth, \* METRICS_TOKEN and metrics-disable-auth
    main,               \* where main() stands
    told,               \* CLN was told that the plugin has started
    code,               \* exit status
    auth,               \* the token that requests have to show, if any
    port,               \* the listener: "closed", "bound" or "served"
    stdin,              \* CLN keeps the plugin's stdin open
    task, payload,      \* the handlers
    counters,           \* EventCounters
    scrape,             \* the requests
    shown,              \* the counters in the answer
    before              \* history: events done when the request was made

config  == <<token, disableAuth>>
process == <<main, told, code, auth, port>>
events  == <<task, payload, counters>>
http    == <<scrape, shown, before>>
vars    == <<config, process, stdin, events, http>>

-----------------------------------------------------------------------------
Hook == "htlc_accepted_total"
Metrics == {p.metric : p \in Payloads}
NoPayload == [metric |-> "none", label |-> "", wellFormed |-> FALSE]

(* The metric and the label that an event counts under.                    *)
SeriesOf(p) == <<p.metric, p.label>>
Series == {SeriesOf(p) : p \in Payloads}

(* The Authorization header: a bearer token, or none, one that is not      *)
(* text, or of another scheme.                                             *)
Bearer(b) == [is |-> "bearer", token |-> b]
NoBearer == [is |-> "other", token |-> <<>>]
Headers == {NoBearer} \cup {Bearer(b) : b \in Bearers}

Idle == [stage |-> "idle", header |-> NoBearer, status |-> 0, unread |-> {}]
Nothing == [s \in Series |-> 0]

Init ==
    /\ token \in {{}} \cup {{t} : t \in RawTokens}
    /\ disableAuth \in BOOLEAN
    /\ main = "configure"
    /\ told = FALSE
    /\ code = "none"
    /\ auth = {}
    /\ port = "closed"
    /\ stdin = TRUE
    /\ task = [e \in Events |-> "unsent"]
    /\ payload = [e \in Events |-> NoPayload]
    /\ counters = Nothing
    /\ scrape = [c \in Clients |-> Idle]
    /\ shown = [c \in Clients |-> Nothing]
    /\ before = [c \in Clients |-> {}]

-----------------------------------------------------------------------------
(* Startup.                                                                *)

(* The end of the process closes the port and drops every task.            *)
Exit(status) ==
    /\ main' = "exited"
    /\ code' = status
    /\ port' = "closed"
    /\ task' = [e \in Events |-> IF task[e] \in {"spawned", "counted"} THEN "cancelled" ELSE task[e]]
    /\ scrape' = [c \in Clients |->
                    IF scrape[c].stage \in {"sent", "gather"}
                    THEN [scrape[c] EXCEPT !.stage = "dropped"] ELSE scrape[c]]
    /\ UNCHANGED <<config, told, auth, stdin, payload, counters, shown, before>>

Advance(from, to) ==
    /\ main = from
    /\ main' = to
    /\ UNCHANGED <<config, code, stdin, events, http>>

(* CLN shuts down during the configuration, or configures the plugin.      *)
NoConfigure == main = "configure" /\ Exit("ok")
Configure == Advance("configure", "options") /\ UNCHANGED <<told, auth, port>>

Trim(raw) ==
    LET solid == {i \in DOMAIN raw : raw[i] # Space}
    IN  IF solid = {} THEN <<>>
        ELSE SubSeq(raw, CHOOSE i \in solid : \A j \in solid : i <= j,
                         CHOOSE i \in solid : \A j \in solid : j <= i)

(* A token has to be a good one, also when authentication is disabled; to  *)
(* do without is an explicit choice.                                       *)
LongEnough(raw) == Len(Trim(raw)) >= MinTokenLen

MayServe == IF token = {} THEN disableAuth ELSE \A t \in token : LongEnough(t)

OptionsOk ==
    /\ MayServe
    /\ Advance("options", "getinfo")
    /\ auth' = {Trim(t) : t \in token}
    /\ UNCHANGED <<told, port>>

(* Exits with an error: an address that is missing or malformed, the       *)
(* token; getinfo; the bind; the answer to CLN.  A failed startup does not *)
(* answer CLN at all.                                                      *)
OptionsBad == main = "options" /\ Exit("error")
StartupFails == main \in {"getinfo", "bind", "start"} /\ Exit("error")

Getinfo == Advance("getinfo", "bind") /\ UNCHANGED <<told, auth, port>>

Bind == Advance("bind", "start") /\ port' = "bound" /\ UNCHANGED <<told, auth>>

(* CLN sends events as soon as it is told that the plugin has started.     *)
Start ==
    /\ main = "start"
    /\ main' = "serve"
    /\ told' = TRUE
    /\ UNCHANGED <<config, code, auth, port, stdin, events, http>>

(* The server is spawned before main waits for the end; clients that were  *)
(* connected by then are accepted.                                         *)
ServesAtEnd == ~stdin
Serves == main = "serve"

Serve == Serves /\ Advance("serve", "running") /\ port' = "served" /\ UNCHANGED <<told, auth>>

(* join() returns when CLN closes stdin.                                   *)
Join == main = "running" /\ ~stdin /\ Exit("ok")
Kill == main # "exited" /\ Exit("error")

CloseStdin ==
    /\ told /\ stdin
    /\ stdin' = FALSE
    /\ UNCHANGED <<config, process, events, http>>

Startup == Configure \/ OptionsOk \/ Getinfo \/ Bind \/ Start \/ Serve

-----------------------------------------------------------------------------
(* Events.                                                                 *)

Emit(e, p) ==
    /\ told /\ stdin /\ main # "exited"
    /\ task[e] = "unsent"
    /\ task' = [task EXCEPT ![e] = "spawned"]
    /\ payload' = [payload EXCEPT ![e] = p]
    /\ UNCHANGED <<config, process, stdin, counters, http>>

(* forward_event and channel_state_changed are deserialised, the other two *)
(* do not look at what they get.                                           *)
ParsesEverything(p) == TRUE
Parses(p) == p.metric \in {"forward_events_total", "channel_state_changes_total"}

Malformed(e) ==
    /\ task[e] = "spawned"
    /\ Parses(payload[e]) /\ ~payload[e].wellFormed
    /\ task' = [task EXCEPT ![e] = "error"]
    /\ UNCHANGED <<config, process, stdin, payload, counters, http>>

Count(e) ==
    /\ task[e] = "spawned"
    /\ Parses(payload[e]) => payload[e].wellFormed
    /\ counters' = [counters EXCEPT ![SeriesOf(payload[e])] = @ + 1]
    /\ task' = [task EXCEPT ![e] = "counted"]
    /\ UNCHANGED <<config, process, stdin, payload, http>>

(* The handler returns; the hook's answer is `continue'.                   *)
RepliesEarly(e) == task[e] \in {"spawned", "counted"}
Replies(e) == task[e] = "counted"

Reply(e) ==
    /\ Replies(e)
    /\ task' = [task EXCEPT ![e] = "done"]
    /\ UNCHANGED <<config, process, stdin, payload, counters, http>>

Handler(e) == Malformed(e) \/ Count(e) \/ Reply(e)

-----------------------------------------------------------------------------
(* Scrapes.                                                                *)

(* The bytes are compared in pairs, as far as the shorter one goes: the    *)
(* code's `or' of their differences is zero when there is none.            *)
tokens_match_zip(provided, expected) ==
    \A i \in DOMAIN provided \cap DOMAIN expected : provided[i] = expected[i]
tokens_match(provided, expected) ==
    /\ Len(provided) = Len(expected)
    /\ \A i \in DOMAIN provided \cap DOMAIN expected : provided[i] = expected[i]

is_authorized(header) ==
    header.is = "bearer" /\ \A t \in auth : tokens_match(header.token, t)

(* A client connects as soon as the port is bound.                         *)
Request(c, header) ==
    /\ port # "closed"
    /\ scrape[c].stage = "idle"
    /\ scrape' = [scrape EXCEPT ![c].stage = "sent", ![c].header = header]
    /\ before' = [before EXCEPT ![c] = {e \in Events : task[e] = "done"}]
    /\ UNCHANGED <<config, process, stdin, events, shown>>

(* require_bearer_token is there only when there is a token.               *)
Refuse(c) ==
    /\ port = "served"
    /\ scrape[c].stage = "sent"
    /\ auth # {} /\ ~is_authorized(scrape[c].header)
    /\ scrape' = [scrape EXCEPT ![c].stage = "answered", ![c].status = 401]
    /\ UNCHANGED <<config, process, stdin, events, shown, before>>

Admit(c) ==
    /\ port = "served"
    /\ scrape[c].stage = "sent"
    /\ auth # {} => is_authorized(scrape[c].header)
    /\ scrape' = [scrape EXCEPT ![c].stage = "gather", ![c].unread = Metrics]
    /\ UNCHANGED <<config, process, stdin, events, shown, before>>

(* gather() collects the next metric; the answer follows the last one.     *)
Gather(c, m) ==
    /\ scrape[c].stage = "gather"
    /\ m \in scrape[c].unread
    /\ scrape' = [scrape EXCEPT ![c].unread = @ \ {m}]
    /\ shown' = [shown EXCEPT ![c] =
                   [s \in Series |-> IF s[1] = m THEN counters[s] ELSE @[s]]]
    /\ UNCHANGED <<config, process, stdin, events, before>>

Answer(c) ==
    /\ scrape[c].stage = "gather"
    /\ scrape[c].unread = {}
    /\ scrape' = [scrape EXCEPT ![c].stage = "answered", ![c].status = 200]
    /\ UNCHANGED <<config, process, stdin, events, shown, before>>

Server(c) == Refuse(c) \/ Admit(c) \/ (\E m \in Metrics : Gather(c, m)) \/ Answer(c)

-----------------------------------------------------------------------------
Next ==
    \/ Startup \/ NoConfigure \/ OptionsBad \/ StartupFails
    \/ Join \/ Kill \/ CloseStdin
    \/ \E e \in Events : (\E p \in Payloads : Emit(e, p)) \/ Handler(e)
    \/ \E c \in Clients : (\E header \in Headers : Request(c, header)) \/ Server(c)

Spec == Init /\ [][Next]_vars

(* The runtime polls what can run, startup included; nothing makes CLN or  *)
(* a client act, or the process end.                                       *)
FairSpec ==
    /\ Spec
    /\ WF_vars(Startup) /\ WF_vars(Join)
    /\ \A e \in Events : WF_vars(Handler(e))
    /\ \A c \in Clients : WF_vars(Server(c))

-----------------------------------------------------------------------------
(* Properties.                                                             *)

Served(c) == scrape[c].status = 200
Shows(c, t) == scrape[c].header = Bearer(t)

(* Metrics are served without a token only when the operator gave none and *)
(* disabled authentication; given one, exactly the requests that show it,  *)
(* without the white space around it, are served.                          *)
AccessIsChosen ==
    \A c \in Clients :
        /\ Served(c) /\ token = {} => disableAuth
        /\ \A t \in token : Served(c) => Shows(c, Trim(t)) /\ Len(Trim(t)) >= MinTokenLen
        /\ scrape[c].status = 401 => \E t \in token : ~Shows(c, Trim(t))

InSeries(es, s) == Cardinality({e \in es : SeriesOf(payload[e]) = s})

(* An answer has every event that was handled before the request was made, *)
(* such as an HTLC that CLN was told to continue with, and nothing that    *)
(* was not counted; events in between may show in one series and not yet   *)
(* in another.                                                             *)
ScrapeIsCurrent ==
    \A c \in Clients : Served(c) => \A s \in Series :
        /\ InSeries(before[c], s) <= shown[c][s]
        /\ shown[c][s] <= InSeries({e \in Events : task[e] \notin {"unsent", "error"}}, s)

(* Every HTLC is let continue whatever CLN sends with it, unless the       *)
(* plugin ends: the hook does not end in an error, which would fail the    *)
(* HTLC.                                                                   *)
HtlcsContinue ==
    \A e \in Events :
        task[e] = "spawned" /\ payload[e].metric = Hook ~> task[e] = "done" \/ main = "exited"

(* A client that connected is answered, also one that came between bind    *)
(* and serve, unless the plugin ends.                                      *)
ScrapesAnswered ==
    \A c \in Clients : scrape[c].stage = "sent" ~> scrape[c].stage \in {"answered", "dropped"}
=============================================================================
