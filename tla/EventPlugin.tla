---------------------------- MODULE EventPlugin ----------------------------
(***************************************************************************)
(* The event plugin: one process that CLN starts, that forwards CLN's      *)
(* notifications to a RabbitMQ exchange and that shuts down when CLN       *)
(* closes its standard input.                                              *)
(*                                                                         *)
(* Three parties act.  `main' is the body of main() in event-plugin/src/   *)
(* main.rs, from the handshake to the AMQP close; every notification is    *)
(* handled by a task of its own (on_event in events.rs, publish_bytes in   *)
(* broker.rs); CLN and the broker are the environment.  The tasks and main *)
(* share the slot Arc<RwLock<Option<Channel>>>: a task holds the read      *)
(* guard over both awaits of basic_publish, main takes the write lock to   *)
(* empty the slot before it closes the connection.                         *)
(*                                                                         *)
(* Publisher confirms are off and `mandatory' is false, so the result of a *)
(* publish says only that the frame was handed to the connection.          *)
(*                                                                         *)
(* Nothing is persisted: a restart of the plugin is a fresh Init.          *)
(***************************************************************************)
EXTENDS Naturals, Sequences, Functions

CONSTANT Events         \* the notifications CLN emits in one life of the plugin

VARIABLES
    main,               \* where main() stands
    answer,             \* what CLN was told in the handshake
    code,               \* the exit status of the process
    slot,               \* the slot holds Some(channel)
    conn,               \* the AMQP connection
    bound,              \* the broker routes the exchange to the queue (external)
    stdin,              \* CLN keeps the plugin's standard input open
    inbox,              \* notifications written to stdin, not yet dispatched
    h,                  \* the state of the handler of each notification
    wire,               \* frames handed to the connection, not yet at the broker
    queue,              \* the queue the consumer reads
    logged,             \* publishes that failed with a line at ERROR level
    warnDue,            \* CLN has a log line to turn into a `warning'
    warnPiped,          \* a `warning' notification waits for on_event
    before              \* history: the publishes that had succeeded when e was emitted

cln    == <<stdin, inbox, warnPiped, before>>
broker == <<wire, queue, bound>>
vars   == <<main, answer, code, slot, conn, bound, stdin, inbox, h, wire, queue,
            logged, warnDue, warnPiped, before>>

-----------------------------------------------------------------------------
Startup  == {"configure", "options", "getinfo", "sourceKind", "connect",
             "declare", "start"}
Places   == Startup \cup {"running", "clear", "close", "exited"}
Answers  == {"none", "disabled", "started"}
Codes    == {"none", "ok", "error"}
Conns    == {"none", "up", "broken", "closed"}

(* A handler before it hands its frame over, while it holds the read       *)
(* guard, and after the end of its task.                                   *)
Early    == {"unsent", "piped", "ready", "guard"}
Reading  == {"guard", "sent"}
Finished == {"ok", "err", "cancelled"}
Stages   == Early \cup Reading \cup Finished

TypeOK ==
    /\ main \in Places
    /\ answer \in Answers
    /\ code \in Codes
    /\ slot \in BOOLEAN
    /\ conn \in Conns
    /\ bound \in BOOLEAN
    /\ stdin \in BOOLEAN
    /\ inbox \in Seq(Events)
    /\ h \in [Events -> Stages]
    /\ wire \in Seq(Events)
    /\ queue \in Seq(Events)
    /\ logged \subseteq Events
    /\ warnDue \in BOOLEAN
    /\ warnPiped \in BOOLEAN
    /\ before \in [Events -> SUBSET Events]

Init ==
    /\ main = "configure"
    /\ answer = "none"
    /\ code = "none"
    /\ slot = FALSE
    /\ conn = "none"
    /\ bound \in BOOLEAN
    /\ stdin = TRUE
    /\ inbox = <<>>
    /\ h = [e \in Events |-> "unsent"]
    /\ wire = <<>>
    /\ queue = <<>>
    /\ logged = {}
    /\ warnDue = FALSE
    /\ warnPiped = FALSE
    /\ before = [e \in Events |-> {}]

-----------------------------------------------------------------------------
(* The end of the process: tasks that have not finished are dropped with   *)
(* the runtime, and so is a connection that was not closed.                *)

Cancelled(hs) ==
    [e \in Events |-> IF hs[e] \in {"ready", "guard", "sent"} THEN "cancelled" ELSE hs[e]]

Dropped(c) == IF c = "up" THEN "broken" ELSE c

Exit(status) ==
    /\ main' = "exited"
    /\ code' = status
    /\ h' = Cancelled(h)
    /\ conn' = Dropped(conn)

-----------------------------------------------------------------------------
(* Startup.                                                                *)

Advance(from, to) ==
    /\ main = from
    /\ main' = to
    /\ UNCHANGED <<answer, code, h, logged, warnDue, cln, broker>>

(* A startup step that fails, whether CLN is answered `disable' before the *)
(* process ends, and with which status it ends.                            *)
GiveUp(from, told, status) ==
    /\ main = from
    /\ answer' = told
    /\ Exit(status)
    /\ UNCHANGED <<slot, logged, warnDue, cln, broker>>

(* configure() returns Some once CLN has sent its options.                 *)
Configure   == Advance("configure", "options") /\ UNCHANGED <<slot, conn>>
NoConfigure == GiveUp("configure", "none", "error")

(* The event list and rabbitmq-url are checked.                            *)
OptionsOk  == Advance("options", "getinfo") /\ UNCHANGED <<slot, conn>>
OptionsBad == GiveUp("options", "disabled", "error")

(* The `?' after getinfo ends the process without an answer to CLN.        *)
Getinfo      == Advance("getinfo", "sourceKind") /\ UNCHANGED <<slot, conn>>
GetinfoFails == GiveUp("getinfo", "none", "error")

(* A missing source-kind bails, a wrong one returns Ok after disable.      *)
SourceKindOk      == Advance("sourceKind", "connect") /\ UNCHANGED <<slot, conn>>
SourceKindMissing == GiveUp("sourceKind", "disabled", "error")
SourceKindIgnored == GiveUp("sourceKind", "none", "ok")
SourceKindInvalid == GiveUp("sourceKind", "disabled", "ok")

(* connect_rabbitmq, first the connection and its channel, then the two    *)
(* passive declares and the write to the slot.  The declares do not look   *)
(* at the binding.                                                         *)
Connect      == Advance("connect", "declare") /\ conn' = "up" /\ UNCHANGED slot
ConnectFails == GiveUp("connect", "disabled", "ok")

Declare ==
    /\ conn = "up"
    /\ Advance("declare", "start")
    /\ slot' = TRUE
    /\ UNCHANGED conn
DeclareFails == GiveUp("declare", "disabled", "ok")

(* configured.start() answers CLN; from here CLN sends notifications.      *)
StartReadyEarly == main \in {"declare", "start"}
StartReady == main = "start"

Start ==
    /\ StartReady
    /\ main' = "running"
    /\ answer' = "started"
    /\ UNCHANGED <<code, slot, conn, h, logged, warnDue, cln, broker>>

StartupStep ==
    \/ Configure \/ NoConfigure
    \/ OptionsOk \/ OptionsBad
    \/ Getinfo \/ GetinfoFails
    \/ SourceKindOk \/ SourceKindMissing \/ SourceKindInvalid
    \/ Connect \/ ConnectFails
    \/ Declare \/ DeclareFails
    \/ Start

-----------------------------------------------------------------------------
(* Shutdown.                                                               *)

(* join() returns when the driver has read the end of stdin, after every   *)
(* notification before it was dispatched; main then queues for the write   *)
(* lock.                                                                   *)
JoinReady == ~stdin /\ inbox = <<>> /\ ~warnPiped

Join ==
    /\ main = "running"
    /\ JoinReady
    /\ main' = "clear"
    /\ UNCHANGED <<answer, code, slot, conn, h, logged, warnDue, cln, broker>>

HoldsGuard == {e \in Events : h[e] \in Reading}

(* The write lock is granted when no task holds the read guard.            *)
NoReadersTryLock == TRUE
NoReaders == HoldsGuard = {}

ClearSlot ==
    /\ main = "clear"
    /\ NoReaders
    /\ main' = "close"
    /\ slot' = FALSE
    /\ UNCHANGED <<answer, code, conn, h, logged, warnDue, cln, broker>>

(* conn.close() ends when the broker has answered, which it does after the *)
(* frames sent before, or at once with an ignored error when the           *)
(* connection is broken.                                                   *)
FlushedNoWait == TRUE
Flushed == conn = "up" => wire = <<>>

CloseConn ==
    /\ main = "close"
    /\ Flushed
    /\ main' = "exited"
    /\ code' = "ok"
    /\ conn' = IF conn = "up" THEN "closed" ELSE conn
    /\ h' = Cancelled(h)
    /\ UNCHANGED <<answer, slot, logged, warnDue, cln, broker>>

ShutdownStep == Join \/ ClearSlot \/ CloseConn

(* The process ends without the shutdown sequence: it is killed, or start  *)
(* or join return an error.                                                *)
Abort ==
    /\ main # "exited"
    /\ Exit("error")
    /\ UNCHANGED <<answer, slot, logged, warnDue, cln, broker>>

-----------------------------------------------------------------------------
(* CLN.                                                                    *)

Serving == answer = "started" /\ main # "exited" /\ stdin

Acked == {e \in Events : h[e] = "ok"}

Emit(e) ==
    /\ Serving
    /\ h[e] = "unsent"
    /\ h' = [h EXCEPT ![e] = "piped"]
    /\ inbox' = Append(inbox, e)
    /\ before' = [before EXCEPT ![e] = Acked]
    /\ UNCHANGED <<main, answer, code, slot, conn, stdin, logged, warnDue, warnPiped, broker>>

(* CLN turns log lines at warning level or above into a notification; the  *)
(* lines that are due together count as one.                               *)
EmitWarning ==
    /\ Serving
    /\ warnDue
    /\ ~warnPiped
    /\ warnDue' = FALSE
    /\ warnPiped' = TRUE
    /\ UNCHANGED <<main, answer, code, slot, conn, stdin, inbox, h, logged, before, broker>>

CloseStdin ==
    /\ Serving
    /\ stdin' = FALSE
    /\ UNCHANGED <<main, answer, code, slot, conn, inbox, h, logged, warnDue, warnPiped,
                   before, broker>>

-----------------------------------------------------------------------------
(* Handlers.                                                               *)

Alive == main # "exited"

(* The driver reads the next notification and spawns the task of on_event. *)
Dispatch ==
    /\ Alive
    /\ inbox # <<>>
    /\ h' = [h EXCEPT ![Head(inbox)] = "ready"]
    /\ inbox' = Tail(inbox)
    /\ UNCHANGED <<main, answer, code, slot, conn, stdin, logged, warnDue, warnPiped,
                   before, broker>>

OnWarningPublishes ==
    /\ Alive
    /\ warnPiped
    /\ warnPiped' = FALSE
    /\ warnDue' = (warnDue \/ conn # "up")
    /\ UNCHANGED <<main, answer, code, slot, conn, stdin, inbox, h, logged, before, broker>>

(* on_warning does nothing.                                                *)
OnWarning ==
    /\ Alive
    /\ warnPiped
    /\ warnPiped' = FALSE
    /\ UNCHANGED <<main, answer, code, slot, conn, stdin, inbox, h, logged, warnDue, before,
                   broker>>

(* tokio's RwLock is fair: a reader waits behind a writer that waits.      *)
LockFree == main # "clear"

(* publish_bytes takes the read guard and finds a channel ...              *)
Acquire(e) ==
    /\ Alive
    /\ h[e] = "ready"
    /\ LockFree
    /\ slot
    /\ h' = [h EXCEPT ![e] = "guard"]
    /\ UNCHANGED <<main, answer, code, slot, conn, logged, warnDue, cln, broker>>

(* ... or finds none, logs at ERROR level and fails.                       *)
AcquireEmpty(e) ==
    /\ Alive
    /\ h[e] = "ready"
    /\ LockFree
    /\ ~slot
    /\ h' = [h EXCEPT ![e] = "err"]
    /\ logged' = logged \cup {e}
    /\ warnDue' = TRUE
    /\ UNCHANGED <<main, answer, code, slot, conn, cln, broker>>

(* The first await of basic_publish: the frame goes to the connection.     *)
EnqueuedBatch(frames, e) == Append(frames, {e})
EnqueuedFirst(frames, e) == <<e>> \o frames
Enqueued(frames, e) == Append(frames, e)

MayRetry(e) == h[e] \in Reading
MayHandOff(e) == h[e] = "guard"

HandOff(e) ==
    /\ Alive
    /\ MayHandOff(e)
    /\ conn = "up"
    /\ h' = [h EXCEPT ![e] = "sent"]
    /\ wire' = Enqueued(wire, e)
    /\ UNCHANGED <<main, answer, code, slot, conn, logged, warnDue, cln, queue, bound>>

(* The second await: with confirms off it does not wait for the broker.    *)
ConfirmReady(e) == h[e] = "sent"

Confirm(e) ==
    /\ Alive
    /\ ConfirmReady(e)
    /\ h' = [h EXCEPT ![e] = "ok"]
    /\ UNCHANGED <<main, answer, code, slot, conn, logged, warnDue, cln, broker>>

(* Either await fails on a connection that is gone; the error is returned  *)
(* and no line is logged here.  The AMQP library warns about the channel.  *)
GoneWhenClosed == conn = "closed"
Gone == conn # "up"

PublishFails(e) ==
    /\ Alive
    /\ h[e] \in Reading
    /\ Gone
    /\ h' = [h EXCEPT ![e] = "err"]
    /\ warnDue' = TRUE
    /\ UNCHANGED <<main, answer, code, slot, conn, logged, cln, broker>>

HandlerStep(e) ==
    Acquire(e) \/ AcquireEmpty(e) \/ HandOff(e) \/ Confirm(e) \/ PublishFails(e)

-----------------------------------------------------------------------------
(* The broker and the network.                                             *)

Route(q, e) == IF bound THEN Append(q, e) ELSE q

Receive ==
    /\ wire # <<>>
    /\ queue' = Route(queue, Head(wire))
    /\ wire' = Tail(wire)
    /\ UNCHANGED <<main, answer, code, slot, conn, h, logged, warnDue, cln, bound>>

(* The connection breaks; there is no reconnection.                        *)
Drop ==
    /\ Alive
    /\ conn = "up"
    /\ conn' = "broken"
    /\ warnDue' = TRUE
    /\ UNCHANGED <<main, answer, code, slot, h, logged, cln, broker>>

LoseWire ==
    /\ conn = "broken"
    /\ wire # <<>>
    /\ wire' = <<>>
    /\ UNCHANGED <<main, answer, code, slot, conn, h, logged, warnDue, cln, queue, bound>>

(* The end of the run: nothing is left to do.                              *)
Done ==
    /\ main = "exited"
    /\ wire = <<>>
    /\ UNCHANGED vars

-----------------------------------------------------------------------------
Next ==
    \/ StartupStep
    \/ ShutdownStep
    \/ Abort
    \/ \E e \in Events : Emit(e) \/ HandlerStep(e)
    \/ EmitWarning \/ CloseStdin
    \/ Dispatch \/ OnWarning
    \/ Receive \/ Drop \/ LoseWire
    \/ Done

(* The runtime runs every task that can run and the broker reads what it   *)
(* is sent; CLN turns due log lines into notifications.  Nothing makes CLN *)
(* emit an event or close stdin, the connection break or the process die.  *)
Fairness ==
    /\ WF_vars(StartupStep)
    /\ WF_vars(ShutdownStep)
    /\ WF_vars(Dispatch)
    /\ WF_vars(OnWarning)
    /\ WF_vars(EmitWarning)
    /\ WF_vars(Receive)
    /\ \A e \in Events : WF_vars(HandlerStep(e))

Spec == Init /\ [][Next]_vars

FairSpec == Spec /\ Fairness

-----------------------------------------------------------------------------
(* The inductive invariant behind the safety properties.                   *)

(* A notification waits in the inbox once, and only while it is `piped'.   *)
InboxInv ==
    /\ IsInjective(inbox)
    /\ \A e \in Range(inbox) : h[e] = "piped"

(* No frame is anywhere twice, and none exists before its handler has      *)
(* handed it over.                                                         *)
FramesInv ==
    /\ IsInjective(wire)
    /\ IsInjective(queue)
    /\ Range(wire) \cap Range(queue) = {}
    /\ \A e \in Range(wire) \cup Range(queue) : h[e] \notin Early

(* How the slot, stdin and the handlers follow main.                       *)
PhaseInv ==
    /\ main \in Startup => answer = "none" /\ (\A e \in Events : h[e] = "unsent")
    /\ main \in {"start", "running", "clear"} => slot
    /\ main = "close" => ~slot /\ HoldsGuard = {}
    /\ main \in {"clear", "close"} => ~stdin
    /\ logged # {} => main \in {"close", "exited"} /\ ~stdin

IInv == TypeOK /\ InboxInv /\ FramesInv /\ PhaseInv

(* What CLN knows when main is past its handshake or has ended well.       *)
StatusInv ==
    /\ main \in {"running", "clear", "close"} => answer = "started"
    /\ code = "ok" => answer # "none"

(* How the connection follows main, and where the frames of the handlers   *)
(* are as long as the connection has not broken.                           *)
FlowInv ==
    /\ main \in Startup \ {"declare", "start"} => conn = "none"
    /\ main \in {"declare", "start", "running", "clear", "close"} => conn \in {"up", "broken"}
    /\ conn = "closed" => main = "exited" /\ wire = <<>>
    /\ main = "exited" => HoldsGuard = {}
    /\ ~bound => queue = <<>>
    /\ conn \in {"up", "closed"} /\ bound =>
         Range(wire) \cup Range(queue) = {e \in Events : h[e] \in {"sent", "ok"}}

(* A publish that had succeeded has succeeded for good, and it was not the *)
(* event's own.                                                            *)
HistoryInv == \A e \in Events : before[e] \subseteq Acked /\ e \notin before[e]

(* What a frame sequence keeps of the order of CLN's notifications.        *)
Ordered(frames, prior) ==
    \A i, j \in DOMAIN frames : frames[j] \in prior[frames[i]] => j < i

(* Inductive relative to IInv.                                             *)
DeliveryInv ==
    StatusInv /\ FlowInv /\ HistoryInv /\ Ordered(queue \o wire, before)

-----------------------------------------------------------------------------
(* Properties.                                                             *)

(* Once main has emptied the slot and goes on to close the connection, no  *)
(* task is inside basic_publish: the write lock of main.rs waits for the   *)
(* read guards of broker.rs and lets none in after it.                     *)
NoPublishDuringClose == main = "close" => HoldsGuard = {}

(* The slot is found empty only after the shutdown has emptied it: a       *)
(* running plugin never loses an event because connect_rabbitmq had not    *)
(* filled the slot before CLN was told to send notifications.              *)
EmptySlotOnlyAtShutdown == logged # {} => main \in {"close", "exited"} /\ ~stdin

(* A notification is in the queue or on its way there at most once,        *)
(* whatever breaks: publish_bytes has no retry and a task hands over one   *)
(* frame.                                                                  *)
AtMostOnce == IsInjective(queue \o wire)

(* Handlers are concurrent, so the queue does not keep CLN's order.  What  *)
(* it keeps: an event emitted after the publish of another had succeeded   *)
(* is behind it.                                                           *)
RealTimeOrder == Ordered(queue \o wire, before)

(* When the shutdown sequence ended with a connection that closed          *)
(* normally, the queue holds exactly the events whose handlers succeeded,  *)
(* if the exchange is bound to the queue, and nothing otherwise: no event  *)
(* whose task was dropped by the exit got through, none that was           *)
(* acknowledged is missing.                                                *)
CleanExitDeliversAcked ==
    main = "exited" /\ conn = "closed" => Range(queue) = IF bound THEN Acked ELSE {}

(* The process is silent towards CLN only when it fails: an exit with      *)
(* status 0 was preceded by a `disable' or a completed start.              *)
NoSilentExit == code = "ok" => answer # "none"

(* The warnings the plugin causes die out: on_warning publishes nothing,   *)
(* so the loop of "channel closed" warnings that the comment in events.rs  *)
(* fears cannot start.                                                     *)
WarningsSettle == <>[](Alive => ~warnPiped)

(* After CLN has closed stdin the plugin exits: no task holds the read     *)
(* guard for ever and the close waits for nothing that does not come.      *)
ShutdownCompletes == ~stdin ~> main = "exited"

(* The abstract view of the consumer.                                      *)
Delivery == INSTANCE EventDelivery
    WITH offered <- {e \in Events : h[e] # "unsent"}, log <- queue

(* The queue behaves as the best-effort, at-most-once delivery of          *)
(* EventDelivery.                                                          *)
ImplementsDelivery == Delivery!Spec

(* The doc comment of publish_bytes: Ok means that the message was         *)
(* published.  Read at the end of the run: a successful publish of a       *)
(* process that has ended is in the queue.                                 *)
OkMeansQueued == main = "exited" /\ wire = <<>> => Acked \subseteq Range(queue)

(* The README: each failed publish is logged at the ERROR level.           *)
FailedPublishIsLogged == \A e \in Events : h[e] = "err" => e \in logged
=============================================================================
