------------------------- MODULE EventPluginProofs -------------------------
(***************************************************************************)
(* The safety of EventPlugin for any set of events: the inductive          *)
(* invariant IInv, the properties it implies, the refinement of            *)
(* EventDelivery, and what reaches the queue.                              *)
(***************************************************************************)
EXTENDS EventPlugin, SequenceTheorems, TLAPS

-----------------------------------------------------------------------------
(* Sequences without repetition.                                           *)

(* What publishing and receiving do to the set of elements of a sequence.  *)
LEMMA RangeAppend ==
    ASSUME NEW S, NEW s \in Seq(S), NEW x \in S
    PROVE  Range(Append(s, x)) = Range(s) \cup {x}
<1>1. /\ Len(Append(s, x)) = Len(s) + 1
      /\ \A i \in 1 .. Len(s) : Append(s, x)[i] = s[i]
      /\ Append(s, x)[Len(s) + 1] = x
      /\ DOMAIN s = 1 .. Len(s)
      /\ DOMAIN Append(s, x) = 1 .. Len(s) + 1
      /\ Len(s) \in Nat
  OBVIOUS
<1>2. \A i \in 1 .. Len(s) + 1 : i \in 1 .. Len(s) \/ i = Len(s) + 1
  BY <1>1
<1>3. Len(s) + 1 \in 1 .. Len(s) + 1 /\ \A i \in 1 .. Len(s) : i \in 1 .. Len(s) + 1
  BY <1>1
<1>4. Range(Append(s, x)) \subseteq Range(s) \cup {x}
  BY <1>1, <1>2 DEF Range
<1>5. Range(s) \cup {x} \subseteq Range(Append(s, x))
  BY <1>1, <1>3 DEF Range
<1>. QED  BY <1>4, <1>5

(* The range of a sequence over S is within S.                             *)
LEMMA RangeType ==
    ASSUME NEW S, NEW s \in Seq(S)
    PROVE  Range(s) \subseteq S
  BY DEF Range

(* Appending a new element keeps a sequence free of repetitions.           *)
LEMMA InjectiveAppend ==
    ASSUME NEW S, NEW s \in Seq(S), NEW x \in S, IsInjective(s), x \notin Range(s)
    PROVE  IsInjective(Append(s, x))
  BY DEF IsInjective, Range

(* Taking the head away leaves the other elements, and not the head.       *)
LEMMA InjectiveTail ==
    ASSUME NEW S, NEW s \in Seq(S), s # <<>>, IsInjective(s)
    PROVE  /\ Head(s) \in Range(s)
           /\ Range(Tail(s)) \subseteq Range(s)
           /\ Head(s) \notin Range(Tail(s))
           /\ IsInjective(Tail(s))
  BY DEF IsInjective, Range

(* Two disjoint sequences without repetition make one.                     *)
LEMMA InjectiveConcat ==
    ASSUME NEW S, NEW s \in Seq(S), NEW t \in Seq(S),
           IsInjective(s), IsInjective(t), Range(s) \cap Range(t) = {}
    PROVE  IsInjective(s \o t)
<1>. DEFINE u == s \o t
<1>1. /\ Len(s) \in Nat /\ Len(t) \in Nat
      /\ DOMAIN s = 1 .. Len(s) /\ DOMAIN t = 1 .. Len(t)
      /\ DOMAIN u = 1 .. Len(s) + Len(t)
  OBVIOUS
<1>2. \A i \in 1 .. Len(s) : u[i] = s[i]
  OBVIOUS
<1>3. \A i \in Len(s) + 1 .. Len(s) + Len(t) :
        i - Len(s) \in 1 .. Len(t) /\ u[i] = t[i - Len(s)]
  OBVIOUS
<1>. HIDE DEF u
<1>4. SUFFICES ASSUME NEW i \in DOMAIN u, NEW j \in DOMAIN u, u[i] = u[j]
               PROVE  i = j
  BY DEF IsInjective, u
<1>5. CASE i <= Len(s) /\ j <= Len(s)
  <2>1. i \in DOMAIN s /\ j \in DOMAIN s
    BY <1>1, <1>5
  <2>. QED  BY <1>1, <1>2, <1>4, <2>1 DEF IsInjective
<1>6. CASE i > Len(s) /\ j > Len(s)
  <2>1. i \in Len(s) + 1 .. Len(s) + Len(t) /\ j \in Len(s) + 1 .. Len(s) + Len(t)
    BY <1>1, <1>6
  <2>2. i - Len(s) = j - Len(s)
    BY <1>1, <1>3, <1>4, <2>1 DEF IsInjective
  <2>. QED  BY <1>1, <2>1, <2>2
<1>7. ASSUME NEW k \in DOMAIN u, NEW l \in DOMAIN u, k <= Len(s), l > Len(s) PROVE u[k] # u[l]
  <2>1. k \in DOMAIN s /\ l \in Len(s) + 1 .. Len(s) + Len(t)
    BY <1>1, <1>7
  <2>2. u[k] \in Range(s) /\ u[l] \in Range(t)
    BY <1>1, <1>2, <1>3, <2>1 DEF Range
  <2>. QED  BY <2>2
<1>. QED  BY <1>1, <1>4, <1>5, <1>6, <1>7

(* The empty sequence has no elements.                                     *)
LEMMA EmptyFacts == Range(<<>>) = {} /\ IsInjective(<<>>)
  BY DEF IsInjective, Range
-----------------------------------------------------------------------------
(* Type correctness.                                                       *)

LEMMA InitTypeOK == Init => TypeOK
<1>. SUFFICES ASSUME Init PROVE TypeOK
  OBVIOUS
<1>1. <<>> \in Seq(Events)
  OBVIOUS
<1>2. h \in [Events -> Stages]
  BY DEF Init, Stages, Early
<1>3. before \in [Events -> SUBSET Events]
  BY DEF Init
<1>. QED
  BY <1>1, <1>2, <1>3 DEF Init, TypeOK, Places, Startup, Answers, Codes, Conns

(* Every step of main, CLN, a handler, the broker or the network keeps the *)
(* type of every variable.                                                 *)
LEMMA TypeStep == TypeOK /\ [Next]_vars => TypeOK'
<1>. SUFFICES ASSUME TypeOK, [Next]_vars PROVE TypeOK'
  OBVIOUS
<1>. USE DEF TypeOK, Places, Startup, Answers, Codes, Conns, Stages, Early, Reading, Finished,
             cln, broker
<1>1. ASSUME StartupStep PROVE TypeOK'
  <2>1. ASSUME NEW from, NEW to \in Places, Advance(from, to), slot' = slot, conn' \in Conns
        PROVE  TypeOK'
    BY <2>1 DEF Advance
  <2>2. ASSUME NEW from, NEW told \in Answers, NEW status \in Codes,
               GiveUp(from, told, status)
        PROVE  TypeOK'
    BY <2>2 DEF GiveUp, Exit, Cancelled, Dropped
  <2>3. CASE Configure \/ OptionsOk \/ Getinfo \/ SourceKindOk \/ Connect
    BY <2>1, <2>3 DEF Configure, OptionsOk, Getinfo, SourceKindOk, Connect
  <2>4. CASE Declare
    BY <2>4 DEF Declare, Advance
  <2>5. CASE NoConfigure \/ OptionsBad \/ GetinfoFails \/ SourceKindMissing
             \/ SourceKindInvalid \/ ConnectFails \/ DeclareFails
    BY <2>2, <2>5 DEF NoConfigure, OptionsBad, GetinfoFails, SourceKindMissing,
       SourceKindInvalid, ConnectFails, DeclareFails
  <2>6. CASE Start
    BY <2>6 DEF Start, StartReady
  <2>. QED
    BY <1>1, <2>3, <2>4, <2>5, <2>6 DEF StartupStep
<1>2. ASSUME ShutdownStep PROVE TypeOK'
  <2>1. CASE Join \/ ClearSlot
    <3>1. main' \in Places /\ slot' \in BOOLEAN
      BY <2>1 DEF Join, ClearSlot
    <3>. HIDE DEF Places, Startup, Answers, Codes, Stages, Early, Reading, Finished, Conns
    <3>. QED  BY <2>1, <3>1 DEF Join, ClearSlot
  <2>2. CASE CloseConn
    <3>1. h' \in [Events -> Stages]
      BY <2>2 DEF CloseConn, Cancelled
    <3>2. conn' \in Conns
      BY <2>2 DEF CloseConn
    <3>. QED  BY <2>2, <3>1, <3>2 DEF CloseConn
  <2>. QED  BY <1>2, <2>1, <2>2 DEF ShutdownStep
<1>3. ASSUME Abort PROVE TypeOK'
  BY <1>3 DEF Abort, Exit, Cancelled, Dropped
<1>4. ASSUME NEW e \in Events, Emit(e) PROVE TypeOK'
  BY <1>4 DEF Emit, Acked
<1>5. ASSUME NEW e \in Events, HandlerStep(e) PROVE TypeOK'
  <2>1. CASE HandOff(e)
    <3>1. wire' \in Seq(Events)
      BY <2>1 DEF HandOff, Enqueued
    <3>. QED  BY <2>1, <3>1 DEF HandOff
  <2>2. CASE Acquire(e)
    BY <2>2 DEF Acquire
  <2>3. CASE AcquireEmpty(e)
    BY <2>3 DEF AcquireEmpty
  <2>4. CASE Confirm(e)
    BY <2>4 DEF Confirm
  <2>5. CASE PublishFails(e)
    BY <2>5 DEF PublishFails
  <2>. QED  BY <1>5, <2>1, <2>2, <2>3, <2>4, <2>5 DEF HandlerStep
<1>6. ASSUME EmitWarning \/ CloseStdin \/ OnWarning \/ Drop \/ LoseWire PROVE TypeOK'
  <2>. HIDE DEF Places, Startup, Answers, Codes, Stages, Early, Reading, Finished
  <2>1. CASE EmitWarning
    BY <2>1 DEF EmitWarning
  <2>2. CASE CloseStdin
    BY <2>2 DEF CloseStdin
  <2>3. CASE OnWarning
    BY <2>3 DEF OnWarning
  <2>4. CASE Drop
    BY <2>4 DEF Drop
  <2>5. CASE LoseWire
    <3>1. <<>> \in Seq(Events)
      OBVIOUS
    <3>. QED  BY <2>5, <3>1 DEF LoseWire
  <2>. QED  BY <1>6, <2>1, <2>2, <2>3, <2>4, <2>5
<1>7. ASSUME Dispatch PROVE TypeOK'
  <2>1. Tail(inbox) \in Seq(Events) /\ h' \in [Events -> Stages]
    BY <1>7 DEF Dispatch
  <2>. QED  BY <1>7, <2>1 DEF Dispatch
<1>8. ASSUME Receive PROVE TypeOK'
  <2>1. Tail(wire) \in Seq(Events) /\ Head(wire) \in Events
    BY <1>8 DEF Receive
  <2>2. queue' \in Seq(Events)
    BY <1>8, <2>1 DEF Receive, Route
  <2>. QED  BY <1>8, <2>1, <2>2 DEF Receive
<1>9. ASSUME Done \/ UNCHANGED vars PROVE TypeOK'
  BY <1>9 DEF Done, vars
<1>. QED
  BY <1>1, <1>2, <1>3, <1>4, <1>5, <1>6, <1>7, <1>8, <1>9 DEF Next

(* Type correctness of the event plugin for any set of events.             *)
THEOREM TypeCorrect == Spec => []TypeOK
  BY InitTypeOK, TypeStep, PTL DEF Spec

-----------------------------------------------------------------------------
(* What a step may do to the handlers, seen from outside.                  *)

(* Every step but Emit and Dispatch leaves the inbox alone and moves no    *)
(* handler that is unsent or piped.                                        *)
LEMMA QuietStep ==
    ASSUME TypeOK, [Next]_vars,
           ~Dispatch, \A e \in Events : ~Emit(e)
    PROVE  /\ inbox' = inbox
           /\ \A e \in Events : h[e] \in {"unsent", "piped"} => h'[e] = h[e]
           /\ \A e \in Events : h'[e] \in {"unsent", "piped"} => h'[e] = h[e]
<1>. USE DEF TypeOK, Reading, cln
<1>1. CASE StartupStep
  BY <1>1 DEF StartupStep, Configure, NoConfigure, OptionsOk, OptionsBad, Getinfo,
     GetinfoFails, SourceKindOk, SourceKindMissing, SourceKindInvalid, Connect, ConnectFails,
     Declare, DeclareFails, Start, StartReady, Advance, GiveUp, Exit, Cancelled
<1>2. CASE ShutdownStep
  BY <1>2 DEF ShutdownStep, Join, ClearSlot, CloseConn, Cancelled
<1>3. CASE Abort
  BY <1>3 DEF Abort, Exit, Cancelled
<1>4. ASSUME NEW e \in Events, HandlerStep(e)
      PROVE  /\ inbox' = inbox
             /\ \A d \in Events : h[d] \in {"unsent", "piped"} => h'[d] = h[d]
             /\ \A d \in Events : h'[d] \in {"unsent", "piped"} => h'[d] = h[d]
  <2>1. h[e] \notin {"unsent", "piped"} /\ inbox' = inbox
    BY <1>4 DEF HandlerStep, Acquire, AcquireEmpty, HandOff, MayHandOff, Confirm,
       ConfirmReady, PublishFails
  <2>2. \E x \in {"ready", "guard", "sent", "ok", "err"} : h' = [h EXCEPT ![e] = x]
    BY <1>4 DEF HandlerStep, Acquire, AcquireEmpty, HandOff, Confirm, PublishFails
  <2>. QED  BY <2>1, <2>2
<1>5. CASE EmitWarning \/ CloseStdin \/ OnWarning \/ Drop \/ LoseWire \/ Receive \/ Done
           \/ UNCHANGED vars
  BY <1>5 DEF EmitWarning, CloseStdin, OnWarning, Drop, LoseWire, Receive, Done, vars
<1>. QED
  BY <1>1, <1>2, <1>3, <1>4, <1>5 DEF Next

(* A handler that is past `guard' never comes back before it, so that a    *)
(* frame is handed over once.                                              *)
LEMMA LateStaysLate ==
    ASSUME TypeOK, InboxInv, [Next]_vars
    PROVE  \A e \in Events : h[e] \notin Early => h'[e] \notin Early
<1>. USE DEF TypeOK, Early
<1>1. CASE StartupStep
  BY <1>1 DEF StartupStep, Configure, NoConfigure, OptionsOk, OptionsBad, Getinfo,
     GetinfoFails, SourceKindOk, SourceKindMissing, SourceKindInvalid, Connect, ConnectFails,
     Declare, DeclareFails, Start, StartReady, Advance, GiveUp, Exit, Cancelled
<1>2. CASE ShutdownStep \/ Abort
  BY <1>2 DEF ShutdownStep, Join, ClearSlot, CloseConn, Abort, Exit, Cancelled
<1>3. ASSUME NEW e \in Events, HandlerStep(e)
      PROVE  \A d \in Events : h[d] \notin Early => h'[d] \notin Early
  <2>1. CASE Acquire(e)
    BY <2>1 DEF Acquire
  <2>2. CASE AcquireEmpty(e) \/ HandOff(e) \/ Confirm(e) \/ PublishFails(e)
    BY <2>2 DEF AcquireEmpty, HandOff, Confirm, PublishFails
  <2>. QED  BY <1>3, <2>1, <2>2 DEF HandlerStep
<1>4. ASSUME NEW e \in Events, Emit(e)
      PROVE  \A d \in Events : h[d] \notin Early => h'[d] \notin Early
  BY <1>4 DEF Emit
<1>5. CASE Dispatch
  <2>1. h[Head(inbox)] = "piped"
    BY <1>5, InjectiveTail DEF Dispatch, InboxInv
  <2>. QED  BY <1>5, <2>1 DEF Dispatch
<1>6. CASE EmitWarning \/ CloseStdin \/ OnWarning \/ Drop \/ LoseWire \/ Receive \/ Done
           \/ UNCHANGED vars
  BY <1>6 DEF EmitWarning, CloseStdin, OnWarning, Drop, LoseWire, Receive, Done, vars
<1>. QED
  BY <1>1, <1>2, <1>3, <1>4, <1>5, <1>6 DEF Next

-----------------------------------------------------------------------------
(* The inbox.                                                              *)

LEMMA InboxStep ==
    ASSUME TypeOK, InboxInv, [Next]_vars
    PROVE  InboxInv'
<1>. Range(inbox) \subseteq Events
  BY RangeType DEF TypeOK
<1>1. ASSUME NEW e \in Events, Emit(e) PROVE InboxInv'
  <2>1. e \notin Range(inbox)
    BY <1>1 DEF Emit, InboxInv
  <2>2. IsInjective(inbox') /\ Range(inbox') = Range(inbox) \cup {e}
    BY <1>1, <2>1, InjectiveAppend, RangeAppend DEF Emit, TypeOK, InboxInv
  <2>3. \A d \in Range(inbox') : h'[d] = "piped"
    BY <1>1, <2>2 DEF Emit, TypeOK, InboxInv
  <2>. QED  BY <2>2, <2>3 DEF InboxInv
<1>2. CASE Dispatch
  <2>1. /\ Range(inbox') \subseteq Range(inbox)
        /\ Head(inbox) \notin Range(inbox')
        /\ IsInjective(inbox')
    BY <1>2, InjectiveTail DEF Dispatch, TypeOK, InboxInv
  <2>2. \A d \in Range(inbox') : h'[d] = "piped"
    BY <1>2, <2>1 DEF Dispatch, TypeOK, InboxInv
  <2>. QED  BY <2>1, <2>2 DEF InboxInv
<1>3. CASE ~Dispatch /\ \A e \in Events : ~Emit(e)
  BY <1>3, QuietStep DEF InboxInv
<1>. QED  BY <1>1, <1>2, <1>3

-----------------------------------------------------------------------------
(* The frames.                                                             *)

(* Only a hand-over, a receipt and a loss move frames.                     *)
LEMMA FramesStay ==
    ASSUME TypeOK, [Next]_vars,
           ~Receive, ~LoseWire, \A e \in Events : ~HandOff(e)
    PROVE  wire' = wire /\ queue' = queue
<1>. USE DEF broker
<1>1. CASE StartupStep
  BY <1>1 DEF StartupStep, Configure, NoConfigure, OptionsOk, OptionsBad, Getinfo,
     GetinfoFails, SourceKindOk, SourceKindMissing, SourceKindInvalid, Connect, ConnectFails,
     Declare, DeclareFails, Start, Advance, GiveUp
<1>2. CASE ShutdownStep \/ Abort
  BY <1>2 DEF ShutdownStep, Join, ClearSlot, CloseConn, Abort
<1>3. ASSUME NEW e \in Events, Emit(e) \/ HandlerStep(e) PROVE wire' = wire /\ queue' = queue
  BY <1>3 DEF Emit, HandlerStep, Acquire, AcquireEmpty, Confirm, PublishFails
<1>4. CASE EmitWarning \/ CloseStdin \/ OnWarning \/ Drop \/ Dispatch \/ Done \/ UNCHANGED vars
  BY <1>4 DEF EmitWarning, CloseStdin, OnWarning, Drop, Dispatch, Done, vars
<1>. QED  BY <1>1, <1>2, <1>3, <1>4 DEF Next

LEMMA FramesStep ==
    ASSUME TypeOK, InboxInv, FramesInv, [Next]_vars
    PROVE  FramesInv'
<1>. /\ Range(wire) \subseteq Events
     /\ Range(queue) \subseteq Events
  BY RangeType DEF TypeOK
<1>1. \A e \in Range(wire) \cup Range(queue) : h'[e] \notin Early
  BY LateStaysLate DEF FramesInv
<1>2. ASSUME NEW e \in Events, HandOff(e) PROVE FramesInv'
  <2>1. e \notin Range(wire) \cup Range(queue)
    BY <1>2 DEF HandOff, MayHandOff, Early, FramesInv
  <2>2. IsInjective(wire') /\ Range(wire') = Range(wire) \cup {e} /\ queue' = queue
    BY <1>2, <2>1, InjectiveAppend, RangeAppend DEF HandOff, Enqueued, TypeOK, FramesInv
  <2>3. h'[e] \notin Early
    BY <1>2 DEF HandOff, TypeOK, Early
  <2>. QED  BY <1>1, <2>1, <2>2, <2>3 DEF FramesInv
<1>3. CASE Receive
  <2>. DEFINE e == Head(wire)
  <2>1. /\ e \in Range(wire)
        /\ Range(wire') \subseteq Range(wire)
        /\ e \notin Range(wire')
        /\ IsInjective(wire')
    BY <1>3, InjectiveTail DEF Receive, TypeOK, FramesInv
  <2>2. CASE bound
    <3>1. queue' = Append(queue, e)
      BY <1>3, <2>2 DEF Receive, Route
    <3>2. IsInjective(queue') /\ Range(queue') = Range(queue) \cup {e}
      BY <2>1, <3>1, InjectiveAppend, RangeAppend DEF TypeOK, FramesInv
    <3>. QED  BY <1>1, <2>1, <3>2 DEF FramesInv
  <2>3. CASE ~bound
    <3>1. queue' = queue
      BY <1>3, <2>3 DEF Receive, Route
    <3>. QED  BY <1>1, <2>1, <3>1 DEF FramesInv
  <2>. QED  BY <2>2, <2>3
<1>4. CASE LoseWire
  BY <1>1, <1>4, EmptyFacts DEF LoseWire, FramesInv
<1>5. CASE ~Receive /\ ~LoseWire /\ \A e \in Events : ~HandOff(e)
  BY <1>1, <1>5, FramesStay DEF FramesInv
<1>. QED  BY <1>2, <1>3, <1>4, <1>5
-----------------------------------------------------------------------------
(* main, the slot and the handlers.                                        *)

LEMMA PhaseStep ==
    ASSUME TypeOK, InboxInv, PhaseInv, [Next]_vars
    PROVE  PhaseInv'
<1>. USE DEF TypeOK, PhaseInv, HoldsGuard, Startup, Reading, cln
<1>1. CASE StartupStep
  <2>1. ASSUME NEW from \in Startup, NEW told, NEW status, GiveUp(from, told, status)
        PROVE  PhaseInv'
    BY <2>1 DEF GiveUp, Exit
  <2>2. CASE Configure \/ OptionsOk \/ Getinfo \/ SourceKindOk \/ Connect
    BY <2>2 DEF Configure, OptionsOk, Getinfo, SourceKindOk, Connect, Advance
  <2>3. CASE Declare
    BY <2>3 DEF Declare, Advance
  <2>4. CASE Start
    BY <2>4 DEF Start, StartReady
  <2>5. CASE NoConfigure \/ OptionsBad \/ GetinfoFails \/ SourceKindMissing
             \/ SourceKindInvalid \/ ConnectFails \/ DeclareFails
    BY <2>1, <2>5 DEF NoConfigure, OptionsBad, GetinfoFails, SourceKindMissing,
       SourceKindInvalid, ConnectFails, DeclareFails
  <2>. QED  BY <1>1, <2>2, <2>3, <2>4, <2>5 DEF StartupStep
<1>2. CASE Join
  BY <1>2 DEF Join, JoinReady
<1>3. CASE ClearSlot
  BY <1>3 DEF ClearSlot, NoReaders
<1>4. CASE CloseConn
  BY <1>4 DEF CloseConn
<1>5. CASE Abort
  BY <1>5 DEF Abort, Exit
<1>6. ASSUME NEW e \in Events, Emit(e) PROVE PhaseInv'
  BY <1>6 DEF Emit, Serving
<1>7. CASE EmitWarning \/ OnWarning \/ Drop \/ LoseWire \/ Receive \/ Done \/ UNCHANGED vars
  BY <1>7 DEF EmitWarning, OnWarning, Drop, LoseWire, Receive, Done, vars
<1>8. CASE CloseStdin
  BY <1>8 DEF CloseStdin
<1>9. CASE Dispatch
  <2>1. h[Head(inbox)] = "piped" /\ Head(inbox) \in Events
    BY <1>9, InjectiveTail DEF Dispatch, InboxInv
  <2>2. main \notin Startup
    BY <2>1
  <2>. QED  BY <1>9, <2>1, <2>2 DEF Dispatch
<1>10. ASSUME NEW e \in Events, HandlerStep(e) PROVE PhaseInv'
  <2>1. main \notin Startup
    BY <1>10 DEF HandlerStep, Acquire, AcquireEmpty, HandOff, MayHandOff, Confirm,
       ConfirmReady, PublishFails
  <2>2. CASE Acquire(e)
    BY <2>1, <2>2 DEF Acquire, LockFree
  <2>3. CASE AcquireEmpty(e)
    <3>1. main = "close"
      BY <2>1, <2>3 DEF AcquireEmpty, LockFree, Alive, Places
    <3>. QED  BY <2>3, <3>1 DEF AcquireEmpty
  <2>4. CASE HandOff(e)
    BY <2>1, <2>4 DEF HandOff, MayHandOff
  <2>5. CASE Confirm(e)
    BY <2>1, <2>5 DEF Confirm, ConfirmReady
  <2>6. CASE PublishFails(e)
    BY <2>1, <2>6 DEF PublishFails
  <2>. QED  BY <1>10, <2>2, <2>3, <2>4, <2>5, <2>6 DEF HandlerStep
<1>. QED
  BY <1>1, <1>2, <1>3, <1>4, <1>5, <1>6, <1>7, <1>8, <1>9, <1>10 DEF Next, ShutdownStep

-----------------------------------------------------------------------------
(* The invariant and what follows from it.                                 *)

LEMMA InitIInv == Init => IInv
<1>. SUFFICES ASSUME Init PROVE IInv
  OBVIOUS
<1>1. InboxInv /\ FramesInv
  BY EmptyFacts DEF Init, InboxInv, FramesInv
<1>2. PhaseInv
  BY DEF Init, PhaseInv, Startup
<1>. QED  BY <1>1, <1>2, InitTypeOK DEF IInv

LEMMA StepIInv == IInv /\ [Next]_vars => IInv'
  BY TypeStep, InboxStep, FramesStep, PhaseStep DEF IInv

(* The inductive invariant holds in every behaviour.                       *)
THEOREM Invariance == Spec => []IInv
  BY InitIInv, StepIInv, PTL DEF Spec

(* No task is inside basic_publish while main closes the connection.       *)
THEOREM CloseIsExclusive == Spec => []NoPublishDuringClose
<1>1. IInv => NoPublishDuringClose
  BY DEF IInv, PhaseInv, NoPublishDuringClose
<1>. QED  BY <1>1, Invariance, PTL

(* An empty slot is found only by a task that outlives the shutdown.       *)
THEOREM SlotFilledWhileRunning == Spec => []EmptySlotOnlyAtShutdown
<1>1. IInv => EmptySlotOnlyAtShutdown
  BY DEF IInv, PhaseInv, EmptySlotOnlyAtShutdown
<1>. QED  BY <1>1, Invariance, PTL

(* No notification is published twice, whatever breaks.                    *)
THEOREM PublishedAtMostOnce == Spec => []AtMostOnce
<1>1. IInv => AtMostOnce
  BY InjectiveConcat DEF IInv, TypeOK, FramesInv, AtMostOnce
<1>. QED  BY <1>1, Invariance, PTL

-----------------------------------------------------------------------------
(* The refinement: every step of the plugin offers a notification,         *)
(* delivers one, or changes nothing a consumer can see.                    *)

Offered == {e \in Events : h[e] # "unsent"}

LEMMA RefineInit == Init => Delivery!Init
  BY DEF Init, Delivery!Init

LEMMA RefineStep ==
    ASSUME IInv, [Next]_vars
    PROVE  [Delivery!Next]_(Delivery!vars)
<1>. USE DEF IInv
<1>1. ASSUME NEW e \in Events, Emit(e) PROVE Delivery!Offer(e)
  BY <1>1 DEF Emit, TypeOK, broker, Delivery!Offer
<1>2. CASE Receive
  <2>. DEFINE e == Head(wire)
  <2>1. e \in Range(wire) /\ e \in Events
    BY <1>2, InjectiveTail DEF Receive, TypeOK, FramesInv
  <2>2. e \in Offered /\ e \notin Range(queue)
    BY <2>1 DEF FramesInv, Early, Offered
  <2>3. Offered' = Offered
    BY <1>2 DEF Receive, Offered
  <2>4. CASE bound
    <3>1. queue' = Append(queue, e)
      BY <1>2, <2>4 DEF Receive, Route
    <3>2. Delivery!Deliver(e)
      BY <2>2, <2>3, <3>1 DEF Delivery!Deliver, Offered, Range, Delivery!Range
    <3>. QED  BY <2>1, <3>2 DEF Delivery!Next
  <2>5. CASE ~bound
    BY <1>2, <2>3, <2>5 DEF Receive, Route, Delivery!vars, Offered
  <2>. QED  BY <2>4, <2>5
<1>3. CASE Dispatch
  <2>1. h[Head(inbox)] = "piped"
    BY <1>3, InjectiveTail DEF Dispatch, InboxInv, TypeOK
  <2>2. Offered' = Offered /\ queue' = queue
    BY <1>3, <2>1 DEF Dispatch, Offered, TypeOK, broker
  <2>. QED  BY <2>2 DEF Delivery!vars, Offered
<1>4. CASE ~Receive /\ ~Dispatch /\ \A e \in Events : ~Emit(e)
  <2>1. Offered' = Offered
    BY <1>4, QuietStep DEF Offered
  <2>2. queue' = queue
    <3>1. CASE LoseWire
      BY <3>1 DEF LoseWire
    <3>2. ASSUME NEW e \in Events, HandOff(e) PROVE queue' = queue
      BY <3>2 DEF HandOff
    <3>. QED  BY <1>4, <3>1, <3>2, FramesStay
  <2>. QED  BY <2>1, <2>2 DEF Delivery!vars, Offered
<1>. QED  BY <1>1, <1>2, <1>3, <1>4 DEF Delivery!Next

(* The queue is a best-effort, at-most-once delivery of what CLN emitted.  *)
THEOREM Refinement == Spec => ImplementsDelivery
<1>1. IInv /\ [Next]_vars => [Delivery!Next]_(Delivery!vars)
  BY RefineStep
<1>. QED
  BY <1>1, RefineInit, Invariance, PTL DEF Spec, ImplementsDelivery, Delivery!Spec

-----------------------------------------------------------------------------
(***************************************************************************)
(* What reaches the queue, for any set of events: which events are there   *)
(* after a clean exit, and in which order.  The invariant is inductive     *)
(* relative to IInv.                                                       *)
(***************************************************************************)

(* Sequences.                                                              *)

(* A non-empty sequence has its head and the elements of its tail.         *)
LEMMA RangeTail ==
    ASSUME NEW S, NEW s \in Seq(S), s # <<>>
    PROVE  Range(s) = {Head(s)} \cup Range(Tail(s))
<1>1. /\ DOMAIN s = 1 .. Len(s) /\ Len(s) \in Nat \ {0}
      /\ DOMAIN Tail(s) = 1 .. Len(s) - 1
      /\ Head(s) = s[1]
      /\ \A i \in 1 .. Len(s) - 1 : Tail(s)[i] = s[i + 1]
  OBVIOUS
<1>2. Range(s) \subseteq {Head(s)} \cup Range(Tail(s))
  <2>1. SUFFICES ASSUME NEW i \in 1 .. Len(s) PROVE s[i] \in {Head(s)} \cup Range(Tail(s))
    BY <1>1 DEF Range
  <2>2. CASE i = 1
    BY <1>1, <2>2
  <2>3. CASE i # 1
    <3>1. i - 1 \in 1 .. Len(s) - 1 /\ Tail(s)[i - 1] = s[i]
      BY <1>1, <2>3
    <3>. QED  BY <1>1, <3>1 DEF Range
  <2>. QED  BY <2>2, <2>3
<1>3. {Head(s)} \cup Range(Tail(s)) \subseteq Range(s)
  <2>1. 1 \in 1 .. Len(s) /\ \A i \in 1 .. Len(s) - 1 : i + 1 \in 1 .. Len(s)
    BY <1>1
  <2>. QED  BY <1>1, <2>1 DEF Range
<1>. QED  BY <1>2, <1>3

(* Handing over a frame appends it to all frames.                          *)
LEMMA ConcatAppend ==
    ASSUME NEW S, NEW s \in Seq(S), NEW t \in Seq(S), NEW x \in S
    PROVE  s \o Append(t, x) = Append(s \o t, x)
  OBVIOUS

(* Receiving a frame leaves all frames as they are.                        *)
LEMMA ConcatShift ==
    ASSUME NEW S, NEW s \in Seq(S), NEW t \in Seq(S), t # <<>>
    PROVE  Append(s, Head(t)) \o Tail(t) = s \o t
  OBVIOUS

(* The order survives a new frame that none of the others had to follow... *)
LEMMA OrderedAppend ==
    ASSUME NEW S, NEW s \in Seq(S), NEW x \in S, NEW b \in [S -> SUBSET S],
           Ordered(s, b), \A y \in S : x \notin b[y]
    PROVE  Ordered(Append(s, x), b)
  BY DEF Ordered

(* ... and the loss of the first frame or of the last ones.                *)
LEMMA OrderedTail ==
    ASSUME NEW S, NEW s \in Seq(S), NEW b, s # <<>>, Ordered(s, b)
    PROVE  Ordered(Tail(s), b)
  BY DEF Ordered

LEMMA OrderedPrefix ==
    ASSUME NEW S, NEW s \in Seq(S), NEW t \in Seq(S), NEW b, Ordered(s \o t, b)
    PROVE  Ordered(s, b)
  BY DEF Ordered

LEMMA EmptyConcat ==
    ASSUME NEW S, NEW s \in Seq(S)
    PROVE  <<>> \o s = s /\ s \o <<>> = s
  OBVIOUS

-----------------------------------------------------------------------------
(* What CLN was told.                                                      *)

LEMMA StatusStep ==
    ASSUME TypeOK, StatusInv, [Next]_vars
    PROVE  StatusInv'
<1>. USE DEF TypeOK, StatusInv, Startup
<1>1. CASE StartupStep
  <2>1. ASSUME NEW told \in {"none", "disabled"}, NEW status, NEW from, status = "ok" => told # "none",
               GiveUp(from, told, status)
        PROVE  StatusInv'
    BY <2>1 DEF GiveUp, Exit
  <2>2. CASE Configure \/ OptionsOk \/ Getinfo \/ SourceKindOk \/ Connect \/ Declare
    BY <2>2 DEF Configure, OptionsOk, Getinfo, SourceKindOk, Connect, Declare, Advance
  <2>3. CASE Start
    BY <2>3 DEF Start
  <2>4. CASE NoConfigure \/ OptionsBad \/ GetinfoFails \/ SourceKindMissing
             \/ SourceKindInvalid \/ ConnectFails \/ DeclareFails
    BY <2>1, <2>4 DEF NoConfigure, OptionsBad, GetinfoFails, SourceKindMissing,
       SourceKindInvalid, ConnectFails, DeclareFails
  <2>. QED  BY <1>1, <2>2, <2>3, <2>4 DEF StartupStep
<1>2. CASE ShutdownStep \/ Abort
  BY <1>2 DEF ShutdownStep, Join, ClearSlot, CloseConn, Abort, Exit
<1>3. ASSUME NEW e \in Events, Emit(e) \/ HandlerStep(e) PROVE StatusInv'
  BY <1>3 DEF Emit, HandlerStep, Acquire, AcquireEmpty, HandOff, Confirm, PublishFails
<1>4. CASE EmitWarning \/ CloseStdin \/ OnWarning \/ Dispatch \/ Drop \/ LoseWire \/ Receive
           \/ Done \/ UNCHANGED vars
  BY <1>4 DEF EmitWarning, CloseStdin, OnWarning, Dispatch, Drop, LoseWire, Receive, Done, vars
<1>. QED  BY <1>1, <1>2, <1>3, <1>4 DEF Next

-----------------------------------------------------------------------------
(* History: the order of the frames.                                       *)

(* Success is final, and only Emit writes history.                         *)
LEMMA AckedStays ==
    ASSUME TypeOK, InboxInv, [Next]_vars
    PROVE  /\ Acked \subseteq Acked'
           /\ (\A e \in Events : ~Emit(e)) => before' = before
<1>. USE DEF TypeOK, Acked, cln
<1>1. CASE StartupStep
  BY <1>1 DEF StartupStep, Configure, NoConfigure, OptionsOk, OptionsBad, Getinfo,
     GetinfoFails, SourceKindOk, SourceKindMissing, SourceKindInvalid, Connect, ConnectFails,
     Declare, DeclareFails, Start, StartReady, Advance, GiveUp, Exit, Cancelled
<1>2. CASE ShutdownStep \/ Abort
  BY <1>2 DEF ShutdownStep, Join, ClearSlot, CloseConn, Abort, Exit, Cancelled
<1>3. ASSUME NEW e \in Events, HandlerStep(e) PROVE Acked \subseteq Acked' /\ before' = before
  BY <1>3 DEF HandlerStep, Acquire, AcquireEmpty, HandOff, MayHandOff, Confirm, ConfirmReady,
     PublishFails, Reading
<1>4. ASSUME NEW e \in Events, Emit(e) PROVE Acked \subseteq Acked'
  BY <1>4 DEF Emit
<1>5. CASE Dispatch
  <2>1. h[Head(inbox)] = "piped"
    BY <1>5, InjectiveTail DEF Dispatch, InboxInv
  <2>. QED  BY <1>5, <2>1 DEF Dispatch
<1>6. CASE EmitWarning \/ CloseStdin \/ OnWarning \/ Drop \/ LoseWire \/ Receive \/ Done
           \/ UNCHANGED vars
  BY <1>6 DEF EmitWarning, CloseStdin, OnWarning, Drop, LoseWire, Receive, Done, vars
<1>. QED  BY <1>1, <1>2, <1>3, <1>4, <1>5, <1>6 DEF Next

LEMMA HistoryStep ==
    ASSUME TypeOK, InboxInv, HistoryInv, [Next]_vars
    PROVE  HistoryInv'
<1>1. ASSUME NEW e \in Events, Emit(e) PROVE HistoryInv'
  <2>1. e \notin Acked /\ before' = [before EXCEPT ![e] = Acked]
    BY <1>1 DEF Emit, Acked
  <2>. QED  BY <2>1, AckedStays DEF HistoryInv, TypeOK
<1>2. CASE \A e \in Events : ~Emit(e)
  BY <1>2, AckedStays DEF HistoryInv
<1>. QED  BY <1>1, <1>2

LEMMA OrderStep ==
    ASSUME IInv, FlowInv, HistoryInv, Ordered(queue \o wire, before), [Next]_vars
    PROVE  Ordered(queue \o wire, before)'
<1>. USE DEF IInv, TypeOK
<1>. DEFINE frames == queue \o wire
<1>. frames \in Seq(Events) /\ Range(wire) \subseteq Events /\ Range(queue) \subseteq Events
  BY RangeType
<1>1. ASSUME NEW e \in Events, Emit(e) PROVE Ordered(frames', before')
  <2>1. e \notin Range(wire) \cup Range(queue)
    BY <1>1 DEF Emit, FramesInv, Early
  <2>2. frames' = frames
    BY <1>1 DEF Emit, broker
  <2>3. \A i \in DOMAIN frames : frames[i] \in Events /\ frames[i] # e
    BY <2>1 DEF Range
  <2>4. \A d \in Events \ {e} : before'[d] = before[d]
    BY <1>1 DEF Emit
  <2>5. \A i \in DOMAIN frames : before'[frames[i]] = before[frames[i]]
    BY <2>3, <2>4
  <2>. HIDE DEF frames
  <2>. QED  BY <2>2, <2>5 DEF Ordered, frames
<1>2. ASSUME NEW e \in Events, HandOff(e) PROVE Ordered(frames', before')
  <2>1. frames' = Append(frames, e)
    BY <1>2, ConcatAppend DEF HandOff, Enqueued
  <2>2. before' = before /\ e \notin Acked
    BY <1>2 DEF HandOff, MayHandOff, Acked, cln
  <2>3. \A d \in Events : e \notin before[d]
    BY <2>2 DEF HistoryInv
  <2>4. Ordered(frames, before) /\ frames \in Seq(Events) /\ before \in [Events -> SUBSET Events]
    OBVIOUS
  <2>5. Ordered(Append(frames, e), before)
    <3>. HIDE DEF frames, IInv, TypeOK
    <3>. QED  BY <2>3, <2>4, OrderedAppend
  <2>. QED  BY <2>1, <2>2, <2>5
<1>3. CASE Receive
  <2>1. before' = before /\ wire # <<>> /\ wire' = Tail(wire)
    BY <1>3 DEF Receive, cln
  <2>2. CASE bound
    <3>1. frames' = frames
      BY <1>3, <2>1, <2>2, ConcatShift DEF Receive, Route
    <3>. QED  BY <2>1, <3>1
  <2>3. CASE ~bound
    <3>1. queue = <<>> /\ queue' = <<>>
      BY <1>3, <2>3 DEF Receive, Route, FlowInv
    <3>2. frames = wire /\ frames' = Tail(wire)
      BY <2>1, <3>1, EmptyConcat
    <3>. QED  BY <2>1, <3>2, OrderedTail
  <2>. QED  BY <2>2, <2>3
<1>4. CASE LoseWire
  <2>1. frames' = queue /\ before' = before
    BY <1>4, EmptyConcat DEF LoseWire, cln
  <2>. QED  BY <2>1, OrderedPrefix
<1>5. CASE ~Receive /\ ~LoseWire /\ \A e \in Events : ~HandOff(e) /\ ~Emit(e)
  <2>1. frames' = frames
    BY <1>5, FramesStay
  <2>2. before' = before
    BY <1>5, AckedStays
  <2>. QED  BY <2>1, <2>2
<1>. QED  BY <1>1, <1>2, <1>3, <1>4, <1>5

-----------------------------------------------------------------------------
(* Flow: the connection and the frames.                                    *)

Sent == {e \in Events : h[e] \in {"sent", "ok"}}

(* Steps that leave frames, connection, main and binding alone and no      *)
(* handler enters or leaves the handed-over ones while connected.          *)
LEMMA FlowStays ==
    ASSUME FlowInv, main' = main, conn' = conn, bound' = bound, wire' = wire, queue' = queue,
           main = "exited" => HoldsGuard' = {},
           conn \in {"up", "closed"} => Sent' = Sent
    PROVE  FlowInv'
  BY DEF FlowInv, Sent

(* Steps after which the connection is neither up nor closed normally.     *)
LEMMA FlowBroken ==
    ASSUME FlowInv, conn' \in {"none", "broken"}, bound' = bound, wire' = wire, queue' = queue,
           main' = "exited", HoldsGuard' = {}
    PROVE  FlowInv'
  BY DEF FlowInv, Startup

LEMMA ExitFlow ==
    ASSUME TypeOK, FlowInv, NEW status, Exit(status), main # "exited",
           bound' = bound, wire' = wire, queue' = queue
    PROVE  FlowInv'
<1>1. conn' \in {"none", "broken"}
  BY DEF Exit, Dropped, FlowInv, TypeOK, Conns
<1>2. HoldsGuard' = {}
  BY DEF Exit, Cancelled, HoldsGuard, Reading, TypeOK
<1>. QED  BY <1>1, <1>2, FlowBroken DEF Exit

LEMMA FlowStartup ==
    ASSUME IInv, FlowInv, StartupStep
    PROVE  FlowInv'
<1>. USE DEF TypeOK, broker
<1>. TypeOK /\ PhaseInv
  BY DEF IInv
<1>1. ASSUME NEW from \in Startup, NEW told, NEW status, GiveUp(from, told, status)
      PROVE  FlowInv'
  <2>1. main # "exited" /\ Exit(status) /\ bound' = bound /\ wire' = wire /\ queue' = queue
    BY <1>1 DEF GiveUp, Startup
  <2>. QED  BY <2>1, ExitFlow
<1>2. CASE Configure \/ OptionsOk \/ Getinfo \/ SourceKindOk
  <2>1. /\ main \in {"configure", "options", "getinfo", "sourceKind"}
        /\ main' \in {"options", "getinfo", "sourceKind", "connect"}
        /\ UNCHANGED <<conn, bound, wire, queue, h>>
    BY <1>2 DEF Configure, OptionsOk, Getinfo, SourceKindOk, Advance
  <2>2. conn = "none"
    BY <2>1 DEF FlowInv, Startup
  <2>. QED  BY <2>1, <2>2 DEF FlowInv
<1>3. CASE Connect
  <2>1. /\ main = "connect" /\ main' = "declare" /\ conn' = "up"
        /\ UNCHANGED <<bound, wire, queue, h>>
    BY <1>3 DEF Connect, Advance
  <2>2. \A e \in Events : h[e] = "unsent"
    BY <2>1 DEF PhaseInv, Startup
  <2>3. Sent = {} /\ Range(wire) \cup Range(queue) = {}
    <3>1. Range(wire) \cup Range(queue) \subseteq Events
      BY RangeType
    <3>. QED  BY <2>2, <3>1 DEF IInv, FramesInv, Early, Sent
  <2>. QED  BY <2>1, <2>3 DEF FlowInv, Startup, Sent
<1>4. CASE Declare \/ Start
  <2>1. /\ main \in {"declare", "start"} /\ main' \in {"start", "running"}
        /\ UNCHANGED <<conn, bound, wire, queue, h>>
    BY <1>4 DEF Declare, Start, StartReady, Advance
  <2>. QED  BY <2>1 DEF FlowInv, Startup
<1>5. CASE NoConfigure \/ OptionsBad \/ GetinfoFails \/ SourceKindMissing
           \/ SourceKindInvalid \/ ConnectFails \/ DeclareFails
  BY <1>1, <1>5 DEF NoConfigure, OptionsBad, GetinfoFails, SourceKindMissing,
     SourceKindInvalid, ConnectFails, DeclareFails, Startup
<1>. QED  BY <1>2, <1>3, <1>4, <1>5 DEF StartupStep

LEMMA FlowShutdown ==
    ASSUME IInv, FlowInv, ShutdownStep \/ Abort
    PROVE  FlowInv'
<1>. USE DEF TypeOK, broker
<1>. TypeOK /\ PhaseInv
  BY DEF IInv
<1>1. CASE Join \/ ClearSlot
  <2>1. /\ main \in {"running", "clear"} /\ main' \in {"clear", "close"}
        /\ UNCHANGED <<conn, bound, wire, queue, h>>
    BY <1>1 DEF Join, ClearSlot
  <2>. QED  BY <2>1 DEF FlowInv, Startup
<1>2. CASE CloseConn
  <2>1. /\ main = "close" /\ main' = "exited" /\ UNCHANGED <<bound, wire, queue>>
        /\ conn \in {"up", "broken"}
        /\ conn' = IF conn = "up" THEN "closed" ELSE conn
        /\ conn = "up" => wire = <<>>
        /\ h' = Cancelled(h)
    BY <1>2 DEF CloseConn, Flushed, FlowInv
  <2>2. HoldsGuard = {}
    BY <2>1 DEF PhaseInv
  <2>3. HoldsGuard' = {} /\ Sent' = Sent
    BY <2>1, <2>2 DEF HoldsGuard, Reading, Sent, Cancelled
  <2>. QED  BY <2>1, <2>3 DEF FlowInv, Sent, Startup
<1>3. CASE Abort
  BY <1>3, ExitFlow DEF Abort
<1>. QED  BY <1>1, <1>2, <1>3 DEF ShutdownStep

LEMMA FlowHandler ==
    ASSUME IInv, FlowInv, NEW e \in Events, HandlerStep(e)
    PROVE  FlowInv'
<1>. USE DEF TypeOK, broker
<1>. TypeOK /\ Alive /\ main' = main /\ conn' = conn /\ bound' = bound
  BY DEF IInv, HandlerStep, Acquire, AcquireEmpty, HandOff, Confirm, PublishFails
<1>1. CASE Acquire(e) \/ AcquireEmpty(e)
  <2>1. h[e] = "ready" /\ (\E x \in {"guard", "err"} : h' = [h EXCEPT ![e] = x])
        /\ wire' = wire /\ queue' = queue
    BY <1>1 DEF Acquire, AcquireEmpty
  <2>. QED  BY <2>1, FlowStays DEF Sent, Alive
<1>2. CASE HandOff(e)
  <2>1. wire' = Append(wire, e) /\ queue' = queue /\ conn = "up" /\ h' = [h EXCEPT ![e] = "sent"]
    BY <1>2 DEF HandOff, Enqueued
  <2>2. Range(wire') = Range(wire) \cup {e} /\ Sent' = Sent \cup {e}
    BY <2>1, RangeAppend DEF Sent
  <2>. QED  BY <2>1, <2>2 DEF FlowInv, Alive, Sent
<1>3. CASE Confirm(e)
  <2>1. h[e] = "sent" /\ h' = [h EXCEPT ![e] = "ok"] /\ wire' = wire /\ queue' = queue
    BY <1>3 DEF Confirm, ConfirmReady
  <2>. QED  BY <2>1, FlowStays DEF Sent, Alive
<1>4. CASE PublishFails(e)
  <2>1. conn # "up" /\ wire' = wire /\ queue' = queue
    BY <1>4 DEF PublishFails, Gone
  <2>2. conn # "closed"
    BY DEF FlowInv, Alive
  <2>. QED  BY <2>1, <2>2, FlowStays DEF Alive
<1>. QED  BY <1>1, <1>2, <1>3, <1>4 DEF HandlerStep

LEMMA FlowEnvironment ==
    ASSUME IInv, FlowInv,
           \/ \E e \in Events : Emit(e)
           \/ EmitWarning \/ CloseStdin \/ Dispatch \/ OnWarning
           \/ Receive \/ Drop \/ LoseWire \/ Done \/ UNCHANGED vars
    PROVE  FlowInv'
<1>. USE DEF TypeOK, broker
<1>. TypeOK /\ InboxInv
  BY DEF IInv
<1>1. ASSUME NEW e \in Events, Emit(e) PROVE FlowInv'
  <2>1. /\ UNCHANGED <<main, conn, bound, wire, queue>> /\ main # "exited"
        /\ h[e] = "unsent" /\ h' = [h EXCEPT ![e] = "piped"]
    BY <1>1 DEF Emit, Serving
  <2>. QED  BY <2>1, FlowStays DEF Sent
<1>2. CASE Dispatch
  <2>1. h[Head(inbox)] = "piped"
    BY <1>2, InjectiveTail DEF Dispatch, InboxInv
  <2>2. /\ UNCHANGED <<main, conn, bound, wire, queue>> /\ main # "exited"
        /\ h' = [h EXCEPT ![Head(inbox)] = "ready"]
    BY <1>2 DEF Dispatch, Alive
  <2>3. Sent' = Sent
    BY <2>1, <2>2 DEF Sent
  <2>. QED  BY <2>2, <2>3, FlowStays
<1>3. CASE EmitWarning \/ CloseStdin \/ OnWarning \/ Done \/ UNCHANGED vars
  <2>1. UNCHANGED <<main, conn, bound, wire, queue, h>>
    BY <1>3 DEF EmitWarning, CloseStdin, OnWarning, Done, vars
  <2>. QED  BY <2>1 DEF FlowInv, HoldsGuard
<1>4. CASE Receive
  <2>1. /\ UNCHANGED <<main, conn, bound, h>> /\ wire # <<>> /\ wire' = Tail(wire)
        /\ queue' = Route(queue, Head(wire))
    BY <1>4 DEF Receive
  <2>2. CASE bound
    <3>1. Head(wire) \in Events /\ Range(wire) = {Head(wire)} \cup Range(wire')
      BY <2>1, RangeTail
    <3>2. Range(queue') = Range(queue) \cup {Head(wire)}
      BY <2>1, <2>2, <3>1, RangeAppend DEF Route
    <3>3. Range(wire') \cup Range(queue') = Range(wire) \cup Range(queue)
      BY <3>1, <3>2
    <3>. QED  BY <2>1, <2>2, <3>3 DEF FlowInv, HoldsGuard
  <2>3. CASE ~bound
    BY <2>1, <2>3 DEF Route, FlowInv, HoldsGuard
  <2>. QED  BY <2>2, <2>3
<1>5. CASE Drop \/ LoseWire
  <2>1. /\ UNCHANGED <<main, bound, queue, h>> /\ conn' = "broken"
        /\ main \notin Startup \ {"declare", "start"}
    BY <1>5 DEF Drop, LoseWire, FlowInv
  <2>. QED  BY <2>1 DEF FlowInv, HoldsGuard
<1>. QED  BY <1>1, <1>2, <1>3, <1>4, <1>5

-----------------------------------------------------------------------------
(* The invariant and what follows from it.                                 *)

LEMMA InitDelivery == Init => DeliveryInv
<1>. SUFFICES ASSUME Init PROVE DeliveryInv
  OBVIOUS
<1>1. StatusInv /\ HistoryInv
  BY DEF Init, StatusInv, HistoryInv, Acked
<1>2. FlowInv
  BY EmptyFacts DEF Init, FlowInv, HoldsGuard, Reading, Startup
<1>3. Ordered(queue \o wire, before)
  <2>1. queue \o wire = <<>>
    BY DEF Init
  <2>. QED  BY <2>1 DEF Ordered
<1>. QED  BY <1>1, <1>2, <1>3 DEF DeliveryInv

LEMMA StepDelivery == IInv /\ DeliveryInv /\ [Next]_vars => DeliveryInv'
<1>. SUFFICES ASSUME IInv, DeliveryInv, [Next]_vars PROVE DeliveryInv'
  OBVIOUS
<1>1. StatusInv' /\ HistoryInv' /\ Ordered(queue \o wire, before)'
  BY StatusStep, HistoryStep, OrderStep DEF IInv, DeliveryInv
<1>2. FlowInv'
  BY FlowStartup, FlowShutdown, FlowHandler, FlowEnvironment DEF DeliveryInv, Next
<1>. QED  BY <1>1, <1>2 DEF DeliveryInv

(* The delivery invariant holds in every behaviour.                        *)
THEOREM DeliveryInvariance == Spec => []DeliveryInv
  BY InitDelivery, StepDelivery, Invariance, PTL DEF Spec

(* An event emitted after another was acknowledged is behind it.           *)
THEOREM OrderKept == Spec => []RealTimeOrder
<1>1. DeliveryInv => RealTimeOrder
  BY DEF DeliveryInv, RealTimeOrder
<1>. QED  BY <1>1, DeliveryInvariance, PTL

(* After a clean exit the queue holds exactly the acknowledged events.     *)
THEOREM AckedAreDelivered == Spec => []CleanExitDeliversAcked
<1>1. IInv /\ DeliveryInv => CleanExitDeliversAcked
  <2>. SUFFICES ASSUME IInv, DeliveryInv, main = "exited", conn = "closed"
                PROVE  Range(queue) = IF bound THEN Acked ELSE {}
    BY DEF CleanExitDeliversAcked
  <2>1. wire = <<>> /\ HoldsGuard = {}
    BY DEF DeliveryInv, FlowInv
  <2>2. CASE bound
    <3>1. Range(queue) = Sent
      BY <2>1, <2>2, EmptyFacts DEF DeliveryInv, FlowInv, Sent
    <3>2. Sent = Acked
      BY <2>1 DEF Sent, Acked, HoldsGuard, Reading
    <3>. QED  BY <2>2, <3>1, <3>2
  <2>3. CASE ~bound
    BY <2>3, EmptyFacts DEF DeliveryInv, FlowInv
  <2>. QED  BY <2>2, <2>3
<1>. QED  BY <1>1, Invariance, DeliveryInvariance, PTL

(* The plugin never ends with status 0 without having answered CLN.        *)
THEOREM ExitIsAnnounced == Spec => []NoSilentExit
<1>1. DeliveryInv => NoSilentExit
  BY DEF DeliveryInv, StatusInv, NoSilentExit
<1>. QED  BY <1>1, DeliveryInvariance, PTL
=============================================================================
