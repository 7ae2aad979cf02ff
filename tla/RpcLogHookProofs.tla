-------------------------- MODULE RpcLogHookProofs --------------------------
(***************************************************************************)
(* The safety of RpcLogHook for any commands, methods and list: what the   *)
(* bucket holds when a command is let continue, and what it never holds.   *)
(***************************************************************************)
EXTENDS RpcLogHook, TLAPS

(* Only a listed command waits for the store; so whatever reaches the      *)
(* bucket, even after a failure or the end of the plugin, is listed.       *)
UploadsListed == \A c \in Commands : hook[c] = "upload" => ToLog(c)

HookInv == TypeOK /\ LoggedBeforeRun /\ OnlyListedRecorded /\ UploadsListed

-----------------------------------------------------------------------------
(* The type invariant is inductive.                                        *)
LEMMA TypeInit == Init => TypeOK
  BY DEF Init, TypeOK

LEMMA TypeStep == TypeOK /\ [Next]_vars => TypeOK'
<1>. SUFFICES ASSUME TypeOK, [Next]_vars PROVE TypeOK'
  OBVIOUS
<1>. USE DEF TypeOK
<1>1. ASSUME NEW c \in Commands, Call(c) PROVE TypeOK'
  BY <1>1 DEF Call
<1>2. ASSUME NEW c \in Commands, Hook(c) PROVE TypeOK'
  <2>1. CASE LogFirst(c)
    BY <2>1 DEF LogFirst
  <2>2. CASE PassUnlisted(c)
    BY <2>2 DEF PassUnlisted
  <2>3. CASE Upload(c)
    BY <2>3 DEF Upload
  <2>4. CASE UploadFails(c)
    BY <2>4 DEF UploadFails, AfterFailure
  <2>5. CASE ReadFails(c)
    BY <2>5 DEF ReadFails
  <2>. QED  BY <1>2, <2>1, <2>2, <2>3, <2>4, <2>5 DEF Hook
<1>3. ASSUME NEW c \in Commands, Run(c) PROVE TypeOK'
  BY <1>3 DEF Run
<1>4. CASE Stop
  BY <1>4 DEF Stop
<1>5. CASE StorageTurns
  BY <1>5 DEF StorageTurns
<1>6. CASE UNCHANGED vars
  BY <1>6 DEF vars
<1>. QED  BY <1>1, <1>2, <1>3, <1>4, <1>5, <1>6 DEF Next

(* The list is never read again: what is to be logged stays so.            *)
LEMMA ListFixed == [Next]_vars => \A c \in Commands : ToLog(c)' <=> ToLog(c)
<1>1. [Next]_vars => UNCHANGED rpcList
  BY DEF Next, vars, Call, Hook, ReadFails, LogFirst, PassUnlisted, Upload, UploadFails, Run, Stop,
         StorageTurns
<1>. QED  BY <1>1 DEF ToLog

-----------------------------------------------------------------------------
(* HookInv is inductive.                                                   *)
LEMMA HookInit == Init => HookInv
<1>. SUFFICES ASSUME Init PROVE HookInv
  OBVIOUS
<1>1. TypeOK
  BY TypeInit
<1>2. LoggedBeforeRun /\ OnlyListedRecorded /\ UploadsListed
  BY DEF Init, LoggedBeforeRun, OnlyListedRecorded, UploadsListed
<1>. QED  BY <1>1, <1>2 DEF HookInv

LEMMA HookStep == HookInv /\ [Next]_vars => HookInv'
<1>. DEFINE Rest == LoggedBeforeRun /\ OnlyListedRecorded /\ UploadsListed
<1>. SUFFICES ASSUME HookInv, [Next]_vars PROVE Rest'
  BY TypeStep DEF HookInv
<1>0. TypeOK /\ Rest
  BY DEF HookInv
<1>l. \A c \in Commands : ToLog(c)' <=> ToLog(c)
  BY ListFixed
<1>. USE DEF TypeOK, LoggedBeforeRun, OnlyListedRecorded, UploadsListed
<1>1. ASSUME NEW c \in Commands, Call(c) PROVE Rest'
  BY <1>0, <1>l, <1>1 DEF Call
<1>2. ASSUME NEW c \in Commands, Hook(c) PROVE Rest'
  <2>1. CASE LogFirst(c)
    <3>1. ToLog(c)
      BY <2>1 DEF LogFirst, InLogList, ToLog
    <3>. QED  BY <1>0, <1>l, <2>1, <3>1 DEF LogFirst
  <2>2. CASE PassUnlisted(c)
    <3>1. ~ToLog(c)
      BY <2>2 DEF PassUnlisted, InLogList, ToLog
    <3>. QED  BY <1>0, <1>l, <2>2, <3>1 DEF PassUnlisted
  <2>3. CASE Upload(c)
    BY <1>0, <1>l, <2>3 DEF Upload
  <2>4. CASE UploadFails(c)
    BY <1>0, <1>l, <2>4 DEF UploadFails, AfterFailure
  <2>5. CASE ReadFails(c)
    BY <1>0, <1>l, <2>5 DEF ReadFails
  <2>. QED  BY <1>2, <2>1, <2>2, <2>3, <2>4, <2>5 DEF Hook
<1>3. ASSUME NEW c \in Commands, Run(c) PROVE Rest'
  BY <1>0, <1>l, <1>3 DEF Run
<1>4. CASE Stop
  <2>1. PICK cs \in SUBSET {c \in Commands : hook[c] = "upload"} : bucket' = bucket \cup cs
    BY <1>4 DEF Stop
  <2>2. \A c \in Commands : hook'[c] = hook[c] \/ hook'[c] = "lost"
    BY <1>4 DEF Stop
  <2>3. \A c \in Commands : hook[c] = "upload" => hook'[c] = "lost"
    BY <1>4 DEF Stop
  <2>4. LoggedBeforeRun'
    BY <1>0, <1>l, <2>1, <2>2
  <2>5. OnlyListedRecorded'
    BY <1>0, <1>l, <2>1
  <2>6. UploadsListed'
    BY <2>2, <2>3
  <2>. QED  BY <2>4, <2>5, <2>6
<1>5. CASE StorageTurns
  BY <1>0, <1>l, <1>5 DEF StorageTurns
<1>6. CASE UNCHANGED vars
  BY <1>0, <1>l, <1>6 DEF vars
<1>. QED  BY <1>1, <1>2, <1>3, <1>4, <1>5, <1>6 DEF Next

-----------------------------------------------------------------------------
(* Every variable keeps its type.                                          *)
THEOREM TypeCorrect == Spec => []TypeOK
<1>1. Init => TypeOK
  BY TypeInit
<1>2. TypeOK /\ [Next]_vars => TypeOK'
  BY TypeStep
<1>. QED  BY <1>1, <1>2, PTL DEF Spec

(* A command to be logged is let continue only with its record in the      *)
(* bucket, for any number of callers.                                      *)
THEOREM LoggedFirst == Spec => []LoggedBeforeRun
<1>1. Init => HookInv
  BY HookInit
<1>2. HookInv /\ [Next]_vars => HookInv'
  BY HookStep
<1>3. HookInv => LoggedBeforeRun
  BY DEF HookInv
<1>. QED  BY <1>1, <1>2, <1>3, PTL DEF Spec

(* A method outside of a non-empty list leaves no record, also when an     *)
(* upload fails or the plugin stops halfway.                               *)
THEOREM NothingElseRecorded == Spec => []OnlyListedRecorded
<1>1. Init => HookInv
  BY HookInit
<1>2. HookInv /\ [Next]_vars => HookInv'
  BY HookStep
<1>3. HookInv => OnlyListedRecorded
  BY DEF HookInv
<1>. QED  BY <1>1, <1>2, <1>3, PTL DEF Spec
=============================================================================
