--------------------------- MODULE ConnectionProofs ---------------------------
(* Proofs about the hooks and the waiters of the client, for any number of    *)
(* sessions and waiters: how often the channel goes up and down, and where    *)
(* each earlier onConnect still stands, is open.                              *)
EXTENDS Connection, TLAPS

\* Where the handshake can still fail, or has not begun.
Trying == {"off", "start", "try", "hello", "helloed", "auth", "asked", "answer", "answered"}

\* A try is left as long as the handshake can still fail.
TriesLeft ==
    \A s \in Sessions :
        hook[s] \in Trying => tries[s] < Limit

\* Only Range holds blockedM over more than a step.
RangeHolds == \A s \in Sessions : hook[s] = "range" => blockedM = s

\* Who sleeps is in the map, and Range is going to meet it.
SleepersFound ==
    \A w \in Waiters :
        waiter[w] = "select" =>
            /\ w \in blocked
            /\ \A s \in Sessions : hook[s] = "range" => (w \in todo[s] \/ target[s] = w)

ConnInv == TypeOK /\ TriesLeft /\ RangeHolds /\ SleepersFound

LEMMA ConnInvInit == Init => ConnInv
<1> SUFFICES ASSUME Init PROVE ConnInv
    OBVIOUS
<1>1. TypeOK
    <2>1. hook \in [Sessions -> HookStates] /\ tries \in [Sessions -> 0..Limit]
        BY LimitAssumption DEF Init, HookStates
    <2>2. todo \in [Sessions -> SUBSET Waiters] /\ target \in [Sessions -> Waiters \cup {None}]
        BY DEF Init
    <2>3. waiter \in [Waiters -> WaiterStates] /\ result \in [Waiters -> BOOLEAN]
        BY DEF Init, WaiterStates
    <2>4. main \in MainStates /\ process \in ProcessStates
        BY DEF Init, MainStates, ProcessStates
    <2> QED BY <2>1, <2>2, <2>3, <2>4 DEF Init, TypeOK
<1>2. TriesLeft /\ RangeHolds /\ SleepersFound
    BY LimitAssumption DEF Init, TriesLeft, RangeHolds, SleepersFound
<1> QED BY <1>1, <1>2 DEF ConnInv

\* The actions that do nothing but move a hook, none of them into or out of the
\* Range.
MovesHook(s) ==
    \/ LinkUp(s) \/ OnConnect(s) \/ Try(s) \/ Answered(s)
    \/ HelloOk(s) \/ HelloError(s) \/ HelloHopeless(s)
    \/ AuthQuestion(s) \/ AuthAnswer(s) \/ AuthError(s) \/ AuthNotFound(s)
    \/ SetAuthorized(s) \/ Signal(s) \/ After(s)

LEMMA MovesHookKeeps ==
    ASSUME ConnInv, NEW s \in Sessions, MovesHook(s)
    PROVE  ConnInv'
<1> USE LimitAssumption, NoneAssumption
<1>1. /\ hook' \in [Sessions -> HookStates]
      /\ hook[s] # "range" /\ hook'[s] # "range"
      /\ \A r \in Sessions \ {s} : hook'[r] = hook[r]
    BY DEF ConnInv, TypeOK, HookStates, MovesHook, HookGoto, Backoff, SendFails, Trying, LinkUp,
           OnConnect, Try, Answered,
           HelloOk, HelloError, HelloHopeless, AuthQuestion, AuthAnswer, AuthError, AuthNotFound,
           SetAuthorized, Signal, After
<1>2. UNCHANGED <<blockedM, blocked, todo, target, waiter, result>>
    BY DEF MovesHook, Backoff, SendFails, Trying, LinkUp,
           OnConnect, Try, Answered,
           HelloOk, HelloError, HelloHopeless, AuthQuestion, AuthAnswer, AuthError, AuthNotFound,
           SetAuthorized, Signal, After, linkVars, clientVars, waitVars
<1>3. \/ UNCHANGED tries
         /\ (hook'[s] \in Trying =>
                 hook[s] \in Trying)
      \/ /\ hook[s] \in Trying
         /\ tries' = [tries EXCEPT ![s] = @ + 1]
         /\ hook'[s] = IF tries[s] + 1 < Limit THEN "try" ELSE "after"
    BY DEF ConnInv, TypeOK, HookStates, MovesHook, HookGoto, Backoff, SendFails, Trying, LinkUp,
           OnConnect, Try, Answered,
           HelloOk, HelloError, HelloHopeless, AuthQuestion, AuthAnswer, AuthError, AuthNotFound,
           SetAuthorized, Signal, After
<1>4. /\ link' \in Sessions \cup {None} /\ hanging' \in BOOLEAN /\ accepted' \subseteq Sessions
      /\ connected' \in BOOLEAN /\ authorized' \in BOOLEAN
      /\ main' \in MainStates /\ process' \in ProcessStates
    BY DEF ConnInv, TypeOK, MainStates, ProcessStates, MovesHook, Backoff, SendFails, Trying, LinkUp,
           OnConnect, Try, Answered,
           HelloOk, HelloError, HelloHopeless, AuthQuestion, AuthAnswer, AuthError, AuthNotFound,
           SetAuthorized, Signal, After, linkVars, clientVars, waitVars
<1>5. tries' \in [Sessions -> 0..Limit]
    BY <1>3 DEF ConnInv, TypeOK, TriesLeft
<1>6. TriesLeft'
    BY <1>1, <1>3 DEF ConnInv, TypeOK, TriesLeft, Trying
<1>7. TypeOK'
    BY <1>1, <1>2, <1>4, <1>5 DEF ConnInv, TypeOK
<1>8. RangeHolds' /\ SleepersFound'
    BY <1>1, <1>2 DEF ConnInv, RangeHolds, SleepersFound
<1> QED BY <1>6, <1>7, <1>8 DEF ConnInv

LEMMA ReleaseKeeps ==
    ASSUME ConnInv, NEW s \in Sessions, Release(s)
    PROVE  ConnInv'
<1> USE NoneAssumption
<1>1. /\ hook' \in [Sessions -> HookStates]
      /\ hook'[s] = "range"
      /\ \A r \in Sessions \ {s} : hook'[r] = hook[r] /\ hook[r] # "range"
    BY DEF ConnInv, TypeOK, HookStates, RangeHolds, Release, HookGoto, LockFree
<1>2. /\ blockedM' = s
      /\ todo' \in [Sessions -> SUBSET Waiters] /\ todo'[s] = blocked
      /\ UNCHANGED <<link, hanging, accepted, connected, authorized, blocked, tries, target, waiter,
                     result, main, process>>
    BY DEF ConnInv, TypeOK, Release, linkVars, waitVars
<1>3. TypeOK'
    BY <1>1, <1>2 DEF ConnInv, TypeOK
<1>4. TriesLeft'
    BY <1>1, <1>2 DEF ConnInv, TriesLeft, Trying
<1>5. RangeHolds' /\ SleepersFound'
    BY <1>1, <1>2 DEF ConnInv, RangeHolds, SleepersFound
<1> QED BY <1>3, <1>4, <1>5 DEF ConnInv

LEMMA RangeVisitKeeps ==
    ASSUME ConnInv, NEW s \in Sessions, NEW w \in Waiters, RangeVisit(s, w)
    PROVE  ConnInv'
<1> USE NoneAssumption
<1>1. /\ hook[s] = "range" /\ target[s] = None /\ w \in todo[s]
      /\ todo' = [todo EXCEPT ![s] = @ \ {w}]
      /\ target' = IF w \in blocked THEN [target EXCEPT ![s] = w] ELSE target
      /\ UNCHANGED <<link, hanging, accepted, connected, authorized, blockedM, blocked, hook, tries,
                     waiter, result, main, process>>
    BY DEF RangeVisit, linkVars, clientVars, waitVars
<1>2. todo' \in [Sessions -> SUBSET Waiters] /\ target' \in [Sessions -> Waiters \cup {None}]
    BY <1>1 DEF ConnInv, TypeOK
<1>3. TypeOK'
    BY <1>1, <1>2 DEF ConnInv, TypeOK
<1>4. TriesLeft' /\ RangeHolds'
    BY <1>1 DEF ConnInv, TriesLeft, RangeHolds
<1>5. SleepersFound'
    <2> SUFFICES ASSUME NEW v \in Waiters, waiter[v] = "select"
                 PROVE  /\ v \in blocked
                        /\ \A r \in Sessions : hook[r] = "range" => (v \in todo'[r] \/ target'[r] = v)
        BY <1>1 DEF SleepersFound
    <2>1. v \in blocked /\ \A r \in Sessions : hook[r] = "range" => (v \in todo[r] \/ target[r] = v)
        BY DEF ConnInv, SleepersFound
    <2>2. \A r \in Sessions \ {s} : todo'[r] = todo[r] /\ target'[r] = target[r]
        BY <1>1 DEF ConnInv, TypeOK
    <2>3. v \in todo'[s] \/ target'[s] = v
        BY <1>1, <2>1 DEF ConnInv, TypeOK
    <2> QED BY <2>1, <2>2, <2>3
<1> QED BY <1>3, <1>4, <1>5 DEF ConnInv

LEMMA RangeSendKeeps ==
    ASSUME ConnInv, NEW s \in Sessions, RangeSend(s)
    PROVE  ConnInv'
<1> USE NoneAssumption
<1> DEFINE t == target[s]
<1>1. t \in Waiters
    BY DEF ConnInv, TypeOK, RangeSend
<1>2. /\ hook[s] = "range"
      /\ waiter' = [waiter EXCEPT ![t] = "delete"]
      /\ result' = [result EXCEPT ![t] = TRUE]
      /\ target' = [target EXCEPT ![s] = None]
      /\ UNCHANGED <<link, hanging, accepted, connected, authorized, blockedM, blocked, hook, tries,
                     todo, main, process>>
    BY DEF RangeSend, WaiterGoto, linkVars, clientVars
<1>3. waiter' \in [Waiters -> WaiterStates] /\ result' \in [Waiters -> BOOLEAN]
    BY <1>1, <1>2 DEF ConnInv, TypeOK, WaiterStates
<1>4. TypeOK'
    BY <1>2, <1>3 DEF ConnInv, TypeOK
<1>5. TriesLeft' /\ RangeHolds'
    BY <1>2 DEF ConnInv, TriesLeft, RangeHolds
<1>6. SleepersFound'
    <2> SUFFICES ASSUME NEW v \in Waiters, waiter'[v] = "select"
                 PROVE  /\ v \in blocked
                        /\ \A r \in Sessions : hook[r] = "range" => (v \in todo[r] \/ target'[r] = v)
        BY <1>2 DEF SleepersFound
    <2>1. v # t /\ waiter[v] = "select"
        BY <1>1, <1>2 DEF ConnInv, TypeOK
    <2>2. v \in blocked /\ \A r \in Sessions : hook[r] = "range" => (v \in todo[r] \/ target[r] = v)
        BY <2>1 DEF ConnInv, SleepersFound
    <2>3. \A r \in Sessions \ {s} : target'[r] = target[r]
        BY <1>2 DEF ConnInv, TypeOK
    <2> QED BY <2>1, <2>2, <2>3
<1> QED BY <1>4, <1>5, <1>6 DEF ConnInv

\* When Range is done, nobody sleeps.
LEMMA NobodySleeps ==
    ASSUME ConnInv, NEW s \in Sessions, RangeDone(s)
    PROVE  \A w \in Waiters : waiter[w] # "select"
BY NoneAssumption DEF ConnInv, SleepersFound, RangeDone

LEMMA RangeDoneKeeps ==
    ASSUME ConnInv, NEW s \in Sessions, RangeDone(s)
    PROVE  ConnInv'
<1> USE NoneAssumption
<1>1. /\ hook[s] = "range"
      /\ hook' = [hook EXCEPT ![s] = "after"]
      /\ blocked' = {} /\ blockedM' = None
      /\ UNCHANGED <<link, hanging, accepted, connected, authorized, tries, todo, target, waiter,
                     result, main, process>>
    BY DEF RangeDone, HookGoto, linkVars, waitVars
<1>2. /\ hook' \in [Sessions -> HookStates]
      /\ \A r \in Sessions : hook'[r] # "range"
      /\ \A r \in Sessions : r = s \/ hook'[r] = hook[r]
      /\ hook'[s] = "after"
    BY <1>1 DEF ConnInv, TypeOK, HookStates, RangeHolds
<1>3. TypeOK'
    BY <1>1, <1>2 DEF ConnInv, TypeOK
<1>4. TriesLeft' /\ RangeHolds'
    BY <1>1, <1>2 DEF ConnInv, TriesLeft, Trying, RangeHolds
<1>5. SleepersFound'
    BY <1>1, NobodySleeps DEF SleepersFound
<1> QED BY <1>3, <1>4, <1>5 DEF ConnInv

LEMMA WaiterKeeps ==
    ASSUME ConnInv, NEW w \in Waiters, WaitCheck(w) \/ InsideSend(w)
    PROVE  ConnInv'
<1> USE NoneAssumption
<1>1. UNCHANGED <<link, hanging, accepted, connected, authorized, blockedM, hook, tries, todo, target,
                  main>>
    BY DEF WaitCheck, InsideSend, WaitRegister, WaitTimeout, WaitDelete, WaitClose, SendAnswered,
           SendNoted, SendFailed, linkVars, clientVars, hookVars
<1>2. /\ waiter' \in [Waiters -> WaiterStates]
      /\ \A v \in Waiters \ {w} : waiter'[v] = waiter[v]
      /\ waiter'[w] = "select" => WaitRegister(w)
    BY DEF ConnInv, TypeOK, WaiterStates, WaitCheck, InsideSend, WaiterGoto, WaitRegister,
           WaitTimeout, WaitDelete, WaitClose, SendAnswered, SendNoted, SendFailed
<1>3. blocked' \subseteq Waiters /\ blocked \ {w} \subseteq blocked' /\ process' \in ProcessStates
    BY DEF ConnInv, TypeOK, ProcessStates, WaitCheck, InsideSend, WaitRegister, WaitTimeout,
           WaitDelete, WaitClose, SendAnswered, SendNoted, SendFailed, clientVars
<1>4. result' \in [Waiters -> BOOLEAN]
    BY DEF ConnInv, TypeOK, WaitCheck, InsideSend, WaitRegister, WaitTimeout, WaitDelete, WaitClose,
           SendAnswered, SendNoted, SendFailed
<1>5. TypeOK'
    BY <1>1, <1>2, <1>3, <1>4 DEF ConnInv, TypeOK
<1>6. TriesLeft' /\ RangeHolds'
    BY <1>1 DEF ConnInv, TriesLeft, RangeHolds
<1>7. SleepersFound'
    <2> SUFFICES ASSUME NEW v \in Waiters, waiter'[v] = "select"
                 PROVE  /\ v \in blocked'
                        /\ \A s \in Sessions : hook[s] = "range" => (v \in todo[s] \/ target[s] = v)
        BY <1>1 DEF SleepersFound
    <2>1. CASE v = w
        <3>1. WaitRegister(w)
            BY <2>1, <1>2
        <3>2. w \in blocked' /\ \A s \in Sessions : hook[s] # "range"
            BY <3>1 DEF WaitRegister, LockFree, ConnInv, RangeHolds
        <3> QED BY <2>1, <3>2
    <2>2. CASE v # w
        <3>1. waiter[v] = "select"
            BY <2>2, <1>2
        <3> QED BY <2>2, <3>1, <1>3 DEF ConnInv, SleepersFound
    <2> QED BY <2>1, <2>2
<1> QED BY <1>5, <1>6, <1>7 DEF ConnInv

\* The link, the disconnect hook and WaitAuthorization leave hooks and waiters
\* alone.
LEMMA RestKeeps ==
    ASSUME ConnInv, LinkDown \/ OnDisconnect \/ MainCheck \/ MainTimeout
    PROVE  ConnInv'
<1>1. UNCHANGED <<accepted, blockedM, blocked, hook, tries, todo, target, waiter, result>>
    BY DEF LinkDown, OnDisconnect, MainCheck, MainTimeout, linkVars, clientVars, hookVars, waitVars
<1>2. /\ link' \in Sessions \cup {None} /\ hanging' \in BOOLEAN
      /\ connected' \in BOOLEAN /\ authorized' \in BOOLEAN
      /\ main' \in MainStates /\ process' \in ProcessStates
    BY DEF ConnInv, TypeOK, MainStates, ProcessStates, LinkDown, OnDisconnect, MainCheck,
           MainTimeout, linkVars, clientVars
<1>3. TypeOK'
    BY <1>1, <1>2 DEF ConnInv, TypeOK
<1>4. TriesLeft' /\ RangeHolds' /\ SleepersFound'
    BY <1>1 DEF ConnInv, TriesLeft, RangeHolds, SleepersFound
<1> QED BY <1>3, <1>4 DEF ConnInv

LEMMA ConnInvStep == ConnInv /\ [Next]_vars => ConnInv'
<1> SUFFICES ASSUME ConnInv, [Next]_vars PROVE ConnInv'
    OBVIOUS
<1>1. CASE UNCHANGED vars
    BY <1>1 DEF vars, linkVars, clientVars, hookVars, waitVars, ConnInv, TypeOK, TriesLeft, RangeHolds,
                SleepersFound
<1>2. ASSUME NEW s \in Sessions, LinkUp(s) \/ HookStep(s) PROVE ConnInv'
    <2>1. CASE MovesHook(s)
        BY <2>1, MovesHookKeeps
    <2>2. CASE Release(s)
        BY <2>2, ReleaseKeeps
    <2>3. ASSUME NEW w \in Waiters, RangeVisit(s, w) PROVE ConnInv'
        BY <2>3, RangeVisitKeeps
    <2>4. CASE RangeSend(s)
        BY <2>4, RangeSendKeeps
    <2>5. CASE RangeDone(s)
        BY <2>5, RangeDoneKeeps
    <2> QED BY <1>2, <2>1, <2>2, <2>3, <2>4, <2>5 DEF HookStep, MovesHook
<1>3. ASSUME NEW w \in Waiters, WaitCheck(w) \/ InsideSend(w) PROVE ConnInv'
    BY <1>3, WaiterKeeps
<1>4. CASE LinkDown \/ OnDisconnect \/ MainCheck \/ MainTimeout
    BY <1>4, RestKeeps
<1> QED BY <1>1, <1>2, <1>3, <1>4 DEF Next

\* The variables keep their types, for any number of sessions, waiters and tries.
THEOREM ConnTypeCorrect == Spec => []TypeOK
<1>1. ConnInv => TypeOK
    BY DEF ConnInv
<1> QED BY <1>1, ConnInvInit, ConnInvStep, PTL DEF Spec

\* onConnect replaces the map of waiters only when nobody sleeps in it, however
\* the hooks of earlier sessions and the timeouts of the waiters interleave.
THEOREM NoneEverForgotten == Spec => NoneForgotten
<1>1. ConnInv /\ [Next]_vars => [NoneForgottenStep]_vars
    <2> SUFFICES ASSUME ConnInv PROVE NoneForgottenStep
        OBVIOUS
    <2> QED BY NobodySleeps DEF NoneForgottenStep
<1> QED BY <1>1, ConnInvInit, ConnInvStep, PTL DEF Spec, NoneForgotten

------------------------------------------------------------------------------
(* Who is let through *)

\* An onConnect that has come past authorize has an accepted answer behind it.
PastAnswer == {"answered", "set", "signal", "release", "range"}
PastAuthorize ==
    \A s \in Sessions :
        hook[s] \in PastAnswer => accepted # {}

PassInv == PastAuthorize /\ LetThroughWhenAccepted

LEMMA AcceptedStays ==
    ASSUME ConnInv, Next PROVE accepted \subseteq accepted'
BY DEF Next, HookStep, InsideSend, LinkUp, OnConnect, Try, Answered, HelloOk, HelloError, HelloHopeless,
       AuthQuestion, AuthAnswer, AuthError, AuthNotFound, SetAuthorized, Signal, Release, RangeVisit,
       RangeSend, RangeDone, After, LinkDown, OnDisconnect, WaitCheck, WaitRegister, WaitTimeout,
       WaitDelete, WaitClose, SendAnswered, SendNoted, SendFailed, MainCheck, MainTimeout, linkVars

LEMMA PassStep ==
    ASSUME Tokens = {"strong"}, ConnInv, PassInv, [Next]_vars
    PROVE  PassInv'
<1> USE NoneAssumption
<1>1. CASE UNCHANGED vars
    BY <1>1 DEF vars, linkVars, clientVars, hookVars, waitVars, PassInv, PastAuthorize,
                LetThroughWhenAccepted
<1>2. CASE Next
    <2>1. accepted \subseteq accepted'
        BY <1>2, AcceptedStays
    <2>2. CASE accepted # {}
        BY <2>1, <2>2 DEF PassInv, PastAuthorize, LetThroughWhenAccepted
    <2>3. CASE accepted = {}
        <3>1. /\ \A s \in Sessions : hook[s] \notin PastAnswer
              /\ ~authorized /\ main # "started" /\ \A w \in Waiters : ~result[w]
            BY <2>3 DEF PassInv, PastAuthorize, LetThroughWhenAccepted
        <3>2. ASSUME NEW s \in Sessions, LinkUp(s) \/ HookStep(s) PROVE PassInv'
            <4>1. CASE accepted' # {}
                BY <4>1 DEF PassInv, PastAuthorize, LetThroughWhenAccepted
            <4>2. CASE accepted' = {}
                <5>1. UNCHANGED <<authorized, main, result>>
                    BY <3>1, <3>2, <4>2 DEF HookStep, LinkUp, OnConnect, Try, Answered, HelloOk, HelloError,
                       HelloHopeless, AuthQuestion, AuthAnswer, PastAnswer, AuthError, AuthNotFound,
                       SetAuthorized, Signal,
                       Release, RangeVisit, RangeSend, RangeDone, After, clientVars, waitVars
                <5>2. /\ hook'[s] \notin PastAnswer
                      /\ \A r \in Sessions \ {s} : hook'[r] = hook[r]
                    BY <3>1, <3>2, <4>2 DEF ConnInv, TypeOK, HookStep, LinkUp, OnConnect, Try, Answered, HelloOk,
                       HelloError, HelloHopeless, AuthQuestion, AuthAnswer, AuthError, AuthNotFound,
                       SetAuthorized, Signal, Release, RangeVisit, RangeSend, RangeDone, After, HookGoto,
                       Backoff, SendFails, PastAnswer
                <5> QED BY <3>1, <5>1, <5>2 DEF PassInv, PastAuthorize, LetThroughWhenAccepted
            <4> QED BY <4>1, <4>2
        <3>3. ASSUME NEW w \in Waiters, WaitCheck(w) \/ InsideSend(w) PROVE PassInv'
            <4>1. UNCHANGED <<authorized, main, hook>>
                BY <3>3 DEF WaitCheck, InsideSend, WaitRegister, WaitTimeout, WaitDelete, WaitClose,
                   SendAnswered, SendNoted, SendFailed, clientVars, hookVars
            <4>2. \A v \in Waiters : ~result'[v]
                BY <3>1, <3>3 DEF ConnInv, TypeOK, WaitCheck, InsideSend, WaitRegister, WaitTimeout,
                   WaitDelete, WaitClose, SendAnswered, SendNoted, SendFailed
            <4> QED BY <3>1, <4>1, <4>2 DEF PassInv, PastAuthorize, LetThroughWhenAccepted
        <3>4. CASE LinkDown \/ OnDisconnect \/ MainCheck \/ MainTimeout
            <4>1. UNCHANGED <<hook, result>> /\ ~authorized' /\ main' # "started"
                BY <3>1, <3>4 DEF LinkDown, OnDisconnect, MainCheck, MainTimeout, clientVars, hookVars,
                   waitVars
            <4> QED BY <3>1, <4>1 DEF PassInv, PastAuthorize, LetThroughWhenAccepted
        <3> QED BY <1>2, <3>2, <3>3, <3>4 DEF Next
    <2> QED BY <2>2, <2>3
<1> QED BY <1>1, <1>2

\* With strong tokens no caller of WaitForConnection and no start of the agent
\* is let through before the gateway has accepted an answer, whatever hooks of
\* lost connections still run.  (With a weak token it is not so: see the run
\* connection_weak_token.)
THEOREM LetThroughOnlyWhenAccepted ==
    Tokens = {"strong"} => (Spec => []LetThroughWhenAccepted)
<1> SUFFICES ASSUME Tokens = {"strong"} PROVE Spec => []LetThroughWhenAccepted
    OBVIOUS
<1>1. Init => PassInv
    BY DEF Init, PassInv, PastAuthorize, PastAnswer, LetThroughWhenAccepted
<1>2. ConnInv /\ PassInv /\ [Next]_vars => PassInv'
    BY PassStep
<1>3. PassInv => LetThroughWhenAccepted
    BY DEF PassInv
<1> QED BY <1>1, <1>2, <1>3, ConnInvInit, ConnInvStep, PTL DEF Spec
=============================================================================
