----------------------------- MODULE Connection -----------------------------
(***************************************************************************)
(* client/connect.go, client/sender.go and the waiting part of             *)
(* client/client.go: the hooks that run when the channel to the agent      *)
(* gateway goes up and down, the hello and authorization handshake with    *)
(* its retries, the callers that wait for it in WaitForConnection, and the *)
(* start of the agent that waits for it in WaitAuthorization.              *)
(*                                                                         *)
(* The channel library is not part of the repository.  From how it is used *)
(* here: it reconnects for ever; the connect hook sends requests over the  *)
(* channel and waits for their answers, so it runs in a goroutine of its   *)
(* own while the channel can go down, and the disconnect hook with it;     *)
(* then the channel goes up again and the hook is started once more, even  *)
(* if the last one has not returned.                                       *)
(***************************************************************************)
EXTENDS Naturals, FiniteSets

CONSTANTS
    Sessions,    \* bound: how often the channel goes up; one onConnect each
    Waiters,     \* goroutines that call Client.Send: pipe workers, watchdog
    None,        \* no session, no waiter
    Limit,       \* the limit onConnect gives WithBackoffLimit (100)
    Tokens,      \* the question tokens the gateway sends: "strong", "weak"
    Timeouts     \* whether a wait reaches its timeout

ASSUME SessionsAssumption == IsFiniteSet(Sessions) /\ Sessions # {}
ASSUME WaitersAssumption == IsFiniteSet(Waiters)
ASSUME NoneAssumption == None \notin Sessions \cup Waiters
ASSUME LimitAssumption == Limit \in Nat \ {0}
ASSUME TokensAssumption == Tokens \subseteq {"strong", "weak"} /\ Tokens # {}
ASSUME TimeoutsAssumption == Timeouts \in BOOLEAN

VARIABLES
    link,        \* the session whose connection is up, or None
    hanging,     \* the connection went down, onDisconnect has not run yet
    accepted,    \* the sessions whose answer the gateway has accepted
    connected,   \* Client.connected
    authorized,  \* Client.authorized
    blockedM,    \* the session that holds Client.blockedM in onConnect, or None
    blocked,     \* Client.blocked: the waiters whose channel is in the map
    hook,        \* where the onConnect of each session stands
    tries,       \* try of its WithBackoffLimit
    todo,        \* the channels its Range has not visited yet
    target,      \* the waiter its Range is sending to, or None
    waiter,      \* where each waiter stands in Send
    result,      \* what its WaitForConnection returned
    main,        \* where WaitAuthorization stands
    process      \* "running", or how the process ended

linkVars   == <<link, hanging, accepted>>
clientVars == <<connected, authorized, blockedM, blocked>>
hookVars   == <<hook, tries, todo, target>>
waitVars   == <<waiter, result>>
vars == <<linkVars, clientVars, hookVars, waitVars, main, process>>

HookStates == {"off", "start", "try", "hello", "helloed", "auth", "asked", "answer",
               "answered", "set", "signal", "release", "range", "after", "suspended",
               "done"}
WaiterStates == {"idle", "register", "select", "delete", "close", "send", "note"}
MainStates == {"check", "receive", "started"}
ProcessStates == {"running", "exit122", "panic", "exit"}

Init ==
    /\ link = None
    /\ hanging = FALSE
    /\ accepted = {}
    /\ connected = FALSE
    /\ authorized = FALSE
    /\ blockedM = None
    /\ blocked = {}
    /\ hook = [s \in Sessions |-> "off"]
    /\ tries = [s \in Sessions |-> 0]
    /\ todo = [s \in Sessions |-> {}]
    /\ target = [s \in Sessions |-> None]
    /\ waiter = [w \in Waiters |-> "idle"]
    /\ result = [w \in Waiters |-> FALSE]
    /\ main = "check"
    /\ process = "running"

Running == process = "running"
LockFree == blockedM = None
HookGoto(s, to) == hook' = [hook EXCEPT ![s] = to]
WaiterGoto(w, to) == waiter' = [waiter EXCEPT ![w] = to]

------------------------------------------------------------------------------
(* The channel: external *)

LinkUp(s) ==
    /\ Running
    /\ link = None /\ ~hanging
    /\ hook[s] = "off"
    /\ link' = s
    /\ HookGoto(s, "start")
    /\ UNCHANGED <<hanging, accepted, clientVars, tries, todo, target,
                   waitVars, main, process>>

LinkDown ==
    /\ Running
    /\ link # None
    /\ link' = None
    /\ hanging' = TRUE
    /\ UNCHANGED <<accepted, clientVars, hookVars, waitVars, main, process>>

\* onDisconnect
OnDisconnect ==
    /\ Running
    /\ hanging
    /\ LockFree
    /\ hanging' = FALSE
    /\ connected' = FALSE
    /\ authorized' = FALSE
    /\ UNCHANGED <<link, accepted, blockedM, blocked, hookVars, waitVars, main, process>>

------------------------------------------------------------------------------
(* onConnect *)

\* client.connected = true, under blockedM
OnConnect(s) ==
    /\ Running
    /\ hook[s] = "start"
    /\ LockFree
    /\ connected' = TRUE
    /\ HookGoto(s, "try")
    /\ UNCHANGED <<linkVars, authorized, blockedM, blocked, tries, todo, target,
                   waitVars, main, process>>

\* if !client.connected { return nil }
Try(s) ==
    /\ Running
    /\ hook[s] = "try"
    /\ HookGoto(s, IF connected THEN "hello" ELSE "after")
    /\ UNCHANGED <<linkVars, clientVars, tries, todo, target, waitVars, main, process>>

\* channel.Send returns with the answer to the hello, to the authorization
\* request or to the authorization answer, which the gateway accepts for the
\* connection it came on.  send goes on to note lastSent under blockedM; by the
\* time it has the lock the connection may be gone.
Answered(s) ==
    /\ Running
    /\ link # None
    /\ \/ hook[s] = "hello" /\ HookGoto(s, "helloed") /\ UNCHANGED accepted
       \/ hook[s] = "auth" /\ HookGoto(s, "asked") /\ UNCHANGED accepted
       \/ hook[s] = "answer" /\ HookGoto(s, "answered") /\ accepted' = accepted \cup {link}
    /\ UNCHANGED <<link, hanging, clientVars, tries, todo, target, waitVars, main, process>>

\* send is back with an error: channel.Send failed, or lastSent is noted and
\* the answer cannot be decoded.
SendFails(s, asking, noting) ==
    \/ hook[s] = asking
    \/ hook[s] = noting /\ LockFree

\* WithBackoffLimit after an error: try again while the limit allows.
Backoff(s) ==
    /\ tries' = [tries EXCEPT ![s] = @ + 1]
    /\ HookGoto(s, IF tries[s] + 1 < Limit THEN "try" ELSE "after")

HelloOk(s) ==
    /\ Running
    /\ hook[s] = "helloed"
    /\ LockFree
    /\ HookGoto(s, "auth")
    /\ UNCHANGED <<linkVars, clientVars, tries, todo, target, waitVars, main, process>>

HelloError(s) ==
    /\ Running
    /\ SendFails(s, "hello", "helloed")
    /\ Backoff(s)
    /\ UNCHANGED <<linkVars, clientVars, todo, target, waitVars, main, process>>

\* hello fails ten minutes after the connection, or with "unsupported version".
HelloHopeless(s) ==
    /\ Running
    /\ SendFails(s, "hello", "helloed")
    /\ HookGoto(s, "after")
    /\ UNCHANGED <<linkVars, clientVars, tries, todo, target, waitVars, main, process>>

\* Mutant: the question counts as the whole handshake.
AuthQuestionOnly(s) ==
    /\ Running
    /\ hook[s] = "asked"
    /\ LockFree
    /\ HookGoto(s, "set")
    /\ UNCHANGED <<linkVars, clientVars, tries, todo, target, waitVars, main, process>>

\* authorize, the request: errors.Wrapf of a nil error is nil, so after a weak
\* token authorize returns no error and sends no answer.
AuthQuestion(s) ==
    /\ Running
    /\ hook[s] = "asked"
    /\ LockFree
    /\ \E token \in Tokens : HookGoto(s, IF token = "weak" THEN "set" ELSE "answer")
    /\ UNCHANGED <<linkVars, clientVars, tries, todo, target, waitVars, main, process>>

\* authorize, the answer: client is authorized
AuthAnswer(s) ==
    /\ Running
    /\ hook[s] = "answered"
    /\ LockFree
    /\ HookGoto(s, "set")
    /\ UNCHANGED <<linkVars, clientVars, tries, todo, target, waitVars, main, process>>

\* authorize fails, in a send or with a token it cannot sign; with code 401 or
\* 403 the retry comes two hours later.
AuthError(s) ==
    /\ Running
    /\ SendFails(s, "auth", "asked") \/ SendFails(s, "answer", "answered")
    /\ Backoff(s)
    /\ UNCHANGED <<linkVars, clientVars, todo, target, waitVars, main, process>>

\* authorize fails with code 404: the goroutine sleeps for ever.
AuthNotFound(s) ==
    /\ Running
    /\ hook[s] \in {"auth", "answer"}
    /\ HookGoto(s, "suspended")
    /\ UNCHANGED <<linkVars, clientVars, tries, todo, target, waitVars, main, process>>

\* client.authorized = true, without blockedM
SetAuthorized(s) ==
    /\ Running
    /\ hook[s] = "set"
    /\ authorized' = TRUE
    /\ HookGoto(s, "signal")
    /\ UNCHANGED <<linkVars, connected, blockedM, blocked, tries, todo, target,
                   waitVars, main, process>>

\* connected <- true: the channel is unbuffered, WaitAuthorization receives.
Signal(s) ==
    /\ Running
    /\ hook[s] = "signal"
    /\ main = "receive"
    /\ main' = "started"
    /\ HookGoto(s, "release")
    /\ UNCHANGED <<linkVars, clientVars, tries, todo, target, waitVars, process>>

\* client.blockedM.Lock(), client.blocked.Range(...)
Release(s) ==
    /\ Running
    /\ hook[s] = "release"
    /\ LockFree
    /\ blockedM' = s
    /\ todo' = [todo EXCEPT ![s] = blocked]
    /\ HookGoto(s, "range")
    /\ UNCHANGED <<linkVars, connected, authorized, blocked, tries, target,
                   waitVars, main, process>>

\* Range comes to the channel of w: it sends on it unless it was deleted.
RangeVisit(s, w) ==
    /\ Running
    /\ hook[s] = "range"
    /\ target[s] = None
    /\ w \in todo[s]
    /\ todo' = [todo EXCEPT ![s] = @ \ {w}]
    /\ target' = IF w \in blocked THEN [target EXCEPT ![s] = w] ELSE target
    /\ UNCHANGED <<linkVars, clientVars, hook, tries, waitVars, main, process>>

\* k <- struct{}{} meets case <-c of WaitForConnection
RangeSend(s) ==
    /\ Running
    /\ hook[s] = "range"
    /\ target[s] # None
    /\ waiter[target[s]] = "select"
    /\ WaiterGoto(target[s], "delete")
    /\ result' = [result EXCEPT ![target[s]] = TRUE]
    /\ target' = [target EXCEPT ![s] = None]
    /\ UNCHANGED <<linkVars, clientVars, hook, tries, todo, main, process>>

\* Mutant: onConnect goes on with blockedM in its hands.
RangeDoneLocked(s) ==
    /\ Running
    /\ hook[s] = "range"
    /\ todo[s] = {} /\ target[s] = None
    /\ blocked' = {}
    /\ HookGoto(s, "after")
    /\ UNCHANGED <<linkVars, connected, authorized, blockedM, tries, todo, target,
                   waitVars, main, process>>

\* client.blocked = sync.Map{}, client.blockedM.Unlock()
RangeDone(s) ==
    /\ Running
    /\ hook[s] = "range"
    /\ todo[s] = {} /\ target[s] = None
    /\ blocked' = {}
    /\ blockedM' = None
    /\ HookGoto(s, "after")
    /\ UNCHANGED <<linkVars, connected, authorized, tries, todo, target,
                   waitVars, main, process>>

\* if client.authorized { return nil }; os.Exit(122)
After(s) ==
    /\ Running
    /\ hook[s] = "after"
    /\ HookGoto(s, "done")
    /\ process' = IF authorized THEN "running" ELSE "exit122"
    /\ UNCHANGED <<linkVars, clientVars, tries, todo, target, waitVars, main>>

------------------------------------------------------------------------------
(* Client.Send: WaitForConnection, then send whatever it returned *)

WaitCheck(w) ==
    /\ Running
    /\ waiter[w] = "idle"
    /\ WaiterGoto(w, IF authorized THEN "send" ELSE "register")
    /\ result' = [result EXCEPT ![w] = authorized]
    /\ UNCHANGED <<linkVars, clientVars, hookVars, main, process>>

\* Mutant: the channel is stored without blockedM.
WaitRegisterUnlocked(w) ==
    /\ Running
    /\ waiter[w] = "register"
    /\ blocked' = blocked \cup {w}
    /\ WaiterGoto(w, "select")
    /\ UNCHANGED <<linkVars, connected, authorized, blockedM, hookVars, result, main, process>>

\* client.blocked.Store(c, struct{}{}), under blockedM
WaitRegister(w) ==
    /\ Running
    /\ waiter[w] = "register"
    /\ LockFree
    /\ blocked' = blocked \cup {w}
    /\ WaiterGoto(w, "select")
    /\ UNCHANGED <<linkVars, connected, authorized, blockedM, hookVars, result, main, process>>

\* Mutant: the timer runs only on a connection that is up.
WaitTimeoutConnected(w) ==
    /\ Running
    /\ Timeouts /\ connected
    /\ waiter[w] = "select"
    /\ WaiterGoto(w, "delete")
    /\ result' = [result EXCEPT ![w] = FALSE]
    /\ UNCHANGED <<linkVars, clientVars, hookVars, main, process>>

\* case <-time.After(timeout): return false
WaitTimeout(w) ==
    /\ Running
    /\ Timeouts
    /\ waiter[w] = "select"
    /\ WaiterGoto(w, "delete")
    /\ result' = [result EXCEPT ![w] = FALSE]
    /\ UNCHANGED <<linkVars, clientVars, hookVars, main, process>>

\* deferred: client.blocked.Delete(c), without blockedM
WaitDelete(w) ==
    /\ Running
    /\ waiter[w] = "delete"
    /\ blocked' = blocked \ {w}
    /\ WaiterGoto(w, "close")
    /\ UNCHANGED <<linkVars, connected, authorized, blockedM, hookVars, result, main, process>>

\* deferred: close(c); a goroutine that is sending on c panics.
WaitClose(w) ==
    /\ Running
    /\ waiter[w] = "close"
    /\ WaiterGoto(w, "send")
    /\ process' = IF \E s \in Sessions : target[s] = w THEN "panic" ELSE "running"
    /\ UNCHANGED <<linkVars, clientVars, hookVars, result, main>>

\* client.send: the answer arrives
SendAnswered(w) ==
    /\ Running
    /\ waiter[w] = "send"
    /\ link # None
    /\ WaiterGoto(w, "note")
    /\ UNCHANGED <<linkVars, clientVars, hookVars, result, main, process>>

\* client.send notes lastSent under blockedM and returns.
SendNoted(w) ==
    /\ Running
    /\ waiter[w] = "note"
    /\ LockFree
    /\ WaiterGoto(w, "idle")
    /\ UNCHANGED <<linkVars, clientVars, hookVars, result, main, process>>

\* client.send: channel.Send fails
SendFailed(w) ==
    /\ Running
    /\ waiter[w] = "send"
    /\ WaiterGoto(w, "idle")
    /\ UNCHANGED <<linkVars, clientVars, hookVars, result, main, process>>

------------------------------------------------------------------------------
(* MagalixGateway.WaitAuthorization, called once by Agent.Start *)

MainCheck ==
    /\ Running
    /\ main = "check"
    /\ main' = IF authorized THEN "started" ELSE "receive"
    /\ UNCHANGED <<linkVars, clientVars, hookVars, waitVars, process>>

\* Agent.Start returns the error and the agent ends.
MainTimeout ==
    /\ Running
    /\ Timeouts
    /\ main = "receive"
    /\ process' = "exit"
    /\ UNCHANGED <<linkVars, clientVars, hookVars, waitVars, main>>

HookStep(s) ==
    \/ OnConnect(s) \/ Try(s) \/ Answered(s)
    \/ HelloOk(s) \/ HelloError(s) \/ HelloHopeless(s)
    \/ AuthQuestion(s) \/ AuthAnswer(s) \/ AuthError(s) \/ AuthNotFound(s)
    \/ SetAuthorized(s) \/ Signal(s) \/ Release(s)
    \/ (\E w \in Waiters : RangeVisit(s, w)) \/ RangeSend(s) \/ RangeDone(s)
    \/ After(s)

\* Steps a waiter takes once it is inside Send.
InsideSend(w) ==
    \/ WaitRegister(w) \/ WaitTimeout(w) \/ WaitDelete(w) \/ WaitClose(w)
    \/ SendAnswered(w) \/ SendNoted(w) \/ SendFailed(w)

Next ==
    \/ \E s \in Sessions : LinkUp(s) \/ HookStep(s)
    \/ LinkDown \/ OnDisconnect
    \/ \E w \in Waiters : WaitCheck(w) \/ InsideSend(w)
    \/ MainCheck \/ MainTimeout

Spec == Init /\ [][Next]_vars

\* Goroutines that can run do run and timers fire.  Weak fairness is enough for
\* the mutex: only the Range of an onConnect holds blockedM over more than a
\* step, once in a session, so that the lock is in the end free or held for
\* good.  Nothing makes the gateway answer or the channel come up.
FairSpec ==
    /\ Spec
    /\ \A s \in Sessions : WF_vars(HookStep(s))
    /\ \A w \in Waiters : WF_vars(InsideSend(w))
    /\ WF_vars(OnDisconnect) /\ WF_vars(MainCheck)

------------------------------------------------------------------------------
(* Properties *)

\* The values of the variables.
TypeOK ==
    /\ link \in Sessions \cup {None}
    /\ hanging \in BOOLEAN
    /\ accepted \subseteq Sessions
    /\ connected \in BOOLEAN
    /\ authorized \in BOOLEAN
    /\ blockedM \in Sessions \cup {None}
    /\ blocked \subseteq Waiters
    /\ hook \in [Sessions -> HookStates]
    /\ tries \in [Sessions -> 0..Limit]
    /\ todo \in [Sessions -> SUBSET Waiters]
    /\ target \in [Sessions -> Waiters \cup {None}]
    /\ waiter \in [Waiters -> WaiterStates]
    /\ result \in [Waiters -> BOOLEAN]
    /\ main \in MainStates
    /\ process \in ProcessStates

\* Nobody is let through before the gateway has accepted an answer: not the
\* callers of WaitForConnection that found authorized set, not the ones Range
\* woke, not the start of the agent.
LetThroughWhenAccepted ==
    (authorized \/ main = "started" \/ \E w \in Waiters : result[w]) => accepted # {}

\* onConnect replaces the map of waiters by an empty one: when it does, no
\* waiter is left that is registered and asleep, so none is forgotten.
NoneForgottenStep ==
    (\E s \in Sessions : RangeDone(s)) => \A w \in Waiters : waiter[w] # "select"
NoneForgotten == [][NoneForgottenStep]_vars

\* blockedM is taken by both hooks, by every send and every registration, and
\* Range sends on unbuffered channels while it holds it: it is always let go.
LockReleased == blockedM # None ~> (blockedM = None \/ ~Running)

\* A call of Send returns in the end, whether or not the agent is connected.
SendReturns == \A w \in Waiters : waiter[w] # "idle" ~> (waiter[w] = "idle" \/ ~Running)

\* IsReady, "returns true if the agent is connected and authenticated":
\* authorized implies that the gateway has accepted the client's answer.
ReadyMeansAuthenticated == authorized => accepted # {}

\* WaitForConnection, "blocks until the agent gateway is connected and the
\* agent is authenticated": a waiter is let through when the agent is
\* authorized, or the agent loses the authorization or ends.
WaitersReleased ==
    \A w \in Waiters :
        (waiter[w] = "select" /\ authorized) ~> (waiter[w] # "select" \/ ~authorized \/ ~Running)

\* WaitForConnection, "returns true if connected false if timeout occurred": a
\* wait that times out does not bring the agent down.
TimeoutIsHarmless == process # "panic"
=============================================================================
