-------------------------------- MODULE Pipe --------------------------------
(***************************************************************************)
(* client/pipe.go: callers of Send put packages in the store and broadcast *)
(* on a condition variable; the workers take them out and hand them to the *)
(* client's Send, putting them back when it fails.                         *)
(*                                                                         *)
(* An action is one step between two points where another goroutine can    *)
(* observe the difference: a store call (atomic, see PipeStore), taking or *)
(* releasing cond.L, Broadcast, the outcome of a send.  sync.Cond.Wait     *)
(* registers the goroutine before it releases L, so both are one step.     *)
(***************************************************************************)
EXTENDS PipeStore

CONSTANTS
    Workers,   \* the goroutines Start launches
    None       \* no worker, no package

ASSUME WorkersAssumption == IsFiniteSet(Workers) /\ Workers # {}
ASSUME NoneAssumption == None \notin Workers \cup Packages

VARIABLES
    holder,    \* the worker that holds cond.L, or None
    pc,        \* where each worker stands in its loop
    pack,      \* the package each worker holds, or None
    caller,    \* where the caller of Send stands, for each package
    sent,      \* the packages whose send returned no error
    dropped,   \* the packages the store swept away
    reported   \* the sum of what Send has returned to its callers

loopVars == <<holder, pc, pack>>
fateVars == <<sent, dropped, reported>>
pipeVars == <<psVars, loopVars, caller, fateVars>>

PCs == {"idle", "locked", "empty", "waiting", "woken", "got", "sending", "failed"}
CallerStates == {"new", "stamped", "added", "done"}

\* NewPipe, Start
PipeInit ==
    /\ PSInit
    /\ holder = None
    /\ pc = [w \in Workers |-> "idle"]
    /\ pack = [w \in Workers |-> None]
    /\ caller = [p \in Packages |-> "new"]
    /\ sent = {}
    /\ dropped = {}
    /\ reported = 0

------------------------------------------------------------------------------
(* Send *)

\* pack.time = time.Now()
SendStamp(p) ==
    /\ caller[p] = "new"
    /\ caller' = [caller EXCEPT ![p] = "stamped"]
    /\ time' = [time EXCEPT ![p] = Now]
    /\ UNCHANGED <<storeVars, prio, retries, expired, loopVars, fateVars>>

\* Mutant: Send returns without the broadcast.
SendAddSilent(p) ==
    /\ caller[p] = "stamped"
    /\ caller' = [caller EXCEPT ![p] = "done"]
    /\ \E R \in SUBSET (kinds[KindOf[p]] \cup {p}) :
         /\ AddSweeping(p, R)
         /\ dropped' = dropped \cup R
         /\ reported' = reported + AddResult(R)
    /\ AddStamp(p)
    /\ UNCHANGED <<prio, retries, expired, loopVars, sent>>

\* ret := p.storage.Add(&pack)
SendAdd(p) ==
    /\ caller[p] = "stamped"
    /\ caller' = [caller EXCEPT ![p] = "added"]
    /\ \E R \in SUBSET (kinds[KindOf[p]] \cup {p}) :
         /\ AddSweeping(p, R)
         /\ dropped' = dropped \cup R
         /\ reported' = reported + AddResult(R)
    /\ AddStamp(p)
    /\ UNCHANGED <<prio, retries, expired, loopVars, sent>>

\* p.cond.Broadcast(), without cond.L
SendBroadcast(p) ==
    /\ caller[p] = "added"
    /\ caller' = [caller EXCEPT ![p] = "done"]
    /\ pc' = [w \in Workers |-> IF pc[w] = "waiting" THEN "woken" ELSE pc[w]]
    /\ UNCHANGED <<psVars, holder, pack, fateVars>>

------------------------------------------------------------------------------
(* The loop of a worker *)

Goto(w, to) == pc' = [pc EXCEPT ![w] = to]

\* p.cond.L.Lock()
Lock(w) ==
    /\ pc[w] = "idle"
    /\ holder = None
    /\ holder' = w
    /\ Goto(w, "locked")
    /\ UNCHANGED <<psVars, pack, caller, fateVars>>

\* pack := p.storage.Pop(), which returns p
TakePack(w, p) ==
    /\ pc[w] = "locked"
    /\ PopPack(p)
    /\ pack' = [pack EXCEPT ![w] = p]
    /\ Goto(w, "got")
    /\ UNCHANGED <<time, expired, holder, caller, fateVars>>

\* pack := p.storage.Pop(), which returns nil
TakeNil(w) ==
    /\ pc[w] = "locked"
    /\ pq = {}
    /\ Goto(w, "empty")
    /\ UNCHANGED <<psVars, holder, pack, caller, fateVars>>

\* p.cond.Wait() up to the point where the worker sleeps
Wait(w) ==
    /\ pc[w] = "empty"
    /\ holder' = None
    /\ Goto(w, "waiting")
    /\ UNCHANGED <<psVars, pack, caller, fateVars>>

\* the rest of p.cond.Wait(), p.cond.L.Unlock(), continue
WakeUp(w) ==
    /\ pc[w] = "woken"
    /\ holder = None
    /\ Goto(w, "idle")
    /\ UNCHANGED <<psVars, holder, pack, caller, fateVars>>

\* p.cond.L.Unlock() with a package in hand
Unlock(w) ==
    /\ pc[w] = "got"
    /\ holder' = None
    /\ Goto(w, "sending")
    /\ UNCHANGED <<psVars, pack, caller, fateVars>>

\* err := p.sender.Send(...) returns nil
SendOk(w) ==
    /\ pc[w] = "sending"
    /\ sent' = sent \cup {pack[w]}
    /\ pack' = [pack EXCEPT ![w] = None]
    /\ Goto(w, "idle")
    /\ UNCHANGED <<psVars, holder, caller, dropped, reported>>

\* Mutant: a package whose send failed is forgotten.
SendErrorForgetting(w) ==
    /\ pc[w] = "sending"
    /\ retries[pack[w]] < MaxRetries
    /\ pack' = [pack EXCEPT ![w] = None]
    /\ Goto(w, "idle")
    /\ UNCHANGED <<psVars, holder, caller, fateVars>>

\* err := p.sender.Send(...) returns an error; MaxRetries bounds the failures
SendError(w) ==
    /\ pc[w] = "sending"
    /\ retries[pack[w]] < MaxRetries
    /\ Goto(w, "failed")
    /\ UNCHANGED <<psVars, holder, pack, caller, fateVars>>

\* p.storage.Add(pack): nobody is told of what the sweep drops
PutBack(w) ==
    /\ pc[w] = "failed"
    /\ \E R \in SUBSET (kinds[KindOf[pack[w]]] \cup {pack[w]}) :
         /\ AddSweeping(pack[w], R)
         /\ dropped' = dropped \cup R
    /\ AddStamp(pack[w])
    /\ pack' = [pack EXCEPT ![w] = None]
    /\ Goto(w, "idle")
    /\ UNCHANGED <<prio, retries, expired, holder, caller, sent, reported>>

PipeExpire(p) == Expire(p) /\ UNCHANGED <<loopVars, caller, fateVars>>

CallerStep(p) == SendAdd(p) \/ SendBroadcast(p)

WorkerStep(w) ==
    \/ Lock(w)
    \/ \E p \in Packages : TakePack(w, p)
    \/ TakeNil(w)
    \/ Wait(w)
    \/ WakeUp(w)
    \/ Unlock(w)
    \/ SendOk(w)
    \/ SendError(w)
    \/ PutBack(w)

PipeNext ==
    \/ \E p \in Packages : SendStamp(p) \/ CallerStep(p) \/ PipeExpire(p)
    \/ \E w \in Workers : WorkerStep(w)

PipeSpec == PipeInit /\ [][PipeNext]_pipeVars

\* Goroutines that can run do run: a caller inside Send, and every worker.
PipeFairSpec ==
    /\ PipeSpec
    /\ \A p \in Packages : WF_pipeVars(CallerStep(p))
    /\ \A w \in Workers : WF_pipeVars(WorkerStep(w))

------------------------------------------------------------------------------
(* Properties *)

\* The values the variables of the pipe take, and those of the store.
PipeTypeOK ==
    /\ PSTypeOK
    /\ holder \in Workers \cup {None}
    /\ pc \in [Workers -> PCs]
    /\ pack \in [Workers -> Packages \cup {None}]
    /\ caller \in [Packages -> CallerStates]
    /\ sent \subseteq Packages
    /\ dropped \subseteq Packages
    /\ reported \in Nat

\* A worker that has found the store empty, or sleeps because of it.
Dozing(w) == pc[w] \in {"empty", "waiting"}

\* Send broadcasts without cond.L, so a package can be added and announced
\* between a worker's Pop and its Wait.  With two workers or more the package
\* is not stranded: when the store is not empty and every caller has
\* broadcast, some worker is on its way to the store.
NoLostWakeup ==
    (pq # {} /\ \A p \in Packages : caller[p] # "added") => \E w \in Workers : ~Dozing(w)

InHand(p) == {w \in Workers : pack[w] = p}

InOnePlace(p) ==
    /\ caller[p] \in {"added", "done"} <=>
         p \in pq \/ InHand(p) # {} \/ p \in sent \/ p \in dropped
    /\ p \in pq => InHand(p) = {} /\ p \notin sent /\ p \notin dropped
    /\ InHand(p) # {} => p \notin sent /\ p \notin dropped
    /\ \A v, w \in InHand(p) : v = w
    /\ p \in sent => p \notin dropped

\* A package that was added is queued, or in the hand of one worker, or sent,
\* or dropped, and never two of these, whatever the order of failures, retries
\* and sweeps: no package is lost, none is sent by two workers at once, none
\* is sent again after a send that succeeded.
PackageInOnePlace == \A p \in Packages : InOnePlace(p)

\* A worker works on a package exactly while it stands between Pop and the
\* end of the iteration.
WorkerHasPack ==
    \A w \in Workers : pack[w] # None <=> pc[w] \in {"got", "sending", "failed"}

\* cond.L: the worker that holds it, and only that one, is inside.
HolderInside ==
    \A w \in Workers : holder = w <=> pc[w] \in {"locked", "empty", "got"}

\* Every package handed to Send is sent in the end, or the store drops it.
EventuallySettled ==
    \A p \in Packages : caller[p] = "added" ~> p \in sent \cup dropped

\* Package.ExpiryTime is checked where a package enters the store and where it
\* leaves: peek still hands out a package that it finds expired, but that is the
\* last attempt.  Whether the package expires before its Send, in a worker's hand
\* or in the middle of a failing send, it never comes to lie in the store again.
ExpiredStaysOutStep == \A p \in expired \ pq : p \notin pq'
ExpiredStaysOut == [][ExpiredStaysOutStep]_pipeVars
=============================================================================
