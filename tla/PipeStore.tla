------------------------------ MODULE PipeStore ------------------------------
(***************************************************************************)
(* client/pipe_store.go: the DefaultPipeStore, a mutex-protected priority  *)
(* queue of packages waiting to be sent.                                   *)
(*                                                                         *)
(* Every exported method holds the store's mutex from entry to return, so  *)
(* each one is a single action.  The heap is the set pq of the packages it *)
(* holds: every change of a key is followed by heap.Fix, so its first      *)
(* element is always a least one by (Priority, time).  A slice kinds[k] is *)
(* the set of its elements with, for each element, the set of the elements *)
(* ahead of it.                                                            *)
(***************************************************************************)
EXTENDS Integers, FiniteSets

CONSTANTS
    Packages,     \* the *Package values the callers create
    Kinds,        \* proto.PacketKind
    KindOf,       \* Package.Kind
    ExpiryCount,  \* Package.ExpiryCount, 0 means never
    Retries,      \* Package.Retries, 0 means never
    Priority,     \* Package.Priority as the caller sets it
    Perishable,   \* the packages with a non-nil ExpiryTime
    MaxRetries    \* bound: times a package is peeked before its callers stop

ASSUME PackagesAssumption == IsFiniteSet(Packages)
ASSUME PackageFieldsAssumption ==
    /\ KindOf \in [Packages -> Kinds]
    /\ ExpiryCount \in [Packages -> Nat]
    /\ Retries \in [Packages -> Nat]
    /\ Priority \in [Packages -> Nat]
    /\ Perishable \subseteq Packages
ASSUME MaxRetriesAssumption == MaxRetries \in Nat

VARIABLES
    pq,       \* the packages in the heap
    kinds,    \* for each kind, the packages in its slice
    ahead,    \* for each package, those ahead of it in the slice of its kind
    removed,  \* DefaultPipeStore.removed: items removed since the last Add
    prio,     \* Package.Priority, raised by peek
    retries,  \* Package.retries
    time,     \* Package.time as a logical clock, 0 is the zero time.Time
    expired   \* the packages whose ExpiryTime has passed

storeVars == <<pq, kinds, ahead, removed>>
packVars  == <<prio, retries, time>>
psVars    == <<pq, kinds, ahead, removed, prio, retries, time, expired>>

\* The logical time of the next call of time.Now by a caller that stamps a
\* package: later than every stamp given so far.
Now == Cardinality({p \in Packages : time[p] # 0}) + 1

\* NewDefaultPipeStore
PSInit ==
    /\ pq = {}
    /\ kinds = [k \in Kinds |-> {}]
    /\ ahead = [p \in Packages |-> {}]
    /\ removed = 0
    /\ prio = Priority
    /\ retries = [p \in Packages |-> 0]
    /\ time = [p \in Packages |-> 0]
    /\ expired = {}

\* PriorityQueue.Less, or equal: p may be the first element of a heap with q.
LessEq(p, q) ==
    \/ prio[p] < prio[q]
    \/ prio[p] = prio[q] /\ time[p] <= time[q]

\* The package PriorityQueue.First returns.
IsFirst(p) == p \in pq /\ \A q \in pq : LessEq(p, q)

------------------------------------------------------------------------------
\* Mutant: the limit of a kind is passed by one before a package goes.
ShouldExpireLate(p, n) ==
    \/ ExpiryCount[p] > 0 /\ ExpiryCount[p] + 1 < n
    \/ p \in expired

\* Mutant: only the count is looked at.
ShouldExpireByCount(p, n) == ExpiryCount[p] > 0 /\ ExpiryCount[p] < n

\* The condition of the sweep in Add for a package when the slice of its kind
\* has n elements.
ShouldExpire(p, n) ==
    \/ ExpiryCount[p] > 0 /\ ExpiryCount[p] < n
    \/ p \in expired

\* Mutant: the loop runs back to front.
SweepRemovesFromBack(K, order, R) ==
    /\ R \subseteq K
    /\ \A p \in K :
         p \in R <=>
           ShouldExpire(p, Cardinality(K) - Cardinality({q \in R : p \in order[q]}))

\* The loop of Add over the slice K, front to back, removes exactly R: when it
\* reaches p it has removed the elements of R that are ahead of p, and the
\* slice is that much shorter.
SweepRemoves(K, order, R) ==
    /\ R \subseteq K
    /\ \A p \in K :
         p \in R <=>
           ShouldExpire(p, Cardinality(K) - Cardinality(order[p] \cap R))

\* append(kind, pack)
Appended(p) == [ahead EXCEPT ![p] = kinds[KindOf[p]]]

\* The slices without the packages of R.
Without(order, R) ==
    [q \in Packages |-> IF q \in R THEN {} ELSE order[q] \ R]

\* The number an Add that sweeps R away returns.
AddResult(R) == removed + Cardinality(R)

\* Add(p): push, append, sweep; R is what the sweep removes.
AddSweeping(p, R) ==
    LET k == KindOf[p]
        K == kinds[k] \cup {p}
    IN  /\ SweepRemoves(K, Appended(p), R)
        /\ pq' = (pq \cup {p}) \ R
        /\ kinds' = [kinds EXCEPT ![k] = K \ R]
        /\ ahead' = Without(Appended(p), R)
        /\ removed' = 0

\* The time.Now of Add, for a package its caller has not stamped.
AddStamp(p) == time' = IF time[p] = 0 THEN [time EXCEPT ![p] = Now] ELSE time

------------------------------------------------------------------------------
\* Mutant: the package leaves the heap and stays in the slice of its kind.
RemovePackFromHeap(p) ==
    /\ pq' = pq \ {p}
    /\ UNCHANGED <<kinds, ahead>>

\* remove(p), from the heap and from the slice of its kind.
RemovePack(p) ==
    /\ pq' = pq \ {p}
    /\ kinds' = [kinds EXCEPT ![KindOf[p]] = @ \ {p}]
    /\ ahead' = Without(ahead, {p})

\* Mutants: the attempt is counted after it is used; the priority is never
\* lowered.
CountAttemptEarly(p) ==
    /\ retries' = [retries EXCEPT ![p] = @ + 1]
    /\ prio' = IF Retries[p] > 0 /\ retries[p] % Retries[p] = 0
               THEN [prio EXCEPT ![p] = @ + 1] ELSE prio
CountAttemptOnly(p) ==
    /\ retries' = [retries EXCEPT ![p] = @ + 1]
    /\ UNCHANGED prio

\* The tail of peek: count the attempt, lower the priority of the package
\* every Retries[p] attempts.
CountAttempt(p) ==
    /\ retries' = [retries EXCEPT ![p] = @ + 1]
    /\ prio' = IF Retries[p] > 0 /\ (retries[p] + 1) % Retries[p] = 0
               THEN [prio EXCEPT ![p] = @ + 1]
               ELSE prio

\* The count kept by peek: an expired package is removed and counted, and
\* still returned.
CountExpired(p) ==
    removed' = IF p \in expired THEN removed + 1 ELSE removed

\* Pop() = p: peek, then ack.  An expired package has left the heap in peek
\* (its index is -1 and ack does nothing), any other leaves it in ack.
PopPack(p) ==
    /\ IsFirst(p)
    /\ CountExpired(p)
    /\ CountAttempt(p)
    /\ RemovePack(p)

\* Peek() = p
PeekPack(p) ==
    /\ IsFirst(p)
    /\ CountExpired(p)
    /\ CountAttempt(p)
    /\ IF p \in expired THEN RemovePack(p) ELSE UNCHANGED <<pq, kinds, ahead>>

------------------------------------------------------------------------------
(* The store with arbitrary callers. *)

\* A caller adds a package it has just made, or one the store has handed out.
Add(p) ==
    /\ p \notin pq
    /\ time[p] = 0 \/ retries[p] > 0
    /\ \E R \in SUBSET (kinds[KindOf[p]] \cup {p}) : AddSweeping(p, R)
    /\ AddStamp(p)
    /\ UNCHANGED <<prio, retries, expired>>

Pop(p) ==
    /\ retries[p] < MaxRetries
    /\ PopPack(p)
    /\ UNCHANGED <<time, expired>>

Peek(p) ==
    /\ retries[p] < MaxRetries
    /\ PeekPack(p)
    /\ UNCHANGED <<time, expired>>

\* Ack of a package that was peeked and has not expired since.
Ack(p) ==
    /\ p \in pq
    /\ retries[p] > 0
    /\ RemovePack(p)
    /\ UNCHANGED <<removed, prio, retries, time, expired>>

\* Time passes the ExpiryTime of p.
Expire(p) ==
    /\ p \in Perishable \ expired
    /\ expired' = expired \cup {p}
    /\ UNCHANGED <<storeVars, packVars>>

PSNext == \E p \in Packages : Add(p) \/ Pop(p) \/ Peek(p) \/ Ack(p) \/ Expire(p)

PSSpec == PSInit /\ [][PSNext]_psVars

------------------------------------------------------------------------------
(* Properties *)

\* The values the fields of the store and of its packages take.
PSTypeOK ==
    /\ pq \subseteq Packages
    /\ kinds \in [Kinds -> SUBSET Packages]
    /\ ahead \in [Packages -> SUBSET Packages]
    /\ removed \in Nat
    /\ prio \in [Packages -> Nat]
    /\ retries \in [Packages -> Nat]
    /\ time \in [Packages -> Nat]
    /\ expired \subseteq Perishable

\* The heap and the per-kind slices hold the same packages, whichever of the
\* two removal paths (remove, removeKind) a package left by: a package left in
\* a slice would count against the ExpiryCount of its kind for ever.
StoreAgrees == \A k \in Kinds : kinds[k] = {p \in pq : KindOf[p] = k}

\* The position of the packages in a slice: each slice is one line, and only
\* queued packages stand in it.
SliceOrdered ==
    /\ \A p \in Packages : ahead[p] \subseteq pq
    /\ \A p \in Packages \ pq : ahead[p] = {}
    /\ \A p \in pq : \A q \in ahead[p] :
         KindOf[q] = KindOf[p] /\ ahead[q] \subseteq ahead[p] /\ q \notin ahead[q]
    /\ \A p, q \in pq :
         KindOf[p] = KindOf[q] => p = q \/ p \in ahead[q] \/ q \in ahead[p]

\* Add's sweep stops early nowhere: a queued package never shares the store
\* with more than ExpiryCount packages of its kind, so a gateway that stays
\* away cannot make the log queue grow.
CountBound ==
    \A p \in pq : ExpiryCount[p] > 0 =>
        Cardinality(kinds[KindOf[p]]) <= ExpiryCount[p]

\* Retry accounting: after n attempts a package stands n \div Retries places
\* below the priority its caller gave it, however it went in and out of the
\* store.
PriorityTracksRetries ==
    \A p \in Packages :
        prio[p] = Priority[p] + IF Retries[p] > 0 THEN retries[p] \div Retries[p]
                                ELSE 0

\* The count limit takes packages from the front of the slice: no Add drops a
\* package by count while one that stands before it, with no larger limit,
\* stays.
DropsFromFrontStep ==
    \A r \in Packages : Add(r) =>
        \A q \in (pq \cup {r}) \ (pq' \cup expired) : \A p \in Appended(r)[q] :
            ~(p \in pq' /\ 0 < ExpiryCount[p] /\ ExpiryCount[p] <= ExpiryCount[q])
DropsFromFront == [][DropsFromFrontStep]_psVars

\* A package that keeps failing cannot hold back the others: when it is taken
\* from the store ahead of a waiting package q it has been taken fewer than
\* Retries * (distance of their priorities + 1) times.
OvertakingBoundedStep ==
    \A p \in Packages : \A q \in pq :
        (Retries[p] > 0 /\ retries'[p] = retries[p] + 1)
        => retries[p] < Retries[p] * (prio[q] - Priority[p] + 1)
OvertakingBounded == [][OvertakingBoundedStep]_psVars
=============================================================================
