---------------------------- MODULE PipeStoreHeap ----------------------------
(***************************************************************************)
(* client/pipe_store.go again, with the data structures of the code: the   *)
(* heap as the array container/heap works on, each package's index in it,  *)
(* the slices of kinds as sequences, the loop of Add pass by pass.         *)
(* PipeStore is what this module implements (Abstract!PSSpec).             *)
(*                                                                         *)
(* Positions count from 1 here and from 0 in the code.                     *)
(***************************************************************************)
EXTENDS Integers, Sequences, SequencesExt

CONSTANTS
    Packages, Kinds, KindOf, ExpiryCount, Retries, Priority, Perishable,
    MaxRetries     \* as in PipeStore

ASSUME PackagesAssumption == IsFiniteSet(Packages)
ASSUME PackageFieldsAssumption ==
    /\ KindOf \in [Packages -> Kinds]
    /\ ExpiryCount \in [Packages -> Nat]
    /\ Retries \in [Packages -> Nat]
    /\ Priority \in [Packages -> Nat]
    /\ Perishable \subseteq Packages
ASSUME MaxRetriesAssumption == MaxRetries \in Nat

VARIABLES
    queue,    \* [heap |-> the array of PriorityQueue, index |-> Package.index]
    slices,   \* DefaultPipeStore.kinds
    removed, prio, retries, time, expired   \* as in PipeStore

vars == <<queue, slices, removed, prio, retries, time, expired>>

OutOfHeap == 0     \* the index -1 PriorityQueue.Pop leaves "for safety"

\* The zero value of Package.index is 0, the first place of the array.
Init ==
    /\ queue = [heap |-> <<>>, index |-> [p \in Packages |-> 1]]
    /\ slices = [k \in Kinds |-> <<>>]
    /\ removed = 0
    /\ prio = Priority
    /\ retries = [p \in Packages |-> 0]
    /\ time = [p \in Packages |-> 0]
    /\ expired = {}

Now == Cardinality({p \in Packages : time[p] # 0}) + 1

------------------------------------------------------------------------------
(* PriorityQueue, with the keys (pr, tm) the packages have at the call *)

Less(q, pr, tm, i, j) ==
    LET a == q.heap[i] b == q.heap[j]
    IN  pr[a] < pr[b] \/ (pr[a] = pr[b] /\ tm[a] < tm[b])

\* Mutant: the items change places and keep their indexes.
SwapItemsOnly(q, i, j) ==
    [heap |-> [q.heap EXCEPT ![i] = q.heap[j], ![j] = q.heap[i]], index |-> q.index]

Swap(q, i, j) ==
    LET a == q.heap[i] b == q.heap[j]
    IN  [heap  |-> [q.heap EXCEPT ![i] = b, ![j] = a],
         index |-> [q.index EXCEPT ![b] = i, ![a] = j]]

PushItem(q, p) ==
    [heap |-> Append(q.heap, p), index |-> [q.index EXCEPT ![p] = Len(q.heap) + 1]]

PopItem(q) ==
    [heap |-> Front(q.heap), index |-> [q.index EXCEPT ![Last(q.heap)] = OutOfHeap]]

\* The state of a loop after each of its passes.
Passes(pass, s) == LET run[n \in Nat] == IF n = 0 THEN s ELSE pass[run[n - 1]] IN run

(* container/heap: up, down, Push, Fix, Remove *)

Queues == [heap : Seq(Packages), index : [Packages -> Nat]]

\* The loops of up and down work on the array and the place of an item in it.
\* Who has nothing more to do stays where it is.
Places == [queue : Queues, at : Nat]
At(q, i) == [queue |-> q, at |-> i]

UpPass(pr, tm) ==
    [s \in Places |->
        LET i == s.at \div 2
        IN  IF i < 1 \/ ~Less(s.queue, pr, tm, s.at, i) THEN s
            ELSE At(Swap(s.queue, i, s.at), i)]

DownPass(pr, tm, n) ==
    [s \in Places |->
        LET q  == s.queue
            j1 == 2 * s.at
            j  == IF j1 + 1 <= n /\ Less(q, pr, tm, j1 + 1, j1) THEN j1 + 1 ELSE j1
        IN  IF s.at < 1 \/ j1 > n \/ ~Less(q, pr, tm, j, s.at) THEN s
            ELSE At(Swap(q, s.at, j), j)]

\* Every pass of up halves the place, every pass of down doubles it.
Up(q, pr, tm, j) == Passes(UpPass(pr, tm), At(q, j))[j]
Down(q, pr, tm, i, n) == Passes(DownPass(pr, tm, n), At(q, i))[n]

\* down reports whether it moved the item; up is tried when it did not.
Settle(q, pr, tm, i, n) ==
    LET d == Down(q, pr, tm, i, n)
    IN  IF d.at = i THEN Up(d.queue, pr, tm, i).queue ELSE d.queue

HeapPush(q, pr, tm, p) == Up(PushItem(q, p), pr, tm, Len(q.heap) + 1).queue

HeapFix(q, pr, tm, i) == Settle(q, pr, tm, i, Len(q.heap))

\* Mutant: the last item takes the place of the removed one and stays there.
HeapRemoveUnsettled(q, pr, tm, i) ==
    PopItem(IF i = Len(q.heap) THEN q ELSE Swap(q, i, Len(q.heap)))

\* Mutant: it moves down only.
HeapRemoveDown(q, pr, tm, i) ==
    LET n == Len(q.heap)
    IN  PopItem(IF i = n THEN q ELSE Down(Swap(q, i, n), pr, tm, i, n - 1).queue)

HeapRemove(q, pr, tm, i) ==
    LET n == Len(q.heap)
    IN  PopItem(IF i = n THEN q ELSE Settle(Swap(q, i, n), pr, tm, i, n - 1))

------------------------------------------------------------------------------
ShouldExpire(p, n) ==
    \/ ExpiryCount[p] > 0 /\ ExpiryCount[p] < n
    \/ p \in expired

\* for i < len(kind) { ... } of Add; removeKind is the first branch.
Sweeps == [queue : Queues, kind : Seq(Packages), at : Nat]
Sweeping(q, kind, i) == [queue |-> q, kind |-> kind, at |-> i]

SweepPass(tm) ==
    [s \in Sweeps |->
        IF s.at > Len(s.kind) THEN s
        ELSE LET p == s.kind[s.at]
             IN  IF ShouldExpire(p, Len(s.kind))
                 THEN Sweeping(HeapRemove(s.queue, prio, tm, s.queue.index[p]),
                               RemoveAt(s.kind, s.at), s.at)
                 ELSE Sweeping(s.queue, s.kind, s.at + 1)]

Sweep(q, tm, kind) ==
    Passes(SweepPass(tm), Sweeping(q, kind, 1))[Len(kind)]

\* A caller adds a package it has just made, or one the store has handed out.
Add(p) ==
    LET k  == KindOf[p]
        tm == IF time[p] = 0 THEN [time EXCEPT ![p] = Now] ELSE time
        pushed == HeapPush(queue, prio, tm, p)
        fixed  == HeapFix(pushed, prio, tm, pushed.index[p])
        swept  == Sweep(fixed, tm, Append(slices[k], p))
    IN  /\ ~Contains(queue.heap, p)
        /\ time[p] = 0 \/ retries[p] > 0
        /\ queue' = swept.queue
        /\ slices' = [slices EXCEPT ![k] = swept.kind]
        /\ removed' = 0
        /\ time' = tm
        /\ UNCHANGED <<prio, retries, expired>>

\* remove(p): from the array, and its first occurrence from the slice.
RemovedFrom(q, p) == HeapRemove(q, prio, time, q.index[p])
SlicesWithout(p) == [slices EXCEPT ![KindOf[p]] = RemoveFirst(@, p)]

\* peek, then ack when acking: an expired package leaves in peek and its index
\* tells ack so; heap.Fix with the index of a package that left does nothing.
TakeFirst(acking) ==
    LET p     == Head(queue.heap)
        late  == p \in expired
        first == IF late THEN RemovedFrom(queue, p) ELSE queue
        lower == Retries[p] > 0 /\ (retries[p] + 1) % Retries[p] = 0
        pr    == IF lower THEN [prio EXCEPT ![p] = @ + 1] ELSE prio
        fixed == IF lower THEN HeapFix(first, pr, time, first.index[p]) ELSE first
        acked == acking /\ fixed.index[p] # OutOfHeap
    IN  /\ queue.heap # <<>>
        /\ retries[p] < MaxRetries
        /\ removed' = IF late THEN removed + 1 ELSE removed
        /\ retries' = [retries EXCEPT ![p] = @ + 1]
        /\ prio' = pr
        /\ queue' = IF acked THEN HeapRemove(fixed, pr, time, fixed.index[p]) ELSE fixed
        /\ slices' = IF late \/ acked THEN SlicesWithout(p) ELSE slices
        /\ UNCHANGED <<time, expired>>

Pop  == TakeFirst(TRUE)
Peek == TakeFirst(FALSE)

\* Ack of a package that was added and peeked.
Ack(p) ==
    /\ retries[p] > 0
    /\ queue.index[p] # OutOfHeap
    /\ queue' = RemovedFrom(queue, p)
    /\ slices' = SlicesWithout(p)
    /\ UNCHANGED <<removed, prio, retries, time, expired>>

Expire(p) ==
    /\ p \in Perishable \ expired
    /\ expired' = expired \cup {p}
    /\ UNCHANGED <<queue, slices, removed, prio, retries, time>>

Next == Pop \/ Peek \/ \E p \in Packages : Add(p) \/ Ack(p) \/ Expire(p)

Spec == Init /\ [][Next]_vars

------------------------------------------------------------------------------
(* Properties *)

\* Package.index is where the package stands in the array whenever it is in
\* it, and says so when it has left: remove and ack rely on it after every
\* push, fix and removal of other packages.
IndexAgrees ==
    \A p \in Packages :
        IF Contains(queue.heap, p)
        THEN queue.heap[queue.index[p]] = p
        ELSE time[p] # 0 => queue.index[p] = OutOfHeap

\* The array is a heap by (Priority, time) after every call, whichever item was
\* pushed, changed or removed from the middle.
HeapOrdered ==
    \A i \in 2..Len(queue.heap) : ~Less(queue, prio, time, i, i \div 2)

\* The slice of a kind as PipeStore has it: its elements, and for each the
\* elements ahead of it.
SliceSets == [k \in Kinds |-> ToSet(slices[k])]
AheadIn(s, p) == {s[i] : i \in {n \in DOMAIN s : \E m \in DOMAIN s : n < m /\ s[m] = p}}

Abstract == INSTANCE PipeStore WITH
    pq <- ToSet(queue.heap),
    kinds <- SliceSets,
    ahead <- [p \in Packages |-> AheadIn(slices[KindOf[p]], p)]

\* The heap always gives a package that is least by (Priority, time), the loop
\* of Add removes the packages SweepRemoves names, and the two removal paths
\* keep array and slices together: the code is a PipeStore.
RefinesPipeStore == Abstract!PSSpec
=============================================================================
