------------------------- MODULE PipeStoreHeapProofs -------------------------
(* Proofs about the array-backed store, for any packages and heaps of every   *)
(* size: the loops of container/heap restore the order of the heap and keep   *)
(* the index fields right, the loop of Add removes what SweepRemoves names,   *)
(* and the store implements PipeStore.                                        *)
EXTENDS PipeStoreHeap, FiniteSetTheorems, SequenceTheorems, WellFoundedInduction, TLAPS

------------------------------------------------------------------------------
(* Loops *)

\* Every non-empty set of naturals has a least element.
LEMMA NatMin ==
    ASSUME NEW T \in SUBSET Nat, T # {}
    PROVE  \E x \in T : \A y \in T : x <= y
<1> DEFINE R == OpToRel(<, Nat)
<1>1. \A y, x \in Nat : y < x => <<y, x>> \in R
    BY DEF OpToRel
<1>2. IsWellFoundedOn(R, Nat)
    BY NatLessThanWellFounded
<1> HIDE DEF R
<1>3. PICK x \in T : \A y \in T : ~(<<y, x>> \in R)
    BY <1>2, WFMin
<1>4. \A y \in T : ~(y < x)
    BY <1>1, <1>3
<1>5. \A y \in T : x <= y
    BY <1>4
<1> QED BY <1>5

\* Induction: a set of naturals with 0 that is closed under + 1 is Nat.
LEMMA NatClosed ==
    ASSUME NEW T, 0 \in T, \A n \in Nat : n \in T => n + 1 \in T
    PROVE  \A n \in Nat : n \in T
<1> SUFFICES ASSUME {n \in Nat : n \notin T} # {} PROVE FALSE
    OBVIOUS
<1>1. PICK x \in {n \in Nat : n \notin T} : \A y \in {n \in Nat : n \notin T} : x <= y
    BY NatMin
<1>2. x # 0 /\ x - 1 \in Nat /\ x \in Nat /\ x \notin T
    BY <1>1
<1>3. x - 1 \in T
    BY <1>1, <1>2
<1>4. (x - 1) + 1 \in T
    BY <1>2, <1>3
<1> QED BY <1>2, <1>4

\* A pass from a state in S leads to one.
Closed(f, S) == \A t \in S : f[t] \in S

IsRun(g, n, f, s) == g[0] = s /\ \A k \in 1..n : g[k] = f[g[k - 1]]

\* A loop can be followed for any number of passes,
LEMMA RunsExist ==
    ASSUME NEW S, NEW f, Closed(f, S), NEW s \in S
    PROVE  \A n \in Nat : \E g \in [0..n -> S] : IsRun(g, n, f, s)
<1> DEFINE T == {n \in Nat : \E g \in [0..n -> S] : IsRun(g, n, f, s)}
<1>1. 0 \in T
    <2>1. [k \in 0..0 |-> s] \in [0..0 -> S] /\ IsRun([k \in 0..0 |-> s], 0, f, s)
        BY DEF IsRun
    <2> QED BY <2>1
<1>2. ASSUME NEW n \in Nat, n \in T PROVE n + 1 \in T
    <2>1. PICK g \in [0..n -> S] : IsRun(g, n, f, s)
        BY <1>2
    <2> DEFINE h == [k \in 0 .. n + 1 |-> IF k <= n THEN g[k] ELSE f[g[n]]]
    <2>2. h \in [0 .. n + 1 -> S]
        BY DEF Closed
    <2>3. h[0] = s
        BY <2>1 DEF IsRun
    <2>4. ASSUME NEW k \in 1 .. n + 1 PROVE h[k] = f[h[k - 1]]
        <3>1. h[k - 1] = g[k - 1]
            OBVIOUS
        <3>2. CASE k <= n
            BY <2>1, <3>1, <3>2 DEF IsRun
        <3>3. CASE k = n + 1
            BY <3>1, <3>3
        <3> QED BY <3>2, <3>3
    <2> HIDE DEF h
    <2>5. IsRun(h, n + 1, f, s)
        BY <2>3, <2>4 DEF IsRun
    <2> QED BY <2>2, <2>5
<1> HIDE DEF T
<1>3. \A n \in Nat : n \in T
    BY <1>1, <1>2, NatClosed
<1> QED BY <1>3 DEF T

\* in one way,
LEMMA RunsAgree ==
    ASSUME NEW S, NEW f, Closed(f, S), NEW s \in S, NEW m \in Nat, NEW n \in Nat, m <= n,
           NEW g, IsRun(g, m, f, s), NEW h, IsRun(h, n, f, s)
    PROVE  g[m] = h[m]
<1> DEFINE T == {k \in Nat : k <= m => g[k] = h[k]}
<1>1. 0 \in T
    BY DEF IsRun
<1>2. ASSUME NEW k \in Nat, k \in T PROVE k + 1 \in T
    <2> SUFFICES ASSUME k + 1 <= m PROVE g[k + 1] = h[k + 1]
        OBVIOUS
    <2>1. k + 1 \in 1..m /\ k + 1 \in 1..n /\ (k + 1) - 1 = k /\ g[k] = h[k]
        BY <1>2
    <2>2. g[k + 1] = f[g[k]] /\ h[k + 1] = f[h[k]]
        BY <2>1 DEF IsRun
    <2> QED BY <2>1, <2>2
<1> HIDE DEF T
<1>3. \A k \in Nat : k \in T
    BY <1>1, <1>2, NatClosed
<1> QED BY <1>3 DEF T

\* so Passes is what its definition says.
LEMMA PassesDef ==
    ASSUME NEW S, NEW f, Closed(f, S), NEW s \in S
    PROVE  /\ Passes(f, s)[0] = s
           /\ \A n \in Nat : Passes(f, s)[n + 1] = f[Passes(f, s)[n]]
<1> DEFINE G(n) == CHOOSE g \in [0..n -> S] : IsRun(g, n, f, s)
           r == [n \in Nat |-> G(n)[n]]
<1>1. \A n \in Nat : G(n) \in [0..n -> S] /\ IsRun(G(n), n, f, s)
    BY RunsExist
<1>2. r[0] = s
    BY <1>1 DEF IsRun
<1>3. ASSUME NEW n \in Nat, n # 0 PROVE r[n] = f[r[n - 1]]
    <2>1. n - 1 \in Nat /\ n \in 1..n /\ n - 1 <= n
        BY <1>3
    <2>2. IsRun(G(n - 1), n - 1, f, s) /\ IsRun(G(n), n, f, s)
        BY <1>1, <2>1
    <2> HIDE DEF G
    <2>3. G(n - 1)[n - 1] = G(n)[n - 1]
        BY <2>1, <2>2, RunsAgree
    <2>4. G(n)[n] = f[G(n)[n - 1]]
        BY <2>1, <2>2 DEF IsRun
    <2> QED BY <2>1, <2>3, <2>4
<1> HIDE DEF G
<1>4. r = [n \in Nat |-> IF n = 0 THEN s ELSE f[r[n - 1]]]
    BY <1>2, <1>3
<1> HIDE DEF r
<1>5. \E run : run = [n \in Nat |-> IF n = 0 THEN s ELSE f[run[n - 1]]]
    BY <1>4
<1>6. Passes(f, s) = [n \in Nat |-> IF n = 0 THEN s ELSE f[Passes(f, s)[n - 1]]]
    BY <1>5, Zenon DEF Passes
<1>7. Passes(f, s)[0] = s
    BY <1>6
<1>8. ASSUME NEW n \in Nat PROVE Passes(f, s)[n + 1] = f[Passes(f, s)[n]]
    <2>1. n + 1 \in Nat /\ n + 1 # 0 /\ (n + 1) - 1 = n
        OBVIOUS
    <2> QED BY <1>6, <2>1
<1> QED BY <1>7, <1>8

\* What every pass preserves, the loop preserves.
LEMMA PassesKeep ==
    ASSUME NEW S, NEW f, Closed(f, S), NEW s \in S
    PROVE  \A n \in Nat : Passes(f, s)[n] \in S
<1> DEFINE T == {n \in Nat : Passes(f, s)[n] \in S}
<1>0. Passes(f, s)[0] = s /\ \A n \in Nat : Passes(f, s)[n + 1] = f[Passes(f, s)[n]]
    BY PassesDef
<1>1. 0 \in T
    BY <1>0
<1>2. ASSUME NEW n \in Nat, n \in T PROVE n + 1 \in T
    BY <1>0, <1>2 DEF Closed
<1> HIDE DEF T
<1>3. \A n \in Nat : n \in T
    BY <1>1, <1>2, NatClosed
<1> QED BY <1>3 DEF T

\* A loop with a variant v has come to its end after v[s] passes.
LEMMA PassesEnd ==
    ASSUME NEW S, NEW f, Closed(f, S), NEW s \in S,
           NEW v \in [S -> Nat], \A t \in S : f[t] = t \/ v[f[t]] < v[t],
           NEW n \in Nat, v[s] <= n
    PROVE  Passes(f, s)[n] \in S /\ f[Passes(f, s)[n]] = Passes(f, s)[n]
<1> DEFINE P(k) == Passes(f, s)[k]
           T == {k \in Nat : f[P(k)] = P(k) \/ v[P(k)] + k <= v[s]}
<1>1. (\A k \in Nat : P(k) \in S) /\ P(0) = s /\ \A k \in Nat : P(k + 1) = f[P(k)]
    <2>1. \A k \in Nat : P(k) \in S
        BY PassesKeep, Zenon
    <2>2. P(0) = s /\ \A k \in Nat : P(k + 1) = f[P(k)]
        BY PassesDef
    <2> QED BY <2>1, <2>2
<1> HIDE DEF P
<1>2. 0 \in T
    BY <1>1
<1>3. ASSUME NEW k \in Nat, k \in T PROVE k + 1 \in T
    <2>1. P(k) \in S /\ P(k + 1) = f[P(k)] /\ P(k + 1) \in S
        BY <1>1
    <2>2. CASE f[P(k)] = P(k)
        BY <2>1, <2>2
    <2>3. CASE f[P(k)] # P(k)
        <3>1. v[P(k)] + k <= v[s] /\ v[P(k + 1)] < v[P(k)]
            BY <1>3, <2>1, <2>3
        <3>2. v[P(k)] \in Nat /\ v[P(k + 1)] \in Nat /\ v[s] \in Nat
            BY <2>1
        <3> QED BY <3>1, <3>2
    <2> QED BY <2>2, <2>3
<1> HIDE DEF T
<1>4. n \in T
    BY <1>2, <1>3, NatClosed
<1>5. P(n) \in S /\ v[P(n)] \in Nat /\ v[s] \in Nat
    BY <1>1
<1>6. v[P(n)] = 0 \/ f[P(n)] = P(n)
    BY <1>4, <1>5 DEF T
<1>7. f[P(n)] \in S /\ v[f[P(n)]] \in Nat
    BY <1>5 DEF Closed
<1>8. f[P(n)] = P(n)
    BY <1>5, <1>6, <1>7
<1> QED BY <1>5, <1>8 DEF P

------------------------------------------------------------------------------
(* The order of the heap *)

Keys(pr, tm) == pr \in [Packages -> Nat] /\ tm \in [Packages -> Nat]

\* Package a may stand above package b.
Le(pr, tm, a, b) == ~(pr[b] < pr[a] \/ (pr[b] = pr[a] /\ tm[b] < tm[a]))

\* PriorityQueue.Less says that the lower item may not stand below the upper one.
LEMMA LessIsNotLe ==
    ASSUME NEW q, NEW pr, NEW tm, NEW i, NEW j
    PROVE  Less(q, pr, tm, i, j) <=> ~Le(pr, tm, q.heap[j], q.heap[i])
BY DEF Less, Le

\* The keys order the packages totally.
LEMMA LeOrder ==
    ASSUME NEW pr, NEW tm, Keys(pr, tm)
    PROVE  /\ \A a, b \in Packages : Le(pr, tm, a, b) \/ Le(pr, tm, b, a)
           /\ \A a, b, c \in Packages :
                Le(pr, tm, a, b) /\ Le(pr, tm, b, c) => Le(pr, tm, a, c)
BY DEF Keys, Le

\* The place of the parent.
LEMMA Half ==
    ASSUME NEW m \in Nat
    PROVE  /\ m \div 2 \in Nat /\ 2 * (m \div 2) <= m /\ m <= 2 * (m \div 2) + 1
           /\ m >= 1 => m \div 2 < m
           /\ m >= 2 => m \div 2 >= 1
OBVIOUS

------------------------------------------------------------------------------
(* What swapping items does *)

\* Every item knows its place.
Indexed(q) ==
    q \in Queues /\ \A i \in 1..Len(q.heap) : q.index[q.heap[i]] = i

\* Array r is q with the items of the first n places rearranged.
Shuffled(q, r, n) ==
    /\ Indexed(r) /\ Len(r.heap) = Len(q.heap)
    /\ ToSet(r.heap) = ToSet(q.heap)
    /\ \A m \in n + 1 .. Len(q.heap) : r.heap[m] = q.heap[m]
    /\ \A p \in Packages \ ToSet(q.heap) : r.index[p] = q.index[p]

\* The array and its packages.
LEMMA QueueFacts ==
    ASSUME NEW q \in Queues
    PROVE  /\ q.heap \in Seq(Packages) /\ q.index \in [Packages -> Nat] /\ Len(q.heap) \in Nat
           /\ \A i \in 1..Len(q.heap) : q.heap[i] \in Packages /\ q.heap[i] \in ToSet(q.heap)
           /\ \A p \in ToSet(q.heap) : \E i \in 1..Len(q.heap) : p = q.heap[i]
           /\ ToSet(q.heap) \subseteq Packages
<1>1. q.heap \in Seq(Packages) /\ q.index \in [Packages -> Nat]
    BY DEF Queues
<1>2. Len(q.heap) \in Nat /\ DOMAIN q.heap = 1..Len(q.heap)
    BY <1>1
<1>3. \A i \in 1..Len(q.heap) : q.heap[i] \in Packages
    BY <1>1
<1> QED BY <1>1, <1>2, <1>3 DEF ToSet

\* PriorityQueue.Swap, place by place and package by package.
LEMMA SwapIs ==
    ASSUME NEW q, Indexed(q), NEW i \in 1..Len(q.heap), NEW j \in 1..Len(q.heap), i # j
    PROVE  /\ Swap(q, i, j) \in Queues /\ Len(Swap(q, i, j).heap) = Len(q.heap)
           /\ \A m \in 1..Len(q.heap) :
                Swap(q, i, j).heap[m] = IF m = i THEN q.heap[j] ELSE
                                        IF m = j THEN q.heap[i] ELSE q.heap[m]
           /\ \A p \in Packages :
                Swap(q, i, j).index[p] = IF p = q.heap[i] THEN j ELSE
                                         IF p = q.heap[j] THEN i ELSE q.index[p]
<1>1. PICK h : h = q.heap
    OBVIOUS
<1>2. PICK x : x = q.index
    OBVIOUS
<1>3. h \in Seq(Packages) /\ x \in [Packages -> Nat] /\ Len(h) \in Nat /\ i \in 1..Len(h) /\ j \in 1..Len(h)
    BY <1>1, <1>2, QueueFacts DEF Indexed
<1>4. h[i] \in Packages /\ h[j] \in Packages
    BY <1>3
<1>5. PICK g : g = [h EXCEPT ![i] = h[j]]
    OBVIOUS
<1>6. g \in Seq(Packages) /\ Len(g) = Len(h) /\ \A m \in 1..Len(h) : g[m] = IF m = i THEN h[j] ELSE h[m]
    BY <1>3, <1>4, <1>5, ExceptSeq
<1>7. PICK k : k = [g EXCEPT ![j] = h[i]]
    OBVIOUS
<1>8. k \in Seq(Packages) /\ Len(k) = Len(g) /\ \A m \in 1..Len(g) : k[m] = IF m = j THEN h[i] ELSE g[m]
    BY <1>3, <1>4, <1>6, <1>7, ExceptSeq
<1>9. k = [h EXCEPT ![i] = h[j], ![j] = h[i]]
    BY <1>5, <1>7
<1>10. PICK y : y = [x EXCEPT ![h[j]] = i, ![h[i]] = j]
    OBVIOUS
<1>11. y \in [Packages -> Nat]
       /\ \A p \in Packages : y[p] = IF p = h[i] THEN j ELSE IF p = h[j] THEN i ELSE x[p]
    BY <1>3, <1>4, <1>10
<1>12. Swap(q, i, j) = [heap |-> k, index |-> y]
    BY <1>1, <1>2, <1>9, <1>10 DEF Swap
<1>13. Swap(q, i, j) \in Queues /\ Swap(q, i, j).heap = k /\ Swap(q, i, j).index = y
    BY <1>6, <1>8, <1>11, <1>12 DEF Queues
<1>14. \A m \in 1..Len(h) : k[m] = IF m = i THEN h[j] ELSE IF m = j THEN h[i] ELSE h[m]
    BY <1>3, <1>6, <1>8
<1> QED BY <1>1, <1>2, <1>6, <1>8, <1>11, <1>13, <1>14

\* Swap rearranges and keeps the index fields right.
LEMMA SwapShuffles ==
    ASSUME NEW q, Indexed(q), NEW n \in 0..Len(q.heap), NEW i \in 1..n, NEW j \in 1..n, i # j
    PROVE  Shuffled(q, Swap(q, i, j), n)
<1>1. PICK r : r = Swap(q, i, j)
    OBVIOUS
<1>2. i \in 1..Len(q.heap) /\ j \in 1..Len(q.heap) /\ Len(q.heap) \in Nat
    BY QueueFacts DEF Indexed
<1>3. /\ r \in Queues /\ Len(r.heap) = Len(q.heap)
      /\ \A m \in 1..Len(q.heap) : r.heap[m] = IF m = i THEN q.heap[j] ELSE
                                               IF m = j THEN q.heap[i] ELSE q.heap[m]
      /\ \A p \in Packages : r.index[p] = IF p = q.heap[i] THEN j ELSE
                                          IF p = q.heap[j] THEN i ELSE q.index[p]
    BY <1>1, <1>2, SwapIs
<1>4. \A m \in 1..Len(q.heap) : q.heap[m] \in Packages /\ q.index[q.heap[m]] = m
    BY QueueFacts DEF Indexed
<1>5. \A m \in 1..Len(r.heap) : r.index[r.heap[m]] = m
    <2> SUFFICES ASSUME NEW m \in 1..Len(q.heap) PROVE r.index[r.heap[m]] = m
        BY <1>3
    <2>1. CASE m = i
        BY <1>2, <1>3, <1>4, <2>1
    <2>2. CASE m = j
        BY <1>2, <1>3, <1>4, <2>2
    <2>3. CASE m # i /\ m # j
        <3>1. r.heap[m] = q.heap[m] /\ q.heap[m] # q.heap[i] /\ q.heap[m] # q.heap[j]
            BY <1>2, <1>3, <1>4, <2>3
        <3> QED BY <1>3, <1>4, <3>1
    <2> QED BY <2>1, <2>2, <2>3
<1>6. ToSet(r.heap) = ToSet(q.heap)
    <2>1. DOMAIN r.heap = 1..Len(q.heap) /\ DOMAIN q.heap = 1..Len(q.heap)
        BY <1>3, QueueFacts DEF Indexed
    <2>2. r.heap[i] = q.heap[j] /\ r.heap[j] = q.heap[i]
        BY <1>2, <1>3
    <2>3. ASSUME NEW p \in ToSet(r.heap) PROVE p \in ToSet(q.heap)
        <3>1. PICK m \in 1..Len(q.heap) : p = r.heap[m]
            BY <2>1, <2>3 DEF ToSet
        <3>2. p = q.heap[i] \/ p = q.heap[j] \/ p = q.heap[m]
            BY <1>3, <3>1
        <3> QED BY <1>2, <2>1, <3>2 DEF ToSet
    <2>4. ASSUME NEW p \in ToSet(q.heap) PROVE p \in ToSet(r.heap)
        <3>1. PICK m \in 1..Len(q.heap) : p = q.heap[m]
            BY <2>1, <2>4 DEF ToSet
        <3>2. p = r.heap[i] \/ p = r.heap[j] \/ p = r.heap[m]
            BY <1>3, <2>2, <3>1
        <3> QED BY <1>2, <2>1, <3>2 DEF ToSet
    <2> QED BY <2>3, <2>4
<1>7. \A m \in n + 1 .. Len(q.heap) : r.heap[m] = q.heap[m]
    BY <1>2, <1>3
<1>8. \A p \in Packages \ ToSet(q.heap) : r.index[p] = q.index[p]
    <2>1. q.heap[i] \in ToSet(q.heap) /\ q.heap[j] \in ToSet(q.heap)
        BY <1>2, QueueFacts DEF Indexed
    <2> QED BY <1>3, <2>1
<1> QED BY <1>1, <1>3, <1>5, <1>6, <1>7, <1>8 DEF Shuffled, Indexed

\* Rearranging twice is rearranging.
LEMMA ShuffledTwice ==
    ASSUME NEW q, NEW r, NEW t, NEW n, Shuffled(q, r, n), Shuffled(r, t, n)
    PROVE  Shuffled(q, t, n)
BY DEF Shuffled

------------------------------------------------------------------------------
(* up *)

\* The first n places are a heap.
HeapTo(q, pr, tm, n) ==
    \A m \in 2..n : Le(pr, tm, q.heap[m \div 2], q.heap[m])

\* They are one but for the item at place j, which may have to go up.
UpReady(q, pr, tm, n, j) ==
    /\ \A m \in 2..n : m # j => Le(pr, tm, q.heap[m \div 2], q.heap[m])
    /\ \A m \in 2..n : m \div 2 = j /\ j \div 2 >= 1 => Le(pr, tm, q.heap[j \div 2], q.heap[m])

UpStates(q, pr, tm, n) ==
    {s \in Places : s.at \in 1..n /\ Shuffled(q, s.queue, n) /\ UpReady(s.queue, pr, tm, n, s.at)}

\* One swap of up.
LEMMA UpSwap ==
    ASSUME NEW pr, NEW tm, Keys(pr, tm), NEW q, Indexed(q), NEW n \in 0..Len(q.heap),
           NEW j \in 1..n, UpReady(q, pr, tm, n, j), j \div 2 >= 1, Less(q, pr, tm, j, j \div 2)
    PROVE  UpReady(Swap(q, j \div 2, j), pr, tm, n, j \div 2)
<1>1. PICK i : i = j \div 2
    OBVIOUS
<1>2. PICK h : h = q.heap
    OBVIOUS
<1>3. PICK g : g = Swap(q, i, j).heap
    OBVIOUS
<1>4. Len(h) \in Nat /\ n \in Nat /\ n <= Len(h) /\ \A m \in 1..Len(h) : h[m] \in Packages
    BY <1>2, QueueFacts DEF Indexed
<1>5. j \in Nat /\ i \in Nat /\ 1 <= i /\ i < j /\ j <= n /\ i \in 1..Len(h) /\ j \in 1..Len(h)
    BY <1>1, <1>4, Half
<1>6. \A m \in 1..Len(h) : g[m] = IF m = i THEN h[j] ELSE IF m = j THEN h[i] ELSE h[m]
    BY <1>2, <1>3, <1>5, SwapIs
<1>7. ~Le(pr, tm, h[i], h[j])
    BY <1>1, <1>2, LessIsNotLe
<1>8. Le(pr, tm, h[j], h[i])
    BY <1>4, <1>5, <1>7, LeOrder
<1>9. \A a, b, c \in Packages : Le(pr, tm, a, b) /\ Le(pr, tm, b, c) => Le(pr, tm, a, c)
    BY LeOrder
<1>10. \A m \in 2..n : m # j => Le(pr, tm, h[m \div 2], h[m])
    BY <1>2 DEF UpReady
<1>11. \A m \in 2..n : m \div 2 = j => Le(pr, tm, h[i], h[m])
    BY <1>1, <1>2 DEF UpReady
<1>12. \A m \in 2..n : m \in 1..Len(h) /\ m \div 2 \in 1..Len(h) /\ m \div 2 < m
    BY <1>4, Half
<1>13. ASSUME NEW m \in 2..n, m # i PROVE Le(pr, tm, g[m \div 2], g[m])
    <2>1. PICK u : u = m \div 2
        OBVIOUS
    <2>2. m \in 1..Len(h) /\ u \in 1..Len(h) /\ u < m
        BY <1>12, <2>1
    <2>3. CASE m = j
        BY <1>1, <1>5, <1>6, <1>8, <2>1, <2>3
    <2>4. CASE u = j
        BY <1>5, <1>6, <1>11, <1>13, <2>1, <2>2, <2>4
    <2>5. CASE m # j /\ u = i
        <3>1. Le(pr, tm, h[i], h[m])
            BY <1>10, <2>1, <2>5
        <3>2. Le(pr, tm, h[j], h[m])
            BY <1>4, <1>5, <1>8, <1>9, <2>2, <3>1
        <3>3. g[u] = h[j] /\ g[m] = h[m]
            BY <1>6, <1>13, <2>2, <2>5
        <3> QED BY <2>1, <3>2, <3>3
    <2>6. CASE m # j /\ u # i /\ u # j
        <3>1. g[u] = h[u] /\ g[m] = h[m]
            BY <1>6, <1>13, <2>2, <2>6
        <3> QED BY <1>10, <2>1, <2>6, <3>1
    <2> QED BY <2>3, <2>4, <2>5, <2>6
<1>14. ASSUME NEW m \in 2..n, m \div 2 = i, i \div 2 >= 1 PROVE Le(pr, tm, g[i \div 2], g[m])
    <2>1. PICK w : w = i \div 2
        OBVIOUS
    <2>2. w \in Nat /\ 1 <= w /\ w < i /\ w \in 1..Len(h) /\ i \in 2..n /\ m \in 1..Len(h) /\ m # i
        BY <1>4, <1>5, <1>12, <1>14, <2>1, Half
    <2>3. Le(pr, tm, h[w], h[i])
        BY <1>5, <1>10, <2>1, <2>2
    <2>4. g[w] = h[w]
        BY <1>5, <1>6, <2>2
    <2>5. CASE m = j
        BY <1>5, <1>6, <2>1, <2>3, <2>4, <2>5
    <2>6. CASE m # j
        <3>1. Le(pr, tm, h[i], h[m])
            BY <1>10, <1>14, <2>6
        <3>2. Le(pr, tm, h[w], h[m])
            BY <1>4, <1>5, <1>9, <2>2, <2>3, <3>1
        <3>3. g[m] = h[m]
            BY <1>6, <2>2, <2>6
        <3> QED BY <2>1, <2>4, <3>2, <3>3
    <2> QED BY <2>5, <2>6
<1> QED BY <1>1, <1>3, <1>13, <1>14 DEF UpReady

\* up makes the first n places a heap.
LEMMA UpRight ==
    ASSUME NEW pr, NEW tm, Keys(pr, tm), NEW q, Indexed(q), NEW n \in 0..Len(q.heap),
           NEW j \in 1..n, UpReady(q, pr, tm, n, j)
    PROVE  /\ Shuffled(q, Up(q, pr, tm, j).queue, n)
           /\ HeapTo(Up(q, pr, tm, j).queue, pr, tm, n)
<1> DEFINE S == UpStates(q, pr, tm, n)
           f == UpPass(pr, tm)
           v == [s \in S |-> s.at]
<1>1. Len(q.heap) \in Nat /\ n \in Nat /\ n <= Len(q.heap) /\ j \in Nat
    BY QueueFacts DEF Indexed
<1>2. ASSUME NEW s \in S
      PROVE  /\ f[s] \in S
             /\ f[s] = s => (s.at \div 2 < 1 \/ ~Less(s.queue, pr, tm, s.at, s.at \div 2))
             /\ f[s] = s \/ f[s].at < s.at
    <2>1. PICK r : r = s.queue
        OBVIOUS
    <2>2. PICK k : k = s.at
        OBVIOUS
    <2>3. s \in Places /\ k \in 1..n /\ Shuffled(q, r, n) /\ UpReady(r, pr, tm, n, k)
        BY <2>1, <2>2 DEF UpStates
    <2>4. k \in Nat /\ k \div 2 \in Nat /\ k \div 2 < k /\ Indexed(r) /\ Len(r.heap) = Len(q.heap)
        BY <1>1, <2>3, Half DEF Shuffled
    <2>5. CASE k \div 2 < 1 \/ ~Less(r, pr, tm, k, k \div 2)
        <3>1. f[s] = s
            BY <2>1, <2>2, <2>3, <2>5 DEF UpPass
        <3> QED BY <2>1, <2>2, <2>5, <3>1
    <2>6. CASE ~(k \div 2 < 1 \/ ~Less(r, pr, tm, k, k \div 2))
        <3>1. f[s] = At(Swap(r, k \div 2, k), k \div 2)
            BY <2>1, <2>2, <2>3, <2>6 DEF UpPass
        <3>2. k \div 2 \in 1..n /\ k \div 2 # k
            BY <1>1, <2>3, <2>4, <2>6
        <3>3. Shuffled(r, Swap(r, k \div 2, k), n)
            BY <1>1, <2>3, <2>4, <3>2, SwapShuffles
        <3>4. Shuffled(q, Swap(r, k \div 2, k), n)
            BY <2>3, <3>3, ShuffledTwice
        <3>5. UpReady(Swap(r, k \div 2, k), pr, tm, n, k \div 2)
            BY <1>1, <2>3, <2>4, <2>6, UpSwap
        <3>6. PICK t : t = Swap(r, k \div 2, k)
            OBVIOUS
        <3>7. t \in Queues /\ f[s] = At(t, k \div 2)
            BY <3>1, <3>3, <3>6 DEF Shuffled, Indexed
        <3>8. f[s] \in Places /\ f[s].queue = t /\ f[s].at = k \div 2
            BY <2>4, <3>7 DEF Places, At
        <3>9. f[s] \in S
            BY <3>2, <3>4, <3>5, <3>6, <3>8 DEF UpStates
        <3> QED BY <2>2, <2>4, <3>8, <3>9
    <2> QED BY <2>5, <2>6
<1>3. PICK s0 : s0 = At(q, j)
    OBVIOUS
<1>4. s0 \in S /\ s0.at = j
    <2>1. s0 \in Places /\ s0.queue = q /\ s0.at = j
        BY <1>1, <1>3 DEF At, Places, Indexed
    <2>2. Shuffled(q, q, n)
        BY DEF Shuffled
    <2> QED BY <2>1, <2>2 DEF UpStates
<1>5. v \in [S -> Nat] /\ v[s0] <= j /\ \A s \in S : f[s] = s \/ v[f[s]] < v[s]
    <2>1. \A s \in S : s.at \in Nat
        BY DEF UpStates, Places
    <2> QED BY <1>1, <1>2, <1>4, <2>1
<1>6. PICK e : e = Up(q, pr, tm, j)
    OBVIOUS
<1>7. e \in S /\ f[e] = e
    <2>1. e = Passes(f, s0)[j]
        BY <1>3, <1>6 DEF Up
    <2>2. Closed(f, S)
        BY <1>2 DEF Closed
    <2> HIDE DEF S, f, v
    <2> QED BY <1>1, <1>4, <1>5, <2>1, <2>2, PassesEnd
<1>8. /\ Shuffled(q, e.queue, n) /\ UpReady(e.queue, pr, tm, n, e.at)
      /\ (e.at \div 2 < 1 \/ ~Less(e.queue, pr, tm, e.at, e.at \div 2)) /\ e.at \in 1..n
    BY <1>2, <1>7 DEF UpStates
<1>9. HeapTo(e.queue, pr, tm, n)
    <2> SUFFICES ASSUME NEW m \in 2..n PROVE Le(pr, tm, e.queue.heap[m \div 2], e.queue.heap[m])
        BY DEF HeapTo
    <2>1. CASE m # e.at
        BY <1>8, <2>1 DEF UpReady
    <2>2. CASE m = e.at
        <3>1. m \div 2 >= 1
            BY <1>1, Half
        <3>2. ~Less(e.queue, pr, tm, m, m \div 2)
            <4>1. m \div 2 \in Nat
                BY <1>1, Half
            <4> QED BY <1>8, <2>2, <3>1, <4>1
        <3> QED BY <3>2, LessIsNotLe
    <2> QED BY <2>1, <2>2
<1> QED BY <1>6, <1>8, <1>9

------------------------------------------------------------------------------
(* down, Fix, Push and Remove *)

\* The first n places are a heap but for the item at place k, which may have to
\* go down, or up while it is still at the place i it was put.
DownReady(q, pr, tm, n, i, k) ==
    /\ \A m \in 2..n : m \div 2 # k /\ (m # k \/ k # i) =>
                           Le(pr, tm, q.heap[m \div 2], q.heap[m])
    /\ \A m \in 2..n : m \div 2 = k /\ k \div 2 >= 1 => Le(pr, tm, q.heap[k \div 2], q.heap[m])

DownStates(q, pr, tm, n, i) ==
    {s \in Places : /\ s.at \in i..n /\ Shuffled(q, s.queue, n)
                    /\ DownReady(s.queue, pr, tm, n, i, s.at)}

\* The child down looks at.
Child(q, pr, tm, n, k) ==
    IF 2 * k + 1 <= n /\ Less(q, pr, tm, 2 * k + 1, 2 * k) THEN 2 * k + 1 ELSE 2 * k

\* down compares with the lesser child.
LEMMA ChildFacts ==
    ASSUME NEW pr, NEW tm, Keys(pr, tm), NEW q, Indexed(q), NEW n \in 0..Len(q.heap),
           NEW k \in 1..n, 2 * k <= n
    PROVE  /\ Child(q, pr, tm, n, k) \in 2..n /\ Child(q, pr, tm, n, k) \div 2 = k
           /\ Child(q, pr, tm, n, k) > k
           /\ \A m \in 2..n : m \div 2 = k =>
                Le(pr, tm, q.heap[Child(q, pr, tm, n, k)], q.heap[m])
<1>1. PICK h : h = q.heap
    OBVIOUS
<1>2. Len(h) \in Nat /\ n \in Nat /\ n <= Len(h) /\ \A m \in 1..Len(h) : h[m] \in Packages
    BY <1>1, QueueFacts DEF Indexed
<1>3. (2 * k) \div 2 = k /\ (2 * k + 1) \div 2 = k /\ k \in Nat /\ k >= 1
    BY <1>2
<1>4. \A m \in 2..n : m \div 2 = k => m = 2 * k \/ m = 2 * k + 1
    BY <1>2, <1>3, Half
<1>5. \A a \in Packages : Le(pr, tm, a, a)
    BY LeOrder
<1>6. CASE 2 * k + 1 <= n /\ Less(q, pr, tm, 2 * k + 1, 2 * k)
    <2>1. PICK j : j = 2 * k + 1
        OBVIOUS
    <2>2. j = Child(q, pr, tm, n, k)
        BY <1>6, <2>1 DEF Child
    <2>3. j \in 2..n /\ j \div 2 = k /\ j > k /\ j \in 1..Len(h) /\ 2 * k \in 1..Len(h)
        BY <1>2, <1>3, <1>6, <2>1
    <2>4. ~Le(pr, tm, h[2 * k], h[j])
        BY <1>1, <1>6, <2>1, LessIsNotLe
    <2>5. Le(pr, tm, h[j], h[2 * k]) /\ Le(pr, tm, h[j], h[j])
        BY <1>2, <1>5, <2>3, <2>4, LeOrder
    <2>6. \A m \in 2..n : m \div 2 = k => Le(pr, tm, h[j], h[m])
        BY <1>4, <2>1, <2>5
    <2> QED BY <1>1, <2>2, <2>3, <2>6
<1>7. CASE ~(2 * k + 1 <= n /\ Less(q, pr, tm, 2 * k + 1, 2 * k))
    <2>1. PICK j : j = 2 * k
        OBVIOUS
    <2>2. j = Child(q, pr, tm, n, k)
        BY <1>7, <2>1 DEF Child
    <2>3. j \in 2..n /\ j \div 2 = k /\ j > k /\ j \in 1..Len(h)
        BY <1>2, <1>3, <2>1
    <2>4. 2 * k + 1 <= n => Le(pr, tm, h[j], h[2 * k + 1])
        BY <1>1, <1>7, <2>1, LessIsNotLe
    <2>5. Le(pr, tm, h[j], h[j])
        BY <1>2, <1>5, <2>3
    <2>6. \A m \in 2..n : m \div 2 = k => Le(pr, tm, h[j], h[m])
        BY <1>2, <1>4, <2>1, <2>4, <2>5
    <2> QED BY <1>1, <2>2, <2>3, <2>6
<1> QED BY <1>6, <1>7

\* One swap of down.
LEMMA DownSwap ==
    ASSUME NEW pr, NEW tm, Keys(pr, tm), NEW q, Indexed(q), NEW n \in 0..Len(q.heap),
           NEW i \in 1..n, NEW k \in i..n, DownReady(q, pr, tm, n, i, k), NEW j \in 2..n,
           j \div 2 = k, j > k, \A m \in 2..n : m \div 2 = k => Le(pr, tm, q.heap[j], q.heap[m]),
           Less(q, pr, tm, j, k)
    PROVE  DownReady(Swap(q, k, j), pr, tm, n, i, j)
<1>1. PICK h : h = q.heap
    OBVIOUS
<1>2. PICK g : g = Swap(q, k, j).heap
    OBVIOUS
<1>3. Len(h) \in Nat /\ n \in Nat /\ n <= Len(h) /\ \A m \in 1..Len(h) : h[m] \in Packages
    BY <1>1, QueueFacts DEF Indexed
<1>4. k \in Nat /\ k >= 1 /\ i <= k /\ k \in 1..Len(h) /\ j \in 1..Len(h) /\ j # i /\ i \in Nat
    BY <1>3
<1>5. \A m \in 1..Len(h) : g[m] = IF m = k THEN h[j] ELSE IF m = j THEN h[k] ELSE h[m]
    BY <1>1, <1>2, <1>4, SwapIs
<1>6. Le(pr, tm, h[j], h[k])
    <2>1. ~Le(pr, tm, h[k], h[j])
        BY <1>1, LessIsNotLe
    <2> QED BY <1>3, <1>4, <2>1, LeOrder
<1>7. \A m \in 2..n : m \div 2 # k /\ (m # k \/ k # i) => Le(pr, tm, h[m \div 2], h[m])
    BY <1>1 DEF DownReady
<1>8. \A m \in 2..n : m \div 2 = k /\ k \div 2 >= 1 => Le(pr, tm, h[k \div 2], h[m])
    BY <1>1 DEF DownReady
<1>9. \A m \in 2..n : m \in 1..Len(h) /\ m \div 2 \in 1..Len(h) /\ m \div 2 < m
    BY <1>3, Half
<1>10. \A m \in 2..n : m \div 2 = k => Le(pr, tm, h[j], h[m])
    BY <1>1
<1>11. ASSUME NEW m \in 2..n, m \div 2 # j PROVE Le(pr, tm, g[m \div 2], g[m])
    <2>1. PICK u : u = m \div 2
        OBVIOUS
    <2>2. m \in 1..Len(h) /\ u \in 1..Len(h) /\ u < m /\ u # j
        BY <1>9, <1>11, <2>1
    <2>3. CASE m = j
        BY <1>4, <1>5, <1>6, <2>1, <2>3
    <2>4. CASE m # j /\ u = k
        <3>1. g[u] = h[j] /\ g[m] = h[m]
            BY <1>5, <2>2, <2>4
        <3> QED BY <1>10, <2>1, <2>4, <3>1
    <2>5. CASE m = k
        <3>1. g[u] = h[u] /\ g[m] = h[j]
            BY <1>5, <2>2, <2>5
        <3>2. k \div 2 >= 1 /\ u = k \div 2
            BY <2>1, <2>2, <2>5
        <3>3. Le(pr, tm, h[u], h[j])
            BY <1>8, <3>2
        <3> QED BY <2>1, <3>1, <3>3
    <2>6. CASE m # j /\ m # k /\ u # k
        <3>1. g[u] = h[u] /\ g[m] = h[m]
            BY <1>5, <2>2, <2>6
        <3> QED BY <1>7, <2>1, <2>6, <3>1
    <2> QED BY <2>3, <2>4, <2>5, <2>6
<1>12. ASSUME NEW m \in 2..n, m \div 2 = j PROVE Le(pr, tm, g[j \div 2], g[m])
    <2>1. m \in 1..Len(h) /\ m # j /\ m # k
        BY <1>9, <1>12
    <2>2. g[k] = h[j] /\ g[m] = h[m]
        BY <1>4, <1>5, <2>1
    <2>3. Le(pr, tm, h[j], h[m])
        BY <1>7, <1>12, <2>1
    <2> QED BY <2>2, <2>3
<1> QED BY <1>2, <1>11, <1>12 DEF DownReady

\* down makes the first n places a heap, or leaves the item for up.
LEMMA DownRight ==
    ASSUME NEW pr, NEW tm, Keys(pr, tm), NEW q, Indexed(q), NEW n \in 0..Len(q.heap),
           NEW i \in 1..n, DownReady(q, pr, tm, n, i, i)
    PROVE  /\ Shuffled(q, Down(q, pr, tm, i, n).queue, n)
           /\ IF Down(q, pr, tm, i, n).at = i
              THEN UpReady(Down(q, pr, tm, i, n).queue, pr, tm, n, i)
              ELSE HeapTo(Down(q, pr, tm, i, n).queue, pr, tm, n)
<1> DEFINE S == DownStates(q, pr, tm, n, i)
           f == DownPass(pr, tm, n)
           v == [s \in S |-> n - s.at]
<1>1. Len(q.heap) \in Nat /\ n \in Nat /\ n <= Len(q.heap) /\ i \in Nat
    BY QueueFacts DEF Indexed
<1>2. ASSUME NEW s \in S
      PROVE  /\ f[s] \in S
             /\ f[s] = s => \A m \in 2..n : m \div 2 = s.at =>
                                Le(pr, tm, s.queue.heap[s.at], s.queue.heap[m])
             /\ f[s] = s \/ s.at < f[s].at
    <2>1. PICK r : r = s.queue
        OBVIOUS
    <2>2. PICK k : k = s.at
        OBVIOUS
    <2>3. s \in Places /\ k \in i..n /\ Shuffled(q, r, n) /\ DownReady(r, pr, tm, n, i, k)
        BY <2>1, <2>2 DEF DownStates
    <2>4. k \in Nat /\ k >= 1 /\ k <= n /\ Indexed(r) /\ Len(r.heap) = Len(q.heap) /\ k \in 1..n
          /\ n \in 0..Len(r.heap)
        BY <1>1, <2>3 DEF Shuffled
    <2>5. PICK j : j = Child(r, pr, tm, n, k)
        OBVIOUS
    <2>6. f[s] = IF k < 1 \/ 2 * k > n \/ ~Less(r, pr, tm, j, k) THEN s ELSE At(Swap(r, k, j), j)
        BY <2>1, <2>2, <2>3, <2>5 DEF DownPass, Child
    <2>7. CASE 2 * k > n
        <3>1. f[s] = s
            BY <2>6, <2>7
        <3>2. \A m \in 2..n : m \div 2 # k
            BY <1>1, <2>4, <2>7, Half
        <3> QED BY <2>2, <3>1, <3>2
    <2>8. CASE 2 * k <= n
        <3>1. j \in 2..n /\ j \div 2 = k /\ j > k
              /\ \A m \in 2..n : m \div 2 = k => Le(pr, tm, r.heap[j], r.heap[m])
            BY <2>4, <2>5, <2>8, ChildFacts
        <3>2. CASE ~Less(r, pr, tm, j, k)
            <4>1. f[s] = s
                BY <2>6, <3>2
            <4>2. Le(pr, tm, r.heap[k], r.heap[j])
                BY <3>2, LessIsNotLe
            <4>3. \A m \in 1..Len(r.heap) : r.heap[m] \in Packages
                BY <2>4, QueueFacts DEF Indexed
            <4>4. ASSUME NEW m \in 2..n, m \div 2 = k PROVE Le(pr, tm, r.heap[k], r.heap[m])
                <5>1. Le(pr, tm, r.heap[j], r.heap[m])
                    BY <3>1, <4>4
                <5>2. r.heap[k] \in Packages /\ r.heap[j] \in Packages /\ r.heap[m] \in Packages
                    BY <1>1, <2>4, <3>1, <4>3
                <5> QED BY <4>2, <5>1, <5>2, LeOrder
            <4> QED BY <2>1, <2>2, <4>1, <4>4
        <3>3. CASE Less(r, pr, tm, j, k)
            <4>1. f[s] = At(Swap(r, k, j), j)
                BY <1>1, <2>4, <2>6, <2>8, <3>3
            <4>2. j \in 1..n /\ k # j /\ j \in Nat /\ j \in i..n
                BY <1>1, <2>3, <2>4, <3>1
            <4>3. Shuffled(r, Swap(r, k, j), n)
                BY <2>4, <4>2, SwapShuffles
            <4>4. Shuffled(q, Swap(r, k, j), n)
                BY <2>3, <4>3, ShuffledTwice
            <4>5. DownReady(Swap(r, k, j), pr, tm, n, i, j)
                BY <2>3, <2>4, <3>1, <3>3, DownSwap
            <4>6. PICK t : t = Swap(r, k, j)
                OBVIOUS
            <4>7. t \in Queues /\ f[s] = At(t, j)
                BY <4>1, <4>3, <4>6 DEF Shuffled, Indexed
            <4>8. f[s] \in Places /\ f[s].queue = t /\ f[s].at = j
                BY <4>2, <4>7 DEF Places, At
            <4>9. f[s] \in S
                BY <4>2, <4>4, <4>5, <4>6, <4>8 DEF DownStates
            <4>10. s.at < f[s].at
                BY <1>1, <2>2, <2>4, <3>1, <4>2, <4>8
            <4>11. f[s] # s
                BY <2>2, <4>2, <4>8
            <4> QED BY <4>9, <4>10, <4>11
        <3> QED BY <3>2, <3>3
    <2> QED BY <1>1, <2>4, <2>7, <2>8
<1>3. PICK s0 : s0 = At(q, i)
    OBVIOUS
<1>4. s0 \in S /\ s0.at = i
    <2>1. s0 \in Places /\ s0.queue = q /\ s0.at = i
        BY <1>1, <1>3 DEF At, Places, Indexed
    <2>2. Shuffled(q, q, n)
        BY DEF Shuffled
    <2>3. i \in i..n
        BY <1>1
    <2> QED BY <2>1, <2>2, <2>3 DEF DownStates
<1>5. v \in [S -> Nat] /\ v[s0] <= n /\ \A s \in S : f[s] = s \/ v[f[s]] < v[s]
    <2>1. \A s \in S : s.at \in Nat /\ s.at <= n
        BY <1>1 DEF DownStates, Places
    <2> QED BY <1>1, <1>2, <1>4, <2>1
<1>6. PICK e : e = Down(q, pr, tm, i, n)
    OBVIOUS
<1>7. e \in S /\ f[e] = e
    <2>1. e = Passes(f, s0)[n]
        BY <1>3, <1>6 DEF Down
    <2>2. Closed(f, S)
        BY <1>2 DEF Closed
    <2> HIDE DEF S, f, v
    <2> QED BY <1>1, <1>4, <1>5, <2>1, <2>2, PassesEnd
<1>8. /\ Shuffled(q, e.queue, n) /\ DownReady(e.queue, pr, tm, n, i, e.at) /\ e.at \in i..n
      /\ \A m \in 2..n : m \div 2 = e.at => Le(pr, tm, e.queue.heap[e.at], e.queue.heap[m])
    BY <1>2, <1>7 DEF DownStates
<1>9. \A m \in 2..n : m # e.at \/ e.at # i => Le(pr, tm, e.queue.heap[m \div 2], e.queue.heap[m])
    BY <1>8 DEF DownReady
<1>10. e.at = i => UpReady(e.queue, pr, tm, n, i)
    BY <1>8, <1>9 DEF UpReady, DownReady
<1>11. e.at # i => HeapTo(e.queue, pr, tm, n)
    BY <1>9 DEF HeapTo
<1> QED BY <1>6, <1>8, <1>10, <1>11

\* down, and up when the item did not move: the order of heap.Fix and heap.Remove.
LEMMA SettleRight ==
    ASSUME NEW pr, NEW tm, Keys(pr, tm), NEW q, Indexed(q), NEW n \in 0..Len(q.heap),
           NEW i \in 1..n, DownReady(q, pr, tm, n, i, i)
    PROVE  /\ Shuffled(q, Settle(q, pr, tm, i, n), n)
           /\ HeapTo(Settle(q, pr, tm, i, n), pr, tm, n)
<1>1. PICK d : d = Down(q, pr, tm, i, n)
    OBVIOUS
<1>2. /\ Shuffled(q, d.queue, n)
      /\ IF d.at = i THEN UpReady(d.queue, pr, tm, n, i) ELSE HeapTo(d.queue, pr, tm, n)
    BY <1>1, DownRight
<1>3. Settle(q, pr, tm, i, n) = IF d.at = i THEN Up(d.queue, pr, tm, i).queue ELSE d.queue
    BY <1>1 DEF Settle
<1>4. CASE d.at = i
    <2>1. Indexed(d.queue) /\ n \in 0..Len(d.queue.heap)
        BY <1>2 DEF Shuffled
    <2>2. /\ Shuffled(d.queue, Up(d.queue, pr, tm, i).queue, n)
          /\ HeapTo(Up(d.queue, pr, tm, i).queue, pr, tm, n)
        BY <1>2, <1>4, <2>1, UpRight
    <2> QED BY <1>2, <1>3, <1>4, <2>2, ShuffledTwice
<1>5. CASE d.at # i
    BY <1>2, <1>3, <1>5
<1> QED BY <1>4, <1>5

\* The whole array is a heap.
Ordered(q, pr, tm) == HeapTo(q, pr, tm, Len(q.heap))

\* Any item of a heap may be fixed.
LEMMA HeapIsReady ==
    ASSUME NEW pr, NEW tm, Keys(pr, tm), NEW q, Indexed(q), NEW n \in 0..Len(q.heap),
           HeapTo(q, pr, tm, n), NEW i \in 1..n
    PROVE  DownReady(q, pr, tm, n, i, i)
<1>1. PICK h : h = q.heap
    OBVIOUS
<1>2. Len(h) \in Nat /\ n \in Nat /\ n <= Len(h) /\ \A m \in 1..Len(h) : h[m] \in Packages
    BY <1>1, QueueFacts DEF Indexed
<1>3. \A m \in 2..n : Le(pr, tm, h[m \div 2], h[m])
    BY <1>1 DEF HeapTo
<1>4. ASSUME NEW m \in 2..n, m \div 2 = i, i \div 2 >= 1 PROVE Le(pr, tm, h[i \div 2], h[m])
    <2>1. i \in 2..n /\ i \div 2 \in 1..Len(h) /\ i \in 1..Len(h) /\ m \in 1..Len(h)
        BY <1>2, <1>4, Half
    <2>2. Le(pr, tm, h[i \div 2], h[i]) /\ Le(pr, tm, h[i], h[m])
        BY <1>3, <1>4, <2>1
    <2>3. h[i \div 2] \in Packages /\ h[i] \in Packages /\ h[m] \in Packages
        BY <1>2, <2>1
    <2> QED BY <2>2, <2>3, LeOrder
<1> QED BY <1>1, <1>3, <1>4 DEF DownReady

\* heap.Fix restores the order when one key changed.
LEMMA FixRight ==
    ASSUME NEW pr, NEW tm, Keys(pr, tm), NEW q, Indexed(q), NEW i \in 1..Len(q.heap),
           DownReady(q, pr, tm, Len(q.heap), i, i)
    PROVE  /\ Shuffled(q, HeapFix(q, pr, tm, i), Len(q.heap))
           /\ Ordered(HeapFix(q, pr, tm, i), pr, tm)
<1>1. Len(q.heap) \in 0..Len(q.heap)
    BY QueueFacts DEF Indexed
<1> QED BY <1>1, SettleRight DEF HeapFix, Ordered, Shuffled

\* Fix with the index of an item that is not in the array does nothing.
LEMMA FixOut ==
    ASSUME NEW pr, NEW tm, NEW q \in Queues
    PROVE  HeapFix(q, pr, tm, OutOfHeap) = q
<1>1. PICK s : s = At(q, 0)
    OBVIOUS
<1>2. s \in Places /\ s.queue = q /\ s.at = 0
    BY <1>1 DEF At, Places
<1>3. PICK n \in Nat : n = Len(q.heap)
    BY QueueFacts
<1>4. 0 \div 2 = 0 /\ 0 < 1
    OBVIOUS
<1>5. DownPass(pr, tm, n)[s] = s /\ UpPass(pr, tm)[s] = s
    BY <1>2, <1>4 DEF DownPass, UpPass
<1>6. Closed(DownPass(pr, tm, n), {s}) /\ Closed(UpPass(pr, tm), {s})
    BY <1>5 DEF Closed
<1>7. Passes(DownPass(pr, tm, n), s)[n] \in {s} /\ Passes(UpPass(pr, tm), s)[0] \in {s}
    BY <1>3, <1>6, PassesKeep
<1>8. Down(q, pr, tm, 0, n) = s /\ Up(q, pr, tm, 0) = s
    BY <1>1, <1>7 DEF Down, Up
<1> QED BY <1>2, <1>3, <1>8 DEF HeapFix, Settle, OutOfHeap

\* heap.Push puts p in the heap.
LEMMA PushRight ==
    ASSUME NEW pr, NEW tm, Keys(pr, tm), NEW q, Indexed(q), Ordered(q, pr, tm),
           NEW p \in Packages \ ToSet(q.heap)
    PROVE  /\ Indexed(HeapPush(q, pr, tm, p)) /\ Ordered(HeapPush(q, pr, tm, p), pr, tm)
           /\ ToSet(HeapPush(q, pr, tm, p).heap) = ToSet(q.heap) \cup {p}
           /\ \A x \in Packages \ (ToSet(q.heap) \cup {p}) :
                HeapPush(q, pr, tm, p).index[x] = q.index[x]
<1>1. PICK h : h = q.heap
    OBVIOUS
<1>2. PICK n : n = Len(h)
    OBVIOUS
<1>3. /\ h \in Seq(Packages) /\ q.index \in [Packages -> Nat] /\ n \in Nat
      /\ DOMAIN h = 1..n /\ \A m \in 1..n : h[m] \in Packages /\ h[m] \in ToSet(h)
    BY <1>1, <1>2, QueueFacts DEF Indexed
<1>4. PICK r : r = PushItem(q, p)
    OBVIOUS
<1>5. PICK g : g = Append(h, p)
    OBVIOUS
<1>6. g \in Seq(Packages) /\ Len(g) = n + 1 /\ g[n + 1] = p /\ \A m \in 1..n : g[m] = h[m]
    BY <1>2, <1>3, <1>5, AppendProperties
<1>7. PICK x : x = [q.index EXCEPT ![p] = n + 1]
    OBVIOUS
<1>8. x \in [Packages -> Nat] /\ \A y \in Packages : x[y] = IF y = p THEN n + 1 ELSE q.index[y]
    BY <1>3, <1>7
<1>9. r \in Queues /\ r.heap = g /\ r.index = x
    BY <1>1, <1>2, <1>4, <1>5, <1>6, <1>7, <1>8 DEF PushItem, Queues
<1>10. ASSUME NEW m \in 1 .. n + 1 PROVE r.index[r.heap[m]] = m
    <2>1. CASE m = n + 1
        BY <1>6, <1>8, <1>9, <2>1
    <2>2. CASE m \in 1..n
        <3>1. q.index[h[m]] = m /\ h[m] \in Packages /\ h[m] # p
            BY <1>1, <1>2, <1>3, <2>2 DEF Indexed
        <3> QED BY <1>6, <1>8, <1>9, <2>2, <3>1
    <2> QED BY <1>3, <2>1, <2>2
<1>11. Indexed(r) /\ Len(r.heap) = n + 1
    BY <1>6, <1>9, <1>10 DEF Indexed
<1>12. ToSet(r.heap) = ToSet(q.heap) \cup {p}
    <2>1. DOMAIN g = 1 .. n + 1 /\ n + 1 \in 1 .. n + 1 /\ 1 .. n + 1 = 1..n \cup {n + 1}
        BY <1>3, <1>6
    <2>2. \A y : y \in ToSet(g) <=> y \in ToSet(h) \/ y = p
        BY <1>3, <1>6, <2>1 DEF ToSet
    <2> QED BY <1>1, <1>9, <2>2
<1>13. UpReady(r, pr, tm, n + 1, n + 1)
    <2>1. ASSUME NEW m \in 2 .. n + 1, m # n + 1 PROVE Le(pr, tm, r.heap[m \div 2], r.heap[m])
        <3>1. m \in 2..n /\ m \in 1..n /\ m \div 2 \in 1..n
            BY <1>3, <2>1, Half
        <3>2. Le(pr, tm, h[m \div 2], h[m])
            BY <1>1, <1>2, <3>1 DEF Ordered, HeapTo
        <3> QED BY <1>6, <1>9, <3>1, <3>2
    <2>2. \A m \in 2 .. n + 1 : m \div 2 # n + 1
        BY <1>3, Half
    <2> QED BY <2>1, <2>2 DEF UpReady
<1>14. PICK t : t = Up(r, pr, tm, n + 1).queue
    OBVIOUS
<1>15. Shuffled(r, t, n + 1) /\ HeapTo(t, pr, tm, n + 1)
    <2>1. n + 1 \in 0..Len(r.heap) /\ n + 1 \in 1 .. n + 1
        BY <1>3, <1>11
    <2> QED BY <1>11, <1>13, <1>14, <2>1, UpRight
<1>16. t = HeapPush(q, pr, tm, p)
    BY <1>1, <1>2, <1>4, <1>14 DEF HeapPush
<1>17. Indexed(t) /\ Ordered(t, pr, tm) /\ ToSet(t.heap) = ToSet(q.heap) \cup {p}
    BY <1>11, <1>12, <1>15 DEF Shuffled, Ordered
<1>18. \A y \in Packages \ (ToSet(q.heap) \cup {p}) : t.index[y] = q.index[y]
    BY <1>8, <1>9, <1>12, <1>15 DEF Shuffled
<1> QED BY <1>16, <1>17, <1>18

\* PriorityQueue.Pop drops the last item and writes -1 in its index.
LEMMA PopIs ==
    ASSUME NEW q, Indexed(q), Len(q.heap) > 0
    PROVE  /\ Indexed(PopItem(q)) /\ Len(PopItem(q).heap) = Len(q.heap) - 1
           /\ \A m \in 1 .. Len(q.heap) - 1 : PopItem(q).heap[m] = q.heap[m]
           /\ ToSet(PopItem(q).heap) = ToSet(q.heap) \ {q.heap[Len(q.heap)]}
           /\ \A x \in Packages : PopItem(q).index[x] = IF x = q.heap[Len(q.heap)] THEN OutOfHeap
                                                        ELSE q.index[x]
<1>1. PICK h : h = q.heap
    OBVIOUS
<1>2. PICK n : n = Len(h)
    OBVIOUS
<1>3. /\ h \in Seq(Packages) /\ q.index \in [Packages -> Nat] /\ n \in Nat /\ n > 0
      /\ DOMAIN h = 1..n /\ \A m \in 1..n : h[m] \in Packages /\ q.index[h[m]] = m
    BY <1>1, <1>2, QueueFacts DEF Indexed
<1>4. PICK g : g = SubSeq(h, 1, n - 1)
    OBVIOUS
<1>5. g \in Seq(Packages) /\ Len(g) = n - 1 /\ \A m \in 1 .. n - 1 : g[m] = h[m]
    BY <1>2, <1>3, <1>4
<1>6. PICK x : x = [q.index EXCEPT ![h[n]] = OutOfHeap]
    OBVIOUS
<1>7. x \in [Packages -> Nat] /\ \A y \in Packages : x[y] = IF y = h[n] THEN OutOfHeap ELSE q.index[y]
    BY <1>3, <1>6 DEF OutOfHeap
<1>8. PICK r : r = PopItem(q)
    OBVIOUS
<1>9. r = [heap |-> g, index |-> x]
    BY <1>1, <1>2, <1>4, <1>6, <1>8 DEF PopItem, Front, Last
<1>10. r \in Queues /\ r.heap = g /\ r.index = x
    BY <1>5, <1>7, <1>9 DEF Queues
<1>11. \A m \in 1 .. n - 1 : x[g[m]] = m /\ g[m] # h[n]
    <2> SUFFICES ASSUME NEW m \in 1 .. n - 1 PROVE x[g[m]] = m /\ g[m] # h[n]
        OBVIOUS
    <2>1. m \in 1..n /\ n \in 1..n /\ m # n /\ g[m] = h[m]
        BY <1>3, <1>5
    <2>2. h[m] # h[n]
        BY <1>3, <2>1
    <2> QED BY <1>3, <1>7, <2>1, <2>2
<1>12. Indexed(r)
    BY <1>5, <1>10, <1>11 DEF Indexed
<1>13. ToSet(g) = ToSet(h) \ {h[n]}
    <2>1. DOMAIN g = 1 .. n - 1 /\ 1..n = (1 .. n - 1) \cup {n}
        BY <1>3, <1>5
    <2> QED BY <1>3, <1>5, <1>11, <2>1 DEF ToSet
<1> QED BY <1>1, <1>2, <1>5, <1>7, <1>8, <1>10, <1>12, <1>13

\* heap.Remove takes one item from the heap, wherever it stands.
LEMMA RemoveRight ==
    ASSUME NEW pr, NEW tm, Keys(pr, tm), NEW q, Indexed(q), Ordered(q, pr, tm),
           NEW i \in 1..Len(q.heap)
    PROVE  /\ Indexed(HeapRemove(q, pr, tm, i)) /\ Ordered(HeapRemove(q, pr, tm, i), pr, tm)
           /\ ToSet(HeapRemove(q, pr, tm, i).heap) = ToSet(q.heap) \ {q.heap[i]}
           /\ HeapRemove(q, pr, tm, i).index[q.heap[i]] = OutOfHeap
           /\ \A x \in Packages \ ToSet(q.heap) : HeapRemove(q, pr, tm, i).index[x] = q.index[x]
<1>1. PICK n : n = Len(q.heap)
    OBVIOUS
<1>2. n \in Nat /\ n > 0 /\ n \in 1..Len(q.heap) /\ n - 1 \in 0..Len(q.heap)
      /\ ToSet(q.heap) \subseteq Packages /\ q.heap[i] \in Packages /\ q.heap[i] \in ToSet(q.heap)
    BY <1>1, QueueFacts DEF Indexed
<1>3. PICK r : r = IF i = n THEN q ELSE Settle(Swap(q, i, n), pr, tm, i, n - 1)
    OBVIOUS
<1>4. HeapRemove(q, pr, tm, i) = PopItem(r)
    BY <1>1, <1>3 DEF HeapRemove
<1>5. Shuffled(q, r, n) /\ HeapTo(r, pr, tm, n - 1) /\ r.heap[n] = q.heap[i]
    <2>1. CASE i = n
        <3>1. r = q /\ Shuffled(q, q, n)
            BY <1>3, <2>1 DEF Shuffled
        <3>2. HeapTo(q, pr, tm, n - 1)
            <4>1. \A m \in 2 .. n - 1 : m \in 2..n
                BY <1>2
            <4> QED BY <1>1, <4>1 DEF Ordered, HeapTo
        <3> QED BY <2>1, <3>1, <3>2
    <2>2. CASE i # n
        <3>1. PICK t : t = Swap(q, i, n)
            OBVIOUS
        <3>2. i \in 1 .. n - 1 /\ i \in 1..n /\ n \in 1..n /\ n \in 0..Len(q.heap)
            BY <1>1, <1>2, <2>2
        <3>3. Shuffled(q, t, n) /\ Indexed(t) /\ Len(t.heap) = n
            BY <1>1, <2>2, <3>1, <3>2, SwapShuffles DEF Shuffled
        <3>4. \A m \in 1..n : t.heap[m] = IF m = i THEN q.heap[n] ELSE
                                          IF m = n THEN q.heap[i] ELSE q.heap[m]
            BY <1>1, <1>2, <2>2, <3>1, SwapIs
        <3>5. DownReady(q, pr, tm, n, i, i)
            BY <1>1, <3>2, HeapIsReady DEF Ordered
        <3>6. DownReady(t, pr, tm, n - 1, i, i)
            <4>1. \A m \in 2 .. n - 1 : m \in 2..n /\ m \in 1..n /\ m \div 2 \in 1..n /\ m \div 2 # n /\ m # n
                BY <1>2, Half
            <4>2. ASSUME NEW m \in 2 .. n - 1, m \div 2 # i, m # i
                  PROVE  Le(pr, tm, t.heap[m \div 2], t.heap[m])
                <5>1. t.heap[m] = q.heap[m] /\ t.heap[m \div 2] = q.heap[m \div 2]
                    BY <3>4, <4>1, <4>2
                <5> QED BY <3>5, <4>1, <4>2, <5>1 DEF DownReady
            <4>3. ASSUME NEW m \in 2 .. n - 1, m \div 2 = i, i \div 2 >= 1
                  PROVE  Le(pr, tm, t.heap[i \div 2], t.heap[m])
                <5>1. m # i /\ m \in 2..n /\ m \in 1..n /\ m # n
                      /\ i \div 2 \in 1..n /\ i \div 2 # i /\ i \div 2 # n
                    BY <1>2, <3>2, <4>3, Half
                <5>2. t.heap[m] = q.heap[m] /\ t.heap[i \div 2] = q.heap[i \div 2]
                    BY <3>4, <5>1
                <5> QED BY <3>5, <4>3, <5>1, <5>2 DEF DownReady
            <4> QED BY <4>2, <4>3 DEF DownReady
        <3>7. n - 1 \in 0..Len(t.heap)
            BY <1>2, <3>3
        <3>8. r = Settle(t, pr, tm, i, n - 1)
            BY <1>3, <2>2, <3>1
        <3>9. Shuffled(t, r, n - 1) /\ HeapTo(r, pr, tm, n - 1)
            BY <3>2, <3>3, <3>6, <3>7, <3>8, SettleRight
        <3>10. r.heap[n] = t.heap[n]
            <4>1. n \in (n - 1) + 1 .. Len(t.heap)
                BY <1>2, <3>3
            <4> QED BY <3>9, <4>1 DEF Shuffled
        <3>11. t.heap[n] = q.heap[i]
            BY <2>2, <3>2, <3>4
        <3>12. Shuffled(t, r, n)
            <4>1. \A m \in n + 1 .. Len(t.heap) : m \in (n - 1) + 1 .. Len(t.heap)
                BY <1>2, <3>3
            <4> QED BY <3>9, <4>1 DEF Shuffled
        <3> QED BY <3>3, <3>9, <3>10, <3>11, <3>12, ShuffledTwice
    <2> QED BY <2>1, <2>2
<1>6. PICK e : e = PopItem(r)
    OBVIOUS
<1>7. Indexed(r) /\ Len(r.heap) = n /\ ToSet(r.heap) = ToSet(q.heap)
      /\ \A x \in Packages \ ToSet(q.heap) : r.index[x] = q.index[x]
    BY <1>1, <1>5 DEF Shuffled
<1>8. /\ Indexed(e) /\ Len(e.heap) = n - 1 /\ \A m \in 1 .. n - 1 : e.heap[m] = r.heap[m]
      /\ ToSet(e.heap) = ToSet(r.heap) \ {r.heap[n]}
      /\ \A x \in Packages : e.index[x] = IF x = r.heap[n] THEN OutOfHeap ELSE r.index[x]
    BY <1>2, <1>6, <1>7, PopIs
<1>9. Ordered(e, pr, tm)
    <2> SUFFICES ASSUME NEW m \in 2 .. n - 1 PROVE Le(pr, tm, e.heap[m \div 2], e.heap[m])
        BY <1>8 DEF Ordered, HeapTo
    <2>1. m \in 1 .. n - 1 /\ m \div 2 \in 1 .. n - 1
        BY <1>2, Half
    <2> QED BY <1>5, <1>8, <2>1 DEF HeapTo
<1> QED BY <1>2, <1>4, <1>5, <1>6, <1>7, <1>8, <1>9

------------------------------------------------------------------------------
(* The slices *)

Distinct(s) == \A i, j \in 1..Len(s) : s[i] = s[j] => i = j

\* Elements and order of a slice.
LEMMA SliceFacts ==
    ASSUME NEW s \in Seq(Packages)
    PROVE  /\ Len(s) \in Nat /\ DOMAIN s = 1..Len(s)
           /\ \A x : x \in ToSet(s) <=> \E i \in 1..Len(s) : x = s[i]
           /\ \A i \in 1..Len(s) : s[i] \in Packages /\ s[i] \in ToSet(s)
           /\ ToSet(s) \subseteq Packages
           /\ \A x, y : x \in AheadIn(s, y) <=>
                \E i, j \in 1..Len(s) : i < j /\ x = s[i] /\ y = s[j]
<1>1. Len(s) \in Nat /\ DOMAIN s = 1..Len(s) /\ \A i \in 1..Len(s) : s[i] \in Packages
    OBVIOUS
<1>2. \A x : x \in ToSet(s) <=> \E i \in 1..Len(s) : x = s[i]
    BY <1>1 DEF ToSet
<1>3. \A x, y : x \in AheadIn(s, y) <=> \E i, j \in 1..Len(s) : i < j /\ x = s[i] /\ y = s[j]
    BY <1>1 DEF AheadIn
<1> QED BY <1>1, <1>2, <1>3

\* A slice without repetitions is as long as it has elements.
LEMMA DistinctCard ==
    ASSUME NEW s \in Seq(Packages), Distinct(s)
    PROVE  IsFiniteSet(ToSet(s)) /\ Cardinality(ToSet(s)) = Len(s)
<1>1. Len(s) \in Nat /\ s \in [1..Len(s) -> ToSet(s)]
    BY SliceFacts
<1>2. s \in Injection(1..Len(s), ToSet(s))
    BY <1>1 DEF Distinct, Injection, IsInjective
<1>3. s \in Surjection(1..Len(s), ToSet(s))
    BY <1>1, SliceFacts DEF Surjection
<1>4. ExistsBijection(1..Len(s), ToSet(s))
    BY <1>2, <1>3 DEF ExistsBijection, Bijection
<1>5. IsFiniteSet(ToSet(s))
    BY <1>1, <1>4, FS_NatBijection
<1>6. Cardinality(ToSet(s)) = Len(s)
    BY <1>1, <1>4, FS_CountingElements
<1> QED BY <1>5, <1>6

\* What is ahead of what in a slice.
LEMMA AheadFacts ==
    ASSUME NEW s \in Seq(Packages), Distinct(s)
    PROVE  /\ \A x : AheadIn(s, x) \subseteq ToSet(s)
           /\ \A x : x \notin ToSet(s) => AheadIn(s, x) = {}
           /\ \A x, y : x \in AheadIn(s, y) => y \notin AheadIn(s, x) /\ x # y
           /\ \A i, j \in 1..Len(s) : s[i] \in AheadIn(s, s[j]) <=> i < j
<1>1. \A i, j \in 1..Len(s) : s[i] \in AheadIn(s, s[j]) <=> i < j
    BY SliceFacts DEF Distinct
<1>2. \A x, y : x \in AheadIn(s, y) =>
                   \E i, j \in 1..Len(s) : i < j /\ x = s[i] /\ y = s[j]
    BY SliceFacts
<1>3. \A x, y : x \in AheadIn(s, y) => x \in ToSet(s) /\ y \in ToSet(s)
    BY <1>2, SliceFacts
<1>4. ASSUME NEW x, NEW y, x \in AheadIn(s, y) PROVE y \notin AheadIn(s, x) /\ x # y
    <2>1. PICK i \in 1..Len(s), j \in 1..Len(s) : i < j /\ x = s[i] /\ y = s[j]
        BY <1>2, <1>4
    <2>2. i # j /\ ~(j < i)
        BY <2>1, SliceFacts
    <2> QED BY <1>1, <2>1, <2>2 DEF Distinct
<1> QED BY <1>1, <1>3, <1>4

\* append(kind, pack)
LEMMA AppendSlice ==
    ASSUME NEW s \in Seq(Packages), Distinct(s), NEW p \in Packages \ ToSet(s)
    PROVE  /\ Append(s, p) \in Seq(Packages) /\ Len(Append(s, p)) = Len(s) + 1
           /\ Distinct(Append(s, p)) /\ ToSet(Append(s, p)) = ToSet(s) \cup {p}
           /\ AheadIn(Append(s, p), p) = ToSet(s)
           /\ \A x : x # p => AheadIn(Append(s, p), x) = AheadIn(s, x)
<1>1. PICK t : t = Append(s, p)
    OBVIOUS
<1>2. PICK n \in Nat : n = Len(s)
    BY SliceFacts
<1>3. t \in Seq(Packages) /\ Len(t) = n + 1 /\ t[n + 1] = p /\ \A m \in 1..n : t[m] = s[m]
    BY <1>1, <1>2, AppendProperties
<1>4. 1 .. n + 1 = 1..n \cup {n + 1} /\ \A m \in 1..n : s[m] # p
    BY <1>2, SliceFacts
<1>5. Distinct(t)
    <2> SUFFICES ASSUME NEW i \in 1 .. n + 1, NEW j \in 1 .. n + 1, t[i] = t[j] PROVE i = j
        BY <1>3 DEF Distinct
    <2>1. CASE i \in 1..n /\ j \in 1..n
        BY <1>2, <1>3, <2>1 DEF Distinct
    <2>2. CASE i = n + 1 \/ j = n + 1
        BY <1>3, <1>4, <2>2
    <2> QED BY <1>4, <2>1, <2>2
<1>0. DOMAIN t = 1 .. n + 1 /\ DOMAIN s = 1..n
    BY <1>2, <1>3, SliceFacts
<1>6. \A x : x \in ToSet(t) <=> x \in ToSet(s) \/ x = p
    BY <1>0, <1>3, <1>4 DEF ToSet
<1>7. \A x, y : x \in AheadIn(t, y) <=> \E i, j \in 1 .. n + 1 : i < j /\ x = t[i] /\ y = t[j]
    BY <1>0 DEF AheadIn
<1>8. \A x, y : x \in AheadIn(s, y) <=> \E i, j \in 1..n : i < j /\ x = s[i] /\ y = s[j]
    BY <1>2, SliceFacts
<1>9. ASSUME NEW x PROVE x \in AheadIn(t, p) <=> x \in ToSet(s)
    <2>1. ASSUME x \in AheadIn(t, p) PROVE x \in ToSet(s)
        <3>1. PICK i \in 1 .. n + 1, j \in 1 .. n + 1 : i < j /\ x = t[i] /\ p = t[j]
            BY <1>7, <2>1
        <3>2. i \in 1..n
            BY <3>1
        <3> QED BY <1>2, <1>3, <3>1, <3>2, SliceFacts
    <2>2. ASSUME x \in ToSet(s) PROVE x \in AheadIn(t, p)
        <3>1. PICK i \in 1..n : x = s[i]
            BY <1>2, <2>2, SliceFacts
        <3>2. i \in 1 .. n + 1 /\ n + 1 \in 1 .. n + 1 /\ i < n + 1
            OBVIOUS
        <3> QED BY <1>3, <1>7, <3>1, <3>2
    <2> QED BY <2>1, <2>2
<1>10. ASSUME NEW y, y # p, NEW x PROVE x \in AheadIn(t, y) <=> x \in AheadIn(s, y)
    <2>1. ASSUME x \in AheadIn(t, y) PROVE x \in AheadIn(s, y)
        <3>1. PICK i \in 1 .. n + 1, j \in 1 .. n + 1 : i < j /\ x = t[i] /\ y = t[j]
            BY <1>7, <2>1
        <3>2. i \in 1..n /\ j \in 1..n
            BY <1>3, <1>10, <3>1
        <3> QED BY <1>3, <1>8, <3>1, <3>2
    <2>2. ASSUME x \in AheadIn(s, y) PROVE x \in AheadIn(t, y)
        <3>1. PICK i \in 1..n, j \in 1..n : i < j /\ x = s[i] /\ y = s[j]
            BY <1>8, <2>2
        <3>2. i \in 1 .. n + 1 /\ j \in 1 .. n + 1
            OBVIOUS
        <3> QED BY <1>3, <1>7, <3>1, <3>2
    <2> QED BY <2>1, <2>2
<1>11. ToSet(t) = ToSet(s) \cup {p} /\ AheadIn(t, p) = ToSet(s)
    BY <1>6, <1>9
<1>12. ASSUME NEW y, y # p PROVE AheadIn(t, y) = AheadIn(s, y)
    <2>1. \A x : x \in AheadIn(t, y) <=> x \in AheadIn(s, y)
        BY <1>10, <1>12
    <2> QED BY <2>1
<1> QED BY <1>1, <1>2, <1>3, <1>5, <1>11, <1>12

\* append(kind[:i], kind[i+1:]...), place by place.
LEMMA RemoveAtIs ==
    ASSUME NEW s \in Seq(Packages), NEW i \in 1..Len(s)
    PROVE  /\ RemoveAt(s, i) \in Seq(Packages) /\ Len(RemoveAt(s, i)) = Len(s) - 1
           /\ \A m \in 1 .. Len(s) - 1 : RemoveAt(s, i)[m] = IF m < i THEN s[m] ELSE s[m + 1]
<1>1. PICK n \in Nat : n = Len(s)
    BY SliceFacts
<1>2. \A m \in 1..n : s[m] \in Packages
    BY <1>1, SliceFacts
<1>3. PICK a : a = SubSeq(s, 1, i - 1)
    OBVIOUS
<1>4. PICK b : b = SubSeq(s, i + 1, n)
    OBVIOUS
<1>5. a \in Seq(Packages) /\ Len(a) = i - 1 /\ \A m \in 1 .. i - 1 : a[m] = s[m]
    BY <1>1, <1>2, <1>3
<1>6. b \in Seq(Packages) /\ Len(b) = n - i /\ \A m \in 1 .. n - i : b[m] = s[m + i]
    BY <1>1, <1>2, <1>4
<1>7. RemoveAt(s, i) = a \o b
    BY <1>1, <1>3, <1>4 DEF RemoveAt
<1>8. PICK c : c = a \o b
    OBVIOUS
<1>9. c \in Seq(Packages) /\ Len(c) = Len(a) + Len(b)
      /\ \A m \in 1 .. Len(a) + Len(b) : c[m] = IF m <= Len(a) THEN a[m] ELSE b[m - Len(a)]
    BY <1>5, <1>6, <1>8, ConcatProperties
<1>10. Len(c) = n - 1 /\ \A m \in 1 .. n - 1 : c[m] = IF m <= i - 1 THEN a[m] ELSE b[m - (i - 1)]
    <2>1. Len(a) = i - 1 /\ Len(a) + Len(b) = n - 1
        BY <1>1, <1>5, <1>6
    <2> QED BY <1>9, <2>1
<1>11. ASSUME NEW m \in 1 .. n - 1 PROVE c[m] = IF m < i THEN s[m] ELSE s[m + 1]
    <2>1. CASE m < i
        <3>1. m <= i - 1 /\ m \in 1 .. i - 1
            BY <1>1, <2>1
        <3> QED BY <1>5, <1>10, <2>1, <3>1
    <2>2. CASE ~(m < i)
        <3>1. m - (i - 1) \in 1 .. n - i /\ m - (i - 1) + i = m + 1 /\ ~(m <= i - 1)
            BY <1>1, <2>2
        <3>2. c[m] = b[m - (i - 1)]
            BY <1>10, <3>1
        <3> QED BY <1>6, <2>2, <3>1, <3>2
    <2> QED BY <2>1, <2>2
<1> QED BY <1>1, <1>7, <1>8, <1>9, <1>10, <1>11

\* and what it leaves of the slice.
LEMMA RemoveSlice ==
    ASSUME NEW s \in Seq(Packages), Distinct(s), NEW i \in 1..Len(s)
    PROVE  /\ RemoveAt(s, i) \in Seq(Packages) /\ Len(RemoveAt(s, i)) = Len(s) - 1
           /\ Distinct(RemoveAt(s, i)) /\ ToSet(RemoveAt(s, i)) = ToSet(s) \ {s[i]}
           /\ \A x : x # s[i] => AheadIn(RemoveAt(s, i), x) = AheadIn(s, x) \ {s[i]}
<1>1. PICK t : t = RemoveAt(s, i)
    OBVIOUS
<1>2. PICK n \in Nat : n = Len(s)
    BY SliceFacts
<1>3. t \in Seq(Packages) /\ Len(t) = n - 1 /\ n > 0
      /\ \A m \in 1 .. n - 1 : t[m] = IF m < i THEN s[m] ELSE s[m + 1]
    <2>1. /\ t \in Seq(Packages) /\ Len(t) = Len(s) - 1
          /\ \A m \in 1 .. Len(s) - 1 : t[m] = IF m < i THEN s[m] ELSE s[m + 1]
        BY <1>1, RemoveAtIs, Zenon
    <2>2. n > 0
        BY <1>2
    <2> QED BY <1>2, <2>1, <2>2, Zenon
<1> DEFINE F(m) == IF m < i THEN m ELSE m + 1
           G(m) == IF m < i THEN m ELSE m - 1
<1>4. \A m \in 1 .. n - 1 : F(m) \in 1..n /\ F(m) # i /\ t[m] = s[F(m)]
    BY <1>2, <1>3
<1>5. \A m \in 1..n : m # i => G(m) \in 1 .. n - 1 /\ F(G(m)) = m
    BY <1>2
<1>6. \A l, m \in 1 .. n - 1 : l < m <=> F(l) < F(m)
    BY <1>2
<1>7. \A l, m \in 1 .. n - 1 : F(l) = F(m) => l = m
    BY <1>2
<1> HIDE DEF F, G
<1>8. \A l, m \in 1..n : s[l] = s[m] => l = m
    BY <1>2 DEF Distinct
<1>9. Distinct(t)
    BY <1>3, <1>4, <1>7, <1>8 DEF Distinct
<1>10. \A x : x \in ToSet(t) <=> x \in ToSet(s) /\ x # s[i]
    <2>1. \A x : x \in ToSet(t) <=> \E m \in 1 .. n - 1 : x = t[m]
        BY <1>3, SliceFacts
    <2>2. \A x : x \in ToSet(s) <=> \E m \in 1..n : x = s[m]
        BY <1>2, SliceFacts
    <2>3. ASSUME NEW x, x \in ToSet(t) PROVE x \in ToSet(s) /\ x # s[i]
        BY <1>2, <1>4, <1>8, <2>1, <2>2, <2>3
    <2>4. ASSUME NEW x, x \in ToSet(s), x # s[i] PROVE x \in ToSet(t)
        <3>1. PICK m \in 1..n : x = s[m]
            BY <2>2, <2>4
        <3>2. G(m) \in 1 .. n - 1 /\ t[G(m)] = s[m]
            BY <1>4, <1>5, <2>4, <3>1
        <3> QED BY <2>1, <3>1, <3>2
    <2> QED BY <2>3, <2>4
<1>11. \A x, y : x \in AheadIn(t, y) <=> \E l, m \in 1 .. n - 1 : l < m /\ x = t[l] /\ y = t[m]
    <2>1. DOMAIN t = 1 .. n - 1
        BY <1>3
    <2> QED BY <2>1 DEF AheadIn
<1>12. \A x, y : x \in AheadIn(s, y) <=> \E l, m \in 1..n : l < m /\ x = s[l] /\ y = s[m]
    BY <1>2, SliceFacts
<1>13. ASSUME NEW y, y # s[i], NEW x PROVE x \in AheadIn(t, y) <=> x \in AheadIn(s, y) /\ x # s[i]
    <2>1. ASSUME x \in AheadIn(t, y) PROVE x \in AheadIn(s, y) /\ x # s[i]
        <3>1. PICK l \in 1 .. n - 1, m \in 1 .. n - 1 : l < m /\ x = t[l] /\ y = t[m]
            BY <1>11, <2>1
        <3>2. F(l) \in 1..n /\ F(m) \in 1..n /\ F(l) < F(m) /\ x = s[F(l)] /\ y = s[F(m)] /\ F(l) # i
            BY <1>4, <1>6, <3>1
        <3> QED BY <1>2, <1>8, <1>12, <3>2
    <2>2. ASSUME x \in AheadIn(s, y), x # s[i] PROVE x \in AheadIn(t, y)
        <3>1. PICK l \in 1..n, m \in 1..n : l < m /\ x = s[l] /\ y = s[m]
            BY <1>12, <2>2
        <3>2. G(l) \in 1 .. n - 1 /\ G(m) \in 1 .. n - 1 /\ F(G(l)) = l /\ F(G(m)) = m
            BY <1>5, <1>13, <2>2, <3>1
        <3>3. G(l) < G(m) /\ x = t[G(l)] /\ y = t[G(m)]
            BY <1>4, <1>6, <3>1, <3>2
        <3> QED BY <1>11, <3>2, <3>3
    <2> QED BY <2>1, <2>2
<1> QED BY <1>1, <1>2, <1>3, <1>9, <1>10, <1>13

\* remove(p) looks for p in the slice.
LEMMA RemoveFirstIs ==
    ASSUME NEW s \in Seq(Packages), NEW p \in ToSet(s)
    PROVE  \E i \in 1..Len(s) : s[i] = p /\ RemoveFirst(s, p) = RemoveAt(s, i)
<1> DEFINE T == {i \in 1..Len(s) : s[i] = p}
<1>1. T \in SUBSET Nat /\ T # {} /\ \E i \in 1..Len(s) : s[i] = p
    BY SliceFacts
<1>2. \E x \in T : \A y \in T : x <= y
    BY <1>1, NatMin
<1>3. PICK i : i = CHOOSE x \in T : \A y \in T : x <= y
    OBVIOUS
<1>4. i \in T
    BY <1>2, <1>3
<1>5. RemoveFirst(s, p) = RemoveAt(s, i)
    BY <1>1, <1>3 DEF RemoveFirst, SelectInSeq, Min
<1> QED BY <1>4, <1>5

------------------------------------------------------------------------------
(* The loop of Add *)

\* What the loop has removed of the slice K when kind is left.
Gone(K, kind) == ToSet(K) \ ToSet(kind)

\* The array holds what array q held, without R, whose index fields say so.
ArrayWithout(q, tm, a, R) ==
    /\ Indexed(a) /\ Ordered(a, prio, tm)
    /\ ToSet(a.heap) = ToSet(q.heap) \ R
    /\ \A x \in R : a.index[x] = OutOfHeap
    /\ \A x \in Packages \ ToSet(q.heap) : a.index[x] = q.index[x]

\* The packages that are left stand in the order of K, the removed ones were
\* ahead of those the loop has not come to, and each package the loop has come
\* to was removed or kept for what was left of the slice then.
SliceWithout(K, kind, at) ==
    /\ Distinct(kind) /\ ToSet(kind) \subseteq ToSet(K)
    /\ \A x \in ToSet(kind) : AheadIn(kind, x) = AheadIn(K, x) \ Gone(K, kind)
    /\ \A y \in Gone(K, kind) : \A m \in at..Len(kind) : y \in AheadIn(K, kind[m])
    /\ \A x \in ToSet(K) : x \notin {kind[m] : m \in at..Len(kind)} =>
         (x \in Gone(K, kind)
          <=> ShouldExpire(x, Len(K) - Cardinality(AheadIn(K, x) \cap Gone(K, kind))))

SweepStates(q, tm, K) ==
    {s \in Sweeps : /\ s.at \in 1 .. Len(s.kind) + 1
                    /\ ArrayWithout(q, tm, s.queue, Gone(K, s.kind))
                    /\ SliceWithout(K, s.kind, s.at)}

\* The length of the slice when the loop comes to a package.
LEMMA LeftOver ==
    ASSUME NEW K \in Seq(Packages), Distinct(K), NEW kind \in Seq(Packages), NEW at \in 1..Len(kind),
           SliceWithout(K, kind, at)
    PROVE  /\ kind[at] \in ToSet(K) /\ kind[at] \notin Gone(K, kind)
           /\ AheadIn(K, kind[at]) \cap Gone(K, kind) = Gone(K, kind)
           /\ Len(K) - Cardinality(Gone(K, kind)) = Len(kind)
<1>1. kind[at] \in ToSet(kind)
    BY SliceFacts
<1>2. kind[at] \in ToSet(K) /\ kind[at] \notin Gone(K, kind)
    BY <1>1 DEF SliceWithout, Gone
<1>3. at \in at..Len(kind)
    BY SliceFacts
<1>4. AheadIn(K, kind[at]) \cap Gone(K, kind) = Gone(K, kind)
    BY <1>3 DEF SliceWithout
<1>5. /\ IsFiniteSet(ToSet(K)) /\ Cardinality(ToSet(K)) = Len(K)
      /\ Cardinality(ToSet(kind)) = Len(kind)
    BY DistinctCard DEF SliceWithout
<1>6. ToSet(K) \cap ToSet(kind) = ToSet(kind)
    BY DEF SliceWithout
<1>7. Cardinality(Gone(K, kind)) = Cardinality(ToSet(K)) - Cardinality(ToSet(K) \cap ToSet(kind))
    BY <1>5, FS_Difference DEF Gone
<1>8. Len(K) \in Nat /\ Len(kind) \in Nat
    BY SliceFacts
<1>9. Cardinality(Gone(K, kind)) = Len(K) - Len(kind)
    BY <1>5, <1>6, <1>7
<1>10. Len(K) - Cardinality(Gone(K, kind)) = Len(kind)
    BY <1>8, <1>9
<1> QED BY <1>2, <1>4, <1>10

\* A pass that keeps the package it comes to.
LEMMA KeptStep ==
    ASSUME NEW K \in Seq(Packages), Distinct(K), NEW kind \in Seq(Packages), NEW at \in 1..Len(kind),
           SliceWithout(K, kind, at), ~ShouldExpire(kind[at], Len(kind))
    PROVE  SliceWithout(K, kind, at + 1)
<1>1. PICK R : R = Gone(K, kind)
    OBVIOUS
<1>2. /\ kind[at] \notin R /\ AheadIn(K, kind[at]) \cap R = R /\ Len(K) - Cardinality(R) = Len(kind)
    BY <1>1, LeftOver
<1>3. at..Len(kind) = {at} \cup (at + 1 .. Len(kind))
    BY SliceFacts
<1>4. \A y \in R : \A m \in at + 1 .. Len(kind) : y \in AheadIn(K, kind[m])
    BY <1>1, <1>3 DEF SliceWithout
<1>5. ASSUME NEW x \in ToSet(K), x \notin {kind[m] : m \in at + 1 .. Len(kind)}
      PROVE  x \in R <=> ShouldExpire(x, Len(K) - Cardinality(AheadIn(K, x) \cap R))
    <2>1. CASE x = kind[at]
        BY <1>2, <2>1
    <2>2. CASE x # kind[at]
        <3>1. x \notin {kind[m] : m \in at..Len(kind)}
            BY <1>3, <1>5, <2>2
        <3> QED BY <1>1, <3>1 DEF SliceWithout
    <2> QED BY <2>1, <2>2
<1> QED BY <1>1, <1>4, <1>5 DEF SliceWithout

\* A pass that removes the package it comes to.
LEMMA GoneStep ==
    ASSUME NEW K \in Seq(Packages), Distinct(K), NEW kind \in Seq(Packages), NEW at \in 1..Len(kind),
           SliceWithout(K, kind, at), ShouldExpire(kind[at], Len(kind))
    PROVE  /\ SliceWithout(K, RemoveAt(kind, at), at)
           /\ Gone(K, RemoveAt(kind, at)) = Gone(K, kind) \cup {kind[at]}
<1>1. PICK R : R = Gone(K, kind)
    OBVIOUS
<1>2. PICK p : p = kind[at]
    OBVIOUS
<1>3. PICK t : t = RemoveAt(kind, at)
    OBVIOUS
<1>4. PICK n \in Nat : n = Len(kind)
    BY SliceFacts
<1>5. /\ p \in ToSet(K) /\ p \notin R /\ AheadIn(K, p) \cap R = R
      /\ Len(K) - Cardinality(R) = n
    BY <1>1, <1>2, <1>4, LeftOver
<1>6. Distinct(kind) /\ ToSet(kind) \subseteq ToSet(K)
    BY DEF SliceWithout
<1>7. /\ t \in Seq(Packages) /\ Len(t) = n - 1 /\ Distinct(t) /\ ToSet(t) = ToSet(kind) \ {p}
      /\ \A x : x # p => AheadIn(t, x) = AheadIn(kind, x) \ {p}
    BY <1>2, <1>3, <1>4, <1>6, RemoveSlice
<1>8. \A m \in at .. n - 1 : t[m] = kind[m + 1] /\ m + 1 \in at..n /\ m + 1 \in 1..n
    <2>1. \A m \in 1 .. n - 1 : t[m] = IF m < at THEN kind[m] ELSE kind[m + 1]
        BY <1>3, <1>4, RemoveAtIs
    <2> QED BY <1>4, <2>1
<1>9. Gone(K, t) = R \cup {p}
    BY <1>1, <1>5, <1>6, <1>7 DEF Gone
<1>10. \A x \in ToSet(t) : AheadIn(t, x) = AheadIn(K, x) \ (R \cup {p})
    <2> SUFFICES ASSUME NEW x \in ToSet(t) PROVE AheadIn(t, x) = AheadIn(K, x) \ (R \cup {p})
        OBVIOUS
    <2>1. x # p /\ x \in ToSet(kind)
        BY <1>7
    <2>2. AheadIn(kind, x) = AheadIn(K, x) \ R
        BY <1>1, <2>1 DEF SliceWithout
    <2> QED BY <1>7, <2>1, <2>2
<1>11. ASSUME NEW m \in at .. n - 1, NEW y \in R \cup {p} PROVE y \in AheadIn(K, t[m])
    <2>1. t[m] = kind[m + 1] /\ m + 1 \in at..n /\ m + 1 \in 1..n /\ at < m + 1 /\ at \in 1..n
        BY <1>4, <1>8
    <2>2. CASE y \in R
        BY <1>1, <1>4, <2>1, <2>2 DEF SliceWithout
    <2>3. CASE y = p
        <3>1. p \in AheadIn(kind, kind[m + 1])
            BY <1>2, <1>4, <1>6, <2>1, AheadFacts
        <3>2. kind[m + 1] \in ToSet(kind)
            BY <1>4, <2>1, SliceFacts
        <3>3. p \in AheadIn(K, kind[m + 1])
            BY <3>1, <3>2 DEF SliceWithout
        <3> QED BY <2>1, <2>3, <3>3
    <2> QED BY <2>2, <2>3
<1>12. ASSUME NEW x \in ToSet(K), x \notin {t[m] : m \in at .. n - 1}
       PROVE  x \in R \cup {p}
              <=> ShouldExpire(x, Len(K) - Cardinality(AheadIn(K, x) \cap (R \cup {p})))
    <2>1. CASE x = p
        <3>1. p \notin AheadIn(K, p)
            BY AheadFacts
        <3>2. AheadIn(K, p) \cap (R \cup {p}) = R
            BY <1>5, <3>1
        <3> QED BY <1>2, <1>4, <1>5, <2>1, <3>2
    <2>2. CASE x # p
        <3>1. x \notin {kind[m] : m \in at..n}
            <4> SUFFICES ASSUME NEW m \in at..n, x = kind[m] PROVE FALSE
                OBVIOUS
            <4>1. m # at /\ m - 1 \in at .. n - 1 /\ (m - 1) + 1 = m
                BY <1>2, <1>4, <2>2
            <4>2. t[m - 1] = kind[m]
                BY <1>8, <4>1
            <4> QED BY <1>12, <4>1, <4>2
        <3>2. x \in R <=> ShouldExpire(x, Len(K) - Cardinality(AheadIn(K, x) \cap R))
            BY <1>1, <1>4, <3>1 DEF SliceWithout
        <3>3. p \notin AheadIn(K, x)
            <4>1. CASE x \in R
                <5>1. x \in AheadIn(K, p)
                    BY <1>5, <4>1
                <5> QED BY <5>1, AheadFacts
            <4>2. CASE x \notin R
                <5>1. x \in ToSet(kind)
                    BY <1>1, <4>2 DEF Gone
                <5>2. PICK l \in 1..n : x = kind[l]
                    BY <1>4, <5>1, SliceFacts
                <5>3. ~(at < l) /\ at \in 1..n
                    BY <1>4, <3>1, <5>2
                <5>4. p \notin AheadIn(kind, x)
                    BY <1>2, <1>4, <1>6, <5>2, <5>3, AheadFacts
                <5>5. AheadIn(kind, x) = AheadIn(K, x) \ R
                    BY <1>1, <5>1 DEF SliceWithout
                <5> QED BY <1>5, <5>4, <5>5
            <4> QED BY <4>1, <4>2
        <3>4. AheadIn(K, x) \cap (R \cup {p}) = AheadIn(K, x) \cap R
            BY <3>3
        <3> QED BY <2>2, <3>2, <3>4
    <2> QED BY <2>1, <2>2
<1>13. SliceWithout(K, t, at)
    <2>1. ToSet(t) \subseteq ToSet(K)
        BY <1>6, <1>7
    <2> QED BY <1>7, <1>9, <1>10, <1>11, <1>12, <2>1 DEF SliceWithout
<1> QED BY <1>1, <1>2, <1>3, <1>9, <1>13

\* removeKind on the array.
LEMMA ArrayStep ==
    ASSUME NEW tm, Keys(prio, tm), NEW q, Indexed(q), NEW a, NEW R \in SUBSET Packages,
           ArrayWithout(q, tm, a, R), NEW p \in ToSet(q.heap) \ R
    PROVE  /\ ArrayWithout(q, tm, HeapRemove(a, prio, tm, a.index[p]), R \cup {p})
           /\ HeapRemove(a, prio, tm, a.index[p]) \in Queues
<1>1. Indexed(a) /\ Ordered(a, prio, tm) /\ p \in ToSet(a.heap)
    BY DEF ArrayWithout
<1>2. PICK i \in 1..Len(a.heap) : p = a.heap[i]
    BY <1>1, QueueFacts DEF Indexed
<1>3. a.index[p] = i
    BY <1>1, <1>2 DEF Indexed
<1>4. PICK e : e = HeapRemove(a, prio, tm, i)
    OBVIOUS
<1>5. /\ Indexed(e) /\ Ordered(e, prio, tm) /\ ToSet(e.heap) = ToSet(a.heap) \ {p}
      /\ e.index[p] = OutOfHeap /\ \A x \in Packages \ ToSet(a.heap) : e.index[x] = a.index[x]
    BY <1>1, <1>2, <1>4, RemoveRight
<1>6. ToSet(e.heap) = ToSet(q.heap) \ (R \cup {p})
    BY <1>5 DEF ArrayWithout
<1>7. \A x \in R \cup {p} : e.index[x] = OutOfHeap
    BY <1>5 DEF ArrayWithout
<1>8. \A x \in Packages \ ToSet(q.heap) : e.index[x] = q.index[x]
    BY <1>5 DEF ArrayWithout
<1> QED BY <1>3, <1>4, <1>5, <1>6, <1>7, <1>8 DEF ArrayWithout, Indexed

\* The loop ends with the packages that SweepRemoves names removed.
LEMMA SweepRight ==
    ASSUME NEW tm, Keys(prio, tm), NEW q, Indexed(q), Ordered(q, prio, tm),
           NEW K \in Seq(Packages), Distinct(K), ToSet(K) \subseteq ToSet(q.heap)
    PROVE  /\ Sweep(q, tm, K) \in Sweeps
           /\ ArrayWithout(q, tm, Sweep(q, tm, K).queue, Gone(K, Sweep(q, tm, K).kind))
           /\ SliceWithout(K, Sweep(q, tm, K).kind, Len(Sweep(q, tm, K).kind) + 1)
<1>1. PICK S : S = SweepStates(q, tm, K)
    OBVIOUS
<1>2. PICK f : f = SweepPass(tm)
    OBVIOUS
<1>3. PICK v : v = [s \in S |-> Len(s.kind) + 1 - s.at]
    OBVIOUS
<1>4. ASSUME NEW s \in S
      PROVE  /\ f[s] \in S
             /\ f[s] = s => s.at = Len(s.kind) + 1
             /\ f[s] = s \/ Len(f[s].kind) + 1 - f[s].at < Len(s.kind) + 1 - s.at
    <2>1. PICK a : a = s.queue
        OBVIOUS
    <2>2. PICK kind : kind = s.kind
        OBVIOUS
    <2>3. PICK at : at = s.at
        OBVIOUS
    <2>4. /\ s \in Sweeps /\ at \in 1 .. Len(kind) + 1 /\ ArrayWithout(q, tm, a, Gone(K, kind))
          /\ SliceWithout(K, kind, at) /\ a \in Queues /\ kind \in Seq(Packages) /\ at \in Nat
        BY <1>1, <2>1, <2>2, <2>3 DEF SweepStates, Sweeps
    <2>5. Len(kind) \in Nat
        BY <2>4
    <2>7. CASE at > Len(kind)
        <3>1. f[s] = s
            BY <1>2, <2>2, <2>3, <2>4, <2>7 DEF SweepPass
        <3>2. at = Len(kind) + 1
            BY <2>4, <2>5, <2>7
        <3> QED BY <2>2, <2>3, <3>1, <3>2
    <2>8. CASE at \in 1..Len(kind) /\ ShouldExpire(kind[at], Len(kind))
        <3>1. PICK p : p = kind[at]
            OBVIOUS
        <3>2. PICK e : e = HeapRemove(a, prio, tm, a.index[p])
            OBVIOUS
        <3>3. PICK t : t = RemoveAt(kind, at)
            OBVIOUS
        <3>4. ~(at > Len(kind))
            BY <2>5, <2>8
        <3>5. f[s] = Sweeping(e, t, at)
            BY <1>2, <2>1, <2>2, <2>3, <2>4, <2>8, <3>1, <3>2, <3>3, <3>4 DEF SweepPass
        <3>6. SliceWithout(K, t, at) /\ Gone(K, t) = Gone(K, kind) \cup {p}
            BY <2>4, <2>8, <3>1, <3>3, GoneStep
        <3>7. p \in ToSet(K) /\ p \notin Gone(K, kind) /\ Gone(K, kind) \in SUBSET Packages
            BY <2>4, <2>8, <3>1, LeftOver, SliceFacts DEF Gone
        <3>8. ArrayWithout(q, tm, e, Gone(K, t)) /\ e \in Queues
            BY <2>4, <3>2, <3>6, <3>7, ArrayStep
        <3>9. t \in Seq(Packages) /\ Len(t) = Len(kind) - 1
            BY <2>4, <2>8, <3>3, RemoveAtIs
        <3>10. f[s] \in Sweeps /\ f[s].queue = e /\ f[s].kind = t /\ f[s].at = at
            BY <2>4, <3>5, <3>8, <3>9 DEF Sweeps, Sweeping
        <3>11. at \in 1 .. Len(t) + 1
            BY <2>5, <2>8, <3>9
        <3>12. f[s] \in S
            BY <1>1, <3>6, <3>8, <3>10, <3>11 DEF SweepStates
        <3>13. Len(f[s].kind) + 1 - f[s].at < Len(s.kind) + 1 - s.at
            BY <2>2, <2>3, <2>4, <2>5, <3>9, <3>10
        <3>14. f[s] # s
            BY <2>2, <2>3, <2>4, <2>5, <3>13
        <3> QED BY <3>12, <3>13, <3>14
    <2>9. CASE at \in 1..Len(kind) /\ ~ShouldExpire(kind[at], Len(kind))
        <3>1. ~(at > Len(kind))
            BY <2>5, <2>9
        <3>2. f[s] = Sweeping(a, kind, at + 1)
            BY <1>2, <2>1, <2>2, <2>3, <2>4, <2>9, <3>1 DEF SweepPass
        <3>3. SliceWithout(K, kind, at + 1)
            BY <2>4, <2>9, KeptStep
        <3>4. f[s] \in Sweeps /\ f[s].queue = a /\ f[s].kind = kind /\ f[s].at = at + 1
            BY <2>4, <3>2 DEF Sweeps, Sweeping
        <3>5. at + 1 \in 1 .. Len(kind) + 1
            BY <2>5, <2>9
        <3>6. f[s] \in S
            BY <1>1, <2>4, <3>3, <3>4, <3>5 DEF SweepStates
        <3>7. Len(f[s].kind) + 1 - f[s].at < Len(s.kind) + 1 - s.at
            BY <2>2, <2>3, <2>4, <2>5, <3>4
        <3>8. f[s] # s
            BY <2>2, <2>3, <2>4, <2>5, <3>7
        <3> QED BY <3>6, <3>7, <3>8
    <2> QED BY <2>4, <2>5, <2>7, <2>8, <2>9
<1>5. PICK s0 : s0 = Sweeping(q, K, 1)
    OBVIOUS
<1>6. s0 \in S /\ v \in [S -> Nat] /\ v[s0] <= Len(K) /\ Len(K) \in Nat
    <2>1. Len(K) \in Nat
        OBVIOUS
    <2>2. s0 \in Sweeps /\ s0.queue = q /\ s0.kind = K /\ s0.at = 1
        BY <1>5 DEF Sweeps, Sweeping, Indexed
    <2>3. Gone(K, K) = {}
        BY DEF Gone
    <2>4. ArrayWithout(q, tm, q, {})
        BY DEF ArrayWithout
    <2>5. SliceWithout(K, K, 1)
        <3>1. \A x \in ToSet(K) : x \in {K[m] : m \in 1..Len(K)}
            BY SliceFacts
        <3> QED BY <2>3, <3>1 DEF SliceWithout
    <2>6. s0 \in S
        <3>1. 1 \in 1 .. Len(K) + 1
            BY <2>1
        <3> QED BY <1>1, <2>2, <2>3, <2>4, <2>5, <3>1 DEF SweepStates
    <2>7. \A s \in S : Len(s.kind) + 1 - s.at \in Nat
        <3> SUFFICES ASSUME NEW s \in S PROVE Len(s.kind) + 1 - s.at \in Nat
            OBVIOUS
        <3>1. s.kind \in Seq(Packages) /\ s.at \in 1 .. Len(s.kind) + 1
            BY <1>1 DEF SweepStates, Sweeps
        <3>2. Len(s.kind) \in Nat
            BY <3>1
        <3> QED BY <3>1, <3>2
    <2>8. v[s0] = Len(K)
        BY <1>3, <2>1, <2>2, <2>6
    <2> QED BY <1>3, <2>1, <2>6, <2>7, <2>8
<1>7. Closed(f, S) /\ \A s \in S : f[s] = s \/ v[f[s]] < v[s]
    BY <1>3, <1>4 DEF Closed
<1>8. PICK e : e = Sweep(q, tm, K)
    OBVIOUS
<1>9. e = Passes(f, s0)[Len(K)]
    BY <1>2, <1>5, <1>8 DEF Sweep
<1>10. e \in S /\ f[e] = e
    BY <1>6, <1>7, <1>9, PassesEnd
<1>11. e.at = Len(e.kind) + 1
    BY <1>4, <1>10
<1> QED BY <1>1, <1>8, <1>10, <1>11 DEF SweepStates

------------------------------------------------------------------------------
(* The invariant *)

\* The array is a heap whose items know their places, and a package that left
\* it knows that.
HeapFine(q, pr, tm) ==
    /\ Indexed(q) /\ Ordered(q, pr, tm)
    /\ \A x \in ToSet(q.heap) : tm[x] # 0
    /\ \A x \in Packages \ ToSet(q.heap) : tm[x] # 0 => q.index[x] = OutOfHeap

\* Each slice holds the packages of its kind that are in the array, once each.
SlicesFine(q, s) ==
    /\ s \in [Kinds -> Seq(Packages)]
    /\ \A k \in Kinds : Distinct(s[k])
    /\ \A k \in Kinds : ToSet(s[k]) = {x \in ToSet(q.heap) : KindOf[x] = k}

\* Only a package that was added has been handed out.
FieldsFine ==
    /\ prio \in [Packages -> Nat] /\ retries \in [Packages -> Nat] /\ time \in [Packages -> Nat]
    /\ removed \in Nat /\ expired \subseteq Perishable
    /\ \A p \in Packages : retries[p] > 0 => time[p] # 0

HeapInv == FieldsFine /\ HeapFine(queue, prio, time) /\ SlicesFine(queue, slices)

\* The order of the heap does not depend on the keys of packages outside it.
LEMMA OrderedOutside ==
    ASSUME NEW q, Indexed(q), NEW pr, NEW tm, NEW pr2, NEW tm2, Ordered(q, pr, tm),
           \A x \in ToSet(q.heap) : pr2[x] = pr[x] /\ tm2[x] = tm[x]
    PROVE  Ordered(q, pr2, tm2)
<1>1. PICK h : h = q.heap
    OBVIOUS
<1>2. Len(h) \in Nat /\ \A m \in 1..Len(h) : h[m] \in ToSet(h)
    BY <1>1, QueueFacts DEF Indexed
<1> SUFFICES ASSUME NEW m \in 2..Len(h) PROVE Le(pr2, tm2, h[m \div 2], h[m])
    BY <1>1 DEF Ordered, HeapTo
<1>3. m \in 1..Len(h) /\ m \div 2 \in 1..Len(h)
    BY <1>2, Half
<1>4. Le(pr, tm, h[m \div 2], h[m])
    BY <1>1 DEF Ordered, HeapTo
<1>5. h[m] \in ToSet(h) /\ h[m \div 2] \in ToSet(h)
    BY <1>2, <1>3
<1> QED BY <1>1, <1>4, <1>5 DEF Le

\* The first item of a heap is a least one.
LEMMA RootLeast ==
    ASSUME NEW pr, NEW tm, Keys(pr, tm), NEW q, Indexed(q), Ordered(q, pr, tm), Len(q.heap) > 0
    PROVE  \A x \in ToSet(q.heap) : Le(pr, tm, q.heap[1], x)
<1>1. PICK h : h = q.heap
    OBVIOUS
<1>2. Len(h) \in Nat /\ 1 \in 1..Len(h) /\ \A m \in 1..Len(h) : h[m] \in Packages
    BY <1>1, QueueFacts DEF Indexed
<1> DEFINE T == {m \in 1..Len(h) : ~Le(pr, tm, h[1], h[m])}
<1>3. ASSUME T # {} PROVE FALSE
    <2>1. T \in SUBSET Nat
        BY <1>2
    <2>2. PICK m \in T : \A y \in T : m <= y
        BY <1>3, <2>1, NatMin
    <2>3. m # 1
        <3>1. Le(pr, tm, h[1], h[1])
            BY <1>2, LeOrder
        <3> QED BY <2>2, <3>1
    <2>4. m \in 2..Len(h) /\ m \div 2 \in 1..Len(h) /\ m \in 1..Len(h) /\ m \div 2 < m
        BY <1>2, <2>2, <2>3, Half
    <2>5. Le(pr, tm, h[m \div 2], h[m])
        BY <1>1, <2>4 DEF Ordered, HeapTo
    <2>6. Le(pr, tm, h[1], h[m \div 2])
        <3>1. m \div 2 \notin T
            BY <1>2, <2>2, <2>4
        <3> QED BY <2>4, <3>1
    <2>7. h[1] \in Packages /\ h[m] \in Packages /\ h[m \div 2] \in Packages
        BY <1>2, <2>4
    <2>8. Le(pr, tm, h[1], h[m])
        BY <2>5, <2>6, <2>7, LeOrder
    <2> QED BY <2>2, <2>8
<1>4. \A m \in 1..Len(h) : Le(pr, tm, h[1], h[m])
    BY <1>3
<1> HIDE DEF T
<1>5. \A x \in ToSet(h) : \E m \in 1..Len(h) : x = h[m]
    BY <1>1, QueueFacts DEF Indexed
<1> QED BY <1>1, <1>4, <1>5, Zenon

\* The slices as PipeStore has them.
Sets(s) == [k \in Kinds |-> ToSet(s[k])]
Aheads(s) == [p \in Packages |-> AheadIn(s[KindOf[p]], p)]

\* The slices when t takes the place of slice k.
Changed(s, k, t, r) ==
    /\ r \in [Kinds -> Seq(Packages)] /\ \A j \in Kinds : r[j] = IF j = k THEN t ELSE s[j]
    /\ Sets(r) = [Sets(s) EXCEPT ![k] = ToSet(t)]
    /\ \A p \in Packages : Aheads(r)[p] = IF KindOf[p] = k THEN AheadIn(t, p) ELSE Aheads(s)[p]

\* A slice is replaced, the others stay.
LEMMA ChangedSlice ==
    ASSUME NEW s \in [Kinds -> Seq(Packages)], NEW k \in Kinds, NEW t \in Seq(Packages)
    PROVE  Changed(s, k, t, [s EXCEPT ![k] = t])
<1>0. PICK r : r = [s EXCEPT ![k] = t]
    OBVIOUS
<1>1. r \in [Kinds -> Seq(Packages)] /\ \A j \in Kinds : r[j] = IF j = k THEN t ELSE s[j]
    BY <1>0
<1>2. Sets(r) = [Sets(s) EXCEPT ![k] = ToSet(t)]
    BY <1>1 DEF Sets
<1>3. ASSUME NEW p \in Packages
      PROVE  Aheads(r)[p] = IF KindOf[p] = k THEN AheadIn(t, p) ELSE Aheads(s)[p]
    <2>1. KindOf[p] \in Kinds
        BY PackageFieldsAssumption
    <2>2. Aheads(r)[p] = AheadIn(r[KindOf[p]], p) /\ Aheads(s)[p] = AheadIn(s[KindOf[p]], p)
        BY DEF Aheads
    <2> QED BY <1>1, <2>1, <2>2
<1> QED BY <1>0, <1>1, <1>2, <1>3 DEF Changed

\* remove(p) takes p from the array and from its slice: (r, u) is what becomes
\* of (q, s).
SlicesLess(s, p) == [s EXCEPT ![KindOf[p]] = RemoveFirst(@, p)]

Removed(q, s, p, r, u) ==
    /\ ToSet(r.heap) = ToSet(q.heap) \ {p} /\ r.index[p] = OutOfHeap
    /\ Sets(u) = [Sets(s) EXCEPT ![KindOf[p]] = @ \ {p}]
    /\ Aheads(u) = Abstract!Without(Aheads(s), {p})

\* remove, the way of Peek and of Ack.
LEMMA RemovePackRight ==
    ASSUME NEW pr, NEW tm, Keys(pr, tm), NEW q, HeapFine(q, pr, tm), NEW s, SlicesFine(q, s),
           NEW p \in ToSet(q.heap),
           NEW r, r = HeapRemove(q, pr, tm, q.index[p]), NEW u, u = SlicesLess(s, p)
    PROVE  HeapFine(r, pr, tm) /\ SlicesFine(r, u) /\ Removed(q, s, p, r, u)
<1>1. PICK i \in 1..Len(q.heap) : p = q.heap[i]
    BY QueueFacts DEF HeapFine, Indexed
<1>2. q.index[p] = i /\ Indexed(q) /\ Ordered(q, pr, tm) /\ p \in Packages
    BY <1>1, QueueFacts DEF HeapFine, Indexed
<1>3. r = HeapRemove(q, pr, tm, i)
    BY <1>2
<1>4. /\ Indexed(r) /\ Ordered(r, pr, tm) /\ ToSet(r.heap) = ToSet(q.heap) \ {p}
      /\ r.index[p] = OutOfHeap /\ \A x \in Packages \ ToSet(q.heap) : r.index[x] = q.index[x]
    BY <1>1, <1>2, <1>3, RemoveRight
<1>5. HeapFine(r, pr, tm)
    <2>1. \A x \in Packages \ ToSet(r.heap) : tm[x] # 0 => r.index[x] = OutOfHeap
        BY <1>4 DEF HeapFine
    <2>2. \A x \in ToSet(r.heap) : tm[x] # 0
        BY <1>4 DEF HeapFine
    <2> QED BY <1>4, <2>1, <2>2 DEF HeapFine
<1>6. PICK k : k = KindOf[p]
    OBVIOUS
<1>7. PICK a : a = s[k]
    OBVIOUS
<1>8. k \in Kinds /\ s \in [Kinds -> Seq(Packages)] /\ a \in Seq(Packages) /\ Distinct(a)
      /\ ToSet(a) = {x \in ToSet(q.heap) : KindOf[x] = k} /\ p \in ToSet(a)
    <2>1. k \in Kinds
        BY <1>2, <1>6, PackageFieldsAssumption
    <2> QED BY <1>6, <1>7, <2>1 DEF SlicesFine
<1>9. PICK j \in 1..Len(a) : a[j] = p /\ RemoveFirst(a, p) = RemoveAt(a, j)
    BY <1>8, RemoveFirstIs
<1>10. PICK t : t = RemoveAt(a, j)
    OBVIOUS
<1>11. /\ t \in Seq(Packages) /\ Distinct(t) /\ ToSet(t) = ToSet(a) \ {p}
       /\ \A x : x # p => AheadIn(t, x) = AheadIn(a, x) \ {p}
    BY <1>8, <1>9, <1>10, RemoveSlice
<1>12. u = [s EXCEPT ![k] = t]
    BY <1>6, <1>7, <1>8, <1>9, <1>10 DEF SlicesLess
<1>14. /\ u \in [Kinds -> Seq(Packages)] /\ \A l \in Kinds : u[l] = IF l = k THEN t ELSE s[l]
       /\ Sets(u) = [Sets(s) EXCEPT ![k] = ToSet(t)]
       /\ \A x \in Packages : Aheads(u)[x] = IF KindOf[x] = k THEN AheadIn(t, x) ELSE Aheads(s)[x]
    <2>1. s \in [Kinds -> Seq(Packages)] /\ k \in Kinds /\ t \in Seq(Packages)
        BY <1>8, <1>11
    <2>2. Changed(s, k, t, u)
        BY <1>12, <2>1, ChangedSlice, Zenon
    <2> QED BY <2>2, Zenon DEF Changed
<1>15. SlicesFine(r, u)
    <2>1. \A l \in Kinds : Distinct(u[l])
        BY <1>11, <1>14 DEF SlicesFine
    <2>2. ASSUME NEW l \in Kinds PROVE ToSet(u[l]) = {x \in ToSet(r.heap) : KindOf[x] = l}
        <3>1. CASE l = k
            BY <1>4, <1>8, <1>11, <1>14, <3>1
        <3>2. CASE l # k
            <4>1. ToSet(u[l]) = {x \in ToSet(q.heap) : KindOf[x] = l}
                BY <1>14, <2>2, <3>2 DEF SlicesFine
            <4> QED BY <1>4, <1>6, <3>2, <4>1
        <3> QED BY <3>1, <3>2
    <2> QED BY <1>14, <2>1, <2>2 DEF SlicesFine
<1>16. Sets(u) = [Sets(s) EXCEPT ![KindOf[p]] = @ \ {p}]
    <2>1. Sets(s)[k] = ToSet(a)
        BY <1>7, <1>8 DEF Sets
    <2> QED BY <1>6, <1>8, <1>11, <1>14, <2>1 DEF Sets
<1>17. ASSUME NEW x \in Packages
       PROVE  Aheads(u)[x] = IF x \in {p} THEN {} ELSE Aheads(s)[x] \ {p}
    <2>0. Aheads(s)[x] = AheadIn(s[KindOf[x]], x) /\ KindOf[x] \in Kinds
        BY PackageFieldsAssumption DEF Aheads
    <2>1. CASE x = p
        <3>1. p \notin ToSet(t)
            BY <1>11
        <3>2. AheadIn(t, p) = {}
            BY <1>11, <3>1, AheadFacts
        <3> QED BY <1>6, <1>14, <2>1, <3>2
    <2>2. CASE x # p /\ KindOf[x] = k
        BY <1>7, <1>11, <1>14, <2>0, <2>2
    <2>3. CASE KindOf[x] # k
        <3>1. s[KindOf[x]] \in Seq(Packages) /\ Distinct(s[KindOf[x]]) /\ p \notin ToSet(s[KindOf[x]])
            BY <1>6, <2>0, <2>3 DEF SlicesFine
        <3>2. AheadIn(s[KindOf[x]], x) \subseteq ToSet(s[KindOf[x]])
            BY <3>1, AheadFacts
        <3>3. p \notin Aheads(s)[x]
            BY <2>0, <3>1, <3>2
        <3>4. Aheads(s)[x] \ {p} = Aheads(s)[x] /\ x # p
            BY <1>6, <2>3, <3>3
        <3> QED BY <1>14, <2>3, <3>4
    <2> QED BY <2>1, <2>2, <2>3
<1>18. Aheads(u) = Abstract!Without(Aheads(s), {p})
    <2>1. Aheads(u) = [x \in Packages |-> Aheads(u)[x]]
        BY DEF Aheads
    <2>2. Abstract!Without(Aheads(s), {p}) = [x \in Packages |-> IF x \in {p} THEN {} ELSE Aheads(s)[x] \ {p}]
        BY DEF Abstract!Without
    <2> QED BY <1>17, <2>1, <2>2
<1> QED BY <1>4, <1>5, <1>15, <1>16, <1>18, Zenon DEF Removed

------------------------------------------------------------------------------
(* Every call keeps the invariant and is a step of PipeStore *)

\* PipeStore sees the slices only as sets and what is ahead in them.
LEMMA Views ==
    /\ SliceSets = Sets(slices) /\ SliceSets' = Sets(slices')
    /\ [p \in Packages |-> AheadIn(slices[KindOf[p]], p)] = Aheads(slices)
    /\ [p \in Packages |-> AheadIn(slices[KindOf[p]], p)]' = Aheads(slices')
BY DEF SliceSets, Sets, Aheads

\* NewDefaultPipeStore
LEMMA InvInit == Init => HeapInv
<1> SUFFICES ASSUME Init PROVE HeapInv
    OBVIOUS
<1>1. PICK x : x = [p \in Packages |-> 1]
    OBVIOUS
<1>2. queue = [heap |-> <<>>, index |-> x] /\ x \in [Packages -> Nat]
    BY <1>1 DEF Init
<1>3. queue \in Queues /\ queue.heap = <<>>
    BY <1>2 DEF Queues
<1>4. Len(queue.heap) = 0 /\ ToSet(queue.heap) = {}
    <2>1. DOMAIN queue.heap = {} /\ Len(queue.heap) = 0
        BY <1>3
    <2> QED BY <2>1 DEF ToSet
<1>5. HeapFine(queue, prio, time)
    <2>1. Indexed(queue) /\ Ordered(queue, prio, time)
        BY <1>3, <1>4 DEF Indexed, Ordered, HeapTo
    <2>2. \A p \in Packages : time[p] = 0
        BY DEF Init
    <2> QED BY <1>4, <2>1, <2>2 DEF HeapFine
<1>6. SlicesFine(queue, slices)
    <2>1. slices \in [Kinds -> Seq(Packages)] /\ \A k \in Kinds : slices[k] = <<>>
        BY DEF Init
    <2>2. Distinct(<<>>) /\ ToSet(<<>>) = {}
        BY <1>3, <1>4 DEF Distinct
    <2> QED BY <1>4, <2>1, <2>2 DEF SlicesFine
<1>7. FieldsFine
    BY PackageFieldsAssumption DEF Init, FieldsFine
<1> QED BY <1>5, <1>6, <1>7 DEF HeapInv

\* NewDefaultPipeStore is the initial PipeStore.
LEMMA InitRefines == Init => Abstract!PSInit
<1> SUFFICES ASSUME Init PROVE Abstract!PSInit
    OBVIOUS
<1>1. queue.heap = <<>> /\ \A k \in Kinds : slices[k] = <<>>
    BY DEF Init
<1>2. ToSet(<<>>) = {}
    <2>1. DOMAIN <<>> = {}
        OBVIOUS
    <2> QED BY <2>1 DEF ToSet
<1>3. \A p \in Packages : AheadIn(<<>>, p) = {}
    <2>1. DOMAIN <<>> = {}
        OBVIOUS
    <2> QED BY <2>1 DEF AheadIn
<1>4. ToSet(queue.heap) = {} /\ SliceSets = [k \in Kinds |-> {}]
    BY <1>1, <1>2 DEF SliceSets
<1>5. [p \in Packages |-> AheadIn(slices[KindOf[p]], p)] = [p \in Packages |-> {}]
    <2>1. \A p \in Packages : slices[KindOf[p]] = <<>>
        BY <1>1, PackageFieldsAssumption
    <2> QED BY <1>3, <2>1
<1> QED BY <1>4, <1>5 DEF Init, Abstract!PSInit

\* The slices are fine for any array of the same packages.
LEMMA SameItems ==
    ASSUME NEW q, NEW r, NEW s, SlicesFine(q, s), ToSet(r.heap) = ToSet(q.heap)
    PROVE  SlicesFine(r, s)
BY DEF SlicesFine

\* remove is the remove of PipeStore.
LEMMA RemovePackView ==
    ASSUME NEW p, Removed(queue, slices, p, queue', slices')
    PROVE  Abstract!RemovePack(p)
BY Views DEF Removed, Abstract!RemovePack, Abstract!Without

\* Time passes.
LEMMA ExpireRight ==
    ASSUME HeapInv, NEW p \in Packages, Expire(p)
    PROVE  HeapInv' /\ Abstract!Expire(p)
<1>1. HeapInv'
    BY DEF HeapInv, FieldsFine, Expire
<1>2. Abstract!Expire(p)
    BY DEF Expire, Abstract!Expire, Abstract!storeVars, Abstract!packVars, SliceSets
<1> QED BY <1>1, <1>2

\* Ack
LEMMA AckRight ==
    ASSUME HeapInv, NEW p \in Packages, Ack(p)
    PROVE  HeapInv' /\ Abstract!Ack(p)
<1>1. /\ Keys(prio, time) /\ HeapFine(queue, prio, time) /\ SlicesFine(queue, slices)
      /\ retries[p] > 0 /\ time[p] # 0 /\ queue.index[p] # OutOfHeap
      /\ prio' = prio /\ time' = time /\ retries' = retries /\ removed' = removed /\ expired' = expired
    BY DEF HeapInv, FieldsFine, Ack, Keys
<1>2. p \in ToSet(queue.heap)
    BY <1>1 DEF HeapFine
<1>3. /\ queue' = HeapRemove(queue, prio, time, queue.index[p])
      /\ slices' = SlicesLess(slices, p)
    BY DEF Ack, RemovedFrom, SlicesWithout, SlicesLess
<1>4. /\ HeapFine(queue', prio, time) /\ SlicesFine(queue', slices')
      /\ Removed(queue, slices, p, queue', slices')
    BY <1>1, <1>2, <1>3, RemovePackRight, Zenon
<1>5. FieldsFine'
    BY <1>1 DEF HeapInv, FieldsFine
<1>6. HeapInv'
    BY <1>1, <1>4, <1>5 DEF HeapInv
<1>7. Abstract!RemovePack(p)
    BY <1>4, RemovePackView, Zenon
<1> QED BY <1>1, <1>2, <1>6, <1>7 DEF Abstract!Ack

\* Lowering the first package and fixing its place keeps the heap.
LEMMA LoweredRight ==
    ASSUME NEW pr, NEW pr2, NEW tm, Keys(pr, tm), Keys(pr2, tm), NEW q, HeapFine(q, pr, tm),
           Len(q.heap) > 0, \A x \in Packages \ {q.heap[1]} : pr2[x] = pr[x]
    PROVE  HeapFine(HeapFix(q, pr2, tm, 1), pr2, tm) /\ ToSet(HeapFix(q, pr2, tm, 1).heap) = ToSet(q.heap)
<1>1. PICK h : h = q.heap
    OBVIOUS
<1>2. PICK n \in Nat : n = Len(h)
    BY <1>1, QueueFacts DEF HeapFine, Indexed
<1>3. Indexed(q) /\ 1 \in 1..n /\ \A m \in 1..n : h[m] \in Packages /\ q.index[h[m]] = m
    BY <1>1, <1>2, QueueFacts DEF HeapFine, Indexed
<1>4. \A m \in 1..n : m # 1 => h[m] # h[1]
    BY <1>3
<1>5. DownReady(q, pr2, tm, n, 1, 1)
    <2>1. ASSUME NEW m \in 2..n, m \div 2 # 1 PROVE Le(pr2, tm, h[m \div 2], h[m])
        <3>1. m \in 1..n /\ m # 1 /\ m \div 2 \in 1..n
            BY <2>1, Half
        <3>2. Le(pr, tm, h[m \div 2], h[m])
            BY <1>1, <1>2 DEF HeapFine, Ordered, HeapTo
        <3>3. pr2[h[m]] = pr[h[m]] /\ pr2[h[m \div 2]] = pr[h[m \div 2]]
            BY <1>1, <1>3, <1>4, <2>1, <3>1
        <3> QED BY <3>2, <3>3 DEF Le
    <2>2. ~(1 \div 2 >= 1)
        OBVIOUS
    <2> QED BY <1>1, <2>1, <2>2 DEF DownReady
<1>6. PICK r : r = HeapFix(q, pr2, tm, 1)
    OBVIOUS
<1>7. Shuffled(q, r, n) /\ Ordered(r, pr2, tm)
    BY <1>1, <1>2, <1>3, <1>5, <1>6, FixRight
<1>8. /\ Indexed(r) /\ ToSet(r.heap) = ToSet(q.heap)
      /\ \A x \in Packages \ ToSet(q.heap) : r.index[x] = q.index[x]
    BY <1>7 DEF Shuffled
<1>9. HeapFine(r, pr2, tm)
    BY <1>7, <1>8 DEF HeapFine
<1> QED BY <1>6, <1>8, <1>9

\* What heap.Fix leaves of the array in peek.
LEMMA TakenOrNot ==
    ASSUME HeapInv, NEW acking \in BOOLEAN, TakeFirst(acking)
    PROVE  \E p \in Packages :
             /\ p \in ToSet(queue.heap) /\ Abstract!IsFirst(p) /\ retries[p] < MaxRetries
             /\ HeapFine(queue', prio', time) /\ SlicesFine(queue', slices')
             /\ IF acking \/ p \in expired
                THEN Removed(queue, slices, p, queue', slices')
                ELSE slices' = slices /\ ToSet(queue'.heap) = ToSet(queue.heap)
             /\ Abstract!CountAttempt(p) /\ Abstract!CountExpired(p)
             /\ prio' \in [Packages -> Nat]
             /\ time' = time /\ expired' = expired
<1>1. PICK p : p = queue.heap[1]
    OBVIOUS
<1>2. HeapFine(queue, prio, time) /\ SlicesFine(queue, slices) /\ FieldsFine /\ Indexed(queue)
      /\ Keys(prio, time)
    BY DEF HeapInv, HeapFine, FieldsFine, Keys
<1>3. queue.heap # <<>> /\ Head(queue.heap) = p
    <2>1. queue.heap # <<>>
        BY Zenon DEF TakeFirst
    <2>2. queue.heap \in Seq(Packages)
        BY <1>2, QueueFacts DEF Indexed
    <2> QED BY <1>1, <2>1, <2>2
<1>4. Len(queue.heap) > 0 /\ 1 \in 1..Len(queue.heap)
    BY <1>2, <1>3, QueueFacts DEF Indexed
<1>5. p \in Packages /\ p \in ToSet(queue.heap) /\ queue.index[p] = 1
    BY <1>1, <1>2, <1>4, QueueFacts DEF Indexed
<1>6. \A x \in ToSet(queue.heap) : Abstract!LessEq(p, x)
    <2>1. \A x \in ToSet(queue.heap) : Le(prio, time, p, x) /\ x \in Packages
        BY <1>1, <1>2, <1>4, RootLeast, QueueFacts DEF Indexed, HeapFine
    <2>2. \A x \in Packages : prio[x] \in Nat /\ time[x] \in Nat
        BY <1>2 DEF Keys
    <2> QED BY <1>5, <2>1, <2>2 DEF Le, Abstract!LessEq
<1>7. Abstract!IsFirst(p)
    BY <1>5, <1>6 DEF Abstract!IsFirst
<1>8. PICK lower \in BOOLEAN : lower = (Retries[p] > 0 /\ (retries[p] + 1) % Retries[p] = 0)
    OBVIOUS
<1>9. PICK pr : pr = IF lower THEN [prio EXCEPT ![p] = @ + 1] ELSE prio
    OBVIOUS
<1>10. /\ pr \in [Packages -> Nat] /\ Keys(pr, time) /\ \A x \in Packages \ {p} : pr[x] = prio[x]
       /\ ~lower => pr = prio
    BY <1>2, <1>5, <1>9 DEF Keys
<1>11. PICK first : first = IF p \in expired THEN RemovedFrom(queue, p) ELSE queue
    OBVIOUS
<1>12. PICK fixed : fixed = IF lower THEN HeapFix(first, pr, time, first.index[p]) ELSE first
    OBVIOUS
<1>13. /\ retries[p] < MaxRetries
       /\ removed' = IF p \in expired THEN removed + 1 ELSE removed
       /\ retries' = [retries EXCEPT ![p] = @ + 1]
       /\ prio' = pr /\ time' = time /\ expired' = expired
    BY <1>3, <1>8, <1>9 DEF TakeFirst
<1>14. Abstract!CountAttempt(p) /\ Abstract!CountExpired(p)
    BY <1>8, <1>9, <1>13 DEF Abstract!CountAttempt, Abstract!CountExpired
<1>15. PICK acked \in BOOLEAN : acked = (acking /\ fixed.index[p] # OutOfHeap)
    OBVIOUS
<1>16. /\ queue' = IF acked THEN HeapRemove(fixed, pr, time, fixed.index[p]) ELSE fixed
       /\ slices' = IF p \in expired \/ acked THEN SlicesLess(slices, p) ELSE slices
    <2>1. SlicesWithout(p) = SlicesLess(slices, p)
        BY DEF SlicesWithout, SlicesLess
    <2> QED BY <1>3, <1>8, <1>9, <1>11, <1>12, <1>15, <2>1 DEF TakeFirst
<1>17. CASE p \in expired
    <2>1. first = HeapRemove(queue, prio, time, queue.index[p])
        BY <1>11, <1>17 DEF RemovedFrom
    <2>2. PICK u : u = SlicesLess(slices, p)
        OBVIOUS
    <2>3. HeapFine(first, prio, time) /\ SlicesFine(first, u) /\ Removed(queue, slices, p, first, u)
        BY <1>2, <1>5, <2>1, <2>2, RemovePackRight, Zenon
    <2>4. first.index[p] = OutOfHeap /\ first \in Queues /\ p \notin ToSet(first.heap) /\ Indexed(first)
        BY <2>3 DEF Removed, HeapFine, Indexed
    <2>5. fixed = first
        BY <1>12, <2>4, FixOut
    <2>6. queue' = first /\ slices' = u
        BY <1>15, <1>16, <1>17, <2>2, <2>4, <2>5
    <2>7. Ordered(first, pr, time)
        <3>1. \A x \in ToSet(first.heap) : pr[x] = prio[x] /\ time[x] = time[x]
            BY <1>10, <2>4, QueueFacts
        <3> QED BY <2>3, <2>4, <3>1, OrderedOutside DEF HeapFine
    <2>8. HeapFine(first, pr, time)
        BY <2>3, <2>7 DEF HeapFine
    <2> QED BY <1>5, <1>7, <1>10, <1>13, <1>14, <1>17, <2>3, <2>6, <2>8
<1>18. CASE p \notin expired
    <2>1. first = queue
        BY <1>11, <1>18
    <2>2. HeapFine(fixed, pr, time) /\ ToSet(fixed.heap) = ToSet(queue.heap)
        <3>1. CASE lower
            BY <1>1, <1>2, <1>4, <1>5, <1>10, <1>12, <2>1, <3>1, LoweredRight
        <3>2. CASE ~lower
            BY <1>2, <1>10, <1>12, <2>1, <3>2
        <3> QED BY <3>1, <3>2
    <2>3. SlicesFine(fixed, slices)
        BY <1>2, <2>2, SameItems
    <2>4. fixed.index[p] # OutOfHeap
        <3>1. PICK i \in 1..Len(fixed.heap) : p = fixed.heap[i]
            BY <1>5, <2>2, QueueFacts DEF HeapFine, Indexed
        <3>2. fixed.index[p] = i
            BY <2>2, <3>1 DEF HeapFine, Indexed
        <3> QED BY <3>1, <3>2 DEF OutOfHeap
    <2>5. CASE acking
        <3>1. queue' = HeapRemove(fixed, pr, time, fixed.index[p]) /\ slices' = SlicesLess(slices, p)
            BY <1>15, <1>16, <2>4, <2>5
        <3>2. p \in ToSet(fixed.heap)
            BY <1>5, <2>2
        <3>3. /\ HeapFine(queue', pr, time) /\ SlicesFine(queue', slices')
              /\ Removed(fixed, slices, p, queue', slices')
            BY <1>10, <2>2, <2>3, <3>1, <3>2, RemovePackRight, Zenon
        <3>4. Removed(queue, slices, p, queue', slices')
            BY <2>2, <3>3 DEF Removed
        <3> QED BY <1>5, <1>7, <1>10, <1>13, <1>14, <2>5, <3>3, <3>4
    <2>6. CASE ~acking
        <3>1. queue' = fixed /\ slices' = slices
            BY <1>15, <1>16, <1>18, <2>6
        <3> QED BY <1>5, <1>7, <1>10, <1>13, <1>14, <1>18, <2>2, <2>3, <2>6, <3>1
    <2> QED BY <2>5, <2>6
<1> QED BY <1>17, <1>18

\* Pop and Peek
LEMMA TakeFirstRight ==
    ASSUME HeapInv, NEW acking \in BOOLEAN, TakeFirst(acking)
    PROVE  HeapInv' /\ \E p \in Packages : IF acking THEN Abstract!Pop(p) ELSE Abstract!Peek(p)
<1>1. PICK p \in Packages :
             /\ p \in ToSet(queue.heap) /\ Abstract!IsFirst(p) /\ retries[p] < MaxRetries
             /\ HeapFine(queue', prio', time) /\ SlicesFine(queue', slices')
             /\ IF acking \/ p \in expired
                THEN Removed(queue, slices, p, queue', slices')
                ELSE slices' = slices /\ ToSet(queue'.heap) = ToSet(queue.heap)
             /\ Abstract!CountAttempt(p) /\ Abstract!CountExpired(p)
             /\ prio' \in [Packages -> Nat]
             /\ time' = time /\ expired' = expired
    BY TakenOrNot
<1>2. FieldsFine'
    <2>1. /\ retries \in [Packages -> Nat] /\ time \in [Packages -> Nat] /\ removed \in Nat
          /\ expired \subseteq Perishable /\ time[p] # 0
          /\ \A x \in Packages : retries[x] > 0 => time[x] # 0
        BY <1>1 DEF HeapInv, FieldsFine, HeapFine
    <2>2. retries' = [retries EXCEPT ![p] = @ + 1] /\ removed' \in Nat
        BY <1>1, <2>1 DEF Abstract!CountAttempt, Abstract!CountExpired
    <2>3. \A x \in Packages : retries'[x] > 0 => time'[x] # 0
        BY <1>1, <2>1, <2>2
    <2> QED BY <1>1, <2>1, <2>2, <2>3 DEF FieldsFine
<1>3. HeapInv'
    BY <1>1, <1>2 DEF HeapInv
<1>4. CASE acking
    <2>1. Removed(queue, slices, p, queue', slices')
        BY <1>1, <1>4
    <2>2. Abstract!RemovePack(p)
        BY <2>1, RemovePackView, Zenon
    <2>3. Abstract!Pop(p)
        BY <1>1, <2>2 DEF Abstract!Pop, Abstract!PopPack
    <2> QED BY <1>3, <1>4, <2>3
<1>5. CASE ~acking
    <2>1. CASE p \in expired
        <3>1. Abstract!RemovePack(p)
            BY <1>1, <2>1, RemovePackView
        <3>2. Abstract!Peek(p)
            BY <1>1, <2>1, <3>1 DEF Abstract!Peek, Abstract!PeekPack
        <3> QED BY <1>3, <1>5, <3>2
    <2>2. CASE p \notin expired
        <3>1. ToSet(queue'.heap) = ToSet(queue.heap) /\ slices' = slices
            BY <1>1, <1>5, <2>2
        <3>2. Abstract!Peek(p)
            BY <1>1, <2>2, <3>1 DEF Abstract!Peek, Abstract!PeekPack, SliceSets
        <3> QED BY <1>3, <1>5, <3>2
    <2> QED BY <2>1, <2>2
<1> QED BY <1>4, <1>5

\* Push and Fix put p in the array.
LEMMA AddedRight ==
    ASSUME NEW pr, NEW tm, Keys(pr, tm), NEW q, Indexed(q), Ordered(q, pr, tm),
           NEW p \in Packages \ ToSet(q.heap), NEW pushed, pushed = HeapPush(q, pr, tm, p),
           NEW fixed, fixed = HeapFix(pushed, pr, tm, pushed.index[p])
    PROVE  /\ Indexed(fixed) /\ Ordered(fixed, pr, tm) /\ ToSet(fixed.heap) = ToSet(q.heap) \cup {p}
           /\ \A x \in Packages \ (ToSet(q.heap) \cup {p}) : fixed.index[x] = q.index[x]
<1>1. /\ Indexed(pushed) /\ Ordered(pushed, pr, tm) /\ ToSet(pushed.heap) = ToSet(q.heap) \cup {p}
      /\ \A x \in Packages \ (ToSet(q.heap) \cup {p}) : pushed.index[x] = q.index[x]
    BY PushRight
<1>2. PICK i \in 1..Len(pushed.heap) : p = pushed.heap[i]
    <2>1. p \in ToSet(pushed.heap)
        BY <1>1
    <2>2. pushed \in Queues
        BY <1>1 DEF Indexed
    <2> QED BY <2>1, <2>2, QueueFacts, Zenon
<1>3. pushed.index[p] = i
    BY <1>1, <1>2 DEF Indexed
<1>4. PICK n \in Nat : n = Len(pushed.heap)
    BY <1>1, QueueFacts DEF Indexed
<1>5. n \in 0..Len(pushed.heap) /\ i \in 1..n /\ HeapTo(pushed, pr, tm, n)
    <2>1. HeapTo(pushed, pr, tm, n)
        BY <1>1, <1>4, Zenon DEF Ordered
    <2>2. n \in 0..n
        OBVIOUS
    <2>3. i \in 1..n
        BY <1>4, Zenon
    <2> QED BY <1>4, <2>1, <2>2, <2>3, Zenon
<1>6. DownReady(pushed, pr, tm, n, i, i)
    BY <1>1, <1>5, HeapIsReady
<1>7. Shuffled(pushed, fixed, n) /\ Ordered(fixed, pr, tm)
    BY <1>1, <1>2, <1>3, <1>4, <1>6, FixRight
<1> QED BY <1>1, <1>7 DEF Shuffled

\* The stamp of Add.
LEMMA StampRight ==
    ASSUME FieldsFine, NEW p \in Packages, NEW tm,
           tm = IF time[p] = 0 THEN [time EXCEPT ![p] = Now] ELSE time
    PROVE  tm \in [Packages -> Nat] /\ tm[p] # 0 /\ \A x \in Packages : x # p => tm[x] = time[x]
<1>1. Now \in Nat /\ Now # 0
    <2>1. IsFiniteSet({x \in Packages : time[x] # 0})
        BY PackagesAssumption, FS_Subset
    <2>2. Cardinality({x \in Packages : time[x] # 0}) \in Nat
        BY <2>1, FS_CardinalityType
    <2> QED BY <2>2 DEF Now
<1> QED BY <1>1 DEF FieldsFine

\* PipeStore counts as this module does.
LEMMA SameCount == \A S : Abstract!Cardinality(S) = Cardinality(S)
BY Zenon DEF Abstract!Cardinality, Cardinality

\* Add
LEMMA AddRight ==
    ASSUME HeapInv, NEW p \in Packages, Add(p)
    PROVE  HeapInv' /\ Abstract!Add(p)
<1>1. PICK k : k = KindOf[p]
    OBVIOUS
<1>2. PICK tm : tm = IF time[p] = 0 THEN [time EXCEPT ![p] = Now] ELSE time
    OBVIOUS
<1>3. PICK pushed : pushed = HeapPush(queue, prio, tm, p)
    OBVIOUS
<1>4. PICK fixed : fixed = HeapFix(pushed, prio, tm, pushed.index[p])
    OBVIOUS
<1>5. PICK a : a = slices[k]
    OBVIOUS
<1>6. PICK K : K = Append(a, p)
    OBVIOUS
<1>7. PICK w : w = Sweep(fixed, tm, K)
    OBVIOUS
<1>8. /\ ~Contains(queue.heap, p) /\ (time[p] = 0 \/ retries[p] > 0)
      /\ queue' = w.queue /\ slices' = [slices EXCEPT ![k] = w.kind]
      /\ removed' = 0 /\ time' = tm /\ prio' = prio /\ retries' = retries /\ expired' = expired
    BY <1>1, <1>2, <1>3, <1>4, <1>5, <1>6, <1>7 DEF Add
<1>9. HeapFine(queue, prio, time) /\ SlicesFine(queue, slices) /\ FieldsFine /\ Indexed(queue)
    BY DEF HeapInv, HeapFine
<1>10. p \notin ToSet(queue.heap)
    BY <1>8, <1>9, QueueFacts DEF Contains, Indexed
<1>11. tm \in [Packages -> Nat] /\ tm[p] # 0 /\ \A x \in Packages : x # p => tm[x] = time[x]
    BY <1>2, <1>9, StampRight, Zenon
<1>12. Keys(prio, tm)
    BY <1>9, <1>11 DEF Keys, FieldsFine
<1>13. Ordered(queue, prio, tm)
    <2>1. \A x \in ToSet(queue.heap) : prio[x] = prio[x] /\ tm[x] = time[x]
        BY <1>9, <1>10, <1>11, QueueFacts DEF Indexed
    <2> QED BY <1>9, <2>1, OrderedOutside DEF HeapFine
<1>14. /\ Indexed(fixed) /\ Ordered(fixed, prio, tm) /\ ToSet(fixed.heap) = ToSet(queue.heap) \cup {p}
       /\ \A x \in Packages \ (ToSet(queue.heap) \cup {p}) : fixed.index[x] = queue.index[x]
    BY <1>3, <1>4, <1>9, <1>10, <1>12, <1>13, AddedRight
<1>15. /\ k \in Kinds /\ slices \in [Kinds -> Seq(Packages)] /\ a \in Seq(Packages) /\ Distinct(a)
       /\ ToSet(a) = {x \in ToSet(queue.heap) : KindOf[x] = k} /\ p \notin ToSet(a)
    <2>1. k \in Kinds
        BY <1>1, PackageFieldsAssumption
    <2> QED BY <1>5, <1>9, <1>10, <2>1 DEF SlicesFine
<1>16. /\ K \in Seq(Packages) /\ Distinct(K) /\ ToSet(K) = ToSet(a) \cup {p}
       /\ AheadIn(K, p) = ToSet(a) /\ \A x : x # p => AheadIn(K, x) = AheadIn(a, x)
    BY <1>6, <1>15, AppendSlice
<1>17. ToSet(K) \subseteq ToSet(fixed.heap)
    BY <1>14, <1>15, <1>16
<1>18. PICK R : R = Gone(K, w.kind)
    OBVIOUS
<1>19. /\ w \in Sweeps /\ ArrayWithout(fixed, tm, w.queue, R)
       /\ SliceWithout(K, w.kind, Len(w.kind) + 1)
    BY <1>7, <1>12, <1>14, <1>16, <1>17, <1>18, SweepRight
<1>20. PICK t : t = w.kind
    OBVIOUS
<1>21. /\ t \in Seq(Packages) /\ Distinct(t) /\ ToSet(t) = ToSet(K) \ R /\ R \subseteq ToSet(K)
       /\ \A x \in ToSet(t) : AheadIn(t, x) = AheadIn(K, x) \ R
    BY <1>18, <1>19, <1>20 DEF Sweeps, SliceWithout, Gone
<1>22. \A x \in ToSet(K) : x \in R <=> ShouldExpire(x, Len(K) - Cardinality(AheadIn(K, x) \cap R))
    <2>1. Len(t) \in Nat
        BY <1>21
    <2>2. Len(t) + 1 .. Len(t) = {}
        BY <2>1
    <2>3. {t[m] : m \in Len(t) + 1 .. Len(t)} = {}
        BY <2>2
    <2> QED BY <1>18, <1>19, <1>20, <2>3 DEF SliceWithout
<1>23. PICK q : q = w.queue
    OBVIOUS
<1>24. /\ Indexed(q) /\ Ordered(q, prio, tm) /\ ToSet(q.heap) = (ToSet(queue.heap) \cup {p}) \ R
       /\ \A x \in R : q.index[x] = OutOfHeap
       /\ \A x \in Packages \ (ToSet(queue.heap) \cup {p}) : q.index[x] = queue.index[x]
    <2>1. /\ Indexed(q) /\ Ordered(q, prio, tm) /\ ToSet(q.heap) = ToSet(fixed.heap) \ R
          /\ \A x \in R : q.index[x] = OutOfHeap
          /\ \A x \in Packages \ ToSet(fixed.heap) : q.index[x] = fixed.index[x]
        BY <1>19, <1>23 DEF ArrayWithout
    <2> QED BY <1>14, <2>1
<1>25. HeapFine(q, prio, tm)
    <2>1. \A x \in ToSet(q.heap) : tm[x] # 0
        BY <1>9, <1>11, <1>24, QueueFacts DEF HeapFine, Indexed
    <2>2. \A x \in Packages \ ToSet(q.heap) : tm[x] # 0 => q.index[x] = OutOfHeap
        BY <1>9, <1>11, <1>24 DEF HeapFine
    <2> QED BY <1>24, <2>1, <2>2 DEF HeapFine
<1>26. PICK u : u = [slices EXCEPT ![k] = t]
    OBVIOUS
<1>27. Changed(slices, k, t, u)
    BY <1>15, <1>21, <1>26, ChangedSlice, Zenon
<1>28. /\ u \in [Kinds -> Seq(Packages)] /\ \A l \in Kinds : u[l] = IF l = k THEN t ELSE slices[l]
       /\ Sets(u) = [Sets(slices) EXCEPT ![k] = ToSet(t)]
       /\ \A x \in Packages : Aheads(u)[x] = IF KindOf[x] = k THEN AheadIn(t, x) ELSE Aheads(slices)[x]
    BY <1>27, Zenon DEF Changed
<1>29. \A x \in R : KindOf[x] = k
    BY <1>1, <1>15, <1>16, <1>21
<1>30. SlicesFine(q, u)
    <2>1. \A l \in Kinds : Distinct(u[l])
        BY <1>9, <1>21, <1>28 DEF SlicesFine
    <2>2. ASSUME NEW l \in Kinds PROVE ToSet(u[l]) = {x \in ToSet(q.heap) : KindOf[x] = l}
        <3>1. CASE l = k
            BY <1>1, <1>15, <1>16, <1>21, <1>24, <1>28, <3>1
        <3>2. CASE l # k
            <4>1. ToSet(u[l]) = {x \in ToSet(queue.heap) : KindOf[x] = l}
                BY <1>9, <1>28, <3>2 DEF SlicesFine
            <4> QED BY <1>1, <1>24, <1>29, <3>2, <4>1
        <3> QED BY <3>1, <3>2
    <2> QED BY <1>28, <2>1, <2>2 DEF SlicesFine
<1>31. queue' = q /\ slices' = u
    BY <1>8, <1>20, <1>23, <1>26
<1>32. HeapInv'
    <2>1. FieldsFine'
        BY <1>8, <1>9, <1>11 DEF FieldsFine
    <2>2. HeapFine(queue', prio', time') /\ SlicesFine(queue', slices')
        BY <1>8, <1>25, <1>30, <1>31
    <2> QED BY <2>1, <2>2 DEF HeapInv
<1>33. PICK order : order = [Aheads(slices) EXCEPT ![p] = Sets(slices)[k]]
    OBVIOUS
<1>34. ASSUME NEW x \in Packages, KindOf[x] = k PROVE order[x] = AheadIn(K, x)
    <2>1. Sets(slices)[k] = ToSet(a)
        BY <1>5, <1>15 DEF Sets
    <2>2. Aheads(slices)[x] = AheadIn(a, x)
        BY <1>5, <1>34 DEF Aheads
    <2>3. order[x] = IF x = p THEN Sets(slices)[k] ELSE Aheads(slices)[x]
        BY <1>33 DEF Aheads
    <2> QED BY <1>16, <2>1, <2>2, <2>3
<1>35. ASSUME NEW x \in Packages, KindOf[x] # k PROVE order[x] = Aheads(slices)[x] /\ order[x] \cap R = {}
    <2>1. order[x] = Aheads(slices)[x] /\ Aheads(slices)[x] = AheadIn(slices[KindOf[x]], x)
        BY <1>1, <1>33, <1>35 DEF Aheads
    <2>2. slices[KindOf[x]] \in Seq(Packages) /\ Distinct(slices[KindOf[x]])
          /\ \A y \in ToSet(slices[KindOf[x]]) : KindOf[y] = KindOf[x]
        BY <1>9, PackageFieldsAssumption DEF SlicesFine
    <2>3. AheadIn(slices[KindOf[x]], x) \subseteq ToSet(slices[KindOf[x]])
        BY <2>2, AheadFacts
    <2> QED BY <1>29, <1>35, <2>1, <2>2, <2>3
<1>36. ToSet(K) = Sets(slices)[k] \cup {p} /\ Cardinality(ToSet(K)) = Len(K)
    <2>1. Sets(slices)[k] = ToSet(a)
        BY <1>5, <1>15 DEF Sets
    <2> QED BY <1>16, <2>1, DistinctCard
<1>37. Abstract!SweepRemoves(ToSet(K), order, R)
    <2>1. ASSUME NEW x \in ToSet(K)
          PROVE  x \in R <=> Abstract!ShouldExpire(x, Cardinality(ToSet(K)) - Cardinality(order[x] \cap R))
        <3>1. x \in Packages /\ KindOf[x] = k
            BY <1>1, <1>15, <1>16, SliceFacts
        <3>2. order[x] = AheadIn(K, x)
            BY <1>34, <3>1
        <3>3. x \in R <=> ShouldExpire(x, Cardinality(ToSet(K)) - Cardinality(order[x] \cap R))
            BY <1>22, <1>36, <3>2
        <3> QED BY <3>3 DEF ShouldExpire, Abstract!ShouldExpire
    <2> QED BY <1>21, <2>1, SameCount DEF Abstract!SweepRemoves
<1>38. Aheads(u) = Abstract!Without(order, R)
    <2>1. ASSUME NEW x \in Packages PROVE Aheads(u)[x] = IF x \in R THEN {} ELSE order[x] \ R
        <3>1. CASE KindOf[x] # k
            <4>1. x \notin R /\ Aheads(u)[x] = order[x] /\ order[x] \cap R = {}
                BY <1>28, <1>29, <1>35, <3>1
            <4> QED BY <4>1
        <3>2. CASE KindOf[x] = k /\ x \in ToSet(t)
            <4>1. Aheads(u)[x] = AheadIn(t, x) /\ order[x] = AheadIn(K, x)
                BY <1>28, <1>34, <3>2
            <4> QED BY <1>21, <3>2, <4>1
        <3>3. CASE KindOf[x] = k /\ x \notin ToSet(t)
            <4>1. Aheads(u)[x] = {}
                <5>1. AheadIn(t, x) = {}
                    BY <1>21, <3>3, AheadFacts
                <5> QED BY <1>28, <3>3, <5>1
            <4>2. x \notin R => order[x] = {}
                <5>1. SUFFICES ASSUME x \notin R PROVE AheadIn(K, x) = {}
                    BY <1>34, <3>3
                <5>2. x \notin ToSet(K)
                    BY <1>21, <3>3, <5>1
                <5> QED BY <1>16, <5>2, AheadFacts
            <4> QED BY <4>1, <4>2
        <3> QED BY <3>1, <3>2, <3>3
    <2>2. Aheads(u) = [x \in Packages |-> Aheads(u)[x]]
        BY DEF Aheads
    <2>3. Abstract!Without(order, R) = [x \in Packages |-> IF x \in R THEN {} ELSE order[x] \ R]
        BY DEF Abstract!Without
    <2> QED BY <2>1, <2>2, <2>3
<1>39. Abstract!Appended(p) = order
    BY <1>1, <1>33, Views DEF Abstract!Appended
<1>40. Abstract!AddSweeping(p, R)
    <2>1. ToSet(queue'.heap) = (ToSet(queue.heap) \cup {p}) \ R
        BY <1>24, <1>31
    <2>2. SliceSets' = [SliceSets EXCEPT ![k] = (SliceSets[k] \cup {p}) \ R]
        <3>1. ToSet(t) = (Sets(slices)[k] \cup {p}) \ R
            BY <1>21, <1>36
        <3> QED BY <1>28, <1>31, <3>1, Views
    <2>3. [x \in Packages |-> AheadIn(slices[KindOf[x]], x)]' = Abstract!Without(Abstract!Appended(p), R)
        BY <1>31, <1>38, <1>39, Views
    <2>4. Abstract!SweepRemoves(SliceSets[k] \cup {p}, Abstract!Appended(p), R)
        BY <1>36, <1>37, <1>39, Views
    <2> QED BY <1>1, <1>8, <2>1, <2>2, <2>3, <2>4, Zenon DEF Abstract!AddSweeping
<1>41. R \in SUBSET (SliceSets[KindOf[p]] \cup {p})
    BY <1>1, <1>21, <1>36, Views
<1>42. Abstract!AddStamp(p)
    BY <1>2, <1>8, SameCount DEF Abstract!AddStamp, Now, Abstract!Now
<1>43. Abstract!Add(p)
    BY <1>8, <1>10, <1>40, <1>41, <1>42, Zenon DEF Abstract!Add
<1> QED BY <1>32, <1>43

------------------------------------------------------------------------------
(* The theorems *)

\* Every call.
LEMMA StepRight ==
    ASSUME HeapInv, [Next]_vars
    PROVE  HeapInv' /\ [Abstract!PSNext]_Abstract!psVars
<1>1. CASE Pop
    <2>1. HeapInv' /\ \E p \in Packages : Abstract!Pop(p)
        BY <1>1, TakeFirstRight DEF Pop
    <2> QED BY <2>1 DEF Abstract!PSNext
<1>2. CASE Peek
    <2>1. HeapInv' /\ \E p \in Packages : Abstract!Peek(p)
        BY <1>2, TakeFirstRight DEF Peek
    <2> QED BY <2>1 DEF Abstract!PSNext
<1>3. ASSUME NEW p \in Packages, Add(p) PROVE HeapInv' /\ Abstract!PSNext
    BY <1>3, AddRight DEF Abstract!PSNext
<1>4. ASSUME NEW p \in Packages, Ack(p) PROVE HeapInv' /\ Abstract!PSNext
    BY <1>4, AckRight DEF Abstract!PSNext
<1>5. ASSUME NEW p \in Packages, Expire(p) PROVE HeapInv' /\ Abstract!PSNext
    BY <1>5, ExpireRight DEF Abstract!PSNext
<1>6. CASE UNCHANGED vars
    <2>1. HeapInv'
        BY <1>6 DEF vars, HeapInv, FieldsFine
    <2>2. UNCHANGED Abstract!psVars
        BY <1>6 DEF vars, Abstract!psVars, SliceSets
    <2> QED BY <2>1, <2>2
<1> QED BY <1>1, <1>2, <1>3, <1>4, <1>5, <1>6 DEF Next

\* The invariant holds after every call.
LEMMA HeapInvAlways == Spec => []HeapInv
<1>1. Init => HeapInv
    BY InvInit
<1>2. HeapInv /\ [Next]_vars => HeapInv'
    BY StepRight
<1> QED BY <1>1, <1>2, PTL DEF Spec

\* Package.index is the place of the package in the array while it is in it and
\* -1 once it has left, whatever was pushed, fixed and removed around it.
THEOREM IndexAlwaysAgrees == Spec => []IndexAgrees
<1>1. HeapInv => IndexAgrees
    <2> SUFFICES ASSUME HeapInv, NEW p \in Packages
                 PROVE  IF Contains(queue.heap, p) THEN queue.heap[queue.index[p]] = p
                        ELSE time[p] # 0 => queue.index[p] = OutOfHeap
        BY DEF IndexAgrees
    <2>1. HeapFine(queue, prio, time) /\ Indexed(queue)
        BY DEF HeapInv, HeapFine
    <2>2. CASE Contains(queue.heap, p)
        <3>1. PICK i \in 1..Len(queue.heap) : queue.heap[i] = p
            BY <2>2 DEF Contains
        <3> QED BY <2>1, <2>2, <3>1 DEF Indexed
    <2>3. CASE ~Contains(queue.heap, p)
        <3>1. p \notin ToSet(queue.heap)
            BY <2>1, <2>3, QueueFacts DEF Contains, Indexed
        <3> QED BY <2>1, <2>3, <3>1 DEF HeapFine
    <2> QED BY <2>2, <2>3
<1> QED BY <1>1, HeapInvAlways, PTL

\* The array is a heap by (Priority, time) after every call of the store.
THEOREM HeapAlwaysOrdered == Spec => []HeapOrdered
<1>1. HeapInv => HeapOrdered
    <2> SUFFICES ASSUME HeapInv, NEW i \in 2..Len(queue.heap)
                 PROVE  ~Less(queue, prio, time, i, i \div 2)
        BY DEF HeapOrdered
    <2>1. Le(prio, time, queue.heap[i \div 2], queue.heap[i])
        BY DEF HeapInv, HeapFine, Ordered, HeapTo
    <2> QED BY <2>1, LessIsNotLe
<1> QED BY <1>1, HeapInvAlways, PTL

\* The array-backed store is a PipeStore: what Pop and Peek return is a least
\* package, Add removes what SweepRemoves names, and array and slices lose the
\* same packages.
THEOREM HeapIsPipeStore == Spec => RefinesPipeStore
<1>1. Init => Abstract!PSInit
    BY InitRefines
<1>2. HeapInv /\ [Next]_vars => [Abstract!PSNext]_Abstract!psVars
    BY StepRight
<1> QED BY <1>1, <1>2, HeapInvAlways, PTL DEF Spec, RefinesPipeStore, Abstract!PSSpec
=============================================================================
