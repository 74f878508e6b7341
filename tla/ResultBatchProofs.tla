-------------------------- MODULE ResultBatchProofs --------------------------
(***************************************************************************)
(* The batches of audit results, for every capacity and any number of      *)
(* results; and that the agent around them, with its restarts, does        *)
(* nothing to them that they do not allow.                                 *)
(***************************************************************************)
EXTENDS Lifecycle, SequenceTheorems, TLAPS

\* The head of one sequence moves to the end of the one before it: what the
\* two make together stays the same.
LEMMA PassHead ==
    ASSUME NEW s \in Seq(Nat), NEW t \in Seq(Nat), t # <<>>
    PROVE  /\ Append(s, Head(t)) \in Seq(Nat)
           /\ Len(Append(s, Head(t))) = Len(s) + 1
           /\ Tail(t) \in Seq(Nat)
           /\ Append(s, Head(t)) \o Tail(t) = s \o t
<1> DEFINE a == Append(s, Head(t))
<1>1. /\ Head(t) \in Nat /\ Tail(t) \in Seq(Nat) /\ Len(Tail(t)) = Len(t) - 1
      /\ \A i \in 1..Len(Tail(t)) : Tail(t)[i] = t[i + 1]
      /\ Len(s) \in Nat /\ Len(t) \in Nat \ {0} /\ Head(t) = t[1]
    BY HeadTailProperties, LenProperties, EmptySeq
<1>2. a \in Seq(Nat) /\ Len(a) = Len(s) + 1 BY <1>1
<1>3. a \o Tail(t) \in Seq(Nat) /\ s \o t \in Seq(Nat) BY <1>1, <1>2, ConcatProperties
<1>4. Len(a \o Tail(t)) = Len(s \o t) /\ Len(s \o t) = Len(s) + Len(t)
    BY <1>1, <1>2, ConcatProperties
<1>5. ASSUME NEW i \in 1..Len(s \o t) PROVE (a \o Tail(t))[i] = (s \o t)[i]
  <2>1. (s \o t)[i] = IF i <= Len(s) THEN s[i] ELSE t[i - Len(s)]
      BY <1>4, <1>5, ConcatProperties
  <2>2. (a \o Tail(t))[i] = IF i <= Len(a) THEN a[i] ELSE Tail(t)[i - Len(a)]
      BY <1>1, <1>2, <1>4, <1>5, ConcatProperties
  <2>3. i <= Len(a) => a[i] = IF i = Len(s) + 1 THEN Head(t) ELSE s[i]
      BY <1>1, <1>2, <1>5
  <2>4. i > Len(a) => Tail(t)[i - Len(a)] = t[i - Len(s)] BY <1>1, <1>2, <1>4, <1>5
  <2> QED BY <1>1, <1>2, <1>4, <2>1, <2>2, <2>3, <2>4
<1> HIDE DEF a
<1>6. a \o Tail(t) = s \o t BY <1>3, <1>4, <1>5, SeqEqual
<1> QED BY <1>1, <1>2, <1>6 DEF a

\* What a concatenation is made of.
LEMMA Joined ==
    ASSUME NEW s \in Seq(Nat), NEW t \in Seq(Nat)
    PROVE  /\ s \o t \in Seq(Nat)
           /\ Len(s) \in Nat /\ Len(t) \in Nat
           /\ Len(s \o t) = Len(s) + Len(t)
           /\ \A i \in 1..(Len(s) + Len(t)) :
                (s \o t)[i] = IF i <= Len(s) THEN s[i] ELSE t[i - Len(s)]
BY ConcatProperties, LenProperties

\* Concatenation is associative.
LEMMA JoinedTwice ==
    ASSUME NEW s \in Seq(Nat), NEW t \in Seq(Nat), NEW u \in Seq(Nat)
    PROVE  (s \o t) \o u = s \o (t \o u)
<1> DEFINE st == s \o t
           tu == t \o u
<1>1. /\ st \in Seq(Nat) /\ Len(st) = Len(s) + Len(t) /\ Len(s) \in Nat /\ Len(t) \in Nat
      /\ \A i \in 1..(Len(s) + Len(t)) : st[i] = IF i <= Len(s) THEN s[i] ELSE t[i - Len(s)]
    BY Joined
<1>2. /\ tu \in Seq(Nat) /\ Len(tu) = Len(t) + Len(u) /\ Len(u) \in Nat
      /\ \A i \in 1..(Len(t) + Len(u)) : tu[i] = IF i <= Len(t) THEN t[i] ELSE u[i - Len(t)]
    BY Joined
<1> HIDE DEF st, tu
<1>3. /\ st \o u \in Seq(Nat) /\ Len(st \o u) = Len(st) + Len(u)
      /\ \A i \in 1..(Len(st) + Len(u)) :
           (st \o u)[i] = IF i <= Len(st) THEN st[i] ELSE u[i - Len(st)]
    BY <1>1, Joined
<1>4. /\ s \o tu \in Seq(Nat) /\ Len(s \o tu) = Len(s) + Len(tu)
      /\ \A i \in 1..(Len(s) + Len(tu)) :
           (s \o tu)[i] = IF i <= Len(s) THEN s[i] ELSE tu[i - Len(s)]
    BY <1>2, Joined
<1>5. Len(st \o u) = Len(s \o tu) BY <1>1, <1>2, <1>3, <1>4
<1>6. ASSUME NEW i \in 1..Len(st \o u) PROVE (st \o u)[i] = (s \o tu)[i]
  <2>1. i \in Nat /\ i >= 1 /\ i <= Len(s) + Len(t) + Len(u)
      BY <1>1, <1>2, <1>3, <1>6
  <2>2. CASE i <= Len(s)
    <3>1. (st \o u)[i] = st[i] BY <1>1, <1>2, <1>3, <2>1, <2>2
    <3>2. st[i] = s[i] BY <1>1, <2>1, <2>2
    <3>3. (s \o tu)[i] = s[i] BY <1>1, <1>2, <1>4, <2>1, <2>2
    <3> QED BY <3>1, <3>2, <3>3
  <2>3. CASE i > Len(s) /\ i <= Len(s) + Len(t)
    <3> DEFINE j == i - Len(s)
    <3>0. j \in 1..(Len(t) + Len(u)) /\ j <= Len(t) BY <1>1, <1>2, <2>1, <2>3
    <3>1. (st \o u)[i] = st[i] BY <1>1, <1>2, <1>3, <2>1, <2>3
    <3>2. st[i] = t[j] BY <1>1, <2>1, <2>3
    <3>3. (s \o tu)[i] = tu[j] BY <1>1, <1>2, <1>4, <2>1, <2>3
    <3> HIDE DEF j
    <3>4. tu[j] = t[j] BY <1>2, <3>0
    <3> QED BY <3>1, <3>2, <3>3, <3>4, Zenon
  <2>4. CASE i > Len(s) + Len(t)
    <3> DEFINE j == i - Len(s)
               k == i - (Len(s) + Len(t))
    <3>0. /\ j \in 1..(Len(t) + Len(u)) /\ ~(j <= Len(t)) /\ k = j - Len(t)
          /\ ~(i <= Len(s)) /\ ~(i <= Len(st)) /\ k = i - Len(st)
        BY <1>1, <1>2, <2>1, <2>4
    <3>1. (st \o u)[i] = u[i - Len(st)] BY <1>1, <1>2, <1>3, <2>1, <3>0
    <3>2. (s \o tu)[i] = tu[j] BY <1>1, <1>2, <1>4, <2>1, <3>0
    <3> HIDE DEF j, k
    <3>3. tu[j] = u[j - Len(t)] BY <1>2, <3>0
    <3>4. u[i - Len(st)] = u[k] /\ u[j - Len(t)] = u[k] BY <3>0
    <3> QED BY <3>1, <3>2, <3>3, <3>4, Zenon
  <2>5. i <= Len(s) \/ (i > Len(s) /\ i <= Len(s) + Len(t)) \/ i > Len(s) + Len(t)
      BY <1>1, <2>1
  <2> QED BY <2>2, <2>3, <2>4, <2>5, Zenon
<1>7. st \o u = s \o tu BY <1>3, <1>4, <1>5, <1>6, SeqEqual
<1> QED BY <1>7 DEF st, tu

\* The results of an audit continue the numbers of the ones before.
LEMMA UptoMore ==
    ASSUME NEW a \in Nat, NEW n \in Nat
    PROVE  /\ [i \in 1..n |-> a + i] \in Seq(Nat)
           /\ Upto(a) \in Seq(Nat)
           /\ Upto(a) \o [i \in 1..n |-> a + i] = Upto(a + n)
<1> DEFINE m == [i \in 1..n |-> a + i]
<1>1. /\ m \in Seq(Nat) /\ Len(m) = n /\ \A i \in 1..n : m[i] = a + i
      /\ Upto(a) \in Seq(Nat) /\ Len(Upto(a)) = a /\ \A i \in 1..a : Upto(a)[i] = i
    BY DEF Upto
<1>2. /\ Upto(a + n) \in Seq(Nat) /\ Len(Upto(a + n)) = a + n
      /\ \A i \in 1..(a + n) : Upto(a + n)[i] = i
    BY DEF Upto
<1> HIDE DEF m
<1>3. /\ Upto(a) \o m \in Seq(Nat) /\ Len(Upto(a) \o m) = a + n
      /\ \A i \in 1..(a + n) : (Upto(a) \o m)[i] = IF i <= a THEN Upto(a)[i] ELSE m[i - a]
  <2> DEFINE k == Upto(a)
  <2>1. /\ k \in Seq(Nat) /\ Len(k) = a BY <1>1
  <2> HIDE DEF k
  <2>2. /\ k \o m \in Seq(Nat) /\ Len(k \o m) = Len(k) + Len(m)
        /\ \A i \in 1..(Len(k) + Len(m)) :
             (k \o m)[i] = IF i <= Len(k) THEN k[i] ELSE m[i - Len(k)]
      BY <1>1, <2>1, Joined
  <2> QED BY <1>1, <2>1, <2>2 DEF k
<1>4. ASSUME NEW i \in 1..(a + n) PROVE (Upto(a) \o m)[i] = Upto(a + n)[i]
  <2>1. CASE i <= a BY <1>1, <1>2, <1>3, <2>1
  <2>2. CASE i > a
    <3> DEFINE j == i - a
    <3>1. j \in 1..n /\ ~(i <= a) /\ a + j = i BY <2>2
    <3>2. (Upto(a) \o m)[i] = m[j] BY <1>3, <3>1
    <3> HIDE DEF j
    <3>3. m[j] = i BY <1>1, <3>1
    <3>4. Upto(a + n)[i] = i BY <1>2, <1>4
    <3> QED BY <3>2, <3>3, <3>4, Zenon
  <2>3. i <= a \/ i > a BY <1>4
  <2> QED BY <2>1, <2>2, <2>3, Zenon
<1>5. Upto(a) \o m = Upto(a + n) BY <1>2, <1>3, <1>4, SeqEqual
<1> QED BY <1>1, <1>5 DEF m

------------------------------------------------------------------------------
\* The inductive invariant: the order of the results, with their types.
RBInv == RBTypeOK /\ ResultsInOrder

\* Initially there are no results.
LEMMA RBInitInv == RBInit => RBInv
<1> SUFFICES ASSUME RBInit PROVE RBInv OBVIOUS
<1>1. RBTypeOK
  <2>1. /\ <<>> \in Seq(Nat) /\ Len(<<>>) = 0
        /\ 0 \in 0..MaxResults /\ 0 <= ChanCap /\ 0 < BatchSize
      BY BatchSizeAssumption, ChanCapAssumption, MaxResultsAssumption
  <2> QED BY <2>1, Zenon DEF RBInit, RBTypeOK
<1>2. Upto(0) = <<>> BY DEF Upto
<1>3. <<>> \o <<>> \o <<>> \o <<>> = <<>> BY EmptySeq, ConcatEmptySeq
<1>4. ResultsInOrder BY <1>2, <1>3 DEF RBInit, ResultsInOrder
<1> QED BY <1>1, <1>4 DEF RBInv

\* Every step of an audit, of the sender or of the worker preserves it.
LEMMA RBNextInv == RBInv /\ [RBNext]_batchVars => RBInv'
<1> SUFFICES ASSUME RBInv, [RBNext]_batchVars PROVE RBInv' OBVIOUS
<1> USE BatchSizeAssumption, ChanCapAssumption, MaxResultsAssumption
<1>0. /\ audited \in Nat /\ audited <= MaxResults
      /\ inHand \in Seq(Nat) /\ channel \in Seq(Nat) /\ buffer \in Seq(Nat)
      /\ piped \in Seq(Nat)
      /\ Len(channel) <= ChanCap /\ Len(buffer) < BatchSize /\ tick \in BOOLEAN
      /\ piped \o buffer \o channel \o inHand = Upto(audited)
    BY DEF RBInv, RBTypeOK, ResultsInOrder
<1>1. ASSUME NEW n \in 1..MaxResults, Results(n) PROVE RBInv'
  <2> DEFINE more == [i \in 1..n |-> audited + i]
             done == piped \o buffer \o channel
  <2>1. /\ inHand = <<>> /\ inHand' = more /\ audited' = audited + n
        /\ audited' \in 0..MaxResults
        /\ UNCHANGED <<channel, buffer, piped, tick>>
      BY <1>0, <1>1 DEF Results
  <2>2. more \in Seq(Nat) /\ Upto(audited) \o more = Upto(audited + n)
    <3>1. audited \in Nat /\ n \in Nat BY <1>0
    <3> QED BY <3>1, UptoMore, Zenon
  <2>3. done \in Seq(Nat) BY <1>0, ConcatProperties
  <2> HIDE DEF more, done
  <2>4. done = Upto(audited) BY <1>0, <2>1, <2>3, ConcatEmptySeq DEF done
  <2>5. ResultsInOrder' BY <2>1, <2>2, <2>4 DEF ResultsInOrder, done
  <2>6. RBTypeOK' BY <1>0, <2>1, <2>2 DEF RBTypeOK
  <2> QED BY <2>5, <2>6 DEF RBInv
<1>2. CASE SendResult
  <2>1. /\ channel' \in Seq(Nat) /\ inHand' \in Seq(Nat) /\ Len(channel') <= ChanCap
        /\ channel' \o inHand' = channel \o inHand
        /\ UNCHANGED <<audited, buffer, piped, tick>>
    <3>1. /\ inHand # <<>> /\ Len(channel) < ChanCap
          /\ channel' = Append(channel, Head(inHand)) /\ inHand' = Tail(inHand)
          /\ UNCHANGED <<audited, buffer, piped, tick>>
        BY <1>2 DEF SendResult
    <3>2. Len(channel) \in Nat BY <1>0, LenProperties
    <3>3. /\ Append(channel, Head(inHand)) \in Seq(Nat)
          /\ Len(Append(channel, Head(inHand))) = Len(channel) + 1
          /\ Tail(inHand) \in Seq(Nat)
          /\ Append(channel, Head(inHand)) \o Tail(inHand) = channel \o inHand
        BY <1>0, <3>1, PassHead, Zenon
    <3>4. Len(channel) + 1 <= ChanCap BY <3>1, <3>2
    <3> QED BY <3>1, <3>3, <3>4, Zenon
  <2>2. piped \o buffer \o channel' \o inHand' = piped \o buffer \o channel \o inHand
    <3> DEFINE front == piped \o buffer
    <3>1. front \in Seq(Nat) BY <1>0, Joined
    <3> HIDE DEF front
    <3>2. channel \in Seq(Nat) /\ inHand \in Seq(Nat) BY <1>0
    <3>3. (front \o channel) \o inHand = front \o (channel \o inHand)
        BY <3>1, <3>2, JoinedTwice, Zenon
    <3>4. (front \o channel') \o inHand' = front \o (channel' \o inHand')
        BY <2>1, <3>1, JoinedTwice, Zenon
    <3> QED BY <2>1, <3>3, <3>4, Zenon DEF front
  <2>3. ResultsInOrder' BY <1>0, <2>1, <2>2 DEF ResultsInOrder
  <2>4. RBTypeOK' BY <1>0, <2>1 DEF RBTypeOK
  <2> QED BY <2>3, <2>4 DEF RBInv
<1>3. CASE TakeResult
  <2> DEFINE rs == Append(buffer, Head(channel))
  <2>1. /\ channel # <<>> /\ channel' = Tail(channel)
        /\ UNCHANGED <<audited, inHand, tick>>
        /\ IF Len(rs) = BatchSize THEN piped' = piped \o rs /\ buffer' = <<>>
           ELSE buffer' = rs /\ piped' = piped
      BY <1>3 DEF TakeResult, IsFull, Flush
  <2>2. /\ rs \in Seq(Nat) /\ Len(rs) = Len(buffer) + 1 /\ channel' \in Seq(Nat)
        /\ rs \o channel' = buffer \o channel
      BY <1>0, <2>1, PassHead
  <2>3. Len(channel') <= ChanCap /\ Len(buffer) \in Nat
    <3>1. Len(channel) \in Nat /\ Len(Tail(channel)) = Len(channel) - 1
        BY <1>0, <2>1, HeadTailProperties, LenProperties
    <3> QED BY <1>0, <2>1, <3>1, LenProperties
  <2> HIDE DEF rs
  <2>4. piped \o rs \o channel' \o inHand = piped \o buffer \o channel \o inHand
    <3>1. piped \in Seq(Nat) /\ buffer \in Seq(Nat) /\ channel \in Seq(Nat) BY <1>0
    <3>2. (piped \o buffer) \o channel = piped \o (buffer \o channel)
        BY <3>1, JoinedTwice, Zenon
    <3>3. (piped \o rs) \o channel' = piped \o (rs \o channel')
        BY <2>2, <3>1, JoinedTwice, Zenon
    <3> QED BY <2>2, <3>2, <3>3, Zenon
  <2>5. piped \o rs \in Seq(Nat) BY <1>0, <2>2, ConcatProperties
  <2>6. (piped \o rs) \o <<>> = piped \o rs BY <2>5, ConcatEmptySeq
  <2>7. ResultsInOrder' BY <1>0, <2>1, <2>4, <2>6 DEF ResultsInOrder
  <2>8. piped' \in Seq(Nat) /\ buffer' \in Seq(Nat) /\ Len(buffer') < BatchSize
    <3>1. <<>> \in Seq(Nat) /\ Len(<<>>) = 0 /\ 0 < BatchSize OBVIOUS
    <3>2. Len(rs) # BatchSize => Len(rs) < BatchSize BY <1>0, <2>2, <2>3
    <3> QED BY <1>0, <2>1, <2>2, <2>5, <3>1, <3>2, Zenon
  <2>9. RBTypeOK'
    <3>1. audited' \in 0..MaxResults BY <1>0, <2>1
    <3> QED BY <1>0, <2>1, <2>2, <2>3, <2>8, <3>1, Zenon DEF RBTypeOK
  <2> QED BY <2>7, <2>9 DEF RBInv
<1>4. CASE TakeTick
  <2>1. /\ tick' = FALSE /\ UNCHANGED <<audited, inHand, channel>>
        /\ \/ piped' = piped \o buffer /\ buffer' = <<>>
           \/ UNCHANGED <<buffer, piped>>
      BY <1>4 DEF TakeTick, Flush
  <2>2. piped \o buffer \in Seq(Nat) BY <1>0, ConcatProperties
  <2>3. (piped \o buffer) \o <<>> = piped \o buffer BY <2>2, ConcatEmptySeq
  <2>4. ResultsInOrder' BY <1>0, <2>1, <2>3 DEF ResultsInOrder
  <2>5. /\ piped' \in Seq(Nat) /\ buffer' \in Seq(Nat) /\ Len(buffer') < BatchSize
        /\ audited' \in 0..MaxResults
    <3>1. <<>> \in Seq(Nat) /\ Len(<<>>) = 0 /\ 0 < BatchSize OBVIOUS
    <3>2. audited' \in 0..MaxResults BY <1>0, <2>1
    <3> QED BY <1>0, <2>1, <2>2, <3>1, <3>2, Zenon
  <2>6. RBTypeOK' BY <1>0, <2>1, <2>5, Zenon DEF RBTypeOK
  <2> QED BY <2>4, <2>6 DEF RBInv
<1>5. CASE Tick
    BY <1>0, <1>5 DEF Tick, RBInv, RBTypeOK, ResultsInOrder
<1>6. CASE UNCHANGED batchVars
    BY <1>0, <1>6 DEF batchVars, RBInv, RBTypeOK, ResultsInOrder
<1> QED BY <1>1, <1>2, <1>3, <1>4, <1>5, <1>6 DEF RBNext

\* For every capacity of the channel and of the buffer and any number of
\* results: SendAuditResults and SendAuditResultsWorker lose none, repeat none
\* and hand them to the pipe in their order.
THEOREM ResultsAlwaysInOrder == RBSpec => []ResultsInOrder
<1>1. RBInv => ResultsInOrder BY DEF RBInv
<1> QED BY <1>1, RBInitInv, RBNextInv, PTL DEF RBSpec

------------------------------------------------------------------------------
\* An audit without results leaves the batches as they are.
LEMMA NoResults == RBInv /\ Results(0) => UNCHANGED batchVars
<1> SUFFICES ASSUME RBInv, Results(0) PROVE UNCHANGED batchVars OBVIOUS
<1>1. audited + 0 = audited BY MaxResultsAssumption DEF RBInv, RBTypeOK
<1>2. [i \in 1..0 |-> audited + i] = <<>> OBVIOUS
<1> QED BY <1>1, <1>2, Zenon DEF Results, batchVars

\* A step of the agent is a step of the batches or leaves them as they are.
LEMMA LifeStep == RBInv /\ [LifeNext]_lifeVars => [RBNext]_batchVars
<1> SUFFICES ASSUME RBInv, [LifeNext]_lifeVars PROVE [RBNext]_batchVars OBVIOUS
<1> DEFINE Same == UNCHANGED batchVars
<1>1. MainStep => Same BY Zenon DEF MainStep, Authorized, AuthorizationTimeout
<1>2. ASSUME NEW r \in Restarts PROVE RestartPacket(r) \/ RestartStep(r) => Same
    BY Zenon DEF RestartPacket, RestartStep, CheckSources, CallSources, ClearSources,
       CheckSinks, CallSinks, ClearSinks, RestartExit
<1>3. StartAudit => RBNext \/ Same
  <2> SUFFICES ASSUME StartAudit PROVE RBNext \/ Same OBVIOUS
  <2>1. PICK n \in 0..MaxResults : Results(n) BY Zenon DEF StartAudit
  <2>2. CASE n = 0 BY <2>1, <2>2, NoResults
  <2>3. CASE n \in 1..MaxResults BY <2>1, <2>3 DEF RBNext
  <2>4. n = 0 \/ n \in 1..MaxResults BY MaxResultsAssumption
  <2> QED BY <2>2, <2>3, <2>4, Zenon
<1>4. /\ TakeSync \/ TakePolicies \/ TakeCommand \/ Periodic => StartAudit
      /\ \A i \in Informers : TakeNotice(i) => StartAudit
    BY Zenon DEF TakeSync, TakePolicies, TakeCommand, Periodic, TakeNotice
<1>5. AuditorStep => RBNext \/ Same
    BY Zenon DEF AuditorStep, AuditorSends, AuditDone, AuditorStop, RBNext
<1>6. ASSUME NEW i \in Informers PROVE Notice(i) \/ QueueDelta(i) => Same
    BY Zenon DEF Notice, QueueDelta
<1>7. TakeDelta \/ StopDeltas \/ Request \/ Command => Same
    BY Zenon DEF TakeDelta, StopDeltas, Request, Command
<1>8. WorkerTakes \/ WorkerTicks \/ LifeTick => RBNext
    BY Zenon DEF WorkerTakes, WorkerTicks, LifeTick, RBNext
<1>9. UNCHANGED lifeVars => Same BY Zenon DEF lifeVars
<1> HIDE DEF Same
<1>10. LifeNext => RBNext \/ Same
  <2>1. (\E r \in Restarts : RestartPacket(r) \/ RestartStep(r)) => Same BY <1>2, Zenon
  <2>2. (\E i \in Informers : TakeNotice(i)) => StartAudit BY <1>4, Zenon
  <2>3. (\E i \in Informers : Notice(i) \/ QueueDelta(i)) => Same BY <1>6, Zenon
  <2> QED BY <1>1, <1>3, <1>4, <1>5, <1>7, <1>8, <2>1, <2>2, <2>3 DEF LifeNext
<1> QED BY <1>9, <1>10 DEF Same

\* The order of the results is an invariant of the whole agent, whatever
\* restarts, cancelled contexts and blocked senders do around the batches.
THEOREM ResultsInOrderInLife == LifeSpec => []ResultsInOrder
<1>1. LifeInit => RBInv BY RBInitInv DEF LifeInit
<1>2. RBInv /\ [LifeNext]_lifeVars => RBInv' BY LifeStep, RBNextInv
<1>3. RBInv => ResultsInOrder BY DEF RBInv
<1> QED BY <1>1, <1>2, <1>3, PTL DEF LifeSpec

\* The agent's loop and its worker implement the batches: SendAuditResults is
\* called by one goroutine at a time, and the channel is all it shares.
THEOREM LifeRefinesBatch == LifeSpec => RBSpec
<1>1. LifeInit => RBInv /\ RBInit BY RBInitInv DEF LifeInit
<1>2. RBInv /\ [LifeNext]_lifeVars => RBInv' BY LifeStep, RBNextInv
<1> QED BY <1>1, <1>2, LifeStep, PTL DEF LifeSpec, RBSpec

------------------------------------------------------------------------------
\* What the agent adds to the batches keeps its types.
LifeValues ==
    /\ main \in {"waiting", "started"}
    /\ process \in {"running", "failed", "exit0", "panic"}
    /\ cancelSources \in BOOLEAN /\ cancelSinks \in BOOLEAN
    /\ sourcesDone \in BOOLEAN /\ sinksDone \in BOOLEAN
    /\ restart \in [Restarts -> {"off", "checkSources", "callSources", "clearSources",
                                 "checkSinks", "callSinks", "clearSinks", "sleep", "done"}]
    /\ auditor \in {"off", "select", "busy", "stopped"}
    /\ source \in {"off", "sync", "watching", "stopped"}
    /\ deltas \in 0..QueueCap
    /\ informer \in [Informers -> {"idle", "queue", "event"}]
    /\ listener \in {"idle", "event"}
    /\ commands \in 0..MaxCommands

LEMMA LifeNextValues == LifeValues /\ [LifeNext]_lifeVars => LifeValues'
<1> SUFFICES ASSUME LifeValues, [LifeNext]_lifeVars PROVE LifeValues' OBVIOUS
<1> USE QueueCapAssumption, MaxCommandsAssumption
<1> USE DEF LifeValues, ctxVars, sourceVars, senderVars
<1>1. CASE MainStep BY <1>1 DEF MainStep, Authorized, AuthorizationTimeout
<1>2. ASSUME NEW r \in Restarts, RestartPacket(r) \/ RestartStep(r) PROVE LifeValues'
  <2>1. CASE RestartPacket(r) BY <2>1 DEF RestartPacket, RestartGoto
  <2>2. CASE CheckSources(r) BY <2>2 DEF CheckSources, RestartGoto
  <2>3. CASE CallSources(r) BY <2>3 DEF CallSources, RestartGoto
  <2>4. CASE ClearSources(r) BY <2>4 DEF ClearSources, RestartGoto
  <2>5. CASE CheckSinks(r) BY <2>5 DEF CheckSinks, RestartGoto
  <2>6. CASE CallSinks(r) BY <2>6 DEF CallSinks, RestartGoto
  <2>7. CASE ClearSinks(r) BY <2>7 DEF ClearSinks, RestartGoto
  <2>8. CASE RestartExit(r) BY <2>8 DEF RestartExit, RestartGoto
  <2> QED BY <1>2, <2>1, <2>2, <2>3, <2>4, <2>5, <2>6, <2>7, <2>8 DEF RestartStep
<1>3. StartAudit =>
        /\ auditor' \in {"off", "select", "busy", "stopped"}
        /\ UNCHANGED <<main, process, ctxVars, restart>>
    BY DEF StartAudit
<1>4. CASE TakeSync BY <1>3, <1>4 DEF TakeSync
<1>5. ASSUME NEW i \in Informers, TakeNotice(i) PROVE LifeValues'
    BY <1>3, <1>5 DEF TakeNotice
<1>6. CASE TakePolicies BY <1>3, <1>6 DEF TakePolicies
<1>7. CASE TakeCommand BY <1>3, <1>7 DEF TakeCommand
<1>8. CASE Periodic BY <1>3, <1>8 DEF Periodic
<1>9. CASE AuditorStep BY <1>9 DEF AuditorStep, AuditorSends, AuditDone, AuditorStop
<1>10. ASSUME NEW i \in Informers, Notice(i) \/ QueueDelta(i) PROVE LifeValues'
  <2>1. CASE Notice(i) BY <2>1 DEF Notice
  <2>2. CASE QueueDelta(i) BY <2>2 DEF QueueDelta
  <2> QED BY <1>10, <2>1, <2>2
<1>11. CASE TakeDelta \/ StopDeltas BY <1>11 DEF TakeDelta, StopDeltas
<1>12. CASE Request \/ Command BY <1>12 DEF Request, Command
<1>13. CASE WorkerTakes \/ WorkerTicks \/ LifeTick
    BY <1>13 DEF WorkerTakes, WorkerTicks, LifeTick
<1>14. CASE UNCHANGED lifeVars BY <1>14 DEF lifeVars
<1> QED BY <1>1, <1>2, <1>4, <1>5, <1>6, <1>7, <1>8, <1>9, <1>10, <1>11, <1>12, <1>13,
           <1>14 DEF LifeNext

\* The agent's variables keep their types, for any number of informers, restarts
\* and commands; among them, deltasQueue never holds more than its capacity and
\* the result channel and buffer never more than theirs.
THEOREM LifeTypeCorrect == LifeSpec => []LifeTypeOK
<1> DEFINE Inv == RBInv /\ LifeValues
<1>1. LifeInit => Inv
  <2>1. 0 \in 0..QueueCap /\ 0 \in 0..MaxCommands
      BY QueueCapAssumption, MaxCommandsAssumption
  <2>2. LifeInit => LifeValues BY <2>1, Zenon DEF LifeInit, LifeValues
  <2> QED BY <2>2, RBInitInv DEF LifeInit
<1>2. Inv /\ [LifeNext]_lifeVars => Inv' BY LifeStep, RBNextInv, LifeNextValues
<1>3. Inv => LifeTypeOK BY DEF RBInv, LifeValues, LifeTypeOK
<1> HIDE DEF Inv
<1> QED BY <1>1, <1>2, <1>3, PTL DEF LifeSpec
=============================================================================
