------------------------------ MODULE LogsProofs ------------------------------
(* Proofs about the log batches, for any number of goroutines and any batch   *)
(* size: what a Sync without logM can not break, whenever it comes.           *)
EXTENDS Logs, FiniteSetTheorems, TLAPS

Places == FlushSteps \cup {"out", "lock", "length", "item"}

\* What the values need to stay well-formed.
LogValues ==
    /\ logM \in Goroutines \cup {None}
    /\ logBuffer \in Slices
    /\ seen \in Slices
    /\ arrays \in [Arrays -> [1..logBatchSize -> Nat]]
    /\ at \in [Goroutines -> Places]
    /\ queue \in 0..logExpiryCount
    /\ dropped \subseteq Goroutines
    /\ payload \in [Goroutines -> Seq(Nat)]
    /\ \A g \in Goroutines : Len(payload[g]) <= logBatchSize
    /\ written \in Nat /\ shipped \in Nat

\* Who appends holds logM, and began when there was room; who holds logM and
\* has reset the buffer finds it empty.
Appending ==
    \A g \in Goroutines :
        /\ at[g] \in {"length", "item"} => logM = g
        /\ at[g] = "length" => seen.len < logBatchSize
        /\ (at[g] \in {"renew", "pipe"} /\ logM = g) => logBuffer.len = 0

LogInv == LogValues /\ Appending /\ RoomForNextLine

LEMMA LogInvInit == LogsInit => LogInv
<1> SUFFICES ASSUME LogsInit PROVE LogInv
    OBVIOUS
<1> USE BatchAssumption
<1>1. EmptyArray \in [1..logBatchSize -> Nat]
    BY DEF EmptyArray, Blank
<1>2. LogValues
    BY <1>1 DEF LogsInit, LogValues, Slices, Arrays, Places
<1>3. Appending /\ RoomForNextLine
    BY GoroutinesAssumption DEF LogsInit, Appending, RoomForNextLine
<1> QED BY <1>2, <1>3 DEF LogInv

\* The steps of the callers: none touches the buffer, and none enters Write's
\* critical section or leaves flushLogs.
Outside(g) == Write(g) \/ Sync(g) \/ SyncReport(g) \/ SendLogs(g) \/ SendFails(g) \/ PutBack(g)

LEMMA OutsideKeeps ==
    ASSUME LogInv, NEW g \in Goroutines, Outside(g)
    PROVE  LogInv'
<1> USE BatchAssumption
<1>1. UNCHANGED <<logM, logBuffer, seen, arrays, payload, written, shipped>>
    BY DEF Outside, Write, Sync, SyncReport, SendLogs, SendFails, PutBack, bufferVars, ghostVars
<1>2. at' \in [Goroutines -> Places]
    BY DEF LogInv, LogValues, Outside, Write, Sync, SyncReport, SendLogs, SendFails, PutBack,
           Goto, Places, FlushSteps
<1>3. \A h \in Goroutines : at'[h] = at[h] \/ at'[h] \in {"lock", "make"}
    BY DEF LogInv, LogValues, Outside, Write, Sync, SyncReport, SendLogs, SendFails, PutBack, Goto
<1>4. queue' \in 0..logExpiryCount
    BY DEF LogInv, LogValues, Outside, Write, Sync, SyncReport, SendLogs, SendFails, PutBack, Take
<1>5. dropped' \subseteq Goroutines
    BY DEF LogInv, LogValues, Outside, Write, Sync, SyncReport, SendLogs, SendFails, PutBack, Take
<1>6. LogValues'
    BY <1>1, <1>2, <1>4, <1>5 DEF LogInv, LogValues
<1>7. Appending' /\ RoomForNextLine'
    BY <1>1, <1>3 DEF LogInv, Appending, RoomForNextLine
<1> QED BY <1>6, <1>7 DEF LogInv

\* A step of Write or of flushLogs moves one goroutine.
LEMMA GotoMoves ==
    ASSUME LogValues, NEW g \in Goroutines, NEW from, NEW to \in Places, Goto(g, from, to)
    PROVE  /\ at[g] = from
           /\ at' \in [Goroutines -> Places]
           /\ at'[g] = to
           /\ \A h \in Goroutines \ {g} : at'[h] = at[h]
BY DEF LogValues, Goto

LEMMA WriteLockKeeps ==
    ASSUME LogInv, NEW g \in Goroutines, WriteLock(g)
    PROVE  LogInv'
<1> USE BatchAssumption, GoroutinesAssumption
<1> DEFINE to == IF shouldSendLogs THEN "length" ELSE "out"
<1>1. Goto(g, "lock", to) /\ to \in Places
    BY DEF WriteLock, Places
<1>2. /\ at' \in [Goroutines -> Places]
      /\ at'[g] = to
      /\ \A h \in Goroutines \ {g} : at'[h] = at[h]
    <2> HIDE DEF to
    <2> QED BY <1>1, GotoMoves DEF LogInv
<1>3. LogValues'
    BY <1>2 DEF WriteLock, LogInv, LogValues
<1>4. RoomForNextLine /\ logM = None /\ seen' = logBuffer /\ logBuffer' = logBuffer
    BY DEF WriteLock, LogInv
<1>5. RoomForNextLine'
    BY <1>4 DEF RoomForNextLine
<1>6. logM' = IF shouldSendLogs THEN g ELSE None
    BY DEF WriteLock
<1>7. Appending'
    <2> SUFFICES ASSUME NEW h \in Goroutines
                 PROVE  /\ at'[h] \in {"length", "item"} => logM' = h
                        /\ at'[h] = "length" => seen'.len < logBatchSize
                        /\ (at'[h] \in {"renew", "pipe"} /\ logM' = h) => logBuffer'.len = 0
        BY DEF Appending
    <2>1. CASE h = g
        BY <2>1, <1>2, <1>4, <1>6 DEF RoomForNextLine
    <2>2. CASE h # g
        BY <2>2, <1>2, <1>4, <1>6 DEF LogInv, Appending
    <2> QED BY <2>1, <2>2
<1> QED BY <1>3, <1>5, <1>7 DEF LogInv

LEMMA AppendLengthKeeps ==
    ASSUME LogInv, NEW g \in Goroutines, AppendLength(g)
    PROVE  LogInv'
<1> USE BatchAssumption, GoroutinesAssumption
<1>1. Goto(g, "length", "item") /\ "item" \in Places
    BY DEF AppendLength, Places
<1>2. /\ at[g] = "length"
      /\ at' \in [Goroutines -> Places]
      /\ at'[g] = "item"
      /\ \A h \in Goroutines \ {g} : at'[h] = at[h]
    BY <1>1, GotoMoves DEF LogInv
<1>3. logM = g /\ seen.len < logBatchSize
    BY <1>2 DEF LogInv, Appending
<1>4. logBuffer' \in Slices
    BY <1>3 DEF AppendLength, LogInv, LogValues, Slices
<1>5. LogValues'
    BY <1>2, <1>4 DEF AppendLength, LogInv, LogValues, ghostVars
<1>6. UNCHANGED <<logM, seen>>
    BY DEF AppendLength
<1>7. RoomForNextLine'
    BY <1>3, <1>6 DEF RoomForNextLine
<1>8. Appending'
    BY <1>2, <1>3, <1>6 DEF LogInv, Appending
<1> QED BY <1>5, <1>7, <1>8 DEF LogInv

LEMMA AppendItemKeeps ==
    ASSUME LogInv, NEW g \in Goroutines, AppendItem(g)
    PROVE  LogInv'
<1> USE BatchAssumption, GoroutinesAssumption
<1> DEFINE to == IF Full THEN "make" ELSE "out"
<1>1. Goto(g, "item", to) /\ to \in Places
    BY DEF AppendItem, Places, FlushSteps
<1>2. /\ at[g] = "item"
      /\ at' \in [Goroutines -> Places]
      /\ at'[g] = to
      /\ \A h \in Goroutines \ {g} : at'[h] = at[h]
    <2> HIDE DEF to
    <2> QED BY <1>1, GotoMoves DEF LogInv
<1>3. logM = g
    BY <1>2 DEF LogInv, Appending
<1>4. arrays' \in [Arrays -> [1..logBatchSize -> Nat]]
    <2> DEFINE row == [arrays[seen.array] EXCEPT ![seen.len + 1] = written + 1]
    <2>1. arrays \in [Arrays -> [1..logBatchSize -> Nat]] /\ seen.array \in Arrays
        BY DEF LogInv, LogValues, Slices
    <2>2. row \in [1..logBatchSize -> Nat]
        <3> DEFINE old == arrays[seen.array]
                   k == seen.len + 1
                   n == written + 1
        <3>1. old \in [1..logBatchSize -> Nat] /\ n \in Nat
            BY <2>1 DEF LogInv, LogValues
        <3>2. row = [old EXCEPT ![k] = n]
            OBVIOUS
        <3> HIDE DEF old, k, n
        <3> QED BY <3>1, <3>2
    <2>3. EmptyArray \in [1..logBatchSize -> Nat]
        BY DEF EmptyArray, Blank
    <2>4. arrays' = [arrays EXCEPT ![seen.array] = row] \/ arrays' = [arrays EXCEPT ![seen.array] = EmptyArray]
        BY DEF AppendItem
    <2> HIDE DEF row
    <2> QED BY <2>1, <2>2, <2>3, <2>4
<1>5. /\ UNCHANGED <<logBuffer, seen, payload, queue, dropped, shipped>>
      /\ logM' = IF Full THEN g ELSE None
      /\ written' = written + 1
    BY DEF AppendItem
<1>6. LogValues'
    BY <1>2, <1>4, <1>5 DEF LogInv, LogValues
<1>7. RoomForNextLine'
    BY <1>5 DEF RoomForNextLine, Full, LogInv, LogValues, Slices
<1>8. Appending'
    BY <1>2, <1>3, <1>5 DEF LogInv, Appending
<1> QED BY <1>6, <1>7, <1>8 DEF LogInv

LEMMA FlushMakeKeeps ==
    ASSUME LogInv, NEW g \in Goroutines, FlushMake(g)
    PROVE  LogInv'
<1> USE BatchAssumption
<1>1. Goto(g, "make", "copy") /\ "copy" \in Places
    BY DEF FlushMake, Places, FlushSteps
<1>2. /\ at' \in [Goroutines -> Places]
      /\ at'[g] = "copy"
      /\ \A h \in Goroutines \ {g} : at'[h] = at[h]
    BY <1>1, GotoMoves DEF LogInv
<1> DEFINE p == [i \in 1..logBuffer.len |-> Blank]
<1>3. logBuffer.len \in 0..logBatchSize
    BY DEF LogInv, LogValues, Slices
<1>4. p \in Seq(Nat) /\ Len(p) = logBuffer.len
    BY <1>3 DEF Blank
<1>5. payload' = [payload EXCEPT ![g] = p]
    BY DEF FlushMake
<1>6. UNCHANGED <<logM, logBuffer, seen, arrays, queue, dropped, written, shipped>>
    BY DEF FlushMake, bufferVars, ghostVars
<1> HIDE DEF p
<1>7. payload' \in [Goroutines -> Seq(Nat)] /\ \A h \in Goroutines : Len(payload'[h]) <= logBatchSize
    BY <1>3, <1>4, <1>5 DEF LogInv, LogValues
<1>8. LogValues'
    BY <1>2, <1>6, <1>7 DEF LogInv, LogValues
<1>9. Appending' /\ RoomForNextLine'
    BY <1>2, <1>6 DEF LogInv, Appending, RoomForNextLine
<1> QED BY <1>8, <1>9 DEF LogInv

LEMMA FlushCopyKeeps ==
    ASSUME LogInv, NEW g \in Goroutines, FlushCopy(g)
    PROVE  LogInv'
<1> USE BatchAssumption
<1>1. Goto(g, "copy", "reset") /\ "reset" \in Places
    BY DEF FlushCopy, Places, FlushSteps
<1>2. /\ at' \in [Goroutines -> Places]
      /\ at'[g] = "reset"
      /\ \A h \in Goroutines \ {g} : at'[h] = at[h]
    BY <1>1, GotoMoves DEF LogInv
<1> DEFINE old == payload[g]
           p == [i \in 1..Len(old) |->
                    IF i <= logBuffer.len THEN arrays[logBuffer.array][i] ELSE old[i]]
<1>3. /\ old \in Seq(Nat)
      /\ Len(old) <= logBatchSize
      /\ arrays[logBuffer.array] \in [1..logBatchSize -> Nat]
      /\ logBuffer.len \in 0..logBatchSize
    BY DEF LogInv, LogValues, Slices
<1>4. payload' = [payload EXCEPT ![g] = p]
    BY DEF FlushCopy, LogInv, LogValues
<1>5. p \in Seq(Nat) /\ Len(p) = Len(old)
    <2> HIDE DEF old
    <2>1. Len(old) \in Nat
        BY <1>3
    <2>2. \A i \in 1..Len(old) : p[i] \in Nat
        BY <1>3, <2>1
    <2> QED BY <2>1, <2>2
<1>6. UNCHANGED <<logM, logBuffer, seen, arrays, queue, dropped, written, shipped>>
    BY DEF FlushCopy, bufferVars, ghostVars
<1> HIDE DEF p, old
<1>7. payload' \in [Goroutines -> Seq(Nat)] /\ \A h \in Goroutines : Len(payload'[h]) <= logBatchSize
    BY <1>3, <1>4, <1>5 DEF LogInv, LogValues
<1>8. LogValues'
    BY <1>2, <1>6, <1>7 DEF LogInv, LogValues
<1>9. Appending' /\ RoomForNextLine'
    BY <1>2, <1>6 DEF LogInv, Appending, RoomForNextLine
<1> QED BY <1>8, <1>9 DEF LogInv

LEMMA FlushResetKeeps ==
    ASSUME LogInv, NEW g \in Goroutines, FlushReset(g)
    PROVE  LogInv'
<1> USE BatchAssumption
<1>1. Goto(g, "reset", "renew") /\ "renew" \in Places
    BY DEF FlushReset, Places, FlushSteps
<1>2. /\ at' \in [Goroutines -> Places]
      /\ at'[g] = "renew"
      /\ \A h \in Goroutines \ {g} : at'[h] = at[h]
    BY <1>1, GotoMoves DEF LogInv
<1>3. logBuffer' \in Slices /\ logBuffer'.len = 0
    <2>1. logBuffer \in Slices
        BY DEF LogInv, LogValues
    <2>2. logBuffer' = [array |-> logBuffer.array, len |-> 0]
        BY <2>1 DEF FlushReset, Slices
    <2> QED BY <2>1, <2>2 DEF Slices
<1>4. UNCHANGED <<logM, arrays, seen, payload, queue, dropped, written, shipped>>
    BY DEF FlushReset, ghostVars
<1>5. LogValues'
    BY <1>2, <1>3, <1>4 DEF LogInv, LogValues
<1>6. Appending' /\ RoomForNextLine'
    BY <1>2, <1>3, <1>4 DEF LogInv, Appending, RoomForNextLine
<1> QED BY <1>5, <1>6 DEF LogInv

\* There is always an array that no append holds.
LEMMA NewArray ==
    ASSUME LogValues
    PROVE  /\ (CHOOSE a \in Arrays : a \notin Kept) \in Arrays
           /\ (CHOOSE a \in Arrays : a \notin Kept) \notin Kept
<1>1. \E a \in Arrays : a \notin Kept
    <2>1. 0 \in Arrays /\ 1 \in Arrays
        BY DEF Arrays
    <2>2. Kept \subseteq {seen.array}
        BY DEF Kept
    <2> QED BY <2>1, <2>2
<1> QED BY <1>1

LEMMA FlushRenewKeeps ==
    ASSUME LogInv, NEW g \in Goroutines, FlushRenew(g)
    PROVE  LogInv'
<1> USE BatchAssumption
<1>1. Goto(g, "renew", "pipe") /\ "pipe" \in Places
    BY DEF FlushRenew, Places, FlushSteps
<1>2. /\ at[g] = "renew"
      /\ at' \in [Goroutines -> Places]
      /\ at'[g] = "pipe"
      /\ \A h \in Goroutines \ {g} : at'[h] = at[h]
    BY <1>1, GotoMoves DEF LogInv
<1>3. logBuffer' \in Slices /\ logBuffer'.len = logBuffer.len
    BY NewArray DEF FlushRenew, LogInv, LogValues, Slices
<1>4. arrays' \in [Arrays -> [1..logBatchSize -> Nat]]
    BY DEF FlushRenew, LogInv, LogValues, EmptyArray, Blank
<1>5. UNCHANGED <<logM, seen, payload, queue, dropped, written, shipped>>
    BY DEF FlushRenew, ghostVars
<1>6. LogValues'
    BY <1>2, <1>3, <1>4, <1>5 DEF LogInv, LogValues
<1>7. Appending' /\ RoomForNextLine'
    BY <1>2, <1>3, <1>5 DEF LogInv, Appending, RoomForNextLine
<1> QED BY <1>6, <1>7 DEF LogInv

LEMMA FlushPipeKeeps ==
    ASSUME LogInv, NEW g \in Goroutines, FlushPipe(g)
    PROVE  LogInv'
<1> USE BatchAssumption, GoroutinesAssumption
<1>1. Goto(g, "pipe", "out") /\ "out" \in Places
    BY DEF FlushPipe, Places
<1>2. /\ at[g] = "pipe"
      /\ at' \in [Goroutines -> Places]
      /\ at'[g] = "out"
      /\ \A h \in Goroutines \ {g} : at'[h] = at[h]
    BY <1>1, GotoMoves DEF LogInv
<1>3. UNCHANGED <<logBuffer, seen, arrays, written>>
    BY DEF FlushPipe, bufferVars
<1>4. logM' = IF logM = g THEN None ELSE logM
    BY DEF FlushPipe
<1>5. queue' \in 0..logExpiryCount /\ dropped' \subseteq Goroutines
    BY DEF FlushPipe, LogInv, LogValues
<1>6. payload' \in [Goroutines -> Seq(Nat)] /\ \A h \in Goroutines : Len(payload'[h]) <= logBatchSize
    <2>1. payload' = [payload EXCEPT ![g] = <<>>]
        BY DEF FlushPipe
    <2>2. <<>> \in Seq(Nat) /\ Len(<<>>) = 0
        OBVIOUS
    <2> QED BY <2>1, <2>2 DEF LogInv, LogValues
<1>7. shipped' \in Nat
    BY DEF FlushPipe, LogInv, LogValues
<1>8. LogValues'
    BY <1>2, <1>3, <1>4, <1>5, <1>6, <1>7 DEF LogInv, LogValues
<1>9. RoomForNextLine'
    BY <1>2, <1>3, <1>4 DEF LogInv, Appending, RoomForNextLine
<1>10. Appending'
    BY <1>2, <1>3, <1>4 DEF LogInv, Appending
<1> QED BY <1>8, <1>9, <1>10 DEF LogInv

LEMMA LogInvStep == LogInv /\ [LogsNext]_logVars => LogInv'
<1> SUFFICES ASSUME LogInv, [LogsNext]_logVars PROVE LogInv'
    OBVIOUS
<1>1. CASE UNCHANGED logVars
    BY <1>1 DEF logVars, bufferVars, ghostVars, LogInv, LogValues, Appending, RoomForNextLine
<1>2. CASE LogsNext
    <2>1. PICK g \in Goroutines :
              LogStep(g) \/ CallerStep(g) \/ Sync(g) \/ SyncReport(g) \/ SendFails(g)
        BY <1>2 DEF LogsNext
    <2>2. CASE Outside(g)
        BY <2>2, OutsideKeeps
    <2>3. CASE WriteLock(g)
        BY <2>3, WriteLockKeeps
    <2>4. CASE AppendLength(g)
        BY <2>4, AppendLengthKeeps
    <2>5. CASE AppendItem(g)
        BY <2>5, AppendItemKeeps
    <2>6. CASE FlushMake(g)
        BY <2>6, FlushMakeKeeps
    <2>7. CASE FlushCopy(g)
        BY <2>7, FlushCopyKeeps
    <2>8. CASE FlushReset(g)
        BY <2>8, FlushResetKeeps
    <2>9. CASE FlushRenew(g)
        BY <2>9, FlushRenewKeeps
    <2>10. CASE FlushPipe(g)
        BY <2>10, FlushPipeKeeps
    <2> QED BY <2>1, <2>2, <2>3, <2>4, <2>5, <2>6, <2>7, <2>8, <2>9, <2>10
            DEF LogStep, FlushStep, CallerStep, Outside
<1> QED BY <1>1, <1>2

\* The buffer, the arrays and the payloads keep their shape, and no slice gets
\* longer than its array, however Syncs and Writes overlap.
THEOREM LogTypeCorrect == LogsSpec => []LogTypeOK
<1>1. LogInv => LogTypeOK
    BY DEF LogInv, LogValues, LogTypeOK, Places
<1> QED BY <1>1, LogInvInit, LogInvStep, PTL DEF LogsSpec

\* Write's test len == logBatchSize never misses: when logM is free the buffer
\* has room, although Sync empties it without logM.
THEOREM AlwaysRoomForNextLine == LogsSpec => []RoomForNextLine
<1>1. LogInv => RoomForNextLine
    BY DEF LogInv
<1> QED BY <1>1, LogInvInit, LogInvStep, PTL DEF LogsSpec

------------------------------------------------------------------------------
(* As long as no Sync has overlapped, the goroutine that is inside Write or    *)
(* flushLogs is alone there, and where it stands says which lines are where.   *)

Inside(g) == at[g] \in FlushSteps \cup {"length", "item"}

\* The first n items of the buffer are the lines that come next.
BufferHas(n) == \A i \in 1..n : arrays[logBuffer.array][i] = shipped + i

\* Every line is in a package or in the buffer.
Settled == written = shipped + logBuffer.len /\ BufferHas(logBuffer.len)

PayloadRight(g) == \A i \in 1..Len(payload[g]) : payload[g][i] = shipped + i

Phase(g) ==
    /\ at[g] = "length" => Settled /\ seen = logBuffer
    /\ at[g] = "item" =>
         /\ logBuffer = [array |-> seen.array, len |-> seen.len + 1]
         /\ written = shipped + seen.len
         /\ BufferHas(seen.len)
    /\ at[g] \in {"make", "copy", "reset"} => Settled
    /\ at[g] = "copy" => Len(payload[g]) = logBuffer.len
    /\ at[g] = "reset" => Len(payload[g]) = logBuffer.len /\ PayloadRight(g)
    /\ at[g] \in {"renew", "pipe"} =>
         /\ logBuffer.len = 0
         /\ written = shipped + Len(payload[g])
         /\ PayloadRight(g)

Alone == \A g, h \in Goroutines : Inside(g) /\ Inside(h) => g = h

LinesInv ==
    ~raced =>
        /\ inOrder
        /\ Alone
        /\ (\A g \in Goroutines : ~Inside(g)) => Settled
        /\ \A g \in Goroutines : Phase(g)

LEMMA LinesInvInit == LogsInit => LinesInv
<1> SUFFICES ASSUME LogsInit PROVE LinesInv
    OBVIOUS
<1>1. \A g \in Goroutines : at[g] = "out"
    BY DEF LogsInit
<1>2. Settled
    BY DEF LogsInit, Settled, BufferHas
<1>3. inOrder
    BY DEF LogsInit
<1> QED BY <1>1, <1>2, <1>3 DEF LinesInv, Alone, Inside, Phase, FlushSteps

\* A goroutine inside Write or flushLogs is one that Sync and Write look for
\* when they note a race.
LEMMA InsideIsSeen ==
    ASSUME LogInv, NEW g \in Goroutines, Inside(g)
    PROVE  logM = g \/ Syncing(g)
BY DEF LogInv, Appending, Inside, Syncing

\* The state that LinesInv is about.
LineState == <<logBuffer, arrays, seen, payload, written, shipped, inOrder>>

LEMMA OutsideLines ==
    ASSUME LogInv, LinesInv, NEW g \in Goroutines, Outside(g)
    PROVE  LinesInv'
<1> SUFFICES ASSUME ~raced' PROVE LinesInv'
    BY DEF LinesInv
<1> USE GoroutinesAssumption
<1>1. UNCHANGED LineState
    BY DEF Outside, Write, Sync, SyncReport, SendLogs, SendFails, PutBack, bufferVars, ghostVars,
           LineState
<1>2. ~raced
    BY DEF Outside, Write, Sync, SyncReport, SendLogs, SendFails, PutBack, ghostVars
<1>3. inOrder /\ Alone /\ ((\A h \in Goroutines : ~Inside(h)) => Settled) /\ \A h \in Goroutines : Phase(h)
    BY <1>2 DEF LinesInv
<1>4. CASE Sync(g)
    <2>1. \A h \in Goroutines : ~Inside(h)
        BY <1>4, InsideIsSeen DEF Sync
    <2>2. Settled
        BY <1>3, <2>1
    <2>3. at'[g] = "make" /\ \A h \in Goroutines \ {g} : at'[h] = at[h]
        BY <1>4 DEF Sync, Goto, LogInv, LogValues
    <2>4. Settled'
        BY <2>2, <1>1 DEF Settled, BufferHas, LineState
    <2>5. Inside(g)' /\ \A h \in Goroutines \ {g} : ~Inside(h)'
        BY <2>1, <2>3 DEF Inside, FlushSteps
    <2>6. \A h \in Goroutines : Phase(h)'
        BY <2>3, <2>4, <2>5 DEF Phase, Inside, FlushSteps
    <2>7. inOrder'
        BY <1>1, <1>3 DEF LineState
    <2>8. Alone'
        BY <2>5 DEF Alone
    <2> QED BY <2>4, <2>6, <2>7, <2>8 DEF LinesInv
<1>5. CASE ~Sync(g)
    <2>1. \A h \in Goroutines : at'[h] = at[h] \/ (at[h] = "out" /\ at'[h] = "lock")
        BY <1>5 DEF LogInv, LogValues, Outside, Write, SyncReport, SendLogs, SendFails, PutBack, Goto
    <2>2. \A h \in Goroutines : Inside(h)' <=> Inside(h)
        BY <2>1 DEF Inside, FlushSteps
    <2>3. Settled' <=> Settled
        BY <1>1 DEF Settled, BufferHas, LineState
    <2>4. \A h \in Goroutines : Phase(h)'
        <3> SUFFICES ASSUME NEW h \in Goroutines PROVE Phase(h)'
            OBVIOUS
        <3>1. Phase(h)
            BY <1>3
        <3>2. CASE at'[h] = at[h]
            BY <3>1, <3>2, <1>1, <2>3 DEF Phase, PayloadRight, BufferHas, LineState
        <3>3. CASE at'[h] = "lock"
            BY <3>3 DEF Phase
        <3> QED BY <3>2, <3>3, <2>1
    <2>5. Alone'
        BY <1>3, <2>2 DEF Alone
    <2>6. inOrder' /\ ((\A h \in Goroutines : ~Inside(h)') => Settled')
        BY <1>1, <1>3, <2>2, <2>3 DEF LineState
    <2> QED BY <2>4, <2>5, <2>6 DEF LinesInv
<1> QED BY <1>4, <1>5

LEMMA WriteLockLines ==
    ASSUME LogInv, LinesInv, NEW g \in Goroutines, WriteLock(g)
    PROVE  LinesInv'
<1> SUFFICES ASSUME ~raced' PROVE LinesInv'
    BY DEF LinesInv
<1> USE GoroutinesAssumption
<1>1. ~raced /\ logM = None /\ \A h \in Goroutines : ~Syncing(h)
    BY DEF WriteLock
<1>2. \A h \in Goroutines : ~Inside(h)
    BY <1>1, InsideIsSeen
<1>3. Settled /\ inOrder
    BY <1>1, <1>2 DEF LinesInv
<1>4. UNCHANGED <<logBuffer, arrays, written, shipped, inOrder>> /\ seen' = logBuffer
    BY DEF WriteLock
<1>5. Settled'
    BY <1>3, <1>4 DEF Settled, BufferHas
<1>6. at'[g] \in {"length", "out"} /\ \A h \in Goroutines \ {g} : at'[h] = at[h]
    BY DEF WriteLock, Goto, LogInv, LogValues
<1>7. \A h \in Goroutines \ {g} : ~Inside(h)'
    BY <1>2, <1>6 DEF Inside
<1>8. Alone'
    BY <1>7 DEF Alone
<1>9. \A h \in Goroutines : Phase(h)'
    <2> SUFFICES ASSUME NEW h \in Goroutines PROVE Phase(h)'
        OBVIOUS
    <2>1. CASE h = g
        BY <2>1, <1>4, <1>5, <1>6 DEF Phase
    <2>2. CASE h # g
        BY <2>2, <1>7 DEF Phase, Inside, FlushSteps
    <2> QED BY <2>1, <2>2
<1> QED BY <1>3, <1>4, <1>5, <1>8, <1>9 DEF LinesInv

\* What the steps inside share: the goroutine is alone, and stays so.
LEMMA InsideStep ==
    ASSUME LogInv, LinesInv, ~raced, NEW g \in Goroutines, Inside(g),
           NEW from, NEW to \in Places, Goto(g, from, to)
    PROVE  /\ inOrder
           /\ Phase(g)
           /\ at[g] = from
           /\ at'[g] = to
           /\ \A h \in Goroutines \ {g} : ~Inside(h)'
           /\ Alone'
           /\ \A h \in Goroutines \ {g} : Phase(h)'
<1>1. inOrder /\ Alone /\ \A h \in Goroutines : Phase(h)
    BY DEF LinesInv
<1>2. at[g] = from /\ at'[g] = to /\ \A h \in Goroutines \ {g} : at'[h] = at[h]
    BY GotoMoves DEF LogInv
<1>3. \A h \in Goroutines \ {g} : ~Inside(h)
    BY <1>1 DEF Alone
<1>4. \A h \in Goroutines \ {g} : ~Inside(h)'
    BY <1>2, <1>3 DEF Inside
<1>5. Alone'
    BY <1>4 DEF Alone
<1>6. \A h \in Goroutines \ {g} : Phase(h)'
    BY <1>4 DEF Phase, Inside, FlushSteps
<1> QED BY <1>1, <1>2, <1>4, <1>5, <1>6

LEMMA AppendLengthLines ==
    ASSUME LogInv, LinesInv, NEW g \in Goroutines, AppendLength(g)
    PROVE  LinesInv'
<1> SUFFICES ASSUME ~raced' PROVE LinesInv'
    BY DEF LinesInv
<1>1. ~raced /\ Goto(g, "length", "item") /\ Inside(g) /\ "item" \in Places
    BY DEF AppendLength, ghostVars, Goto, Inside, Places
<1>2. /\ inOrder /\ Phase(g) /\ at[g] = "length" /\ at'[g] = "item"
      /\ Alone' /\ \A h \in Goroutines \ {g} : Phase(h)'
    BY <1>1, InsideStep
<1>3. Settled /\ seen = logBuffer
    BY <1>2 DEF Phase
<1>4. logBuffer' = [array |-> seen.array, len |-> seen.len + 1]
    BY <1>3 DEF AppendLength
<1>5. UNCHANGED <<arrays, seen, written, shipped, inOrder>>
    BY DEF AppendLength, ghostVars
<1>6. logBuffer'.array = seen.array
    BY <1>4
<1>7. BufferHas(seen.len)'
    BY <1>3, <1>5, <1>6 DEF Settled, BufferHas
<1>8. Phase(g)'
    BY <1>2, <1>3, <1>4, <1>5, <1>7 DEF Phase, Settled
<1>9. Inside(g)'
    BY <1>2 DEF Inside
<1> QED BY <1>2, <1>5, <1>8, <1>9 DEF LinesInv

LEMMA AppendItemLines ==
    ASSUME LogInv, LinesInv, NEW g \in Goroutines, AppendItem(g)
    PROVE  LinesInv'
<1> SUFFICES ASSUME ~raced' PROVE LinesInv'
    BY DEF LinesInv
<1> DEFINE to == IF Full THEN "make" ELSE "out"
<1>1. ~raced /\ Goto(g, "item", to) /\ Inside(g) /\ to \in Places
    BY DEF AppendItem, Goto, Inside, Places, FlushSteps
<1>2. /\ inOrder /\ Phase(g) /\ at[g] = "item" /\ at'[g] = to
      /\ Alone' /\ \A h \in Goroutines \ {g} : Phase(h)'
    <2> HIDE DEF to
    <2> QED BY <1>1, InsideStep
<1>3. /\ logBuffer = [array |-> seen.array, len |-> seen.len + 1]
      /\ written = shipped + seen.len
      /\ BufferHas(seen.len)
    BY <1>2 DEF Phase
<1>4. UNCHANGED <<logBuffer, seen, payload, shipped, inOrder>> /\ written' = written + 1
    BY DEF AppendItem
<1> DEFINE a == seen.array
           n == seen.len
<1>5. logBuffer.array = a /\ logBuffer.len = n + 1
    BY <1>3
<1>6. arrays' = [arrays EXCEPT ![a][n + 1] = written + 1]
    BY <1>5 DEF AppendItem
<1>7. /\ a \in Arrays /\ n \in Nat /\ n + 1 \in 1..logBatchSize
      /\ written \in Nat /\ shipped \in Nat
      /\ arrays \in [Arrays -> [1..logBatchSize -> Nat]]
    BY <1>5, BatchAssumption DEF LogInv, LogValues, Slices
<1>8. Settled'
    <2>1. written' = shipped + (n + 1)
        BY <1>3, <1>4, <1>7
    <2>2. arrays'[a][n + 1] = shipped + (n + 1) /\ \A i \in 1..n : arrays'[a][i] = arrays[a][i]
        <3> HIDE DEF a, n
        <3>1. written + 1 = shipped + (n + 1)
            BY <2>1, <1>4
        <3>2. arrays[a] \in [1..logBatchSize -> Nat]
            BY <1>7
        <3>3. arrays'[a] = [arrays[a] EXCEPT ![n + 1] = written + 1]
            BY <1>6, <1>7
        <3>4. arrays'[a][n + 1] = written + 1
            BY <3>2, <3>3, <1>7
        <3>5. \A i \in 1..n : arrays'[a][i] = arrays[a][i]
            <4> TAKE i \in 1..n
            <4>1. i \in 1..logBatchSize /\ i # n + 1
                BY <1>7, BatchAssumption
            <4> QED BY <4>1, <3>2, <3>3
        <3> QED BY <3>1, <3>4, <3>5
    <2>3. \A i \in 1..n : arrays[a][i] = shipped + i
        BY <1>3, <1>5 DEF BufferHas
    <2>4. \A i \in 1..(n + 1) : arrays'[a][i] = shipped + i
        <3> HIDE DEF a, n
        <3> QED BY <2>2, <2>3, <1>7
    <2>5. logBuffer'.array = a /\ logBuffer'.len = n + 1 /\ shipped' = shipped
        BY <1>4, <1>5
    <2> HIDE DEF a, n
    <2> QED BY <2>1, <2>4, <2>5 DEF Settled, BufferHas
<1>9. Phase(g)'
    BY <1>2, <1>8 DEF Phase
<1> QED BY <1>2, <1>4, <1>8, <1>9 DEF LinesInv

LEMMA FlushMakeLines ==
    ASSUME LogInv, LinesInv, NEW g \in Goroutines, FlushMake(g)
    PROVE  LinesInv'
<1> SUFFICES ASSUME ~raced' PROVE LinesInv'
    BY DEF LinesInv
<1>1. ~raced /\ Goto(g, "make", "copy") /\ Inside(g) /\ "copy" \in Places
    BY DEF FlushMake, ghostVars, Goto, Inside, Places, FlushSteps
<1>2. /\ inOrder /\ Phase(g) /\ at[g] = "make" /\ at'[g] = "copy"
      /\ Alone' /\ \A h \in Goroutines \ {g} : Phase(h)'
    BY <1>1, InsideStep
<1>3. UNCHANGED <<logBuffer, arrays, written, shipped, inOrder>>
    BY DEF FlushMake, bufferVars, ghostVars
<1>4. Settled'
    BY <1>2, <1>3 DEF Phase, Settled, BufferHas
<1>5. Len(payload'[g]) = logBuffer.len
    <2> DEFINE p == [i \in 1..logBuffer.len |-> Blank]
    <2>1. logBuffer.len \in Nat
        BY BatchAssumption DEF LogInv, LogValues, Slices
    <2>2. Len(p) = logBuffer.len
        BY <2>1
    <2>3. payload' = [payload EXCEPT ![g] = p]
        BY DEF FlushMake
    <2> HIDE DEF p
    <2> QED BY <2>2, <2>3 DEF LogInv, LogValues
<1>6. Phase(g)'
    BY <1>2, <1>3, <1>4, <1>5 DEF Phase
<1> QED BY <1>2, <1>3, <1>4, <1>6 DEF LinesInv

LEMMA FlushCopyLines ==
    ASSUME LogInv, LinesInv, NEW g \in Goroutines, FlushCopy(g)
    PROVE  LinesInv'
<1> SUFFICES ASSUME ~raced' PROVE LinesInv'
    BY DEF LinesInv
<1>1. ~raced /\ Goto(g, "copy", "reset") /\ Inside(g) /\ "reset" \in Places
    BY DEF FlushCopy, ghostVars, Goto, Inside, Places, FlushSteps
<1>2. /\ inOrder /\ Phase(g) /\ at[g] = "copy" /\ at'[g] = "reset"
      /\ Alone' /\ \A h \in Goroutines \ {g} : Phase(h)'
    BY <1>1, InsideStep
<1>3. UNCHANGED <<logBuffer, arrays, written, shipped, inOrder>>
    BY DEF FlushCopy, bufferVars, ghostVars
<1>4. Settled /\ Len(payload[g]) = logBuffer.len
    BY <1>2 DEF Phase
<1>5. Settled'
    BY <1>3, <1>4 DEF Settled, BufferHas
<1> DEFINE n == logBuffer.len
           p == [i \in 1..Len(payload[g]) |->
                    IF i <= n THEN arrays[logBuffer.array][i] ELSE payload[g][i]]
<1>6. n \in Nat
    BY BatchAssumption DEF LogInv, LogValues, Slices
<1>7. payload'[g] = p
    BY DEF FlushCopy, LogInv, LogValues
<1>8. Len(p) = n /\ \A i \in 1..n : p[i] = arrays[logBuffer.array][i]
    BY <1>4, <1>6
<1>9. \A i \in 1..n : p[i] = shipped + i
    <2>1. \A i \in 1..n : arrays[logBuffer.array][i] = shipped + i
        BY <1>4 DEF Settled, BufferHas
    <2> QED BY <1>8, <2>1
<1>10. Len(payload'[g]) = logBuffer'.len /\ PayloadRight(g)'
    <2>1. logBuffer'.len = n /\ shipped' = shipped
        BY <1>3
    <2> HIDE DEF p, n
    <2> QED BY <1>7, <1>8, <1>9, <2>1 DEF PayloadRight
<1>11. Phase(g)'
    BY <1>2, <1>5, <1>10 DEF Phase
<1> QED BY <1>2, <1>3, <1>5, <1>11 DEF LinesInv

LEMMA FlushResetLines ==
    ASSUME LogInv, LinesInv, NEW g \in Goroutines, FlushReset(g)
    PROVE  LinesInv'
<1> SUFFICES ASSUME ~raced' PROVE LinesInv'
    BY DEF LinesInv
<1>1. ~raced /\ Goto(g, "reset", "renew") /\ Inside(g) /\ "renew" \in Places
    BY DEF FlushReset, ghostVars, Goto, Inside, Places, FlushSteps
<1>2. /\ inOrder /\ Phase(g) /\ at[g] = "reset" /\ at'[g] = "renew"
      /\ Alone' /\ \A h \in Goroutines \ {g} : Phase(h)'
    BY <1>1, InsideStep
<1>3. UNCHANGED <<arrays, payload, written, shipped, inOrder>>
    BY DEF FlushReset, ghostVars
<1>4. logBuffer'.len = 0
    <2>1. logBuffer' = [array |-> logBuffer.array, len |-> 0]
        BY DEF FlushReset, LogInv, LogValues, Slices
    <2> QED BY <2>1
<1>5. written = shipped + Len(payload[g]) /\ PayloadRight(g)
    BY <1>2 DEF Phase, Settled
<1>6. PayloadRight(g)'
    BY <1>3, <1>5 DEF PayloadRight
<1>7. Phase(g)'
    BY <1>2, <1>3, <1>4, <1>5, <1>6 DEF Phase
<1>8. Inside(g)'
    BY <1>2 DEF Inside, FlushSteps
<1> QED BY <1>2, <1>3, <1>7, <1>8 DEF LinesInv

LEMMA FlushRenewLines ==
    ASSUME LogInv, LinesInv, NEW g \in Goroutines, FlushRenew(g)
    PROVE  LinesInv'
<1> SUFFICES ASSUME ~raced' PROVE LinesInv'
    BY DEF LinesInv
<1>1. ~raced /\ Goto(g, "renew", "pipe") /\ Inside(g) /\ "pipe" \in Places
    BY DEF FlushRenew, ghostVars, Goto, Inside, Places, FlushSteps
<1>2. /\ inOrder /\ Phase(g) /\ at[g] = "renew" /\ at'[g] = "pipe"
      /\ Alone' /\ \A h \in Goroutines \ {g} : Phase(h)'
    BY <1>1, InsideStep
<1>3. UNCHANGED <<payload, written, shipped, inOrder>>
    BY DEF FlushRenew, ghostVars
<1>4. logBuffer'.len = logBuffer.len
    BY DEF FlushRenew, LogInv, LogValues, Slices
<1>5. Phase(g)'
    BY <1>2, <1>3, <1>4 DEF Phase, PayloadRight
<1>6. Inside(g)'
    BY <1>2 DEF Inside, FlushSteps
<1> QED BY <1>2, <1>3, <1>5, <1>6 DEF LinesInv

LEMMA FlushPipeLines ==
    ASSUME LogInv, LinesInv, NEW g \in Goroutines, FlushPipe(g)
    PROVE  LinesInv'
<1> SUFFICES ASSUME ~raced' PROVE LinesInv'
    BY DEF LinesInv
<1>1. ~raced /\ Goto(g, "pipe", "out") /\ Inside(g) /\ "out" \in Places
    BY DEF FlushPipe, Goto, Inside, Places, FlushSteps
<1>2. /\ inOrder /\ Phase(g) /\ at[g] = "pipe" /\ at'[g] = "out"
      /\ Alone' /\ \A h \in Goroutines \ {g} : Phase(h)'
    BY <1>1, InsideStep
<1>3. logBuffer.len = 0 /\ written = shipped + Len(payload[g]) /\ PayloadRight(g)
    BY <1>2 DEF Phase
<1>4. UNCHANGED <<logBuffer, arrays, written>> /\ shipped' = shipped + Len(payload[g])
    BY DEF FlushPipe, bufferVars
<1>5. inOrder'
    BY <1>2, <1>3 DEF FlushPipe, PayloadRight
<1>6. Settled'
    <2>1. written' = shipped' + 0 /\ logBuffer'.len = 0
        BY <1>3, <1>4 DEF LogInv, LogValues
    <2> QED BY <2>1 DEF Settled, BufferHas
<1>7. Phase(g)'
    BY <1>2 DEF Phase
<1> QED BY <1>2, <1>5, <1>6, <1>7 DEF LinesInv

LEMMA LinesInvStep == LogInv /\ LinesInv /\ [LogsNext]_logVars => LinesInv'
<1> SUFFICES ASSUME LogInv, LinesInv, [LogsNext]_logVars PROVE LinesInv'
    OBVIOUS
<1>1. CASE UNCHANGED logVars
    BY <1>1 DEF logVars, bufferVars, ghostVars, LinesInv, Alone, Inside, Settled, BufferHas, Phase,
                PayloadRight
<1>2. CASE LogsNext
    <2>1. PICK g \in Goroutines :
              LogStep(g) \/ CallerStep(g) \/ Sync(g) \/ SyncReport(g) \/ SendFails(g)
        BY <1>2 DEF LogsNext
    <2>2. CASE Outside(g)
        BY <2>2, OutsideLines
    <2>3. CASE WriteLock(g)
        BY <2>3, WriteLockLines
    <2>4. CASE AppendLength(g)
        BY <2>4, AppendLengthLines
    <2>5. CASE AppendItem(g)
        BY <2>5, AppendItemLines
    <2>6. CASE FlushMake(g)
        BY <2>6, FlushMakeLines
    <2>7. CASE FlushCopy(g)
        BY <2>7, FlushCopyLines
    <2>8. CASE FlushReset(g)
        BY <2>8, FlushResetLines
    <2>9. CASE FlushRenew(g)
        BY <2>9, FlushRenewLines
    <2>10. CASE FlushPipe(g)
        BY <2>10, FlushPipeLines
    <2> QED BY <2>1, <2>2, <2>3, <2>4, <2>5, <2>6, <2>7, <2>8, <2>9, <2>10
            DEF LogStep, FlushStep, CallerStep, Outside
<1> QED BY <1>1, <1>2

\* Without an overlapping Sync no line is lost, repeated, blanked or moved, on
\* its way from Write to the pipe.
THEOREM LinesAlwaysKept == LogsSpec => []LinesKept
<1>1. LogInv /\ LinesInv => LinesKept
    <2> SUFFICES ASSUME LogInv, LinesInv, ~raced PROVE LinesKept
        BY DEF LinesKept
    <2>1. inOrder /\ ((\A g \in Goroutines : ~Inside(g)) => Settled)
        BY DEF LinesInv
    <2>2. (\A g \in Goroutines : at[g] \in {"out", "lock"}) => \A g \in Goroutines : ~Inside(g)
        BY DEF Inside, FlushSteps
    <2> QED BY <2>1, <2>2 DEF LinesKept, Settled, BufferHas
<1> QED BY <1>1, LogInvInit, LinesInvInit, LogInvStep, LinesInvStep, PTL DEF LogsSpec

------------------------------------------------------------------------------
(* Packages against lines: every package in the pipe, at a worker or sent, and *)
(* the one a Write is about to put there, is paid for by a batch of lines or   *)
(* by a Sync.  The lines that are in the buffer have not paid for any yet.     *)

\* Where the goroutine that holds logM stands.
Holder == IF logM = None THEN "free" ELSE at[logM]

\* The lines in the buffer, as who holds logM takes it: append goes on from the
\* length it has read even if a Sync has emptied the buffer since.
Level ==
    IF Holder = "free" THEN logBuffer.len
    ELSE IF Holder \in {"length", "item"} THEN seen.len ELSE 0

\* A Write is inside flushLogs.
WriteFlush == IF Holder \in FlushSteps THEN 1 ELSE 0

Packages == sends + queue + Cardinality(holding) + WriteFlush

\* The Syncs that have returned.
Synced == {g \in Syncers : syncs[g] = 1 /\ ~Syncing(g)}

Balance == logBatchSize * Packages + Level <= written + logBatchSize * Cardinality(Synced)

PaidTypes == sends \in Nat /\ syncs \in [Syncers -> {0, 1}] /\ holding \subseteq Goroutines

\* Who is inside flushLogs came from Write or from its Sync; who holds logM is
\* inside Write; and its append is undone by a Sync or it is not.
Callers ==
    /\ \A g \in Goroutines : Syncing(g) => g \in Syncers /\ syncs[g] = 1
    /\ Holder \in FlushSteps \cup {"free", "length", "item"}
    /\ Holder = "item" => logBuffer.len \in {0, seen.len + 1}

PaidInv == PaidTypes /\ Callers /\ Balance

LEMMA Monotone ==
    ASSUME NEW B \in Nat, NEW u \in Nat, NEW v \in Nat, v <= u
    PROVE  B * v <= B * u
<1>1. PICK k \in Nat : u = v + k
    <2>1. u - v \in Nat /\ u = v + (u - v)
        OBVIOUS
    <2> QED BY <2>1
<1>2. B * u = B * v + B * k /\ B * k >= 0
    BY <1>1
<1> QED BY <1>2

(* The arithmetic: B * u + l <= w + B * d for u packages, l lines in the *)
(* buffer, w lines written and d Syncs, before and after a step.         *)

LEMMA BalanceKept ==
    ASSUME NEW B \in Nat, NEW u \in Nat, NEW v \in Nat, NEW d \in Nat, NEW e \in Nat,
           NEW l \in Nat, NEW m \in Nat, NEW w \in Nat, NEW x \in Nat,
           B * u + l <= w + B * d, v <= u, d <= e, m <= l + (x - w)
    PROVE  B * v + m <= x + B * e
<1>1. B * v <= B * u /\ B * d <= B * e
    BY Monotone
<1>2. PICK bu \in Int, bv \in Int, bd \in Int, be \in Int :
         bu = B * u /\ bv = B * v /\ bd = B * d /\ be = B * e
    OBVIOUS
<1>3. bv + m <= x + be
    BY <1>1, <1>2
<1> QED BY <1>2, <1>3

LEMMA BalanceFilled ==
    ASSUME NEW B \in Nat, NEW u \in Nat, NEW v \in Nat, NEW d \in Nat, NEW e \in Nat,
           NEW l \in Nat, NEW m \in Nat, NEW w \in Nat, NEW x \in Nat,
           B * u + l <= w + B * d, v <= u + 1, d <= e, m <= l + (x - w) - B
    PROVE  B * v + m <= x + B * e
<1>1. B * v <= B * (u + 1) /\ B * d <= B * e /\ B * (u + 1) = B * u + B
    BY Monotone
<1>2. PICK bu \in Int, bv \in Int, bd \in Int, be \in Int :
         bu = B * u /\ bv = B * v /\ bd = B * d /\ be = B * e
    OBVIOUS
<1>3. bv <= bu + B /\ bd <= be
    BY <1>1, <1>2
<1>4. bv + m <= x + be
    BY <1>2, <1>3
<1> QED BY <1>2, <1>4

LEMMA BalanceEnded ==
    ASSUME NEW B \in Nat, NEW u \in Nat, NEW v \in Nat, NEW d \in Nat, NEW e \in Nat,
           NEW l \in Nat, NEW m \in Nat, NEW w \in Nat, NEW x \in Nat,
           B * u + l <= w + B * d, v <= u + 1, e = d + 1, m <= l, x = w
    PROVE  B * v + m <= x + B * e
<1>1. B * v <= B * (u + 1) /\ B * (u + 1) = B * u + B /\ B * e = B * d + B
    BY Monotone
<1>2. PICK bu \in Int, bv \in Int, bd \in Int :
         bu = B * u /\ bv = B * v /\ bd = B * d
    OBVIOUS
<1>3. bv <= bu + B
    BY <1>1, <1>2
<1>4. bv + m <= x + (bd + B)
    BY <1>2, <1>3
<1> QED BY <1>1, <1>2, <1>4

\* What is counted is a number.
Numbers ==
    /\ Packages \in Nat /\ Cardinality(holding) \in Nat /\ WriteFlush \in {0, 1}
    /\ Level \in Nat /\ written \in Nat /\ queue \in Nat /\ logBatchSize \in Nat
    /\ IsFiniteSet(holding) /\ IsFiniteSet(Syncers)
    /\ IsFiniteSet(Synced) /\ Cardinality(Synced) \in Nat

LEMMA PaidNumbers == LogValues /\ PaidTypes => Numbers
<1> SUFFICES ASSUME LogValues, PaidTypes PROVE Numbers
    OBVIOUS
<1> USE BatchAssumption, GoroutinesAssumption
<1>1. IsFiniteSet(holding) /\ IsFiniteSet(Syncers)
    BY FS_Subset DEF PaidTypes, Goroutines
<1>2. IsFiniteSet(Synced)
    BY <1>1, FS_Subset DEF Synced
<1>3. Cardinality(holding) \in Nat /\ Cardinality(Synced) \in Nat
    BY <1>1, <1>2, FS_CardinalityType
<1>4. WriteFlush \in {0, 1} /\ queue \in Nat /\ sends \in Nat /\ written \in Nat
    BY DEF WriteFlush, PaidTypes, LogValues
<1>5. Level \in Nat
    BY DEF Level, LogValues, Slices
<1> QED BY <1>1, <1>2, <1>3, <1>4, <1>5 DEF Packages, Numbers

\* What a step may do to the balance: nothing that costs; fill a batch; end a Sync.
LEMMA BalanceStep ==
    ASSUME LogValues, LogValues', PaidTypes, PaidTypes', Balance,
           \/ /\ Packages' <= Packages /\ Synced \subseteq Synced'
              /\ Level' <= Level + (written' - written) /\ written' \in {written, written + 1}
           \/ /\ Packages' <= Packages + 1 /\ Synced \subseteq Synced'
              /\ Level + 1 = logBatchSize /\ Level' = 0 /\ written' = written + 1
           \/ /\ Packages' <= Packages + 1 /\ Level' <= Level /\ written' = written
              /\ \E g \in Syncers \ Synced : Synced' = Synced \cup {g}
    PROVE  Balance'
<1> DEFINE keeps == /\ Packages' <= Packages /\ Synced \subseteq Synced'
                    /\ Level' <= Level + (written' - written) /\ written' \in {written, written + 1}
           fills == /\ Packages' <= Packages + 1 /\ Synced \subseteq Synced'
                    /\ Level + 1 = logBatchSize /\ Level' = 0 /\ written' = written + 1
           ends  == /\ Packages' <= Packages + 1 /\ Level' <= Level /\ written' = written
                    /\ \E g \in Syncers \ Synced : Synced' = Synced \cup {g}
<1> DEFINE B == logBatchSize
           u == Packages
           v == Packages'
           d == Cardinality(Synced)
           e == Cardinality(Synced')
<1>1. /\ B \in Nat /\ u \in Nat /\ v \in Nat /\ d \in Nat /\ e \in Nat
      /\ Level \in Nat /\ Level' \in Nat /\ written \in Nat /\ written' \in Nat
      /\ IsFiniteSet(Synced) /\ IsFiniteSet(Synced')
    <2>1. /\ B \in Nat /\ u \in Nat /\ d \in Nat /\ Level \in Nat /\ written \in Nat
          /\ IsFiniteSet(Synced)
        BY PaidNumbers DEF Numbers
    <2>2. (LogValues /\ PaidTypes => Numbers)'
        BY PaidNumbers, PTL
    <2>3. v \in Nat /\ e \in Nat /\ Level' \in Nat /\ written' \in Nat /\ IsFiniteSet(Synced')
        BY <2>2 DEF Numbers
    <2> QED BY <2>1, <2>3
<1>2. B * u + Level <= written + B * d
    BY DEF Balance
<1>3. (Synced \subseteq Synced') => d <= e
    BY <1>1, FS_Subset
<1>4. (\E g \in Syncers \ Synced : Synced' = Synced \cup {g}) => e = d + 1
    BY <1>1, FS_AddElement
<1>5. SUFFICES B * v + Level' <= written' + B * e
    BY DEF Balance
<1> HIDE DEF B, u, v, d, e
<1>6. CASE keeps
    <2>1. v <= u /\ d <= e /\ Level' <= Level + (written' - written)
        BY <1>3, <1>6 DEF u, v
    <2> QED BY <1>1, <1>2, <2>1, BalanceKept
<1>7. CASE fills
    <2>1. v <= u + 1 /\ d <= e /\ Level' <= Level + (written' - written) - B
        BY <1>1, <1>3, <1>7 DEF B, u, v
    <2> QED BY <1>1, <1>2, <2>1, BalanceFilled
<1>8. CASE ends
    <2>1. v <= u + 1 /\ e = d + 1 /\ Level' <= Level /\ written' = written
        BY <1>4, <1>8 DEF u, v
    <2> QED BY <1>1, <1>2, <2>1, BalanceEnded
<1> QED BY <1>6, <1>7, <1>8

\* Taking a package, sending it and putting it back: none is made.
LEMMA CallsPaid ==
    ASSUME LogInv, PaidTypes, NEW g \in Goroutines, Outside(g)
    PROVE  /\ PaidTypes'
           /\ sends' + queue' + Cardinality(holding') <= sends + queue + Cardinality(holding)
<1>1. LogValues
    BY DEF LogInv
<1>2. queue \in Nat /\ sends \in Nat /\ Cardinality(holding) \in Nat /\ IsFiniteSet(holding)
    BY <1>1, PaidNumbers DEF Numbers, PaidTypes
<1>3. CASE Write(g) \/ SyncReport(g)
    BY <1>2, <1>3 DEF Write, SyncReport, PaidTypes
<1>4. CASE Sync(g)
    BY <1>2, <1>4 DEF Sync, PaidTypes
<1>5. CASE SendLogs(g)
    BY <1>2, <1>5 DEF SendLogs, Take, PaidTypes
<1>6. CASE SendFails(g)
    <2>1. holding' = holding \cup {g} /\ queue' = queue - 1 /\ UNCHANGED <<sends, syncs>>
        BY <1>6 DEF SendFails, Take
    <2>2. Cardinality(holding') \in Nat /\ Cardinality(holding') <= Cardinality(holding) + 1
        <3>1. Cardinality(holding \cup {g})
                = IF g \in holding THEN Cardinality(holding) ELSE Cardinality(holding) + 1
            BY <1>2, FS_AddElement
        <3> QED BY <1>2, <2>1, <3>1
    <2> QED BY <1>2, <2>1, <2>2 DEF PaidTypes
<1>7. CASE PutBack(g)
    <2>1. /\ g \in holding /\ holding' = holding \ {g} /\ queue' \in {queue, queue + 1}
          /\ UNCHANGED <<sends, syncs>>
        BY <1>7 DEF PutBack
    <2>2. Cardinality(holding') = Cardinality(holding) - 1
        BY <1>2, <2>1, FS_RemoveElement
    <2> QED BY <1>2, <2>1, <2>2 DEF PaidTypes
<1> QED BY <1>3, <1>4, <1>5, <1>6, <1>7 DEF Outside

LEMMA OutsidePaid ==
    ASSUME LogInv, LogInv', PaidInv, NEW g \in Goroutines, Outside(g)
    PROVE  PaidInv'
<1> USE GoroutinesAssumption
<1>1. UNCHANGED <<logM, logBuffer, seen, written>>
    BY DEF Outside, Write, Sync, SyncReport, SendLogs, SendFails, PutBack, bufferVars, ghostVars
<1>2. LogValues /\ LogValues' /\ PaidTypes /\ Callers /\ Balance /\ logM \in Goroutines \cup {None}
    BY DEF LogInv, LogValues, PaidInv
<1>3. PaidTypes'
    BY <1>2, CallsPaid
<1>4. \A h \in Goroutines : at'[h] = at[h] \/ (at[h] = "out" /\ at'[h] \in {"lock", "make"})
    BY <1>2 DEF LogValues, Outside, Write, Sync, SyncReport, SendLogs, SendFails, PutBack, Goto
<1>5. Holder' = Holder
    BY <1>1, <1>2, <1>4 DEF Callers, Holder, FlushSteps
<1>6. Level' = Level /\ WriteFlush' = WriteFlush
    BY <1>1, <1>5 DEF Level, WriteFlush
<1>7. Packages' <= Packages
    <2>1. sends' + queue' + Cardinality(holding') <= sends + queue + Cardinality(holding)
        BY <1>2, CallsPaid
    <2>2. sends \in Nat /\ queue \in Nat /\ Cardinality(holding) \in Nat /\ WriteFlush \in {0, 1}
        BY <1>2, PaidNumbers DEF Numbers, PaidTypes
    <2>3. (LogValues /\ PaidTypes => Numbers)'
        BY PaidNumbers, PTL
    <2>4. sends' \in Nat /\ queue' \in Nat /\ Cardinality(holding') \in Nat
        BY <1>2, <1>3, <2>3 DEF Numbers, PaidTypes
    <2> QED BY <1>6, <2>1, <2>2, <2>4 DEF Packages
<1>8. Synced' = Synced /\ \A h \in Goroutines : Syncing(h)' => h \in Syncers /\ syncs'[h] = 1
    <2>1. CASE Sync(g)
        <3>1. /\ g \in Syncers /\ syncs[g] = 0 /\ syncs'[g] = 1 /\ at'[g] = "make" /\ at[g] = "out"
              /\ \A h \in Syncers \ {g} : syncs'[h] = syncs[h]
              /\ \A h \in Goroutines \ {g} : at'[h] = at[h]
            BY <1>2, <2>1 DEF Sync, Goto, PaidTypes, LogValues
        <3>2. logM # g
            BY <1>2, <3>1 DEF Callers, Holder, FlushSteps
        <3>3. Syncing(g)' /\ \A h \in Goroutines \ {g} : Syncing(h)' <=> Syncing(h)
            BY <1>1, <3>1, <3>2 DEF Syncing, FlushSteps
        <3>4. Syncers \subseteq Goroutines
            BY DEF Goroutines
        <3> QED BY <1>2, <3>1, <3>3, <3>4 DEF Synced, Callers
    <2>2. CASE ~Sync(g)
        <3>1. \A h \in Goroutines : at'[h] = at[h] \/ (at[h] = "out" /\ at'[h] = "lock")
            BY <1>2, <2>2 DEF LogValues, Outside, Write, SyncReport, SendLogs, SendFails, PutBack, Goto
        <3>2. syncs' = syncs
            BY <2>2 DEF Outside, Write, SyncReport, SendLogs, SendFails, PutBack
        <3>3. \A h \in Goroutines : Syncing(h)' <=> Syncing(h)
            BY <1>1, <3>1 DEF Syncing, FlushSteps
        <3>4. Syncers \subseteq Goroutines
            BY DEF Goroutines
        <3> QED BY <1>2, <3>2, <3>3, <3>4 DEF Synced, Callers
    <2> QED BY <2>1, <2>2
<1>9. Callers'
    BY <1>1, <1>2, <1>5, <1>8 DEF Callers
<1>10. Level' <= Level + (written' - written)
    BY <1>1, <1>2, <1>6, PaidNumbers DEF Numbers
<1>11. Balance'
    BY <1>1, <1>2, <1>3, <1>7, <1>8, <1>10, BalanceStep
<1> QED BY <1>3, <1>9, <1>11 DEF PaidInv

\* What a step inside Write or flushLogs leaves alone.
LEMMA InnerFrame ==
    ASSUME LogInv, PaidInv, NEW g \in Goroutines, LogStep(g)
    PROVE  /\ UNCHANGED <<sends, holding, syncs>> /\ PaidTypes'
           /\ \A h \in Goroutines \ {g} : at'[h] = at[h]
<1>1. UNCHANGED <<sends, holding, syncs>>
    BY DEF LogStep, FlushStep, WriteLock, AppendLength, AppendItem, FlushMake, FlushCopy,
           FlushReset, FlushRenew, FlushPipe, callVars
<1>2. \A h \in Goroutines \ {g} : at'[h] = at[h]
    BY DEF LogStep, FlushStep, WriteLock, AppendLength, AppendItem, FlushMake, FlushCopy,
           FlushReset, FlushRenew, FlushPipe, Goto, LogInv, LogValues
<1> QED BY <1>1, <1>2 DEF PaidInv, PaidTypes

\* A step that neither ends a Sync nor puts a package in the pipe.
LEMMA InnerPaid ==
    ASSUME LogInv, LogInv', PaidInv, NEW g \in Goroutines, LogStep(g), queue' = queue,
           \A h \in Goroutines : Syncing(h)' <=> Syncing(h),
           Holder' \in FlushSteps \cup {"free", "length", "item"},
           Holder' = "item" => logBuffer'.len \in {0, seen'.len + 1},
           \/ /\ WriteFlush' = WriteFlush /\ Level' <= Level + (written' - written)
              /\ written' \in {written, written + 1}
           \/ /\ WriteFlush' = 1 /\ Level + 1 = logBatchSize /\ Level' = 0
              /\ written' = written + 1
    PROVE  PaidInv'
<1>1. UNCHANGED <<sends, holding, syncs>> /\ PaidTypes'
    BY InnerFrame
<1>2. LogValues /\ LogValues' /\ PaidTypes /\ Callers /\ Balance
    BY DEF LogInv, PaidInv
<1>3. Syncers \subseteq Goroutines
    BY DEF Goroutines
<1>4. Synced' = Synced
    BY <1>1, <1>3 DEF Synced
<1>5. Callers'
    BY <1>1, <1>2 DEF Callers
<1>6. sends \in Nat /\ queue \in Nat /\ Cardinality(holding) \in Nat /\ WriteFlush \in {0, 1}
    BY <1>2, PaidNumbers DEF Numbers, PaidTypes
<1>7. /\ WriteFlush' = WriteFlush => Packages' <= Packages
      /\ WriteFlush' = 1 => Packages' <= Packages + 1
    BY <1>1, <1>6 DEF Packages
<1>8. Balance'
    BY <1>1, <1>2, <1>4, <1>7, BalanceStep
<1> QED BY <1>1, <1>5, <1>8 DEF PaidInv

LEMMA WriteLockPaid ==
    ASSUME LogInv, LogInv', PaidInv, NEW g \in Goroutines, WriteLock(g)
    PROVE  PaidInv'
<1> USE GoroutinesAssumption
<1>1. /\ logM = None /\ logM' = (IF shouldSendLogs THEN g ELSE None) /\ seen' = logBuffer
      /\ UNCHANGED <<logBuffer, queue, written>>
    BY DEF WriteLock
<1>2. /\ at[g] = "lock" /\ at'[g] = (IF shouldSendLogs THEN "length" ELSE "out")
      /\ \A h \in Goroutines \ {g} : at'[h] = at[h]
    BY DEF WriteLock, Goto, LogInv, LogValues
<1>3. Holder = "free" /\ Holder' \in {"free", "length"}
    BY <1>1, <1>2 DEF Holder
<1>4. \A h \in Goroutines : Syncing(h)' <=> Syncing(h)
    BY <1>1, <1>2 DEF Syncing, FlushSteps
<1>5. Level' = Level /\ WriteFlush' = WriteFlush
    BY <1>1, <1>3 DEF Level, WriteFlush, FlushSteps
<1>6. Level' <= Level + (written' - written)
    BY <1>1, <1>5, PaidNumbers DEF LogInv, PaidInv, Numbers
<1>7. LogStep(g)
    BY DEF LogStep
<1> QED BY <1>1, <1>3, <1>4, <1>5, <1>6, <1>7, InnerPaid

LEMMA AppendLengthPaid ==
    ASSUME LogInv, LogInv', PaidInv, NEW g \in Goroutines, AppendLength(g)
    PROVE  PaidInv'
<1> USE GoroutinesAssumption
<1>1. /\ logBuffer'.len = seen.len + 1
      /\ UNCHANGED <<logM, seen, queue, written>>
    BY DEF AppendLength, ghostVars
<1>2. at[g] = "length" /\ at'[g] = "item" /\ \A h \in Goroutines \ {g} : at'[h] = at[h]
    BY DEF AppendLength, Goto, LogInv, LogValues
<1>3. logM = g
    BY <1>2 DEF LogInv, Appending
<1>4. Holder = "length" /\ Holder' = "item"
    BY <1>1, <1>2, <1>3 DEF Holder
<1>5. \A h \in Goroutines : Syncing(h)' <=> Syncing(h)
    BY <1>1, <1>2 DEF Syncing, FlushSteps
<1>6. Level' = Level /\ WriteFlush' = WriteFlush
    BY <1>1, <1>4 DEF Level, WriteFlush, FlushSteps
<1>7. Level' <= Level + (written' - written)
    BY <1>1, <1>6, PaidNumbers DEF LogInv, PaidInv, Numbers
<1>8. LogStep(g)
    BY DEF LogStep
<1> QED BY <1>1, <1>4, <1>5, <1>6, <1>7, <1>8, InnerPaid

\* The line counts now; the one that fills the batch pays for its package.
LEMMA AppendItemPaid ==
    ASSUME LogInv, LogInv', PaidInv, NEW g \in Goroutines, AppendItem(g)
    PROVE  PaidInv'
<1> USE GoroutinesAssumption
<1>1. /\ written' = written + 1 /\ logM' = (IF Full THEN g ELSE None)
      /\ UNCHANGED <<logBuffer, seen, queue>>
    BY DEF AppendItem
<1>2. /\ at[g] = "item" /\ at'[g] = (IF Full THEN "make" ELSE "out")
      /\ \A h \in Goroutines \ {g} : at'[h] = at[h]
    BY DEF AppendItem, Goto, LogInv, LogValues
<1>3. logM = g
    BY <1>2 DEF LogInv, Appending
<1>4. Holder = "item" /\ Holder' = IF Full THEN "make" ELSE "free"
    BY <1>1, <1>2, <1>3 DEF Holder
<1>5. \A h \in Goroutines : Syncing(h)' <=> Syncing(h)
    BY <1>1, <1>2, <1>3 DEF Syncing, FlushSteps
<1>6. logBuffer.len \in {0, seen.len + 1} /\ seen.len \in Nat /\ Level = seen.len /\ written \in Nat
    BY <1>4, BatchAssumption DEF PaidInv, Callers, LogInv, LogValues, Slices, Level
<1>7. LogStep(g)
    BY DEF LogStep
<1>8. CASE Full
    <2>1. WriteFlush' = 1 /\ Level' = 0 /\ Holder' = "make"
        BY <1>4, <1>8 DEF Level, WriteFlush, FlushSteps
    <2>2. Level + 1 = logBatchSize
        BY <1>6, <1>8, BatchAssumption DEF Full
    <2> QED BY <1>1, <1>5, <1>7, <2>1, <2>2, InnerPaid DEF FlushSteps
<1>9. CASE ~Full
    <2>1. WriteFlush' = WriteFlush /\ Level' = logBuffer.len /\ Holder' = "free"
        BY <1>1, <1>4, <1>9 DEF Level, WriteFlush, FlushSteps
    <2>2. Level' <= Level + (written' - written)
        BY <1>1, <1>6, <2>1
    <2> QED BY <1>1, <1>5, <1>7, <2>1, <2>2, InnerPaid
<1> QED BY <1>8, <1>9

LEMMA FlushInnerPaid ==
    ASSUME LogInv, LogInv', PaidInv, NEW g \in Goroutines,
           FlushMake(g) \/ FlushCopy(g) \/ FlushReset(g) \/ FlushRenew(g)
    PROVE  PaidInv'
<1> USE GoroutinesAssumption
<1>1. UNCHANGED <<logM, seen, queue, written>>
    BY DEF FlushMake, FlushCopy, FlushReset, FlushRenew, bufferVars, ghostVars
<1>2. logBuffer'.len \in {0, logBuffer.len}
    BY DEF FlushMake, FlushCopy, FlushReset, FlushRenew, bufferVars, LogInv, LogValues, Slices
<1>3. /\ at[g] \in FlushSteps /\ at'[g] \in FlushSteps
      /\ \A h \in Goroutines \ {g} : at'[h] = at[h]
    BY DEF FlushMake, FlushCopy, FlushReset, FlushRenew, Goto, FlushSteps, LogInv, LogValues
<1>4. \A h \in Goroutines : Syncing(h)' <=> Syncing(h)
    BY <1>1, <1>3 DEF Syncing
<1>5. Holder' = Holder \/ (Holder \in FlushSteps /\ Holder' \in FlushSteps)
    BY <1>1, <1>3 DEF Holder, LogInv, LogValues
<1>6. "free" \notin FlushSteps /\ "length" \notin FlushSteps /\ "item" \notin FlushSteps
    BY DEF FlushSteps
<1>7. Holder \in FlushSteps \cup {"free", "length", "item"}
      /\ (Holder = "item" => logBuffer.len \in {0, seen.len + 1})
    BY DEF PaidInv, Callers
<1>8. WriteFlush' = WriteFlush
    BY <1>5 DEF WriteFlush
<1>9. seen.len \in Nat /\ logBuffer.len \in Nat /\ written \in Nat
    BY BatchAssumption DEF LogInv, LogValues, Slices
<1>10. Level' <= Level
    BY <1>1, <1>2, <1>5, <1>6, <1>9 DEF Level
<1>11. Level' <= Level + (written' - written)
    <2>1. Level \in Nat
        BY PaidNumbers DEF LogInv, PaidInv, Numbers
    <2> QED BY <1>1, <1>9, <1>10, <2>1
<1>12. /\ Holder' \in FlushSteps \cup {"free", "length", "item"}
       /\ Holder' = "item" => logBuffer'.len \in {0, seen'.len + 1}
    BY <1>1, <1>2, <1>5, <1>6, <1>7
<1>13. LogStep(g)
    BY DEF LogStep, FlushStep
<1> QED BY <1>1, <1>4, <1>8, <1>11, <1>12, <1>13, InnerPaid

\* The package of a Write was paid for before; that of a Sync is the Sync's.
LEMMA FlushPipePaid ==
    ASSUME LogInv, LogInv', PaidInv, NEW g \in Goroutines, FlushPipe(g)
    PROVE  PaidInv'
<1> USE GoroutinesAssumption
<1>1. /\ logM' = (IF logM = g THEN None ELSE logM) /\ queue' \in {queue, queue + 1}
      /\ UNCHANGED <<logBuffer, seen, written>>
    BY DEF FlushPipe, bufferVars
<1>2. at[g] = "pipe" /\ at'[g] = "out" /\ \A h \in Goroutines \ {g} : at'[h] = at[h]
    BY DEF FlushPipe, Goto, LogInv, LogValues
<1>3. UNCHANGED <<sends, holding, syncs>> /\ PaidTypes'
    <2>1. LogStep(g)
        BY DEF LogStep, FlushStep
    <2> QED BY <2>1, InnerFrame
<1>4. LogValues /\ LogValues' /\ PaidTypes /\ Callers /\ Balance
    BY DEF LogInv, PaidInv
<1>5. /\ sends \in Nat /\ queue \in Nat /\ Cardinality(holding) \in Nat /\ WriteFlush \in {0, 1}
      /\ Level \in Nat /\ written \in Nat
    BY <1>4, PaidNumbers DEF Numbers, PaidTypes
<1>6. Syncers \subseteq Goroutines
    BY DEF Goroutines
<1>7. \A h \in Goroutines \ {g} : Syncing(h)' <=> Syncing(h)
    BY <1>1, <1>2 DEF Syncing
<1>8. ~Syncing(g)'
    BY <1>2 DEF Syncing, FlushSteps
<1>9. \A h \in Goroutines : Syncing(h)' => h \in Syncers /\ syncs'[h] = 1
    BY <1>3, <1>4, <1>7, <1>8 DEF Callers
<1>10. CASE logM = g
    <2>1. Holder = "pipe" /\ Holder' = "free" /\ logBuffer.len = 0
        BY <1>1, <1>2, <1>10 DEF Holder, LogInv, Appending
    <2>2. Level' = 0 /\ WriteFlush = 1 /\ WriteFlush' = 0
        BY <1>1, <2>1 DEF Level, WriteFlush, FlushSteps
    <2>3. Packages' <= Packages
        BY <1>1, <1>3, <1>5, <2>2 DEF Packages
    <2>4. ~Syncing(g)
        BY <1>10 DEF Syncing
    <2>5. Synced' = Synced
        BY <1>3, <1>6, <1>7, <1>8, <2>4 DEF Synced
    <2>6. Level' <= Level + (written' - written)
        BY <1>1, <1>5, <2>2
    <2>7. Balance'
        BY <1>1, <1>3, <1>4, <2>3, <2>5, <2>6, BalanceStep
    <2>8. Callers'
        BY <1>9, <2>1 DEF Callers
    <2> QED BY <1>3, <2>7, <2>8 DEF PaidInv
<1>11. CASE logM # g
    <2>1. Holder' = Holder
        BY <1>1, <1>2, <1>4, <1>11 DEF Holder, LogValues
    <2>2. Level' = Level /\ WriteFlush' = WriteFlush
        BY <1>1, <2>1 DEF Level, WriteFlush
    <2>3. Packages' <= Packages + 1 /\ Level' <= Level
        BY <1>1, <1>3, <1>5, <2>2 DEF Packages
    <2>4. Syncing(g)
        BY <1>2, <1>11 DEF Syncing, FlushSteps
    <2>5. g \in Syncers \ Synced /\ Synced' = Synced \cup {g}
        <3>1. g \in Syncers /\ syncs[g] = 1
            BY <1>4, <2>4 DEF Callers
        <3> QED BY <1>3, <1>6, <1>7, <1>8, <2>4, <3>1 DEF Synced
    <2>6. Balance'
        BY <1>1, <1>3, <1>4, <2>3, <2>5, BalanceStep
    <2>7. Callers'
        BY <1>1, <1>4, <1>9, <2>1 DEF Callers
    <2> QED BY <1>3, <2>6, <2>7 DEF PaidInv
<1> QED BY <1>10, <1>11

LEMMA PaidInvInit == LogsInit => PaidInv
<1> SUFFICES ASSUME LogsInit PROVE PaidInv
    OBVIOUS
<1>1. PaidTypes
    BY DEF LogsInit, PaidTypes
<1>2. Holder = "free" /\ \A g \in Goroutines : ~Syncing(g)
    BY DEF LogsInit, Holder, Syncing, FlushSteps
<1>3. Callers
    BY <1>2 DEF Callers
<1>4. Synced = {} /\ holding = {} /\ Level = 0 /\ WriteFlush = 0
    BY <1>2 DEF LogsInit, Synced, Level, WriteFlush, FlushSteps
<1>5. Cardinality({}) = 0
    BY FS_EmptySet
<1>6. Packages = 0
    BY <1>4, <1>5 DEF Packages, LogsInit
<1>7. logBatchSize * 0 = 0
    BY BatchAssumption
<1>8. Balance
    BY <1>4, <1>5, <1>6, <1>7 DEF Balance, LogsInit
<1> QED BY <1>1, <1>3, <1>8 DEF PaidInv

LEMMA PaidInvStep == LogInv /\ LogInv' /\ PaidInv /\ [LogsNext]_logVars => PaidInv'
<1> SUFFICES ASSUME LogInv, LogInv', PaidInv, [LogsNext]_logVars PROVE PaidInv'
    OBVIOUS
<1>1. CASE UNCHANGED logVars
    <2>1. UNCHANGED <<logM, at, logBuffer, seen, sends, queue, holding, syncs, written>>
        BY <1>1 DEF logVars, bufferVars, ghostVars, callVars
    <2>2. Holder' = Holder /\ Synced' = Synced /\ \A g : Syncing(g)' <=> Syncing(g)
        BY <2>1 DEF Holder, Synced, Syncing
    <2>3. Level' = Level /\ Packages' = Packages
        BY <2>1, <2>2 DEF Level, Packages, WriteFlush
    <2> QED BY <2>1, <2>2, <2>3 DEF PaidInv, PaidTypes, Callers, Balance
<1>2. CASE LogsNext
    <2>1. PICK g \in Goroutines :
              LogStep(g) \/ CallerStep(g) \/ Sync(g) \/ SyncReport(g) \/ SendFails(g)
        BY <1>2 DEF LogsNext
    <2>2. CASE Outside(g)
        BY <2>2, OutsidePaid
    <2>3. CASE WriteLock(g)
        BY <2>3, WriteLockPaid
    <2>4. CASE AppendLength(g)
        BY <2>4, AppendLengthPaid
    <2>5. CASE AppendItem(g)
        BY <2>5, AppendItemPaid
    <2>6. CASE FlushMake(g) \/ FlushCopy(g) \/ FlushReset(g) \/ FlushRenew(g)
        BY <2>6, FlushInnerPaid
    <2>7. CASE FlushPipe(g)
        BY <2>7, FlushPipePaid
    <2> QED BY <2>1, <2>2, <2>3, <2>4, <2>5, <2>6, <2>7
            DEF LogStep, FlushStep, CallerStep, Outside
<1> QED BY <1>1, <1>2

LEMMA PaidInvPays == LogInv /\ PaidInv => SendsPaidFor
<1> SUFFICES ASSUME LogInv, PaidInv PROVE SendsPaidFor
    OBVIOUS
<1> DEFINE called == {g \in Syncers : syncs[g] = 1}
<1>1. /\ Packages \in Nat /\ Level \in Nat /\ written \in Nat /\ logBatchSize \in Nat
      /\ IsFiniteSet(Syncers) /\ Cardinality(Synced) \in Nat /\ sends \in Nat
      /\ queue \in Nat /\ Cardinality(holding) \in Nat /\ WriteFlush \in {0, 1}
    BY PaidNumbers DEF LogInv, PaidInv, Numbers, PaidTypes
<1>2. sends <= Packages
    BY <1>1 DEF Packages
<1>3. IsFiniteSet(called) /\ Synced \subseteq called
    BY <1>1, FS_Subset DEF Synced
<1>4. Cardinality(called) \in Nat /\ Cardinality(Synced) <= Cardinality(called)
    BY <1>3, FS_Subset, FS_CardinalityType
<1>5. logBatchSize * Packages + Level <= written + logBatchSize * Cardinality(Synced)
    BY DEF PaidInv, Balance
<1>6. logBatchSize * sends + 0 <= written + logBatchSize * Cardinality(called)
    <2> HIDE DEF called
    <2>1. logBatchSize * Packages <= written + logBatchSize * Cardinality(Synced)
        BY <1>1, <1>5
    <2> QED BY <1>1, <1>2, <1>4, <2>1, BalanceKept
<1>7. logBatchSize * sends \in Nat
    BY <1>1
<1> HIDE DEF called
<1>8. logBatchSize * sends <= written + logBatchSize * Cardinality(called)
    BY <1>6, <1>7
<1> QED BY <1>8 DEF SendsPaidFor, called

\* Logging about log packages does not feed itself: every package that is sent
\* has taken a batch of lines or a Sync, however Syncs and Writes overlap.
THEOREM SendsAlwaysPaidFor == LogsSpec => []SendsPaidFor
BY PaidInvInit, PaidInvStep, PaidInvPays, LogInvInit, LogInvStep, PTL DEF LogsSpec
=============================================================================
