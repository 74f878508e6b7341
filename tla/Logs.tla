-------------------------------- MODULE Logs --------------------------------
(***************************************************************************)
(* client/logging.go: the log lines of the agent are collected in          *)
(* logBuffer and put in the pipe in batches.  Write holds logM; Sync       *)
(* flushes the same buffer without it.                                     *)
(*                                                                         *)
(* logBuffer is a slice: an array and a length, two words that an append   *)
(* or an assignment reads and writes one after the other.  An action is    *)
(* one such access, so a race between Sync and Write is an interleaving.   *)
(* A line is its number, in the order in which the Writes took logM.       *)
(***************************************************************************)
EXTENDS Integers, Sequences, FiniteSets

CONSTANTS
    Writers,          \* goroutines that log
    Syncers,          \* goroutines that call Sync: restarts, Fatal, main
    Workers,          \* of the pipe, which log what they send
    None,             \* nobody
    logBatchSize,
    logExpiryCount,   \* log packages the pipe keeps
    LinesPerSend,     \* lines a worker logs for a send: 4 at debug level, else 0
    LinesPerFailure,  \* and for a send that fails: 4 at debug level, else 2
    MaxLines,         \* bound: lines each writer writes
    MaxFailures       \* bound: sends that fail

Goroutines == Writers \cup Syncers \cup Workers

ASSUME GoroutinesAssumption ==
    IsFiniteSet(Goroutines) /\ None \notin Goroutines /\ Syncers \cap Workers = {}
ASSUME BatchAssumption == logBatchSize \in Nat \ {0} /\ logExpiryCount \in Nat \ {0}
ASSUME LinesAssumption ==
    /\ LinesPerSend \in 0..(logBatchSize - 1)
    /\ LinesPerFailure \in Nat \ {0}
    /\ MaxLines \in Nat /\ MaxFailures \in Nat

Arrays == 0..1   \* the buffer's, and one that an append has read before
Blank  == 0      \* the zero PacketLogItem
EmptyArray == [i \in 1..logBatchSize |-> Blank]

VARIABLES
    shouldSendLogs,
    logM,        \* who holds client.logM, or None
    logBuffer,   \* the slice: [array, len]
    arrays,      \* what is in the arrays
    seen,        \* the slice that the append of Write has read
    at,          \* where each goroutine stands in Write, flushLogs or Sync
    payload,     \* the payload each flushLogs has made
    queue,       \* how many log packages are in the pipe
    dropped,     \* the Syncs that were told of dropped packages
    left,        \* the lines each goroutine is about to write
    holding,     \* the workers with a package they could not send
    syncs, sends, failures,   \* Syncs called, packages sent, sends that failed
    written,     \* lines written so far
    shipped,     \* lines put in the pipe so far
    inOrder,     \* every package so far went on where the one before ended
    raced        \* a Sync has overlapped with a Write or another Sync

bufferVars == <<logBuffer, arrays, seen>>
ghostVars  == <<written, shipped, inOrder, raced>>
callVars   == <<left, holding, syncs, sends, failures>>
logVars == <<shouldSendLogs, logM, bufferVars, at, payload, queue, dropped, callVars, ghostVars>>

\* newClient
LogsInit ==
    /\ shouldSendLogs \in BOOLEAN
    /\ logM = None
    /\ logBuffer = [array |-> 0, len |-> 0]
    /\ arrays = [a \in Arrays |-> EmptyArray]
    /\ seen = logBuffer
    /\ at = [g \in Goroutines |-> "out"]
    /\ payload = [g \in Goroutines |-> <<>>]
    /\ queue = 0
    /\ dropped = {}
    /\ left = [g \in Goroutines |-> IF g \in Writers THEN MaxLines ELSE 0]
    /\ holding = {}
    /\ syncs = [s \in Syncers |-> 0]
    /\ sends = 0
    /\ failures = 0
    /\ written = 0
    /\ shipped = 0
    /\ inOrder = TRUE
    /\ raced = FALSE

Goto(g, from, to) == at[g] = from /\ at' = [at EXCEPT ![g] = to]

FlushSteps == {"make", "copy", "reset", "renew", "pipe"}

\* A Sync is inside flushLogs.
Syncing(g) == at[g] \in FlushSteps /\ logM # g

------------------------------------------------------------------------------
(* Write *)

\* Mutant: logM stays locked when there is nothing to send.
WriteLockForgetting(g) ==
    /\ logM = None
    /\ logM' = g
    /\ Goto(g, "lock", IF shouldSendLogs THEN "length" ELSE "out")
    /\ seen' = logBuffer
    /\ raced' = (raced \/ \E h \in Goroutines : Syncing(h))
    /\ UNCHANGED <<shouldSendLogs, logBuffer, arrays, payload, queue, dropped, callVars,
                   written, shipped, inOrder>>

\* client.logM.Lock(), and append reads the slice.
WriteLock(g) ==
    /\ logM = None
    /\ logM' = IF shouldSendLogs THEN g ELSE None
    /\ Goto(g, "lock", IF shouldSendLogs THEN "length" ELSE "out")
    /\ seen' = logBuffer
    /\ raced' = (raced \/ \E h \in Goroutines : Syncing(h))
    /\ UNCHANGED <<shouldSendLogs, logBuffer, arrays, payload, queue, dropped, callVars,
                   written, shipped, inOrder>>

\* append stores the new length; a build may store the array it has read too.
AppendLength(g) ==
    /\ Goto(g, "length", "item")
    /\ \E a \in {logBuffer.array, seen.array} :
         logBuffer' = [array |-> a, len |-> seen.len + 1]
    /\ UNCHANGED <<shouldSendLogs, logM, arrays, seen, payload, queue, dropped, callVars,
                   ghostVars>>

\* Mutants: one too late, one too early.
FullLate  == logBuffer.len > logBatchSize
FullEarly == logBuffer.len >= logBatchSize - 1

\* len(client.logBuffer) == logBatchSize
Full == logBuffer.len = logBatchSize

\* append stores the line, in the array it has read (which is garbage if it is
\* not the buffer's any more); then Write flushes or returns.
AppendItem(g) ==
    /\ Goto(g, "item", IF Full THEN "make" ELSE "out")
    /\ logM' = IF Full THEN g ELSE None
    /\ written' = written + 1
    /\ arrays' = IF seen.array = logBuffer.array
                 THEN [arrays EXCEPT ![seen.array][seen.len + 1] = written + 1]
                 ELSE [arrays EXCEPT ![seen.array] = EmptyArray]
    /\ UNCHANGED <<shouldSendLogs, logBuffer, seen, payload, queue, dropped, callVars, shipped,
                   inOrder, raced>>

------------------------------------------------------------------------------
(* flushLogs *)

\* payload := make(proto.PacketLogs, len(client.logBuffer))
FlushMake(g) ==
    /\ Goto(g, "make", "copy")
    /\ payload' = [payload EXCEPT ![g] = [i \in 1..logBuffer.len |-> Blank]]
    /\ UNCHANGED <<shouldSendLogs, logM, bufferVars, queue, dropped, callVars, ghostVars>>

\* copy(payload, client.logBuffer): as many items as both have.
FlushCopy(g) ==
    /\ Goto(g, "copy", "reset")
    /\ payload' = [payload EXCEPT ![g] =
           [i \in 1..Len(@) |->
               IF i <= logBuffer.len THEN arrays[logBuffer.array][i] ELSE @[i]]]
    /\ UNCHANGED <<shouldSendLogs, logM, bufferVars, queue, dropped, callVars, ghostVars>>

\* Mutant: the buffer keeps its lines.
FlushResetNothing(g) ==
    /\ Goto(g, "reset", "renew")
    /\ UNCHANGED <<shouldSendLogs, logM, bufferVars, payload, queue, dropped, callVars, ghostVars>>

\* client.logBuffer = make(proto.PacketLogs, 0, logBatchSize): the length
FlushReset(g) ==
    /\ Goto(g, "reset", "renew")
    /\ logBuffer' = [logBuffer EXCEPT !.len = 0]
    /\ UNCHANGED <<shouldSendLogs, logM, arrays, seen, payload, queue, dropped, callVars, ghostVars>>

\* The arrays something refers to, but for the buffer.
Kept == IF \E g \in Goroutines : at[g] \in {"length", "item"} THEN {seen.array} ELSE {}

\* ... and the array, a new one.
FlushRenew(g) ==
    /\ Goto(g, "renew", "pipe")
    /\ logBuffer' = [logBuffer EXCEPT !.array = CHOOSE a \in Arrays : a \notin Kept]
    /\ arrays' = [a \in Arrays |-> IF a \in Kept THEN arrays[a] ELSE EmptyArray]
    /\ UNCHANGED <<shouldSendLogs, logM, seen, payload, queue, dropped, callVars, ghostVars>>

\* client.Pipe(pkg): the pipe keeps the last logExpiryCount packages and says
\* when it drops one.
FlushPipe(g) ==
    /\ Goto(g, "pipe", "out")
    /\ logM' = IF logM = g THEN None ELSE logM
    /\ queue' = IF queue < logExpiryCount THEN queue + 1 ELSE queue
    /\ dropped' = IF queue < logExpiryCount THEN dropped \ {g} ELSE dropped \cup ({g} \cap Syncers)
    /\ shipped' = shipped + Len(payload[g])
    /\ inOrder' = (inOrder /\ \A i \in 1..Len(payload[g]) : payload[g][i] = shipped + i)
    /\ payload' = [payload EXCEPT ![g] = <<>>]
    /\ UNCHANGED <<shouldSendLogs, bufferVars, callVars, written, raced>>

FlushStep(g) == FlushMake(g) \/ FlushCopy(g) \/ FlushReset(g) \/ FlushRenew(g) \/ FlushPipe(g)

LogStep(g) ==
    \/ WriteLock(g) \/ AppendLength(g) \/ AppendItem(g)
    \/ FlushStep(g)

------------------------------------------------------------------------------
(* The callers *)

Idle(g) == at[g] = "out"

\* Somebody logs a line.
Write(g) ==
    /\ Goto(g, "out", "lock")
    /\ left[g] > IF g \in holding THEN 1 ELSE 0
    /\ left' = [left EXCEPT ![g] = @ - 1]
    /\ UNCHANGED <<shouldSendLogs, logM, bufferVars, payload, queue, dropped, holding, syncs,
                   sends, failures, ghostVars>>

\* Sync flushes at once; a syncer here does so once.
Sync(g) ==
    /\ g \in Syncers
    /\ syncs[g] = 0
    /\ syncs' = [syncs EXCEPT ![g] = 1]
    /\ Goto(g, "out", "make")
    /\ raced' = (raced \/ logM # None \/ \E h \in Goroutines : Syncing(h))
    /\ UNCHANGED <<shouldSendLogs, logM, bufferVars, payload, queue, dropped, left, holding,
                   sends, failures, written, shipped, inOrder>>

\* "failed to sync logs", which the restart logs
SyncReport(g) ==
    /\ g \in Syncers \cap dropped
    /\ Idle(g)
    /\ dropped' = dropped \ {g}
    /\ left' = [left EXCEPT ![g] = 1]
    /\ UNCHANGED <<shouldSendLogs, logM, bufferVars, at, payload, queue, holding, syncs, sends,
                   failures, ghostVars>>

\* A worker of the pipe takes a log package; when it is sent, or not, it writes
\* lines about it.
Take(w) ==
    /\ w \in Workers
    /\ Idle(w)
    /\ left[w] = 0
    /\ queue > 0
    /\ queue' = queue - 1

SendLogs(w) ==
    /\ Take(w)
    /\ sends' = sends + 1
    /\ left' = [left EXCEPT ![w] = LinesPerSend]
    /\ UNCHANGED <<shouldSendLogs, logM, bufferVars, at, payload, dropped, holding, syncs,
                   failures, ghostVars>>

SendFails(w) ==
    /\ failures < MaxFailures
    /\ Take(w)
    /\ failures' = failures + 1
    /\ holding' = holding \cup {w}
    /\ left' = [left EXCEPT ![w] = LinesPerFailure]
    /\ UNCHANGED <<shouldSendLogs, logM, bufferVars, at, payload, dropped, syncs, sends,
                   ghostVars>>

\* The package goes back before the last line; the pipe drops its oldest if
\* there are too many.
PutBack(w) ==
    /\ w \in holding
    /\ Idle(w)
    /\ left[w] = 1
    /\ holding' = holding \ {w}
    /\ queue' = IF queue < logExpiryCount THEN queue + 1 ELSE queue
    /\ UNCHANGED <<shouldSendLogs, logM, bufferVars, at, payload, dropped, left, syncs, sends,
                   failures, ghostVars>>

CallerStep(g) == Write(g) \/ SendLogs(g) \/ PutBack(g)

LogsNext ==
    \E g \in Goroutines :
        LogStep(g) \/ CallerStep(g) \/ Sync(g) \/ SyncReport(g) \/ SendFails(g)

LogsSpec == LogsInit /\ [][LogsNext]_logVars

\* A goroutine that can run does run, and sync.Mutex hands logM to a waiter
\* that has waited long enough.
LogsFairSpec ==
    /\ LogsSpec
    /\ \A g \in Goroutines :
         WF_logVars(LogStep(g)) /\ SF_logVars(WriteLock(g)) /\ WF_logVars(CallerStep(g))

------------------------------------------------------------------------------
(* Properties *)

Slices == [array : Arrays, len : 0..logBatchSize]

\* The values of the buffer and of what its users hold: a slice never gets
\* longer than the array it is made with.
LogTypeOK ==
    /\ logM \in Goroutines \cup {None}
    /\ logBuffer \in Slices
    /\ seen \in Slices
    /\ at \in [Goroutines -> FlushSteps \cup {"out", "lock", "length", "item"}]
    /\ queue \in 0..logExpiryCount
    /\ dropped \subseteq Goroutines
    /\ \A g \in Goroutines : Len(payload[g]) <= logBatchSize

\* Write flushes when the length equals logBatchSize, and would never flush
\* again once it is beyond: whatever a Sync without logM does to the buffer in
\* the middle of a Write, the next Write finds room for its line.
RoomForNextLine == logM = None => logBuffer.len < logBatchSize

\* Only a Sync that overlaps with a Write or with another Sync can lose, repeat
\* or blank a line or change their order: otherwise the packages and the buffer
\* hold every line once, in the order of the Writes.
LinesKept ==
    ~raced =>
        /\ inOrder
        /\ (\A g \in Goroutines : at[g] \in {"out", "lock"}) =>
             /\ written = shipped + logBuffer.len
             /\ \A i \in 1..logBuffer.len : arrays[logBuffer.array][i] = shipped + i

\* The lines that the workers write about sending log packages are log lines
\* themselves.  They fill fewer packages than they are about: every package
\* that was sent has taken a whole batch of lines, but for one package of each
\* Sync, even when a Write that overlaps with it sends its lines a second time.
SendsPaidFor ==
    logBatchSize * sends
    <= written + logBatchSize * Cardinality({g \in Syncers : syncs[g] = 1})

\* Write holds logM while it puts a package in the pipe.  It returns, and so do
\* the Writes that wait for it.
WritesReturn == \A g \in Goroutines : at[g] = "lock" ~> at[g] = "out"

\* The logging of sends does not keep itself going: when the others have
\* nothing more to say, the pipe runs out of log packages.
LogsSettle == <>[](queue = 0)
=============================================================================
