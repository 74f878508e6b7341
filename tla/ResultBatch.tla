----------------------------- MODULE ResultBatch -----------------------------
(***************************************************************************)
(* gateway/governance.go: the results of an audit go one by one into       *)
(* auditResultChan; SendAuditResultsWorker collects them in a buffer and   *)
(* hands the buffer to the pipe when it is full or when the ticker fires.  *)
(*                                                                         *)
(* Results are numbered in the order in which the auditor has them.        *)
(* SendAuditResultsBatch converts each result to a new packet item before  *)
(* it returns, so the batch does not share the buffer's array, which       *)
(* buffer[:0] keeps using.                                                 *)
(***************************************************************************)
EXTENDS Naturals, Sequences

CONSTANTS
    ChanCap,     \* the capacity of auditResultChan (50)
    BatchSize,   \* auditResultsBatchSize, the capacity of the buffer (1000)
    MaxResults   \* bound: the results of all audits

ASSUME ChanCapAssumption == ChanCap \in Nat \ {0}
ASSUME BatchSizeAssumption == BatchSize \in Nat \ {0}
ASSUME MaxResultsAssumption == MaxResults \in Nat

VARIABLES
    audited,   \* how many results the audits have returned
    inHand,    \* those SendAuditResults has still to send
    channel,   \* auditResultChan
    buffer,    \* auditResultsBuffer
    piped,     \* what the batches handed to the pipe hold, in their order
    tick       \* whether timer.C holds a tick

batchVars == <<audited, inHand, channel, buffer, piped, tick>>

RBInit ==
    /\ audited = 0
    /\ inHand = <<>>
    /\ channel = <<>>
    /\ buffer = <<>>
    /\ piped = <<>>
    /\ tick = FALSE

------------------------------------------------------------------------------
\* An audit returns n results, and handleAuditResult begins to send them.
Results(n) ==
    /\ inHand = <<>>
    /\ audited + n <= MaxResults
    /\ audited' = audited + n
    /\ inHand' = [i \in 1..n |-> audited + i]
    /\ UNCHANGED <<channel, buffer, piped, tick>>

\* g.auditResultChan <- auditResult
SendResult ==
    /\ inHand # <<>>
    /\ Len(channel) < ChanCap
    /\ channel' = Append(channel, Head(inHand))
    /\ inHand' = Tail(inHand)
    /\ UNCHANGED <<audited, buffer, piped, tick>>

\* Mutant: the buffer goes to the pipe and keeps its results.
FlushKeeping(results) ==
    /\ piped' = piped \o results
    /\ buffer' = results

\* SendAuditResultsBatch, then buffer[:0]
Flush(results) ==
    /\ piped' = piped \o results
    /\ buffer' = <<>>

\* Mutant: the buffer is flushed when it is over its capacity.
IsFullLate(results) == Len(results) > BatchSize

IsFull(results) == Len(results) = BatchSize

\* case result := <-g.auditResultChan; timer.Reset leaves a tick that has fired
\* in timer.C.
TakeResult ==
    LET results == Append(buffer, Head(channel))
    IN  /\ channel # <<>>
        /\ channel' = Tail(channel)
        /\ IF IsFull(results) THEN Flush(results)
           ELSE buffer' = results /\ UNCHANGED piped
        /\ UNCHANGED <<audited, inHand, tick>>

\* Mutant: a tick flushes only a buffer of several results.
TakeTickLazy ==
    /\ tick
    /\ tick' = FALSE
    /\ IF Len(buffer) > 1 THEN Flush(buffer) ELSE UNCHANGED <<buffer, piped>>
    /\ UNCHANGED <<audited, inHand, channel>>

\* case <-timer.C
TakeTick ==
    /\ tick
    /\ tick' = FALSE
    /\ IF buffer # <<>> THEN Flush(buffer) ELSE UNCHANGED <<buffer, piped>>
    /\ UNCHANGED <<audited, inHand, channel>>

\* The ticker fires; timer.C holds at most one tick.
Tick ==
    /\ ~tick
    /\ tick' = TRUE
    /\ UNCHANGED <<audited, inHand, channel, buffer, piped>>

RBNext ==
    \/ \E n \in 1..MaxResults : Results(n)
    \/ SendResult \/ TakeResult \/ TakeTick \/ Tick

RBSpec == RBInit /\ [][RBNext]_batchVars

------------------------------------------------------------------------------
(* Properties *)

Upto(n) == [i \in 1..n |-> i]

\* The values of the variables; the channel and the buffer keep within their
\* capacities.
RBTypeOK ==
    /\ audited \in 0..MaxResults
    /\ inHand \in Seq(Nat)
    /\ channel \in Seq(Nat) /\ Len(channel) <= ChanCap
    /\ buffer \in Seq(Nat) /\ Len(buffer) < BatchSize
    /\ piped \in Seq(Nat)
    /\ tick \in BOOLEAN

\* Every result an audit returned is in the sender's hand, in the channel, in
\* the buffer or with the pipe, once, and in the order of the audits, however
\* ticks, full buffers and full channels fall: no status is lost or repeated,
\* and an older status of a resource is not handed over after a newer one.
ResultsInOrder == piped \o buffer \o channel \o inHand = Upto(audited)
=============================================================================
