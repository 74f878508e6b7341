------------------------------- MODULE MCPipe -------------------------------
(* The pipe with log batches (limited by count) and audit results.            *)
EXTENDS Pipe

CONSTANTS
    Logs,            \* the packages that are log batches; the others are audit results
    logs, results    \* the two kinds

MCKindOf      == [p \in Packages |-> IF p \in Logs THEN logs ELSE results]
MCExpiryCount == [p \in Packages |-> IF p \in Logs THEN 1 ELSE 0]
MCRetries     == [p \in Packages |-> 1]
MCPriority    == [p \in Packages |-> IF p \in Logs THEN 1 ELSE 0]
=============================================================================
