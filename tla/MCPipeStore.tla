----------------------------- MODULE MCPipeStore -----------------------------
(* The store with the two kinds of package the agent sends: log batches (a    *)
(* small ExpiryCount, least urgent) and audit results (no ExpiryCount, most   *)
(* urgent), with the agent's Retries scaled down.                             *)
EXTENDS PipeStore

CONSTANTS
    Logs,            \* the packages that are log batches; the others are audit results
    logs, results    \* the two kinds

MCKindOf      == [p \in Packages |-> IF p \in Logs THEN logs ELSE results]
MCExpiryCount == [p \in Packages |-> IF p \in Logs THEN 2 ELSE 0]
MCRetries     == [p \in Packages |-> IF p \in Logs THEN 1 ELSE 2]
MCPriority    == [p \in Packages |-> IF p \in Logs THEN 1 ELSE 0]
=============================================================================
