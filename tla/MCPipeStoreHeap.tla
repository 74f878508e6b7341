--------------------------- MODULE MCPipeStoreHeap ---------------------------
(* The array-backed store with log batches, some of them urgent, and audit    *)
(* results.  An item that replaces a removed one has to move up only in a     *)
(* heap of six or more, when it comes from another branch than its new place, *)
(* so there are six packages; few calls of peek and pop are enough.           *)
EXTENDS PipeStoreHeap, TLC

CONSTANTS
    Logs,            \* the packages that are log batches; the others are audit results
    Urgent,          \* the packages with the more urgent of two priorities
    LogLimit,        \* ExpiryCount of the log batches
    MaxPeeks,        \* bound: calls of peek and pop that return a package
    logs, results    \* the two kinds

MCKindOf      == [p \in Packages |-> IF p \in Logs THEN logs ELSE results]
MCExpiryCount == [p \in Packages |-> IF p \in Logs THEN LogLimit ELSE 0]
MCRetries     == [p \in Packages |-> IF p \in Logs THEN 1 ELSE 2]
MCPriority    == [p \in Packages |-> IF p \in Urgent THEN 0 ELSE 1]

\* Packages that differ in nothing are interchangeable.
Alike(L, U) == {p \in Packages \ Perishable : (p \in Logs) = L /\ (p \in Urgent) = U}
MCSymmetry == Permutations(Alike(TRUE, FALSE)) \cup Permutations(Alike(TRUE, TRUE))

FewPeeks == FoldFunction(+, 0, retries) <= MaxPeeks
=============================================================================
