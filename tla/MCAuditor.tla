------------------------------ MODULE MCAuditor ------------------------------
(* Two constraints share a template; the second comes with other code than the *)
(* first, and a newer version of the first brings that code too.  Version 2 of *)
(* an object masked is version 1; version 3 cannot be masked, and matches only *)
(* version 2 of a constraint.                                                 *)
EXTENDS Auditor

CONSTANTS c1, c2, t1, k1, k2

MCItem(c, v, k) == [id |-> c, template |-> t1, updatedAt |-> v, code |-> k]
MCItems == {MCItem(c1, 1, k1), MCItem(c1, 2, k2), MCItem(c2, 1, k2)}
MCMatching == [v \in Versions |-> IF v = 1 THEN {1, 2} ELSE ObjectVersions]
MCVerdict ==
    [v \in Versions |-> [k \in Parsable |-> [o \in ObjectVersions |->
        IF (v = o) = (k = k1) THEN "Compliance" ELSE "Violation"]]]

MCMasked == [o \in ObjectVersions |-> IF o = 2 THEN 1 ELSE o]
=============================================================================
