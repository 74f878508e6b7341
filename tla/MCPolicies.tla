------------------------------ MODULE MCPolicies ------------------------------
(* Three constraints over two templates: each may come with any template,       *)
(* version and code, the code that does not parse included.                    *)
EXTENDS Policies

MCItems == Item
=============================================================================
