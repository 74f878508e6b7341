---------------------------- MODULE MCConnection ----------------------------
(* Client hooks, waiters and the start of the agent, for TLC.                 *)
EXTENDS Connection
=============================================================================
