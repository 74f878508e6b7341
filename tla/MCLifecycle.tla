----------------------------- MODULE MCLifecycle -----------------------------
(* The start, the running and the restart of the agent, for TLC.              *)
EXTENDS Lifecycle
=============================================================================
