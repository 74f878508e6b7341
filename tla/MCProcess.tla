------------------------------ MODULE MCProcess ------------------------------
(* main, the probes server and two restarts.                                  *)
EXTENDS Process
=============================================================================
