-------------------------------- MODULE MCLogs --------------------------------
(* A batch of two lines, and one line per send: the smallest numbers with the *)
(* relation that the code's five and four have.                               *)
EXTENDS Logs
=============================================================================
