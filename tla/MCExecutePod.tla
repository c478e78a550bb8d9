---------------------------- MODULE MCExecutePod ----------------------------
(* Model-checking module of ExecutePod: the configurations give the number  *)
(* of containers and of log lines.                                          *)
EXTENDS ExecutePod
=============================================================================
