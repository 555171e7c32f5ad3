---------------------------- MODULE MCProcesses ----------------------------
(* Processes on small instances.                                           *)
EXTENDS Processes, MCConnections

CONSTANTS s1, s2

\* Keys that are applied at once, with the log or the query trees, and one that needs a restart.
Probed == {"log_path", "metrics_path", "pidfile"}
=============================================================================
