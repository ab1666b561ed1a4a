-------------------------- MODULE MCDaemonInstance --------------------------
(* Instances of DaemonInstance for TLC: two daemons and two clients.          *)
EXTENDS DaemonInstanceProperties
=============================================================================
