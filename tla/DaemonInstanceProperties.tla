---------------------- MODULE DaemonInstanceProperties ----------------------
(***************************************************************************)
(* What DaemonInstance is meant to guarantee.                              *)
(***************************************************************************)
EXTENDS DaemonInstance

\* A daemon that serves is the one clients find: the socket and the PID file
\* are its own, whatever daemons before it left behind and whoever competes.
ServesItsFiles ==
    \A d \in Daemons : phase[d] = "serve" => socket = d /\ pid = d

\* "Only that owner may" touch the socket and the PID file: every step that
\* changes one is taken by a daemon that holds the lock.
FilesChangedByOwner ==
    [][socket' # socket \/ pid' # pid =>
          lock \in Daemons /\ phase'[lock] # phase[lock]]_vars

\* "A stop is complete only when the daemon no longer responds and the
\* instance lock has been released": at the end of a successful stop, and when
\* a restart begins to start, the daemon that was asked has finished its
\* cleanup and is gone.
StopIsComplete ==
    \A c \in Clients :
       /\ asks[c] # None
       /\ result[c] = "stopped" \/ (op[c] = "restart" /\ pc[c] = "spawn")
       => phase[asks[c]] \in Over

\* A daemon that was asked to stop, at any moment of its life, exits, although
\* steps of its start and of its cleanup may raise.
AskedExits ==
    \A d \in Daemons : (d \in asked \cup queued) ~> phase[d] \in Over

-----------------------------------------------------------------------------
(* Said of the code, and not true of it: TLC has a counterexample to each. *)

\* instance.py: "another daemon owns this project runtime" is why a daemon
\* gives up.
GivesUpForDaemon ==
    [][\A d \in Daemons :
          phase[d] = "own" /\ phase'[d] = "exited" => lock \in Daemons]_vars

\* lifecycle.py: "a successful daemon stop must end stopped".
StopEndsStopped ==
    \A c \in Clients : result[c] # "value_error"

\* runtime-infrastructure.md: owned_unready means "startup, cleanup, or an
\* unresponsive owner", and an owner is a daemon.
OwnedByDaemon ==
    [][\A c \in Clients :
          pc[c] = "probe" /\ status'[c] = "owned_unready" /\ status[c] # status'[c]
          => lock \in Daemons]_vars
=============================================================================
