--------------------------- MODULE DaemonInstance ---------------------------
(***************************************************************************)
(* Who is the daemon of a project (src/nuself/daemon: instance, server,    *)
(* lifecycle). Daemon processes compete for an advisory lock; its holder   *)
(* owns the socket and the PID file. Clients start, stop and restart the   *)
(* daemon; what they know of it comes from a ping and from trying the very *)
(* lock the daemons compete for.                                           *)
(***************************************************************************)
EXTENDS Naturals, FiniteSets

CONSTANTS
    Daemons,        \* processes that may be spawned
    Clients,
    MaxOperations,  \* bound: operations of clients
    MaxCrashes,     \* bound: daemons that are killed
    MaxFailures,    \* bound: steps that raise
    None

ASSUME ProcessesAssumption ==
    Daemons \cap Clients = {} /\ None \notin Daemons \cup Clients
ASSUME BoundsAssumption ==
    MaxOperations \in Nat /\ MaxCrashes \in Nat /\ MaxFailures \in Nat

VARIABLES
    phase,      \* step of each daemon
    asked,      \* daemons whose shutdown_requested is set
    queued,     \* daemons with a shutdown request in the socket's backlog
    flawed,     \* daemons that failed to remove stale files
    lock,       \* holder of the instance lock
    lockFile,   \* whether the lock file exists
    socket,     \* the daemon bound to the socket path
    pid,        \* the daemon named by the PID file
    pc, op,     \* step and operation of each client
    polls,      \* whether a client has done its part and polls the status
    ping,       \* the daemon a client's ping is connected to
    taken,      \* pings that were accepted
    running,    \* whether a client's ping was answered
    asks,       \* the daemon a client's stop was sent to
    child,      \* the daemon a client's start spawned
    result,     \* how a client's last operation ended
    status,     \* the phase a client saw
    operations, crashes, failures

daemons == <<phase, asked, queued, flawed>>
files == <<lock, lockFile, socket, pid>>
clients == <<pc, op, polls, ping, taken, running, asks, child, result, status>>
bounds == <<operations, crashes, failures>>
vars == <<daemons, files, clients, bounds>>

Starting == {"own", "unlinkSocket", "unlinkPid", "compose", "bind", "publish", "launch"}
Cleaning == {"stop", "close", "dropSocket", "dropPid", "release"}
Owning == (Starting \ {"own"}) \cup {"serve"} \cup Cleaning
Listening == {"publish", "launch", "serve"}
Over == {"none", "exited", "killed"}
Phases == Starting \cup {"serve"} \cup Cleaning \cup Over

StatusPhases == {"stopped", "owned_unready", "ready", "inconsistent"}
Results == {"none", "started", "already_ready", "stopped", "already_stopped",
            "owner_unready", "status_failed", "spawn_failed", "process_exited",
            "ownership_check_failed", "timeout", "value_error"}

TypeOK ==
    /\ phase \in [Daemons -> Phases]
    /\ asked \subseteq Daemons /\ queued \subseteq Daemons /\ flawed \subseteq Daemons
    /\ lock \in Daemons \cup Clients \cup {None} /\ lockFile \in BOOLEAN
    /\ socket \in Daemons \cup {None} /\ pid \in Daemons \cup {None}
    /\ pc \in [Clients -> {"idle", "ping", "wait", "probe", "probing", "decide",
                           "request", "spawn"}]
    /\ op \in [Clients -> {"start", "stop", "restart", "status"}]
    /\ polls \in [Clients -> BOOLEAN]
    /\ ping \in [Clients -> Daemons \cup {None}] /\ taken \subseteq Clients
    /\ running \in [Clients -> BOOLEAN]
    /\ asks \in [Clients -> Daemons \cup {None}]
    /\ child \in [Clients -> Daemons \cup {None}]
    /\ result \in [Clients -> Results]
    /\ status \in [Clients -> StatusPhases]
    /\ operations \in 0..MaxOperations /\ crashes \in 0..MaxCrashes
    /\ failures \in 0..MaxFailures

Init ==
    /\ phase = [d \in Daemons |-> "none"]
    /\ asked = {} /\ queued = {} /\ flawed = {}
    /\ lock = None /\ lockFile = FALSE /\ socket = None /\ pid = None
    /\ pc = [c \in Clients |-> "idle"] /\ op = [c \in Clients |-> "status"]
    /\ polls = [c \in Clients |-> FALSE]
    /\ ping = [c \in Clients |-> None] /\ taken = {}
    /\ running = [c \in Clients |-> FALSE]
    /\ asks = [c \in Clients |-> None] /\ child = [c \in Clients |-> None]
    /\ result = [c \in Clients |-> "none"]
    /\ status = [c \in Clients |-> "stopped"]
    /\ operations = 0 /\ crashes = 0 /\ failures = 0

-----------------------------------------------------------------------------
(* A daemon process: run_daemon *)

To(d, step) == phase' = [phase EXCEPT ![d] = step]
Fails == failures < MaxFailures /\ failures' = failures + 1
Works == UNCHANGED failures

\* The lock is tried once and not waited for.
Acquire(d) ==
    /\ phase[d] = "own" /\ lockFile' = TRUE
    /\ IF lock = None
       THEN lock' = d /\ To(d, "unlinkSocket")
       ELSE To(d, "exited") /\ UNCHANGED lock
    /\ UNCHANGED <<asked, queued, flawed, socket, pid, clients, bounds>>

\* _reconcile_stale_runtime_metadata: both files are tried, then it raises.
UnlinkStaleSocket(d) ==
    /\ phase[d] = "unlinkSocket"
    /\ \/ Works /\ socket' = None /\ UNCHANGED flawed
       \/ Fails /\ socket # None /\ flawed' = flawed \cup {d} /\ UNCHANGED socket
    /\ To(d, "unlinkPid")
    /\ UNCHANGED <<asked, queued, lock, lockFile, pid, clients, operations, crashes>>

UnlinkStalePid(d) ==
    /\ phase[d] = "unlinkPid"
    /\ \/ Works /\ pid' = None /\ To(d, IF d \in flawed THEN "close" ELSE "compose")
       \/ Fails /\ pid # None /\ UNCHANGED pid /\ To(d, "close")
    /\ UNCHANGED <<asked, queued, flawed, lock, lockFile, socket, clients, operations, crashes>>

\* DaemonState and the signal handlers.
Compose(d) ==
    /\ phase[d] = "compose"
    /\ \/ Works /\ To(d, "bind")
       \/ Fails /\ \E step \in {"stop", "close"} : To(d, step)
    /\ UNCHANGED <<asked, queued, flawed, files, clients, operations, crashes>>

Bind(d) ==
    /\ phase[d] = "bind"
    /\ \/ Works /\ socket = None /\ socket' = d /\ To(d, "publish")
       \/ Works /\ socket # None /\ UNCHANGED socket /\ To(d, "stop")
       \/ Fails /\ UNCHANGED socket /\ To(d, "stop")
    /\ UNCHANGED <<asked, queued, flawed, lock, lockFile, pid, clients, operations, crashes>>

\* Fault: a daemon goes on without its PID file.
Unpublished(d) ==
    /\ phase[d] = "publish" /\ To(d, "launch")
    /\ (Works /\ pid' = d) \/ (Fails /\ UNCHANGED pid)
    /\ UNCHANGED <<asked, queued, flawed, lock, lockFile, socket, clients, operations, crashes>>

PublishPid(d) ==
    /\ phase[d] = "publish"
    /\ \/ Works /\ pid' = d /\ To(d, "launch")
       \/ Fails /\ UNCHANGED pid /\ To(d, "stop")
    /\ UNCHANGED <<asked, queued, flawed, lock, lockFile, socket, clients, operations, crashes>>

\* Fault: a shutdown requested during the start is forgotten.
Forgetful(d) ==
    /\ phase[d] = "launch"
    /\ \/ Works /\ To(d, "serve")
       \/ Fails /\ To(d, "stop")
    /\ asked' = asked \ {d}
    /\ UNCHANGED <<queued, flawed, files, clients, operations, crashes>>

\* The scheduler starts; a shutdown requested meanwhile is a failure.
Launch(d) ==
    /\ phase[d] = "launch"
    /\ \/ Works /\ To(d, IF d \in asked THEN "stop" ELSE "serve")
       \/ Fails /\ To(d, "stop")
    /\ UNCHANGED <<asked, queued, flawed, files, clients, operations, crashes>>

\* handle_request, in a thread of its own: a ping, or a shutdown.
AcceptPing(d, c) ==
    /\ phase[d] = "serve" /\ ping[c] = d /\ c \notin taken
    /\ taken' = taken \cup {c}
    /\ UNCHANGED <<daemons, files, pc, op, polls, ping, running, asks, child,
                   result, status, bounds>>

AcceptShutdown(d) ==
    /\ phase[d] = "serve" /\ d \in queued
    /\ queued' = queued \ {d} /\ asked' = asked \cup {d}
    /\ UNCHANGED <<phase, flawed, files, clients, bounds>>

\* SIGINT or SIGTERM while the handlers are installed.
Signal(d) ==
    /\ phase[d] \in {"bind", "serve", "stop"} \cup Listening /\ d \notin asked
    /\ crashes < MaxCrashes /\ crashes' = crashes + 1
    /\ asked' = asked \cup {d}
    /\ UNCHANGED <<phase, queued, flawed, files, clients, operations, failures>>

\* The loop ends and the server's socket is closed.
StopServing(d) ==
    /\ phase[d] = "serve" /\ d \in asked
    /\ To(d, "stop") /\ queued' = queued \ {d}
    /\ UNCHANGED <<asked, flawed, files, clients, bounds>>

\* The cleanup steps, each of which may raise without stopping the next: the
\* scheduler and the signal handlers; the application; the socket and the PID
\* file; the lock.
StopScheduler(d) ==
    /\ phase[d] = "stop" /\ To(d, "close")
    /\ asked' = asked \cup {d} /\ queued' = queued \ {d}
    /\ (Works \/ Fails)
    /\ UNCHANGED <<flawed, files, clients, operations, crashes>>

CloseApplication(d) ==
    /\ phase[d] = "close" /\ To(d, "dropSocket")
    /\ (Works \/ Fails)
    /\ UNCHANGED <<asked, queued, flawed, files, clients, operations, crashes>>

DropSocket(d) ==
    /\ phase[d] = "dropSocket" /\ To(d, "dropPid")
    /\ \/ Works /\ socket' = None
       \/ Fails /\ UNCHANGED socket
    /\ UNCHANGED <<asked, queued, flawed, lock, lockFile, pid, clients, operations, crashes>>

DropPid(d) ==
    /\ phase[d] = "dropPid" /\ To(d, "release")
    /\ \/ Works /\ pid' = None
       \/ Fails /\ UNCHANGED pid
    /\ UNCHANGED <<asked, queued, flawed, lock, lockFile, socket, clients, operations, crashes>>

\* Fault: the lock is released before the files are removed.
ReleasedEarly(d) ==
    /\ phase[d] \in {"dropSocket", "release"}
    /\ To(d, IF phase[d] = "release" THEN "exited" ELSE phase[d])
    /\ lock' = IF lock = d THEN None ELSE lock
    /\ UNCHANGED <<asked, queued, flawed, lockFile, socket, pid, clients, bounds>>

\* The process ends with the release, or with a failure to release.
ReleaseLock(d) ==
    /\ phase[d] = "release" /\ To(d, "exited")
    /\ lock' = None
    /\ UNCHANGED <<asked, queued, flawed, lockFile, socket, pid, clients, bounds>>

\* A daemon is killed: the system releases its lock and nothing else.
Crash(d) ==
    /\ phase[d] \notin Over /\ crashes < MaxCrashes
    /\ crashes' = crashes + 1
    /\ To(d, "killed") /\ queued' = queued \ {d}
    /\ lock' = IF lock = d THEN None ELSE lock
    /\ UNCHANGED <<asked, flawed, lockFile, socket, pid, clients, operations, failures>>

-----------------------------------------------------------------------------
(* A client: status, start, stop, restart *)

At(c, step) == pc' = [pc EXCEPT ![c] = step]
Ends(c, how) == result' = [result EXCEPT ![c] = how] /\ At(c, "idle")

Begin(c, what) ==
    /\ pc[c] = "idle" /\ operations < MaxOperations
    /\ operations' = operations + 1
    /\ op' = [op EXCEPT ![c] = what] /\ polls' = [polls EXCEPT ![c] = FALSE]
    /\ asks' = [asks EXCEPT ![c] = None] /\ child' = [child EXCEPT ![c] = None]
    /\ result' = [result EXCEPT ![c] = "none"]
    /\ At(c, "ping")
    /\ UNCHANGED <<daemons, files, ping, taken, running, status, crashes, failures>>

Connect(c) ==
    /\ pc[c] = "ping"
    /\ IF socket # None /\ phase[socket] \in Listening
       THEN /\ ping' = [ping EXCEPT ![c] = socket] /\ At(c, "wait")
            /\ UNCHANGED running
       ELSE /\ running' = [running EXCEPT ![c] = FALSE] /\ At(c, "probe")
            /\ UNCHANGED ping
    /\ UNCHANGED <<daemons, files, op, polls, taken, asks, child, result, status, bounds>>

\* An accepted ping is answered as long as the process lives; without an
\* answer the client gives up.
Answered(c, yes) ==
    /\ pc[c] = "wait"
    /\ yes => c \in taken /\ phase[ping[c]] \notin Over
    /\ running' = [running EXCEPT ![c] = yes]
    /\ taken' = taken \ {c} /\ ping' = [ping EXCEPT ![c] = None]
    /\ At(c, "probe")
    /\ UNCHANGED <<daemons, files, op, polls, asks, child, result, status, bounds>>

\* Fault: an owner that does not answer is reported by a phase of its own.
Unresponsive(c, owned) ==
    /\ status' = [status EXCEPT ![c] =
          IF running[c] THEN "ready" ELSE IF owned THEN "unresponsive" ELSE "stopped"]
    /\ running' = [running EXCEPT ![c] = FALSE]
    /\ At(c, "decide")

\* Fault: what does not answer is stopped.
PingOnly(c, owned) ==
    /\ status' = [status EXCEPT ![c] = IF running[c] THEN "ready" ELSE "stopped"]
    /\ running' = [running EXCEPT ![c] = FALSE]
    /\ At(c, "decide")

\* The phase that a status reports, from the ping and the lock.
Observes(c, owned) ==
    /\ status' = [status EXCEPT ![c] =
          IF running[c] THEN IF owned THEN "ready" ELSE "inconsistent"
                        ELSE IF owned THEN "owned_unready" ELSE "stopped"]
    /\ running' = [running EXCEPT ![c] = FALSE]
    /\ At(c, "decide")

\* daemon_instance_owned takes the lock in order to see whether it can.
Probe(c) ==
    /\ pc[c] = "probe"
    /\ IF lockFile /\ lock = None
       THEN lock' = c /\ At(c, "probing") /\ UNCHANGED <<running, status>>
       ELSE Observes(c, lockFile) /\ UNCHANGED lock
    /\ UNCHANGED <<daemons, lockFile, socket, pid, op, polls, ping, taken, asks, child,
                   result, bounds>>

ProbeReleases(c) ==
    /\ pc[c] = "probing" /\ Observes(c, FALSE) /\ lock' = None
    /\ UNCHANGED <<daemons, lockFile, socket, pid, op, polls, ping, taken, asks, child,
                   result, bounds>>

\* The lock cannot be inspected: the phase is unknown and the operation fails.
ProbeFails(c) ==
    /\ pc[c] = "probe" /\ Fails
    /\ Ends(c, IF op[c] \in {"stop", "restart"} THEN "ownership_check_failed"
                                               ELSE "status_failed")
    /\ running' = [running EXCEPT ![c] = FALSE]
    /\ UNCHANGED <<daemons, files, op, polls, ping, taken, asks, child, status,
                   operations, crashes>>

ReportStatus(c) ==
    /\ pc[c] = "decide" /\ op[c] = "status"
    /\ At(c, "idle")
    /\ UNCHANGED <<daemons, files, op, polls, ping, taken, running, asks, child, result, status, bounds>>

\* start: the first look.
DecideStart(c) ==
    /\ pc[c] = "decide" /\ op[c] = "start" /\ ~polls[c]
    /\ CASE status[c] = "ready" -> Ends(c, "already_ready")
         [] status[c] = "owned_unready" -> Ends(c, "owner_unready")
         [] status[c] = "inconsistent" -> Ends(c, "status_failed")
         [] OTHER -> At(c, "spawn") /\ UNCHANGED result
    /\ UNCHANGED <<daemons, files, op, polls, ping, taken, running, asks, child, status, bounds>>

Spawn(c, d) ==
    /\ pc[c] = "spawn" /\ phase[d] = "none"
    /\ To(d, "own") /\ child' = [child EXCEPT ![c] = d]
    /\ op' = [op EXCEPT ![c] = "start"] /\ polls' = [polls EXCEPT ![c] = TRUE]
    /\ At(c, "ping")
    /\ UNCHANGED <<asked, queued, flawed, files, ping, taken, running, asks, result, status, bounds>>

SpawnFails(c) ==
    /\ pc[c] = "spawn" /\ Fails /\ Ends(c, "spawn_failed")
    /\ UNCHANGED <<daemons, files, op, polls, ping, taken, running, asks, child, status,
                   operations, crashes>>

\* start: the loop that waits for readiness.
PollStart(c) ==
    /\ pc[c] = "decide" /\ op[c] = "start" /\ polls[c]
    /\ \/ status[c] = "ready" /\ Ends(c, "started")
       \/ /\ status[c] # "ready"
          /\ IF phase[child[c]] \in Over THEN Ends(c, "process_exited")
             ELSE At(c, "ping") /\ UNCHANGED result
    /\ UNCHANGED <<daemons, files, op, polls, ping, taken, running, asks, child, status, bounds>>

\* The results of stop: DaemonStopResult rejects a phase other than stopped.
StopResult(c, outcome) ==
    IF status[c] = "stopped" THEN outcome ELSE "value_error"

Finished(c) == status[c] \in {"stopped", "inconsistent"}

\* A restart goes on to start with the status its stop saw.
StopEnds(c, outcome) ==
    IF op[c] = "restart" /\ status[c] = "stopped"
    THEN At(c, "spawn") /\ UNCHANGED result
    ELSE Ends(c, StopResult(c, outcome))

\* stop: the first look.
DecideStop(c) ==
    /\ pc[c] = "decide" /\ op[c] \in {"stop", "restart"} /\ ~polls[c]
    /\ IF ~Finished(c) THEN At(c, "request") /\ UNCHANGED result
       ELSE StopEnds(c, "already_stopped")
    /\ UNCHANGED <<daemons, files, op, polls, ping, taken, running, asks, child, status, bounds>>

\* The request may never arrive, and it may be obeyed after the client has
\* given up on it.
RequestShutdown(c) ==
    /\ pc[c] = "request"
    /\ \/ /\ socket # None /\ phase[socket] \in Listening
          /\ queued' = queued \cup {socket} /\ asks' = [asks EXCEPT ![c] = socket]
       \/ UNCHANGED <<queued, asks>>
    /\ polls' = [polls EXCEPT ![c] = TRUE] /\ At(c, "ping")
    /\ UNCHANGED <<phase, asked, flawed, files, op, ping, taken, running, child,
                   result, status, bounds>>

PollStop(c) ==
    /\ pc[c] = "decide" /\ op[c] \in {"stop", "restart"} /\ polls[c]
    /\ IF ~Finished(c) THEN At(c, "ping") /\ UNCHANGED result
       ELSE StopEnds(c, "stopped")
    /\ UNCHANGED <<daemons, files, op, polls, ping, taken, running, asks, child, status, bounds>>

\* The deadline of a loop.
Timeout(c) ==
    /\ pc[c] = "decide" /\ polls[c]
    /\ IF op[c] = "start" THEN status[c] # "ready" ELSE ~Finished(c)
    /\ Ends(c, "timeout")
    /\ UNCHANGED <<daemons, files, op, polls, ping, taken, running, asks, child, status, bounds>>

-----------------------------------------------------------------------------

Runs(d) ==
    \/ Acquire(d) \/ UnlinkStaleSocket(d) \/ UnlinkStalePid(d) \/ Compose(d)
    \/ Bind(d) \/ PublishPid(d) \/ Launch(d)
    \/ StopServing(d) \/ StopScheduler(d) \/ CloseApplication(d)
    \/ DropSocket(d) \/ DropPid(d) \/ ReleaseLock(d)

Serves(d) == AcceptShutdown(d) \/ \E c \in Clients : AcceptPing(d, c)

Looks(c) ==
    \/ Connect(c) \/ Probe(c) \/ ProbeReleases(c) \/ ProbeFails(c)
    \/ \E yes \in BOOLEAN : Answered(c, yes)

Acts(c) ==
    \/ ReportStatus(c) \/ DecideStart(c) \/ PollStart(c) \/ DecideStop(c)
    \/ RequestShutdown(c) \/ PollStop(c) \/ Timeout(c) \/ SpawnFails(c)
    \/ \E d \in Daemons : Spawn(c, d)

Next ==
    \/ \E d \in Daemons : Runs(d) \/ Serves(d) \/ Signal(d) \/ Crash(d)
    \/ \E c \in Clients, what \in {"start", "stop", "restart", "status"} : Begin(c, what)
    \/ \E c \in Clients : Looks(c) \/ Acts(c)

Spec == Init /\ [][Next]_vars

\* Daemons go on with their steps and take the requests in their backlog.
FairSpec ==
    Spec /\ \A d \in Daemons : WF_vars(Runs(d)) /\ WF_vars(AcceptShutdown(d))
=============================================================================
