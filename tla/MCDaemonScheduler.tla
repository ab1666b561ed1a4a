-------------------------- MODULE MCDaemonScheduler --------------------------
EXTENDS DaemonSchedulerProperties

CONSTANTS chat, compress, scan, lane, clock

Sub(id, res, prio, delay, interval) ==
    [task |-> [id |-> id, res |-> res, prio |-> prio],
     delay |-> delay, interval |-> interval]

\* A chat turn and a compression share a lane, at their priorities, the compression
\* later; a scan has a lane of its own and recurs.
MCSubmissions ==
    {Sub(chat, lane, 10, 0, 0), Sub(compress, lane, 120, 1, 0), Sub(scan, clock, 100, 0, 1)}
=============================================================================
