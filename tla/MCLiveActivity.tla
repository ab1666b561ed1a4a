---------------------------- MODULE MCLiveActivity ----------------------------
(* A turn of two events and a note of the REPL, in files of a record and a half. *)
EXTENDS LiveActivity

CONSTANTS n1
MCNotes == {n1}
MCRecords == (1..EventCount) \cup MCNotes
MCWriters == {Daemon, Client}
=============================================================================
