----------------------------- MODULE MCConnLife -----------------------------
(* Instances of ConnLife for TLC.                                          *)
EXTENDS ConnLife

CONSTANTS p1, p2, io, nothread, dm

(* WORKING_THREAD mode: descriptors spread over the procthreads.           *)
TwoProcs == [f \in Fds |-> IF f % 2 = 0 THEN p1 ELSE p2]
OneProc == [f \in Fds |-> p1]
OneIo == [p \in ProcThreads |-> io]

(* WORKING_PROC mode: the daemon is the only thread.                       *)
DaemonOnly == [f \in Fds |-> dm]
NoIo == [p \in ProcThreads |-> nothread]
=============================================================================
