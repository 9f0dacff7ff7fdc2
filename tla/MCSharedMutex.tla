---------------------------- MODULE MCSharedMutex ----------------------------
(* Constants of SharedMutexRobust for TLC.                                 *)
EXTENDS SharedMutexRobust, TLC

CONSTANTS t1, t2, t3, o1, o2

\* Two threads share the object of the first process.
TwoShare == t1 :> o1 @@ t2 :> o1 @@ t3 :> o2
=============================================================================
