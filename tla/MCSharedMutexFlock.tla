------------------------- MODULE MCSharedMutexFlock -------------------------
(* Constants of SharedMutexFlock for TLC.                                  *)
EXTENDS SharedMutexFlock, TLC

CONSTANTS t1, t2, t3, o1, o2, o3

\* Three processes with a thread each, or two threads in the first of two.
OneEachOrTwoShare ==
    {t1 :> o1 @@ t2 :> o2 @@ t3 :> o3, t1 :> o1 @@ t2 :> o1 @@ t3 :> o2}
=============================================================================
