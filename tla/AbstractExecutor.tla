-------------------------- MODULE AbstractExecutor --------------------------
(***************************************************************************)
(* What an executor promises: the tasks it accepts are run one at a time,  *)
(* once for every acceptance, in the order of acceptance; when it has been *)
(* closed nothing waits, nothing runs, and nothing is accepted any more.   *)
(***************************************************************************)
EXTENDS Naturals, Sequences, SequencesExt

CONSTANTS
    Tasks,          \* the tasks
    NoTask          \* nothing runs

VARIABLES
    queue,          \* tasks accepted and not begun, in order of acceptance
    current,        \* the task that runs, or NoTask
    ran,            \* how many times the body of each task has been run
    closed          \* shutdown() has returned

absVars == <<queue, current, ran, closed>>

AbsInit ==
    /\ queue   = <<>>
    /\ current = NoTask
    /\ ran     = [t \in Tasks |-> 0]
    /\ closed  = FALSE

Accept(t) ==
    /\ ~closed
    /\ t \notin ToSet(queue) \cup {current}
    /\ queue' = Append(queue, t)
    /\ UNCHANGED <<current, ran, closed>>

Begin ==
    /\ queue # <<>>
    /\ current = NoTask
    /\ current' = Head(queue)
    /\ queue' = Tail(queue)
    /\ UNCHANGED <<ran, closed>>

End ==
    /\ current # NoTask
    /\ ran' = [ran EXCEPT ![current] = @ + 1]
    /\ current' = NoTask
    /\ UNCHANGED <<queue, closed>>

Close ==
    /\ queue = <<>>
    /\ current = NoTask
    /\ closed' = TRUE
    /\ UNCHANGED <<queue, current, ran>>

AbsNext == (\E t \in Tasks : Accept(t)) \/ Begin \/ End \/ Close

AbsSpec == AbsInit /\ [][AbsNext]_absVars
=============================================================================
