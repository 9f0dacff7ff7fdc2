------------------------------ MODULE IpcThread ------------------------------
(***************************************************************************)
(* The life of one ipc::Thread object (src/main/ipc/Thread.cpp, the POSIX  *)
(* variant): start, the launcher that runs on the new system thread,       *)
(* cancel, join and get_result.                                            *)
(*                                                                         *)
(*   launcher  none -> spin -> body -> commit -> store -> gone             *)
(*   start     idle -> handle -> pending -> idle                           *)
(*   cancel    idle -> flag -> idle                                        *)
(*   join      idle -> (pjoin ->) idle                                     *)
(*                                                                         *)
(* The object is started once and joined by the thread that started it, as *)
(* every use in the repository does; any thread may cancel it.             *)
(***************************************************************************)
EXTENDS Integers, TLAPS

CONSTANTS
    Callers,        \* threads that hold a reference to the object
    Owner,          \* the one that starts and joins it
    Results,        \* what the body may return
    Ok,             \* STATUS_OK, to which the constructor sets nResult
    NoResult        \* nothing returned, nothing read

ASSUME OwnerAssumption    == Owner \in Callers
ASSUME ResultsAssumption  == NoResult \notin Results \cup {Ok}

VARIABLES
    enState,        \* TS_CREATED, TS_PENDING, TS_RUNNING, TS_FINISHED
    hThread,        \* whether the handle has been stored
    bCancelled,     \* the cancellation flag
    nResult,        \* the result that get_result returns
    os,             \* where the system thread stands
    res,            \* local of the launcher: what run() returned
    at,             \* where each caller stands in the method it calls
    ret,            \* status of the last call of each caller
    got             \* what the owner last read from get_result after a join

threadVars == <<enState, hThread, bCancelled, nResult, os, res>>
callerVars == <<at, ret, got>>
vars == <<enState, hThread, bCancelled, nResult, os, res, at, ret, got>>

States   == {"CREATED", "PENDING", "RUNNING", "FINISHED"}
Statuses == {"OK", "BAD_STATE", "UNKNOWN_ERR", "JOINED"}

Init ==
    /\ enState    = "CREATED"
    /\ hThread    = FALSE
    /\ bCancelled = FALSE
    /\ nResult    = Ok
    /\ os         = "none"
    /\ res        = NoResult
    /\ at         = [c \in Callers |-> "idle"]
    /\ ret        = [c \in Callers |-> "OK"]
    /\ got        = NoResult

Goto(c, label)   == at' = [at EXCEPT ![c] = label] /\ UNCHANGED ret
Return(c, status) ==
    /\ at'  = [at EXCEPT ![c] = "idle"]
    /\ ret' = [ret EXCEPT ![c] = status]

-----------------------------------------------------------------------------
(* start()                                                                 *)

\* pthread_create: the new thread runs before the object knows of it.
StartCreate(c) ==
    /\ at[c] = "idle"
    /\ os = "none"
    /\ os' = "spin"
    /\ Goto(c, "handle")
    /\ UNCHANGED <<enState, hThread, bCancelled, nResult, res, got>>

StartFails(c) ==
    /\ at[c] = "idle"
    /\ os = "none"
    /\ Return(c, "UNKNOWN_ERR")
    /\ UNCHANGED <<threadVars, got>>

\* hThread = tid
StartHandle(c) ==
    /\ at[c] = "handle"
    /\ hThread' = TRUE
    /\ Goto(c, "pending")
    /\ UNCHANGED <<enState, bCancelled, nResult, os, res, got>>

\* atomic_store(&enState, TS_PENDING)
StartPending(c) ==
    /\ at[c] = "pending"
    /\ enState' = "PENDING"
    /\ Return(c, "OK")
    /\ UNCHANGED <<hThread, bCancelled, nResult, os, res, got>>

-----------------------------------------------------------------------------
(* thread_launcher()                                                       *)

\* Variant: the launcher does not wait for start() to finish.
LaunchAtOnce ==
    /\ os = "spin"
    /\ enState' = "RUNNING"
    /\ os' = "body"
    /\ UNCHANGED <<hThread, bCancelled, nResult, res, callerVars>>

\* Variant: the launcher clears the cancellation flag.
LaunchClears ==
    /\ os = "spin"
    /\ enState = "PENDING"
    /\ enState' = "RUNNING"
    /\ bCancelled' = FALSE
    /\ os' = "body"
    /\ UNCHANGED <<hThread, nResult, res, callerVars>>

\* The compare-and-swap PENDING -> RUNNING that ends the spin.
Launch ==
    /\ os = "spin"
    /\ enState = "PENDING"
    /\ enState' = "RUNNING"
    /\ os' = "body"
    /\ UNCHANGED <<hThread, bCancelled, nResult, res, callerVars>>

\* run() returns.
BodyReturn(r) ==
    /\ os = "body"
    /\ res' = r
    /\ os' = "commit"
    /\ UNCHANGED <<enState, hThread, bCancelled, nResult, callerVars>>

\* The loop that stores TS_FINISHED over whatever the state is.
Commit ==
    /\ os = "commit"
    /\ enState' = "FINISHED"
    /\ os' = "store"
    /\ UNCHANGED <<hThread, bCancelled, nResult, res, callerVars>>

\* _this->nResult = res; return NULL
StoreResult ==
    /\ os = "store"
    /\ nResult' = res
    /\ os' = "gone"
    /\ UNCHANGED <<enState, hThread, bCancelled, res, callerVars>>

-----------------------------------------------------------------------------
(* cancel(), join(), get_result()                                          *)

CancelLoad(c) ==
    /\ at[c] = "idle"
    /\ IF enState \in {"PENDING", "RUNNING"}
         THEN Goto(c, "flag")
         ELSE Return(c, "BAD_STATE")
    /\ UNCHANGED <<threadVars, got>>

CancelFlag(c) ==
    /\ at[c] = "flag"
    /\ bCancelled' = TRUE
    /\ Return(c, "OK")
    /\ UNCHANGED <<enState, hThread, nResult, os, res, got>>

\* Variant: a started thread is taken for joined.
JoinLoadEager(c) ==
    /\ at[c] = "idle"
    /\ Return(c, IF enState = "CREATED" THEN "BAD_STATE" ELSE "JOINED")
    /\ UNCHANGED <<threadVars, got>>

\* A finished thread is not waited for (and not joined).
JoinLoad(c) ==
    /\ at[c] = "idle"
    /\ CASE enState = "CREATED"                 -> Return(c, "BAD_STATE")
         [] enState \in {"PENDING", "RUNNING"} -> Goto(c, "pjoin")
         [] enState = "FINISHED"                -> Return(c, "JOINED")
    /\ UNCHANGED <<threadVars, got>>

\* pthread_join returns when the system thread is gone.
JoinWait(c) ==
    /\ at[c] = "pjoin"
    /\ os = "gone"
    /\ Return(c, "JOINED")
    /\ UNCHANGED <<threadVars, got>>

\* get_result(): the state is tested first; FINISHED does not change any more,
\* so the two reads are one step.
GetResult(c) ==
    /\ at[c] = "idle"
    /\ ret[c] = "JOINED"
    /\ got = NoResult
    /\ got' = IF enState = "FINISHED" THEN nResult ELSE "BAD_STATE"
    /\ UNCHANGED <<threadVars, at, ret>>

-----------------------------------------------------------------------------
Launcher == Launch \/ Commit \/ StoreResult

OwnerStep(c) ==
    \/ StartCreate(c) \/ StartFails(c) \/ StartHandle(c) \/ StartPending(c)
    \/ JoinLoad(c) \/ JoinWait(c) \/ GetResult(c)

Next ==
    \/ OwnerStep(Owner)
    \/ \E c \in Callers : CancelLoad(c) \/ CancelFlag(c)
    \/ Launcher
    \/ \E r \in Results : BodyReturn(r)

Spec == Init /\ [][Next]_vars

\* Every system thread runs; a call that has begun goes on; a body that has
\* been cancelled returns, because it sleeps or polls (Thread::sleep and
\* is_cancelled look at bCancelled), and only then is it obliged to.
Fairness ==
    /\ WF_vars(Launcher)
    /\ WF_vars(bCancelled /\ \E r \in Results : BodyReturn(r))
    /\ WF_vars(StartHandle(Owner) \/ StartPending(Owner) \/ JoinWait(Owner))
    /\ \A c \in Callers : WF_vars(CancelFlag(c))

FairSpec == Spec /\ Fairness

-----------------------------------------------------------------------------
(* Properties                                                              *)

\* The ranges of the variables.
TypeOK ==
    /\ enState \in States
    /\ hThread \in BOOLEAN
    /\ bCancelled \in BOOLEAN
    /\ nResult \in Results \cup {Ok}
    /\ os \in {"none", "spin", "body", "commit", "store", "gone"}
    /\ res \in Results \cup {NoResult}
    /\ at \in [Callers -> {"idle", "handle", "pending", "flag", "pjoin"}]
    /\ ret \in [Callers -> Statuses]
    /\ got \in Results \cup {Ok, NoResult, "BAD_STATE"}

\* The state and the system thread agree: run() begins only after start() has
\* stored the handle and the state, so that the last store of start() cannot
\* overwrite RUNNING or FINISHED (the spin of thread_launcher).
StateFollowsThread ==
    /\ TypeOK
    /\ os = "none" => enState = "CREATED"
    /\ os = "spin" => enState \in {"CREATED", "PENDING"}
    /\ os \in {"body", "commit"} => enState = "RUNNING" /\ hThread /\ at[Owner] # "pending"
    /\ os \in {"store", "gone"}  <=> enState = "FINISHED"

\* When join() has said OK the body has returned: nothing of run() executes
\* any more, whichever of the states join() saw.
JoinedBodyReturned == ret[Owner] = "JOINED" => os \in {"store", "gone"}

\* A cancellation that was accepted stops the thread: the flag reaches a body
\* that polls, whenever the request comes between start() and the end of run().
CancelStops == bCancelled ~> os = "gone"

\* join() of a cancelled thread returns.
JoinReturns == (at[Owner] = "pjoin" /\ bCancelled) ~> ret[Owner] = "JOINED"

\* What the test of the repository asserts: after join(), get_result() is what
\* run() returned (src/test/utest/ipc/thread.cpp:174-183).
ResultAfterJoin == got # NoResult => got = res

-----------------------------------------------------------------------------
(* Proofs, for any callers and results                                     *)

\* Where the system thread and the owner are decides the state, the handle and
\* the result; only the owner starts and joins.
LifeInv ==
    /\ \A c \in Callers : at[c] \in {"handle", "pending", "pjoin"} => c = Owner
    /\ at[Owner] \in {"handle", "pending"} => os = "spin"
    /\ enState = "CREATED" <=> os = "none" \/ at[Owner] \in {"handle", "pending"}
    /\ enState = "PENDING" => os = "spin"
    /\ enState = "RUNNING" <=> os \in {"body", "commit"}
    /\ enState = "FINISHED" <=> os \in {"store", "gone"}
    /\ enState # "CREATED" \/ at[Owner] = "pending" => hThread
    /\ os \in {"commit", "store", "gone"} => res \in Results
    /\ nResult = IF os = "gone" THEN res ELSE Ok
    /\ ret[Owner] = "JOINED" \/ got # NoResult => enState = "FINISHED"
    /\ got \in {NoResult, Ok, res}

IInv == TypeOK /\ LifeInv

\* The initial state satisfies the inductive invariant.
LEMMA InitIInv == Init => IInv
<1> SUFFICES ASSUME Init PROVE IInv
  OBVIOUS
<1>1. TypeOK
  <2>1. hThread \in BOOLEAN /\ bCancelled \in BOOLEAN
    BY Zenon DEF Init
  <2> QED BY <2>1 DEF Init, TypeOK, States, Statuses
<1>2. LifeInv
  BY OwnerAssumption DEF Init, LifeInv
<1> QED BY <1>1, <1>2 DEF IInv

\* Every step of the owner, of the launcher and of those who cancel preserves it.
LEMMA NextIInv == IInv /\ [Next]_vars => IInv'
<1> SUFFICES ASSUME IInv, [Next]_vars PROVE IInv'
  OBVIOUS
<1> USE OwnerAssumption, ResultsAssumption
    DEF IInv, TypeOK, LifeInv, Goto, Return, threadVars, callerVars
<1>1. CASE StartCreate(Owner)
  BY <1>1 DEF StartCreate
<1>2. CASE StartFails(Owner)
  BY <1>2 DEF StartFails, Statuses
<1>3. CASE StartHandle(Owner)
  BY <1>3 DEF StartHandle
<1>4. CASE StartPending(Owner)
  BY <1>4 DEF StartPending, States, Statuses
<1>5. CASE Launch
  BY <1>5 DEF Launch, States
<1>6. ASSUME NEW r \in Results, BodyReturn(r) PROVE IInv'
  BY <1>6 DEF BodyReturn
<1>7. CASE Commit
  BY <1>7 DEF Commit, States
<1>8. CASE StoreResult
  BY <1>8 DEF StoreResult
<1>9. ASSUME NEW c \in Callers, CancelLoad(c) PROVE IInv'
  BY <1>9 DEF CancelLoad, Statuses
<1>10. ASSUME NEW c \in Callers, CancelFlag(c) PROVE IInv'
  BY <1>10 DEF CancelFlag, Statuses
<1>11. CASE JoinLoad(Owner)
  BY <1>11 DEF JoinLoad, States, Statuses
<1>12. CASE JoinWait(Owner)
  BY <1>12 DEF JoinWait, Statuses
<1>13. CASE GetResult(Owner)
  BY <1>13 DEF GetResult
<1>14. CASE UNCHANGED vars
  BY <1>14 DEF vars
<1> QED
  BY <1>1, <1>2, <1>3, <1>4, <1>5, <1>6, <1>7, <1>8, <1>9, <1>10, <1>11, <1>12, <1>13, <1>14
     DEF Next, OwnerStep, Launcher

\* The variables of the thread object and of its callers keep their ranges.
THEOREM TypeCorrect == Spec => []TypeOK
<1>1. IInv => TypeOK BY DEF IInv
<1> QED BY <1>1, InitIInv, NextIInv, PTL DEF Spec

\* The state of the object follows the system thread: run() begins only after
\* start() has stored everything (the spin of thread_launcher).
THEOREM StateFollowsThreadHolds == Spec => []StateFollowsThread
<1>1. IInv => StateFollowsThread
  BY DEF IInv, LifeInv, TypeOK, States, StateFollowsThread
<1> QED BY <1>1, InitIInv, NextIInv, PTL DEF Spec

\* A successful join() means that run() has returned, in both of its branches.
THEOREM JoinedBodyReturnedHolds == Spec => []JoinedBodyReturned
<1>1. IInv => JoinedBodyReturned
  BY DEF IInv, LifeInv, JoinedBodyReturned
<1> QED BY <1>1, InitIInv, NextIInv, PTL DEF Spec

\* What is left of ResultAfterJoin: after a join() get_result() says what run()
\* returned or the STATUS_OK of the constructor, and never that the thread has
\* not finished.
ResultOrOk == got # NoResult => got \in {res, Ok} /\ res \in Results
THEOREM ResultOrOkHolds == Spec => []ResultOrOk
<1>1. IInv => ResultOrOk
  BY DEF IInv, LifeInv, ResultOrOk
<1> QED BY <1>1, InitIInv, NextIInv, PTL DEF Spec

\* enState goes from CREATED over PENDING and RUNNING to FINISHED and takes no
\* other step: no store of start() or of the launcher undoes one of the other,
\* and the two reads of get_result(), which come after FINISHED, are as one.
StateStep ==
    \/ enState = "CREATED" /\ enState' = "PENDING"
    \/ enState = "PENDING" /\ enState' = "RUNNING"
    \/ enState = "RUNNING" /\ enState' = "FINISHED"
StateForward == [][StateStep]_enState
THEOREM StateForwardHolds == Spec => StateForward
<1>1. IInv /\ [Next]_vars => [StateStep]_enState
  <2> SUFFICES ASSUME IInv, [Next]_vars, enState' # enState PROVE StateStep
    OBVIOUS
  <2>1. StartPending(Owner) \/ Launch \/ Commit
    BY DEF Next, OwnerStep, Launcher, StartCreate, StartFails, StartHandle, JoinLoad,
       JoinWait, GetResult, CancelLoad, CancelFlag, BodyReturn, StoreResult, threadVars, vars
  <2>2. CASE StartPending(Owner)
    BY <2>2 DEF StartPending, IInv, LifeInv, StateStep
  <2>3. CASE Launch
    BY <2>3 DEF Launch, StateStep
  <2>4. CASE Commit
    BY <2>4 DEF Commit, IInv, LifeInv, StateStep
  <2> QED BY <2>1, <2>2, <2>3, <2>4
<1> QED BY <1>1, InitIInv, NextIInv, PTL DEF Spec, StateForward
=============================================================================
