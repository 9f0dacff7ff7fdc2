--------------------------- MODULE NativeExecutor ---------------------------
(***************************************************************************)
(* ipc::NativeExecutor (src/main/ipc/NativeExecutor.cpp): a queue of tasks *)
(* linked through ITask::pNext, guarded by the flag nLock that is only ever*)
(* tried, served by one ipc::Thread.  The thread object and its launcher   *)
(* are those of IpcThread; here are the body of that thread (run), submit  *)
(* and shutdown.  One step is one access to shared memory, except that the *)
(* fields of the list are read and written only under nLock, in the steps  *)
(* the code does it in.                                                    *)
(*                                                                         *)
(* order, outcome, accepted and ran are auxiliary: the accepted tasks that *)
(* still wait, what the last body of each task returned, and how often     *)
(* each task has been accepted and run.                                    *)
(***************************************************************************)
EXTENDS Integers, Sequences

CONSTANTS
    Tasks,          \* the tasks
    Submitters,     \* threads that call submit() and ITask::reset()
    Owner,          \* the thread that calls start() and shutdown()
    Codes,          \* what the body of a task may return
    NoTask,         \* NULL
    MaxAccepted     \* bound: how often each task is submitted

ASSUME NoTaskAssumption == NoTask \notin Tasks
ASSUME BoundAssumption  == MaxAccepted \in Nat

VARIABLES
    enState, hThread, bCancelled, nResult, os, res, at, ret, got,   \* IpcThread
    state,          \* ITask::nState
    nCode,          \* ITask::nCode
    pNext,          \* ITask::pNext
    pHead, pTail,   \* the list
    nLock,          \* the flag: TRUE = free
    sub,            \* where each submitter stands, with which task and result
    rpc,            \* where run() stands
    task,           \* local of run(): the task in hand
    boss,           \* where the owner stands in shutdown()
    order, outcome, accepted, ran

STATUS_OK == 0

T == INSTANCE IpcThread WITH
        Callers <- {Owner}, Results <- {STATUS_OK}, Ok <- STATUS_OK, NoResult <- NoTask

threadVars == <<enState, hThread, bCancelled, nResult, os, res, at, ret, got>>
listVars   == <<pNext, pHead, pTail>>
taskVars   == <<state, nCode>>
auxVars    == <<order, outcome, accepted, ran>>
vars == <<threadVars, taskVars, listVars, nLock, sub, rpc, task, boss, auxVars>>

TaskStates == {"IDLE", "SUBMITTED", "RUNNING", "COMPLETED"}

Init ==
    /\ T!Init
    /\ state = [t \in Tasks |-> "IDLE"]
    /\ nCode = [t \in Tasks |-> 0]
    /\ pNext = [t \in Tasks |-> NoTask]
    /\ pHead = NoTask
    /\ pTail = NoTask
    /\ nLock = TRUE
    /\ sub   = [s \in Submitters |-> [at |-> "idle", task |-> NoTask, result |-> FALSE]]
    /\ rpc   = "check"
    /\ task  = NoTask
    /\ boss  = "idle"
    /\ order = <<>>
    /\ outcome  = [t \in Tasks |-> 0]
    /\ accepted = [t \in Tasks |-> 0]
    /\ ran      = [t \in Tasks |-> 0]

-----------------------------------------------------------------------------
(* submit()                                                                *)

SubGoto(s, label) == sub' = [sub EXCEPT ![s].at = label]

SubReturn(s, result) ==
    sub' = [sub EXCEPT ![s].at = "idle", ![s].result = result]

\* Change the state IDLE -> SUBMITTED, or return false.
SubmitTask(s, t) ==
    /\ sub[s].at = "idle"
    /\ accepted[t] < MaxAccepted
    /\ IF state[t] = "IDLE"
         THEN /\ state' = [state EXCEPT ![t] = "SUBMITTED"]
              /\ sub' = [sub EXCEPT ![s] = [@ EXCEPT !.at = "lock", !.task = t]]
         ELSE /\ sub' = [sub EXCEPT ![s] = [at |-> "idle", task |-> t, result |-> FALSE]]
              /\ UNCHANGED state
    /\ UNCHANGED <<threadVars, nCode, listVars, nLock, rpc, task, boss, auxVars>>

\* Variant: the lock is waited for by nobody and taken by everybody.
SubmitUnlocked(s) ==
    /\ sub[s].at = "lock"
    /\ nLock' = FALSE
    /\ SubGoto(s, "link")
    /\ UNCHANGED <<threadVars, taskVars, listVars, rpc, task, boss, auxVars>>

SubmitLock(s) ==
    /\ sub[s].at = "lock"
    /\ nLock' = FALSE
    /\ SubGoto(s, IF nLock THEN "link" ELSE "undo")
    /\ UNCHANGED <<threadVars, taskVars, listVars, rpc, task, boss, auxVars>>

\* Variant: a refused task is not made idle again.
SubmitForget(s) ==
    /\ sub[s].at = "undo"
    /\ SubReturn(s, FALSE)
    /\ UNCHANGED <<threadVars, taskVars, listVars, nLock, rpc, task, boss, auxVars>>

\* The lock was not free: the task becomes idle again.
SubmitUndo(s) ==
    /\ sub[s].at = "undo"
    /\ state' = [state EXCEPT ![sub[s].task] = "IDLE"]
    /\ SubReturn(s, FALSE)
    /\ UNCHANGED <<threadVars, nCode, listVars, nLock, rpc, task, boss, auxVars>>

\* Variant: the new task is put in front of the list.
SubmitPush(s) ==
    LET t == sub[s].task IN
    /\ sub[s].at = "link"
    /\ pNext'    = [pNext EXCEPT ![t] = pHead]
    /\ pHead'    = t
    /\ order'    = Append(order, t)
    /\ accepted' = [accepted EXCEPT ![t] = @ + 1]
    /\ SubGoto(s, IF pTail = NoTask THEN "tail" ELSE "unlock")
    /\ UNCHANGED <<threadVars, taskVars, pTail, nLock, rpc, task, boss, outcome, ran>>

\* link_task(pTail, task), or pHead = task
SubmitLink(s) ==
    LET t == sub[s].task IN
    /\ sub[s].at = "link"
    /\ IF pTail # NoTask
         THEN /\ pNext' = [pNext EXCEPT ![pTail] = t, ![t] = NoTask]
              /\ UNCHANGED pHead
         ELSE /\ pHead' = t
              /\ UNCHANGED pNext
    /\ order'    = Append(order, t)
    /\ accepted' = [accepted EXCEPT ![t] = @ + 1]
    /\ SubGoto(s, "tail")
    /\ UNCHANGED <<threadVars, taskVars, pTail, nLock, rpc, task, boss, outcome, ran>>

\* pTail = task
SubmitTail(s) ==
    /\ sub[s].at = "tail"
    /\ pTail' = sub[s].task
    /\ SubGoto(s, "unlock")
    /\ UNCHANGED <<threadVars, taskVars, pNext, pHead, nLock, rpc, task, boss, auxVars>>

\* The lock is released when the function returns.
SubmitUnlock(s) ==
    /\ sub[s].at = "unlock"
    /\ nLock' = TRUE
    /\ SubReturn(s, TRUE)
    /\ UNCHANGED <<threadVars, taskVars, listVars, rpc, task, boss, auxVars>>

\* ITask::reset() by a client, between two submissions.
ResetTask(s, t) ==
    /\ sub[s].at = "idle"
    /\ state[t] = "COMPLETED"
    /\ state' = [state EXCEPT ![t] = "IDLE"]
    /\ UNCHANGED <<threadVars, nCode, listVars, nLock, sub, rpc, task, boss, auxVars>>

-----------------------------------------------------------------------------
(* run(), the body of the thread, and run_task()                           *)

At(label) == os = "body" /\ rpc = label

RunStays == UNCHANGED <<enState, hThread, bCancelled, nResult, os, res, at, ret, got,
                        sub, boss>>

\* run() returns, and with it the body of the thread.
RunReturns ==
    /\ T!BodyReturn(STATUS_OK)
    /\ UNCHANGED rpc

RunCheck ==
    /\ At("check")
    /\ IF bCancelled THEN RunReturns /\ UNCHANGED <<sub, boss>>
                     ELSE rpc' = "lock" /\ RunStays
    /\ UNCHANGED <<taskVars, listVars, nLock, task, auxVars>>

\* The lock is free: take it.
RunLock ==
    /\ At("lock")
    /\ nLock
    /\ nLock' = FALSE
    /\ rpc' = "head"
    /\ RunStays
    /\ UNCHANGED <<taskVars, listVars, task, auxVars>>

\* Variant: a worker that waits for the lock does not see the cancellation.
RunRetryDeaf ==
    /\ At("lock")
    /\ ~nLock
    /\ UNCHANGED vars

\* The lock is not free: sleep(POLL_INTERVAL) returns STATUS_CANCELLED, or the
\* loop tries again.
RunRetry ==
    /\ At("lock")
    /\ ~nLock
    /\ bCancelled
    /\ RunReturns
    /\ UNCHANGED <<sub, boss, taskVars, listVars, nLock, task, auxVars>>

\* sleep(POLL_INTERVAL) with an empty queue.
RunNap ==
    /\ At("nap")
    /\ IF bCancelled
         THEN RunReturns /\ UNCHANGED <<sub, boss>>
         ELSE rpc' = "check" /\ RunStays
    /\ UNCHANGED <<taskVars, listVars, nLock, task, auxVars>>

RunHead ==
    /\ At("head")
    /\ task' = pHead
    /\ rpc' = IF pHead = NoTask THEN "empty" ELSE "unlink"
    /\ RunStays
    /\ UNCHANGED <<taskVars, listVars, nLock, auxVars>>

\* The queue is empty: release the lock and sleep.
RunEmpty ==
    /\ At("empty")
    /\ nLock' = TRUE
    /\ rpc' = "nap"
    /\ RunStays
    /\ UNCHANGED <<taskVars, listVars, task, auxVars>>

\* Variant: the removed task keeps its link.
RunUnlinkDirty ==
    /\ At("unlink")
    /\ pHead' = pNext[pHead]
    /\ order' = Tail(order)
    /\ rpc' = "tail"
    /\ RunStays
    /\ UNCHANGED <<taskVars, pNext, pTail, nLock, task, outcome, accepted, ran>>

\* pHead = unlink_task(pHead)
RunUnlink ==
    /\ At("unlink")
    /\ pHead' = pNext[pHead]
    /\ pNext' = [pNext EXCEPT ![pHead] = NoTask]
    /\ order' = Tail(order)
    /\ rpc' = "tail"
    /\ RunStays
    /\ UNCHANGED <<taskVars, pTail, nLock, task, outcome, accepted, ran>>

\* Variant: pTail survives the last task.
RunTailKept ==
    /\ At("tail")
    /\ rpc' = "unlock"
    /\ RunStays
    /\ UNCHANGED <<taskVars, listVars, nLock, task, auxVars>>

RunTail ==
    /\ At("tail")
    /\ pTail' = IF pHead = NoTask THEN NoTask ELSE pTail
    /\ rpc' = "unlock"
    /\ RunStays
    /\ UNCHANGED <<taskVars, pNext, pHead, nLock, task, auxVars>>

RunUnlock ==
    /\ At("unlock")
    /\ nLock' = TRUE
    /\ rpc' = "running"
    /\ RunStays
    /\ UNCHANGED <<taskVars, listVars, task, auxVars>>

\* run_task: nState = TS_RUNNING
TaskRunning ==
    /\ At("running")
    /\ state' = [state EXCEPT ![task] = "RUNNING"]
    /\ rpc' = "zero"
    /\ RunStays
    /\ UNCHANGED <<nCode, listVars, nLock, task, auxVars>>

\* run_task: nCode = 0
TaskZero ==
    /\ At("zero")
    /\ nCode' = [nCode EXCEPT ![task] = 0]
    /\ rpc' = "exec"
    /\ RunStays
    /\ UNCHANGED <<state, listVars, nLock, task, auxVars>>

\* Variant: the task is marked completed before its code is stored.
TaskBodyEarly(code) ==
    /\ At("exec")
    /\ outcome' = [outcome EXCEPT ![task] = code]
    /\ ran'     = [ran EXCEPT ![task] = @ + 1]
    /\ state'   = [state EXCEPT ![task] = "COMPLETED"]
    /\ rpc' = "code"
    /\ RunStays
    /\ UNCHANGED <<nCode, listVars, nLock, task, order, accepted>>

\* run_task: the body of the task returns a code
TaskBody(code) ==
    /\ At("exec")
    /\ outcome' = [outcome EXCEPT ![task] = code]
    /\ ran'     = [ran EXCEPT ![task] = @ + 1]
    /\ rpc' = "code"
    /\ RunStays
    /\ UNCHANGED <<taskVars, listVars, nLock, task, order, accepted>>

\* run_task: nCode = task->run()
TaskCode ==
    /\ At("code")
    /\ nCode' = [nCode EXCEPT ![task] = outcome[task]]
    /\ rpc' = "complete"
    /\ RunStays
    /\ UNCHANGED <<state, listVars, nLock, task, auxVars>>

\* run_task: nState = TS_COMPLETED; from here on a client may reset the task
TaskComplete ==
    /\ At("complete")
    /\ state' = [state EXCEPT ![task] = "COMPLETED"]
    /\ rpc' = "finished"
    /\ RunStays
    /\ UNCHANGED <<nCode, listVars, nLock, task, auxVars>>

\* task_finished() reads task->pExecutor, which is NULL here.
TaskFinished ==
    /\ At("finished")
    /\ rpc' = "check"
    /\ RunStays
    /\ UNCHANGED <<taskVars, listVars, nLock, task, auxVars>>

-----------------------------------------------------------------------------
(* start() and shutdown()                                                  *)

OthersStay == UNCHANGED <<taskVars, listVars, sub, rpc, task, auxVars>>

StartExecutor ==
    /\ boss = "idle"
    /\ T!StartCreate(Owner) \/ T!StartHandle(Owner) \/ T!StartPending(Owner)
    /\ UNCHANGED <<boss, nLock>>
    /\ OthersStay

ShutdownBegin ==
    /\ boss = "idle"
    /\ os # "none" /\ at[Owner] = "idle"
    /\ boss' = "poll"
    /\ UNCHANGED <<threadVars, nLock>>
    /\ OthersStay

\* One turn of the polling loop: try the lock, or sleep and try again.
ShutdownPoll ==
    /\ boss = "poll"
    /\ nLock' = FALSE
    /\ boss' = IF nLock THEN "look" ELSE "poll"
    /\ UNCHANGED threadVars
    /\ OthersStay

\* Variant: the queue is not looked at.
ShutdownHasty ==
    /\ boss = "look"
    /\ boss' = "cancel"
    /\ UNCHANGED <<threadVars, nLock>>
    /\ OthersStay

\* An empty queue ends the loop with the lock kept.
ShutdownLook ==
    /\ boss = "look"
    /\ boss' = IF pHead = NoTask THEN "cancel" ELSE "release"
    /\ UNCHANGED <<threadVars, nLock>>
    /\ OthersStay

ShutdownRelease ==
    /\ boss = "release"
    /\ nLock' = TRUE
    /\ boss' = "poll"
    /\ UNCHANGED threadVars
    /\ OthersStay

\* hThread.cancel()
ShutdownCancel ==
    /\ boss = "cancel"
    /\ T!CancelLoad(Owner) \/ T!CancelFlag(Owner)
    /\ boss' = IF at'[Owner] = "idle" THEN "join" ELSE "cancel"
    /\ UNCHANGED nLock
    /\ OthersStay

\* hThread.join()
ShutdownJoin ==
    /\ boss = "join"
    /\ T!JoinLoad(Owner) \/ T!JoinWait(Owner)
    /\ boss' = IF at'[Owner] = "idle" THEN "done" ELSE "join"
    /\ UNCHANGED nLock
    /\ OthersStay

\* The launcher of the thread, around run().
LauncherStep ==
    /\ T!Launcher
    /\ UNCHANGED <<boss, nLock>>
    /\ OthersStay

-----------------------------------------------------------------------------
SubmitStep(s) ==
    \/ SubmitLock(s) \/ SubmitUndo(s) \/ SubmitLink(s) \/ SubmitTail(s) \/ SubmitUnlock(s)

RunStep ==
    \/ RunCheck \/ RunLock \/ RunRetry \/ RunNap \/ RunHead \/ RunEmpty \/ RunUnlink \/ RunTail
    \/ RunUnlock \/ TaskRunning \/ TaskZero \/ TaskCode \/ TaskComplete \/ TaskFinished
    \/ \E code \in Codes : TaskBody(code)

ShutdownStep ==
    \/ ShutdownPoll \/ ShutdownLook \/ ShutdownRelease \/ ShutdownCancel \/ ShutdownJoin

Client(s) == \E t \in Tasks : SubmitTask(s, t) \/ ResetTask(s, t)

Next ==
    \/ \E s \in Submitters : Client(s) \/ SubmitStep(s)
    \/ RunStep
    \/ StartExecutor \/ ShutdownBegin \/ ShutdownStep
    \/ LauncherStep

Spec == Init /\ [][Next]_vars

\* Every thread runs, the bodies of the tasks return.  nLock is tried, never
\* waited for: the critical sections are a few instructions and the pollers
\* sleep 20 ms between two attempts, so an attempt that keeps finding the flag
\* free again and again eventually succeeds (strong fairness).
Fairness ==
    /\ \A s \in Submitters : WF_vars(SubmitStep(s))
    /\ WF_vars(RunStep) /\ SF_vars(RunLock)
    /\ WF_vars(ShutdownStep) /\ SF_vars(nLock /\ ShutdownPoll)
    /\ WF_vars(LauncherStep) /\ WF_vars(at[Owner] # "idle" /\ StartExecutor)

FairSpec == Spec /\ Fairness

-----------------------------------------------------------------------------
(* Properties                                                              *)

\* The ranges of the variables of the executor.
TypeOK ==
    /\ state \in [Tasks -> TaskStates]
    /\ nCode \in [Tasks -> Codes \cup {0}]
    /\ pNext \in [Tasks -> Tasks \cup {NoTask}]
    /\ {pHead, pTail, task} \subseteq Tasks \cup {NoTask}
    /\ nLock \in BOOLEAN
    /\ sub \in [Submitters -> [at : {"idle", "lock", "undo", "link", "tail", "unlock"},
                               task : Tasks \cup {NoTask}, result : BOOLEAN]]
    /\ rpc \in {"check", "lock", "nap", "head", "empty", "unlink", "tail",
                "unlock", "running", "zero", "exec", "code", "complete", "finished"}
    /\ boss \in {"idle", "poll", "look", "release", "cancel", "join", "done"}
    /\ order \in Seq(Tasks)

\* Whoever is between a successful trylock and its unlock.
InSection ==
    {s \in Submitters : sub[s].at \in {"link", "tail", "unlock"}}
    \cup (IF At("head") \/ At("empty") \/ At("unlink") \/ At("tail") \/ At("unlock")
            THEN {"run"} ELSE {})
    \cup (IF boss \in {"look", "release", "cancel", "join", "done"} THEN {"boss"} ELSE {})

\* The list is never touched by two threads at once: a submitter, the worker
\* and shutdown() hold nLock in turn, and the flag says so.
ListIsGuarded ==
    /\ \A x, y \in InSection : x = y
    /\ nLock <=> InSection = {}

\* The list the code walks is the queue of accepted tasks: pHead, the links and
\* pTail spell out the tasks in order of acceptance, whenever nobody is in the
\* middle of changing them, and a task outside the list has no link.
ListIsQueue ==
    nLock =>
        /\ pHead = (IF order = <<>> THEN NoTask ELSE order[1])
        /\ pTail = (IF order = <<>> THEN NoTask ELSE order[Len(order)])
        /\ \A i \in 1..Len(order) :
              pNext[order[i]] = (IF i = Len(order) THEN NoTask ELSE order[i + 1])
        /\ \A t \in Tasks : (\A i \in 1..Len(order) : order[i] # t) => pNext[t] = NoTask

\* A task is in one place: it is COMPLETED or IDLE exactly when no submission
\* of it is under way, waiting or running, so that a client that resets and
\* submits it again cannot get it into the list twice.
Owned(t) ==
    \/ \E s \in Submitters : sub[s].task = t /\ sub[s].at \in {"lock", "undo", "link"}
    \/ \E i \in 1..Len(order) : order[i] = t
    \/ os = "body" /\ task = t
         /\ rpc \in {"tail", "unlock", "running", "zero", "exec", "code", "complete"}

OneSubmission == \A t \in Tasks : Owned(t) <=> state[t] \in {"SUBMITTED", "RUNNING"}

\* A client that sees COMPLETED reads the code its task returned, not the zero
\* or the code of an earlier run (the order of the stores in run_task).
CompletedCode == \A t \in Tasks : state[t] = "COMPLETED" => nCode[t] = outcome[t]

\* shutdown() returns only when every accepted task has been run to its end
\* and none is in hand (IExecutor.h: the method must return only when all
\* tasks have been completed or terminated).
ShutdownQuiesces ==
    boss = "done" =>
        /\ os \in {"store", "gone"}
        /\ order = <<>>
        /\ \A t \in Tasks : accepted[t] = ran[t] /\ state[t] # "RUNNING"

\* The executor runs the accepted tasks one by one, once each, in the order of
\* acceptance, and nothing more after shutdown().
Abs == INSTANCE AbstractExecutor WITH
    queue   <- order,
    current <- IF os = "body" /\ rpc \in {"tail", "unlock", "running", "zero", "exec"}
                 THEN task ELSE NoTask,
    closed  <- boss = "done"
ImplementsExecutor == Abs!AbsSpec

\* Every accepted task is eventually run, and shutdown() eventually returns.
AcceptedRuns ==
    \A t \in Tasks : (accepted[t] > ran[t] /\ os # "none") ~> accepted[t] = ran[t]

ShutdownReturns == boss = "poll" ~> boss = "done"
=============================================================================
