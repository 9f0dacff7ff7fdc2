-------------------------- MODULE SharedMutexRobust --------------------------
(***************************************************************************)
(* lock, try_lock, timed lock, unlock and close of ipc::SharedMutex where  *)
(* robust mutexes exist (src/main/ipc/SharedMutex.cpp, Linux and FreeBSD). *)
(* Each object belongs to one process and is shared by the threads of that *)
(* process; all objects name the same mutex in shared memory, which the    *)
(* system marks when its owner dies, if it still finds the mutex where the *)
(* owner locked it.                                                        *)
(*                                                                         *)
(*   lock     idle -> "lock", "timed" or "try" -> store -> idle            *)
(*   unlock   idle -> kunlock -> clear -> idle                             *)
(*                                                                         *)
(* held is auxiliary: whether each thread has been granted the lock and    *)
(* nothing has released it since.  open is SharedMutexOpen; here it is one *)
(* step.                                                                   *)
(***************************************************************************)
EXTENDS Naturals, FiniteSets

CONSTANTS
    Threads,        \* all threads of all processes
    Objects,        \* the SharedMutex objects, one per process
    ObjectOf,       \* the object of the process of each thread
    Nobody,         \* INVALID_THREAD_ID, and no owner of the pthread mutex
    Ghost           \* the owner of the pthread mutex that died

ASSUME ObjectAssumption == ObjectOf \in [Threads -> Objects]
ASSUME NobodyAssumption == {Nobody, Ghost} \cap Threads = {} /\ Nobody # Ghost

VARIABLES
    opened,         \* the objects that are open
    nOwner,         \* SharedMutex::nOwner of each object
    kOwner,         \* owner of the pthread mutex: a thread, Nobody or Ghost
    mapped,         \* whether the mapping it was locked through is still there
    pc,             \* where each thread stands
    held,           \* auxiliary: 1 if the thread was granted the lock and has it
    ret             \* result of its last completed call

vars == <<opened, nOwner, kOwner, mapped, pc, held, ret>>

PCs   == {"idle", "lock", "timed", "try", "store", "kunlock", "clear", "dead"}
Kinds == {"lock", "timed", "try"}
Mates(o) == {t \in Threads : ObjectOf[t] = o}

Goto(t, label) == pc' = [pc EXCEPT ![t] = label]

Return(t, result) ==
    /\ Goto(t, "idle")
    /\ ret' = [ret EXCEPT ![t] = result]

Init ==
    /\ opened = {}
    /\ nOwner = [o \in Objects |-> Nobody]
    /\ kOwner = Nobody
    /\ mapped = TRUE
    /\ pc     = [t \in Threads |-> "idle"]
    /\ held   = [t \in Threads |-> 0]
    /\ ret    = [t \in Threads |-> "none"]

-----------------------------------------------------------------------------
\* open() while nobody uses the object: it is not thread safe.
Open(t) ==
    /\ ObjectOf[t] \notin opened
    /\ \A m \in Mates(ObjectOf[t]) : pc[m] = "idle"
    /\ opened' = opened \cup {ObjectOf[t]}
    /\ UNCHANGED <<nOwner, kOwner, mapped, pc, held, ret>>

\* STATUS_CLOSED from lock, try_lock and unlock.
LockClosed(t) ==
    /\ pc[t] = "idle" /\ ObjectOf[t] \notin opened
    /\ \E result \in {"busy", "refused"} : Return(t, result)
    /\ UNCHANGED <<opened, nOwner, kOwner, mapped, held>>

\* The caller does not lock again what it has locked.
LockEnter(t, kind) ==
    /\ pc[t] = "idle" /\ ObjectOf[t] \in opened
    /\ IF nOwner[ObjectOf[t]] = t
         THEN Return(t, "busy")
         ELSE Goto(t, kind) /\ UNCHANGED ret
    /\ UNCHANGED <<opened, nOwner, kOwner, mapped, held>>

\* Variant: the mutex of a dead owner is an error for everybody.
KernelLockFragile(t) ==
    /\ pc[t] \in Kinds
    /\ kOwner = Nobody
    /\ kOwner' = t
    /\ mapped' = TRUE
    /\ Goto(t, "store")
    /\ UNCHANGED <<opened, nOwner, held, ret>>

\* pthread_mutex_lock, timedlock or trylock takes a mutex that is free or whose
\* owner died (EOWNERDEAD, made consistent again).
KernelLock(t) ==
    /\ pc[t] \in Kinds
    /\ kOwner \in {Nobody, Ghost}
    /\ kOwner' = t
    /\ mapped' = TRUE
    /\ Goto(t, "store")
    /\ UNCHANGED <<opened, nOwner, held, ret>>

\* Variant: EBUSY and ETIMEDOUT are taken for success.
KernelBusyIgnored(t) ==
    /\ pc[t] \in {"timed", "try"}
    /\ kOwner \in Threads
    /\ Goto(t, "store")
    /\ UNCHANGED <<opened, nOwner, kOwner, mapped, held, ret>>

\* EBUSY or ETIMEDOUT
KernelBusy(t) ==
    /\ pc[t] \in {"timed", "try"}
    /\ kOwner \in Threads
    /\ Return(t, "busy")
    /\ UNCHANGED <<opened, nOwner, kOwner, mapped, held>>

\* Variant: the owner is not recorded.
StoreNothing(t) ==
    /\ pc[t] = "store"
    /\ held' = [held EXCEPT ![t] = 1]
    /\ Return(t, "granted")
    /\ UNCHANGED <<opened, nOwner, kOwner, mapped>>

\* atomic_store(&nOwner, tid)
StoreOwner(t) ==
    /\ pc[t] = "store"
    /\ nOwner' = [nOwner EXCEPT ![ObjectOf[t]] = t]
    /\ held' = [held EXCEPT ![t] = 1]
    /\ Return(t, "granted")
    /\ UNCHANGED <<opened, kOwner, mapped>>

-----------------------------------------------------------------------------
UnlockRefused(t) ==
    /\ pc[t] = "idle" /\ ObjectOf[t] \in opened
    /\ nOwner[ObjectOf[t]] # t
    /\ Return(t, "refused")
    /\ UNCHANGED <<opened, nOwner, kOwner, mapped, held>>

UnlockEnter(t) ==
    /\ pc[t] = "idle" /\ ObjectOf[t] \in opened
    /\ nOwner[ObjectOf[t]] = t
    /\ Goto(t, "kunlock")
    /\ UNCHANGED <<opened, nOwner, kOwner, mapped, held, ret>>

\* pthread_mutex_unlock: the mutex is free before nOwner is.
KernelUnlock(t) ==
    /\ pc[t] = "kunlock"
    /\ kOwner = t
    /\ kOwner' = Nobody
    /\ held' = [held EXCEPT ![t] = 0]
    /\ ret'  = [ret EXCEPT ![t] = "released"]
    /\ Goto(t, "clear")
    /\ UNCHANGED <<opened, nOwner, mapped>>

\* atomic_store(&nOwner, INVALID_THREAD_ID)
ClearOwner(t) ==
    /\ pc[t] = "clear"
    /\ nOwner' = [nOwner EXCEPT ![ObjectOf[t]] = Nobody]
    /\ Goto(t, "idle")
    /\ UNCHANGED <<opened, kOwner, mapped, held, ret>>

\* What close() calls pthread_mutex_unlock for and gets: it tries if any thread
\* of the object is its owner, and is refused (EPERM) unless it is the caller.
CloseUnlocks(t) == nOwner[ObjectOf[t]] # Nobody /\ kOwner = t

\* Variant: nOwner is not reset by close().
CloseKeepsOwner(t) ==
    LET o == ObjectOf[t] IN
    /\ o \in opened
    /\ \A m \in Mates(o) : pc[m] = "idle"
    /\ opened' = opened \ {o}
    /\ kOwner' = IF CloseUnlocks(t) THEN Nobody ELSE kOwner
    /\ held'   = IF CloseUnlocks(t) THEN [held EXCEPT ![t] = 0] ELSE held
    /\ mapped' = (mapped /\ kOwner' \notin Mates(o))
    /\ UNCHANGED <<nOwner, pc, ret>>

\* close() while nobody uses the object.  A mutex that another thread of the
\* object has locked, or the caller unknown to nOwner, stays locked, and the
\* memory it was locked through is unmapped.
Close(t) ==
    LET o == ObjectOf[t] IN
    /\ o \in opened
    /\ \A m \in Mates(o) : pc[m] = "idle"
    /\ opened' = opened \ {o}
    /\ nOwner' = [nOwner EXCEPT ![o] = Nobody]
    /\ kOwner' = IF CloseUnlocks(t) THEN Nobody ELSE kOwner
    /\ held'   = IF CloseUnlocks(t) THEN [held EXCEPT ![t] = 0] ELSE held
    /\ mapped' = (mapped /\ kOwner' \notin Mates(o))
    /\ UNCHANGED <<pc, ret>>

\* A process dies with all its threads.  The system marks the mutex it owned;
\* it finds it through its address in the owner's list of robust mutexes, where
\* anything may be once the mutex is unmapped.
Dies(o) ==
    /\ \A m \in Mates(o) : pc[m] # "dead"
    /\ pc'     = [t \in Threads |-> IF t \in Mates(o) THEN "dead" ELSE pc[t]]
    /\ opened' = opened \ {o}
    /\ held'   = [m \in Threads |-> IF m \in Mates(o) THEN 0 ELSE held[m]]
    /\ \/ kOwner \in Mates(o) /\ kOwner' = Ghost /\ mapped' = TRUE
       \/ (kOwner \notin Mates(o) \/ ~mapped) /\ UNCHANGED <<kOwner, mapped>>
    /\ UNCHANGED <<nOwner, ret>>

-----------------------------------------------------------------------------
Inside(t) == KernelLock(t) \/ StoreOwner(t) \/ KernelUnlock(t) \/ ClearOwner(t)

Call(t) ==
    \/ \E kind \in Kinds : LockEnter(t, kind)
    \/ LockClosed(t) \/ UnlockRefused(t) \/ UnlockEnter(t)

Next ==
    \/ \E t \in Threads : Open(t) \/ Call(t) \/ KernelBusy(t) \/ Inside(t) \/ Close(t)
    \/ \E o \in Objects : Dies(o)

Spec == Init /\ [][Next]_vars

\* Live threads run once a call has begun; the mutex goes to some waiter, to
\* which one is the system's choice; clients are obliged to nothing.
FairSpec == Spec /\ WF_vars(\E t \in Threads : KernelLock(t))
                 /\ \A t \in Threads : WF_vars(StoreOwner(t) \/ KernelUnlock(t) \/ ClearOwner(t))

-----------------------------------------------------------------------------
(* Properties                                                              *)

\* The ranges of the variables.
TypeOK ==
    /\ opened \subseteq Objects
    /\ nOwner \in [Objects -> Threads \cup {Nobody}]
    /\ kOwner \in Threads \cup {Nobody, Ghost}
    /\ mapped \in BOOLEAN
    /\ pc \in [Threads -> PCs]
    /\ held \in [Threads -> {0, 1}]
    /\ ret \in [Threads -> {"none", "granted", "busy", "released", "refused"}]

\* Two threads never believe at once that they hold the mutex, be they of one
\* process or of two, and although processes die and objects are closed.
MutualExclusion ==
    \A t, u \in Threads : held[t] = 1 /\ held[u] = 1 => t = u

\* The threads that share their object with another.
Sharers == {t \in Threads : Mates(ObjectOf[t]) # {t}}

\* A thread that holds the mutex owns it in the kernel; whom an object names as
\* its owner owns the mutex or is about to be erased; and a closed object leaves
\* the mutex locked, or its dead owner unmarked, only where threads share it.
OwnersAgree ==
    /\ \A t \in Threads : held[t] = 1 => kOwner = t
    /\ \A o \in opened : nOwner[o] # Nobody =>
          /\ ObjectOf[nOwner[o]] = o
          /\ kOwner = nOwner[o] \/ pc[nOwner[o]] = "clear"
    /\ \A t \in Threads \ Sharers : kOwner = t => ObjectOf[t] \in opened /\ mapped

\* The death of an owner does not block the others: a mutex left by a dead
\* process, and marked by the system, is taken by somebody who waits for it.
DeadOwnerReplaced ==
    (kOwner = Ghost /\ \E t \in Threads : pc[t] = "lock")
        ~> (kOwner \in Threads \/ \A t \in Threads : pc[t] # "lock")

\* The shared mutex is the abstract lock across processes: a thread that closes
\* its object and a process that dies drop what they hold, a close by anybody
\* else takes the lock from nobody, and unlock() is refused only to a thread that
\* holds nothing or that shares its object, whose owner may be erased.
Abs == INSTANCE AbstractLock WITH
    Clients <- Threads, Recursive <- FALSE, Mortal <- Threads, Forgotten <- Sharers
ImplementsLock == Abs!AbsSpec

\* What SharedMutex.h:49 says: lock operations can be executed by multiple
\* threads on the same mutex object.  So a thread that has been granted the
\* lock, and sits idle with it, is known as its owner and may unlock it, unless
\* its object has been closed meanwhile.
HolderCanUnlock ==
    \A t \in Threads :
        held[t] = 1 /\ mapped /\ pc[t] = "idle" => nOwner[ObjectOf[t]] = t
=============================================================================
