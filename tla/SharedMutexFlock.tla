-------------------------- MODULE SharedMutexFlock --------------------------
(***************************************************************************)
(* lock, try_lock, timed lock, unlock and close of ipc::SharedMutex where  *)
(* there are no robust mutexes (src/main/ipc/SharedMutex.cpp, POSIX        *)
(* systems other than Linux and FreeBSD): a file lock between processes    *)
(* and the word nOwner between the threads of one process.  The file lock  *)
(* belongs to the descriptor, hence to the object: a thread that asks for  *)
(* what another thread of its object holds is granted it.                  *)
(*                                                                         *)
(*   lock     idle -> flock -> spin -> idle                                *)
(*   timed    idle -> tflock -> tspin (-> back) -> idle                    *)
(*   try      idle -> nflock -> ncas (-> back) -> idle                     *)
(*   unlock   idle -> funlock -> clear -> idle                             *)
(***************************************************************************)
EXTENDS Naturals

CONSTANTS
    Threads,        \* all threads of all processes
    Objects,        \* the SharedMutex objects, one per process
    Sharings,       \* the ways threads belong to processes, hence to objects
    Nobody          \* INVALID_THREAD_ID, and no holder of the file lock

ASSUME SharingAssumption == Sharings \subseteq [Threads -> Objects]
ASSUME NobodyAssumption == Nobody \notin Threads \cup Objects

VARIABLES
    objectOf,       \* the object of the process of each thread, which never changes
    opened,         \* the objects that are open
    nOwner,         \* SharedMutex::nOwner of each object
    fileLock,       \* the object whose descriptor holds the file lock
    pc,             \* where each thread stands
    held,           \* auxiliary: 1 if the thread believes it holds the lock
    ret             \* result of its last completed call

vars == <<objectOf, opened, nOwner, fileLock, pc, held, ret>>

PCs == {"idle", "flock", "tflock", "nflock", "spin", "tspin", "ncas", "back",
        "funlock", "clear", "dead"}
After == [flock |-> "spin", tflock |-> "tspin", nflock |-> "ncas"]
Mates(o) == {t \in Threads : objectOf[t] = o}

Goto(t, label) == pc' = [pc EXCEPT ![t] = label]

Return(t, result) ==
    /\ Goto(t, "idle")
    /\ ret' = [ret EXCEPT ![t] = result]

\* flock(LOCK_UN) through the descriptor of object o.
Unlocked(o) == IF fileLock = o THEN Nobody ELSE fileLock

Init ==
    /\ objectOf \in Sharings
    /\ opened   = {}
    /\ nOwner   = [o \in Objects |-> Nobody]
    /\ fileLock = Nobody
    /\ pc       = [t \in Threads |-> "idle"]
    /\ held     = [t \in Threads |-> 0]
    /\ ret      = [t \in Threads |-> "none"]

-----------------------------------------------------------------------------
\* open(): open or create the lock file; not thread safe.
Open(t) ==
    /\ objectOf[t] \notin opened
    /\ \A m \in Mates(objectOf[t]) : pc[m] = "idle"
    /\ opened' = opened \cup {objectOf[t]}
    /\ UNCHANGED <<objectOf, nOwner, fileLock, pc, held, ret>>

\* STATUS_CLOSED from lock, try_lock and unlock.
LockClosed(t) ==
    /\ pc[t] = "idle" /\ objectOf[t] \notin opened
    /\ \E result \in {"busy", "refused"} : Return(t, result)
    /\ UNCHANGED <<objectOf, opened, nOwner, fileLock, held>>

LockEnter(t, kind) ==
    /\ pc[t] = "idle" /\ objectOf[t] \in opened
    /\ IF nOwner[objectOf[t]] = t
         THEN Return(t, "busy")
         ELSE Goto(t, kind) /\ UNCHANGED ret
    /\ UNCHANGED <<objectOf, opened, nOwner, fileLock, held>>

\* Variant: the result of flock() is not looked at.
FileLockIgnored(t) ==
    /\ pc[t] \in DOMAIN After
    /\ fileLock' = IF fileLock = Nobody THEN objectOf[t] ELSE fileLock
    /\ Goto(t, After[pc[t]])
    /\ UNCHANGED <<objectOf, opened, nOwner, held, ret>>

\* flock(LOCK_EX), blocking, or tried once or repeatedly.
FileLock(t) ==
    /\ pc[t] \in DOMAIN After
    /\ fileLock \in {Nobody, objectOf[t]}
    /\ fileLock' = objectOf[t]
    /\ Goto(t, After[pc[t]])
    /\ UNCHANGED <<objectOf, opened, nOwner, held, ret>>

\* EAGAIN, or the deadline has passed without the file lock.
FileLockBusy(t) ==
    /\ pc[t] \in {"tflock", "nflock"}
    /\ fileLock \notin {Nobody, objectOf[t]}
    /\ Return(t, "busy")
    /\ UNCHANGED <<objectOf, opened, nOwner, fileLock, held>>

\* Variant: the owner is stored, not compared and swapped.
OwnerStore(t) ==
    /\ pc[t] \in {"spin", "tspin", "ncas"}
    /\ nOwner' = [nOwner EXCEPT ![objectOf[t]] = t]
    /\ held' = [held EXCEPT ![t] = 1]
    /\ Return(t, "granted")
    /\ UNCHANGED <<objectOf, opened, fileLock>>

\* atomic_cas(&nOwner, INVALID_THREAD_ID, tid) succeeds.
OwnerCas(t) ==
    /\ pc[t] \in {"spin", "tspin", "ncas"}
    /\ nOwner[objectOf[t]] = Nobody
    /\ nOwner' = [nOwner EXCEPT ![objectOf[t]] = t]
    /\ held' = [held EXCEPT ![t] = 1]
    /\ Return(t, "granted")
    /\ UNCHANGED <<objectOf, opened, fileLock>>

\* It fails, finally or at the deadline: the descriptor is unlocked again.
OwnerBusy(t) ==
    /\ pc[t] \in {"tspin", "ncas"}
    /\ nOwner[objectOf[t]] # Nobody
    /\ Goto(t, "back")
    /\ UNCHANGED <<objectOf, opened, nOwner, fileLock, held, ret>>

FileUnlockBack(t) ==
    /\ pc[t] = "back"
    /\ fileLock' = Unlocked(objectOf[t])
    /\ Return(t, "busy")
    /\ UNCHANGED <<objectOf, opened, nOwner, held>>

-----------------------------------------------------------------------------
UnlockRefused(t) ==
    /\ pc[t] = "idle" /\ objectOf[t] \in opened
    /\ nOwner[objectOf[t]] # t
    /\ Return(t, "refused")
    /\ UNCHANGED <<objectOf, opened, nOwner, fileLock, held>>

UnlockEnter(t) ==
    /\ pc[t] = "idle" /\ objectOf[t] \in opened
    /\ nOwner[objectOf[t]] = t
    /\ Goto(t, "funlock")
    /\ UNCHANGED <<objectOf, opened, nOwner, fileLock, held, ret>>

FileUnlock(t) ==
    /\ pc[t] = "funlock"
    /\ fileLock' = Unlocked(objectOf[t])
    /\ held' = [held EXCEPT ![t] = 0]
    /\ ret'  = [ret EXCEPT ![t] = "released"]
    /\ Goto(t, "clear")
    /\ UNCHANGED <<objectOf, opened, nOwner>>

ClearOwner(t) ==
    /\ pc[t] = "clear"
    /\ nOwner' = [nOwner EXCEPT ![objectOf[t]] = Nobody]
    /\ Goto(t, "idle")
    /\ UNCHANGED <<objectOf, opened, fileLock, held, ret>>

\* close() while nobody uses the object: the owner is forgotten, and the file
\* lock goes with the descriptor.
Close(t) ==
    LET o == objectOf[t] IN
    /\ o \in opened
    /\ \A m \in Mates(o) : pc[m] = "idle"
    /\ opened'   = opened \ {o}
    /\ nOwner'   = [nOwner EXCEPT ![o] = Nobody]
    /\ fileLock' = Unlocked(o)
    /\ held'     = [m \in Threads |-> IF m \in Mates(o) THEN 0 ELSE held[m]]
    /\ UNCHANGED <<objectOf, pc, ret>>

\* A process dies with all its threads; its descriptor is closed.
Dies(o) ==
    /\ \A m \in Mates(o) : pc[m] # "dead"
    /\ pc'       = [t \in Threads |-> IF t \in Mates(o) THEN "dead" ELSE pc[t]]
    /\ opened'   = opened \ {o}
    /\ held'     = [m \in Threads |-> IF m \in Mates(o) THEN 0 ELSE held[m]]
    /\ fileLock' = Unlocked(o)
    /\ UNCHANGED <<objectOf, nOwner, ret>>

-----------------------------------------------------------------------------
Next ==
    \/ \E t \in Threads :
          \/ Open(t) \/ LockClosed(t)
          \/ \E kind \in DOMAIN After : LockEnter(t, kind)
          \/ FileLock(t) \/ FileLockBusy(t)
          \/ OwnerCas(t) \/ OwnerBusy(t) \/ FileUnlockBack(t)
          \/ UnlockRefused(t) \/ UnlockEnter(t) \/ FileUnlock(t) \/ ClearOwner(t)
          \/ Close(t)
    \/ \E o \in Objects : Dies(o)

Spec == Init /\ [][Next]_vars

-----------------------------------------------------------------------------
(* Properties                                                              *)

\* The ranges of the variables.
TypeOK ==
    /\ objectOf \in Sharings
    /\ opened \subseteq Objects
    /\ nOwner \in [Objects -> Threads \cup {Nobody}]
    /\ fileLock \in Objects \cup {Nobody}
    /\ pc \in [Threads -> PCs]
    /\ held \in [Threads -> {0, 1}]
    /\ ret \in [Threads -> {"none", "granted", "busy", "released", "refused"}]

\* Among the threads that have an object of their own the file lock is the
\* abstract lock, whatever is tried, timed, closed or killed, and whatever the
\* threads that share an object do.
Alone(t) == Mates(objectOf[t]) = {t}
Abs == INSTANCE AbstractLock WITH
    Clients <- Threads, Recursive <- FALSE, Mortal <- Threads, Forgotten <- {},
    held <- [t \in Threads |-> IF Alone(t) THEN held[t] ELSE 0],
    ret  <- [t \in Threads |-> IF Alone(t) THEN ret[t] ELSE "none"]
ImplementsLock == Abs!AbsSpec

\* The threads of one object exclude each other although the file lock does
\* not tell them apart (the compare-and-swap of nOwner), and a thread that has
\* been granted the lock is known as the owner: it will be able to unlock.
MatesExclude ==
    /\ \A t, u \in Threads :
          held[t] = 1 /\ held[u] = 1 /\ objectOf[t] = objectOf[u] => t = u
    /\ \A t \in Threads : held[t] = 1 => nOwner[objectOf[t]] = t

\* What SharedMutex.h:47-49 says: a shared mutex for inter-process
\* communication, whose lock operations can be executed by multiple threads on
\* the same object: no two threads of any processes hold it at once.
MutualExclusion ==
    \A t, u \in Threads : held[t] = 1 /\ held[u] = 1 => t = u
=============================================================================
