------------------------------ MODULE IpcMutex ------------------------------
(***************************************************************************)
(* ipc::Mutex, the recursive mutex built on the Linux futex                *)
(* (src/main/ipc/Mutex.cpp, PLATFORM_LINUX).  One step is one access to    *)
(* shared memory or one system call:                                       *)
(*                                                                         *)
(*   lock      idle -> cas -> own -> count -> idle                         *)
(*                     cas -> wait -> sleep -> cas                         *)
(*   try_lock  idle -> trycas -> own -> count -> idle                      *)
(*   unlock    idle -> clear -> release -> wake -> idle                    *)
(*                                                                         *)
(* depth is an auxiliary variable: what each client thread has been told.  *)
(* It counts the lock calls that returned true less the unlock calls, and  *)
(* no action reads it except to bound the recursion.                       *)
(***************************************************************************)
EXTENDS Integers, FiniteSets, TLAPS

CONSTANTS
    Threads,        \* the threads that use the mutex
    NoThread,       \* the value -1 of nThreadId
    MaxDepth        \* bound on recursion: nLocks is a counter the code does not bound

ASSUME NoThreadAssumption == NoThread \notin Threads
ASSUME DepthAssumption    == MaxDepth \in Nat \ {0}

VARIABLES
    nLock,          \* the futex word: 1 = unlocked, 0 = locked
    nThreadId,      \* the owner, or NoThread
    nLocks,         \* the number of locks held by the owner
    pc,             \* where each thread stands
    depth,          \* auxiliary: acquisitions each thread believes it holds
    ret             \* result of the last completed call of each thread

vars == <<nLock, nThreadId, nLocks, pc, depth, ret>>

PCs == {"idle", "cas", "wait", "sleep", "own", "count", "trycas",
        "clear", "release", "wake"}

Asleep == {t \in Threads : pc[t] = "sleep"}

Goto(t, label) == pc' = [pc EXCEPT ![t] = label]

Return(t, result) ==
    /\ Goto(t, "idle")
    /\ ret' = [ret EXCEPT ![t] = result]

Init ==
    /\ nLock     = 1
    /\ nThreadId = NoThread
    /\ nLocks    = 0
    /\ pc        = [t \in Threads |-> "idle"]
    /\ depth     = [t \in Threads |-> 0]
    /\ ret       = [t \in Threads |-> "none"]

-----------------------------------------------------------------------------
(* lock() and try_lock()                                                   *)

\* Variant: the recursion is not counted.
LockAgainUncounted(t) ==
    /\ pc[t] = "idle"
    /\ nThreadId = t
    /\ depth[t] < MaxDepth
    /\ depth' = [depth EXCEPT ![t] = @ + 1]
    /\ Return(t, "granted")
    /\ UNCHANGED <<nLock, nThreadId, nLocks>>

\* The owner enters again: the counter is all that changes.
LockAgain(t) ==
    /\ pc[t] = "idle"
    /\ nThreadId = t
    /\ depth[t] < MaxDepth
    /\ nLocks' = nLocks + 1
    /\ depth'  = [depth EXCEPT ![t] = @ + 1]
    /\ Return(t, "granted")
    /\ UNCHANGED <<nLock, nThreadId>>

LockEnter(t) ==
    /\ pc[t] = "idle"
    /\ nThreadId # t
    /\ Goto(t, "cas")
    /\ UNCHANGED <<nLock, nThreadId, nLocks, depth, ret>>

\* Variant: the word is stored, not compared and swapped.
LockStore(t) ==
    /\ pc[t] = "cas"
    /\ Goto(t, "own")
    /\ nLock' = 0
    /\ UNCHANGED <<nThreadId, nLocks, depth, ret>>

\* atomic_cas(&nLock, 1, 0): taken, or on to the futex.
LockCas(t) ==
    /\ pc[t] = "cas"
    /\ Goto(t, IF nLock = 1 THEN "own" ELSE "wait")
    /\ nLock' = 0
    /\ UNCHANGED <<nThreadId, nLocks, depth, ret>>

\* Variant: a wait that does not compare the word.
WaitBlindly(t) ==
    /\ pc[t] = "wait"
    /\ Goto(t, "sleep")
    /\ UNCHANGED <<nLock, nThreadId, nLocks, depth, ret>>

\* FUTEX_WAIT compares the word with 0 and puts the caller to sleep in one step.
FutexWait(t) ==
    /\ pc[t] = "wait"
    /\ Goto(t, IF nLock = 0 THEN "sleep" ELSE "cas")
    /\ UNCHANGED <<nLock, nThreadId, nLocks, depth, ret>>

\* A signal ends the system call: the loop tries again.
FutexInterrupted(t) ==
    /\ pc[t] = "sleep"
    /\ Goto(t, "cas")
    /\ UNCHANGED <<nLock, nThreadId, nLocks, depth, ret>>

TryEnter(t) ==
    /\ pc[t] = "idle"
    /\ nThreadId # t
    /\ Goto(t, "trycas")
    /\ UNCHANGED <<nLock, nThreadId, nLocks, depth, ret>>

TryCas(t) ==
    /\ pc[t] = "trycas"
    /\ IF nLock = 1
         THEN Goto(t, "own") /\ UNCHANGED ret
         ELSE Return(t, "busy")
    /\ nLock' = 0
    /\ UNCHANGED <<nThreadId, nLocks, depth>>

\* nThreadId = tid
Own(t) ==
    /\ pc[t] = "own"
    /\ nThreadId' = t
    /\ Goto(t, "count")
    /\ UNCHANGED <<nLock, nLocks, depth, ret>>

\* ++nLocks; return true
Count(t) ==
    /\ pc[t] = "count"
    /\ nLocks' = nLocks + 1
    /\ depth'  = [depth EXCEPT ![t] = @ + 1]
    /\ Return(t, "granted")
    /\ UNCHANGED <<nLock, nThreadId>>

-----------------------------------------------------------------------------
(* unlock()                                                                *)

UnlockRefused(t) ==
    /\ pc[t] = "idle"
    /\ nThreadId # t
    /\ Return(t, "refused")
    /\ UNCHANGED <<nLock, nThreadId, nLocks, depth>>

\* if (--nLocks) return true
Unlock(t) ==
    /\ pc[t] = "idle"
    /\ nThreadId = t
    /\ nLocks' = nLocks - 1
    /\ depth'  = [depth EXCEPT ![t] = @ - 1]
    /\ ret'    = [ret EXCEPT ![t] = "released"]
    /\ Goto(t, IF nLocks = 1 THEN "clear" ELSE "idle")
    /\ UNCHANGED <<nLock, nThreadId>>

\* Variant: the owner is not reset.
KeepOwner(t) ==
    /\ pc[t] = "clear"
    /\ Goto(t, "release")
    /\ UNCHANGED <<nLock, nThreadId, nLocks, depth, ret>>

\* nThreadId = -1
Clear(t) ==
    /\ pc[t] = "clear"
    /\ nThreadId' = NoThread
    /\ Goto(t, "release")
    /\ UNCHANGED <<nLock, nLocks, depth, ret>>

\* Variant: the word is freed and nobody is woken.
ReleaseQuietly(t) ==
    /\ pc[t] = "release"
    /\ Goto(t, "idle")
    /\ nLock' = 1
    /\ UNCHANGED <<nThreadId, nLocks, depth, ret>>

\* atomic_cas(&nLock, 0, 1): the waiters are told only by the one who made the word 1.
Release(t) ==
    /\ pc[t] = "release"
    /\ Goto(t, IF nLock = 0 THEN "wake" ELSE "idle")
    /\ nLock' = 1
    /\ UNCHANGED <<nThreadId, nLocks, depth, ret>>

\* FUTEX_WAKE of one listener, if there is one.
Wake(t) ==
    /\ pc[t] = "wake"
    /\ IF Asleep = {}
         THEN Goto(t, "idle")
         ELSE \E w \in Asleep : pc' = [pc EXCEPT ![t] = "idle", ![w] = "cas"]
    /\ UNCHANGED <<nLock, nThreadId, nLocks, depth, ret>>

-----------------------------------------------------------------------------
\* What a thread does once a call has begun, until it returns or sleeps.
Inside(t) ==
    \/ LockCas(t) \/ FutexWait(t) \/ TryCas(t) \/ Own(t) \/ Count(t)
    \/ Clear(t) \/ Release(t) \/ Wake(t)

\* What its client decides.
Call(t) == LockAgain(t) \/ LockEnter(t) \/ TryEnter(t) \/ UnlockRefused(t) \/ Unlock(t)

Next == \E t \in Threads : Call(t) \/ FutexInterrupted(t) \/ Inside(t)

\* The scheduler runs every thread that is not asleep; nothing obliges a
\* client to call, an owner to unlock, or a signal to arrive.
Fairness == \A t \in Threads : WF_vars(Inside(t))

Spec == Init /\ [][Next]_vars
FairSpec == Spec /\ Fairness

-----------------------------------------------------------------------------
(* Properties                                                              *)

\* The ranges of the variables.
TypeOK ==
    /\ nLock \in {0, 1}
    /\ nThreadId \in Threads \cup {NoThread}
    /\ nLocks \in Nat
    /\ pc \in [Threads -> PCs]
    /\ depth \in [Threads -> Nat]
    /\ ret \in [Threads -> {"none", "granted", "busy", "released", "refused"}]

\* Mutual exclusion: two threads never both believe that they hold the mutex,
\* wherever the lock, try_lock and unlock of the others stand (Mutex::lock).
MutualExclusion ==
    \A t, u \in Threads : depth[t] > 0 /\ depth[u] > 0 => t = u

\* The bookkeeping behind mutual exclusion: the word nLock, the owner nThreadId,
\* the counter nLocks and what every client believes agree at every point of
\* lock() and unlock(), although each of them is written by a step of its own.
Holding(t) == pc[t] \in {"own", "count", "clear", "release"} \/ nThreadId = t

Ownership ==
    /\ \A t \in Threads : Holding(t) => nLock = 0
    /\ \A t, u \in Threads : Holding(t) /\ Holding(u) => t = u
    /\ \A t \in Threads : nThreadId = t => pc[t] \in {"idle", "count", "clear"}
    /\ \A t \in Threads : pc[t] \in {"count", "clear"} => nThreadId = t /\ nLocks = 0
    /\ \A t \in Threads : nThreadId = t /\ pc[t] = "idle" => nLocks > 0
    /\ \A t \in Threads : depth[t] = IF nThreadId = t THEN nLocks ELSE 0
    /\ nThreadId = NoThread => nLocks = 0

\* No lost wakeup: the mutex is never free with a thread asleep on the futex
\* unless some thread is awake that will take it or wake a sleeper, although
\* unlock() wakes one listener only and any barging thread may win the word.
NoLostWakeup ==
    nLock = 1 /\ Asleep # {} => \E t \in Threads : pc[t] \in {"wake", "cas", "wait"}

\* A free mutex that somebody sleeps for is eventually taken by somebody,
\* with nothing assumed about the clients (the loop of Mutex::lock and the
\* futex calls of Mutex::unlock).
FreeLockIsTaken == (nLock = 1 /\ Asleep # {}) ~> nLock = 0

\* The mutex implements the abstract recursive lock: in particular an unlock
\* is refused only to a thread that holds nothing, and one unlock undoes one lock.
Abs == INSTANCE AbstractLock WITH
    Clients <- Threads, Recursive <- TRUE, Mortal <- {}, Forgotten <- {}, held <- depth
ImplementsLock == Abs!AbsSpec

-----------------------------------------------------------------------------
(* Proofs, for every set of threads and every MaxDepth: Ownership, with the  *)
(* type invariant, is inductive and implies mutual exclusion and the         *)
(* refinement of AbstractLock; NoLostWakeup is inductive with the type       *)
(* invariant alone.                                                          *)

\* The variables of the mutex keep their types (Mutex.h:94-96); nLocks never
\* becomes negative because of Ownership.
IInv == TypeOK /\ Ownership

\* The initial state of the constructor satisfies the inductive invariant.
LEMMA InitIInv == Init => IInv
  BY NoThreadAssumption DEF Init, IInv, TypeOK, Ownership, Holding, PCs

\* Every step of lock, try_lock and unlock preserves the inductive invariant.
LEMMA NextIInv == IInv /\ [Next]_vars => IInv'
<1> SUFFICES ASSUME IInv, [Next]_vars PROVE IInv'
  OBVIOUS
<1> USE NoThreadAssumption DEF IInv, Goto, Return, Holding
<1>1. ASSUME NEW t \in Threads, LockAgain(t) PROVE IInv'
  <2>1. TypeOK' BY <1>1 DEF LockAgain, TypeOK, PCs
  <2>2. Ownership' BY <1>1 DEF LockAgain, TypeOK, Ownership
  <2> QED BY <2>1, <2>2
<1>2. ASSUME NEW t \in Threads, LockEnter(t) PROVE IInv'
  <2>1. TypeOK' BY <1>2 DEF LockEnter, TypeOK, PCs
  <2>2. Ownership' BY <1>2 DEF LockEnter, TypeOK, Ownership
  <2> QED BY <2>1, <2>2
<1>3. ASSUME NEW t \in Threads, TryEnter(t) PROVE IInv'
  <2>1. TypeOK' BY <1>3 DEF TryEnter, TypeOK, PCs
  <2>2. Ownership' BY <1>3 DEF TryEnter, TypeOK, Ownership
  <2> QED BY <2>1, <2>2
<1>4. ASSUME NEW t \in Threads, UnlockRefused(t) PROVE IInv'
  <2>1. TypeOK' BY <1>4 DEF UnlockRefused, TypeOK, PCs
  <2>2. Ownership' BY <1>4 DEF UnlockRefused, TypeOK, Ownership
  <2> QED BY <2>1, <2>2
<1>5. ASSUME NEW t \in Threads, Unlock(t) PROVE IInv'
  <2>1. TypeOK' BY <1>5 DEF Unlock, TypeOK, Ownership, PCs
  <2>2. Ownership' BY <1>5 DEF Unlock, TypeOK, Ownership
  <2> QED BY <2>1, <2>2
<1>6. ASSUME NEW t \in Threads, FutexInterrupted(t) PROVE IInv'
  <2>1. TypeOK' BY <1>6 DEF FutexInterrupted, TypeOK, PCs
  <2>2. Ownership' BY <1>6 DEF FutexInterrupted, TypeOK, Ownership
  <2> QED BY <2>1, <2>2
<1>7. ASSUME NEW t \in Threads, LockCas(t) PROVE IInv'
  <2>1. TypeOK' BY <1>7 DEF LockCas, TypeOK, PCs
  <2>2. Ownership' BY <1>7 DEF LockCas, TypeOK, Ownership
  <2> QED BY <2>1, <2>2
<1>8. ASSUME NEW t \in Threads, FutexWait(t) PROVE IInv'
  <2>1. TypeOK' BY <1>8 DEF FutexWait, TypeOK, PCs
  <2>2. Ownership' BY <1>8 DEF FutexWait, TypeOK, Ownership
  <2> QED BY <2>1, <2>2
<1>9. ASSUME NEW t \in Threads, TryCas(t) PROVE IInv'
  <2>1. TypeOK' BY <1>9 DEF TryCas, TypeOK, PCs
  <2>2. Ownership' BY <1>9 DEF TryCas, TypeOK, Ownership
  <2> QED BY <2>1, <2>2
<1>10. ASSUME NEW t \in Threads, Own(t) PROVE IInv'
  <2>1. TypeOK' BY <1>10 DEF Own, TypeOK, PCs
  <2>2. Ownership' BY <1>10 DEF Own, TypeOK, Ownership
  <2> QED BY <2>1, <2>2
<1>11. ASSUME NEW t \in Threads, Count(t) PROVE IInv'
  <2>1. TypeOK' BY <1>11 DEF Count, TypeOK, PCs
  <2>2. Ownership' BY <1>11 DEF Count, TypeOK, Ownership
  <2> QED BY <2>1, <2>2
<1>12. ASSUME NEW t \in Threads, Clear(t) PROVE IInv'
  <2>1. TypeOK' BY <1>12 DEF Clear, TypeOK, PCs
  <2>2. Ownership' BY <1>12 DEF Clear, TypeOK, Ownership
  <2> QED BY <2>1, <2>2
<1>13. ASSUME NEW t \in Threads, Release(t) PROVE IInv'
  <2>1. TypeOK' BY <1>13 DEF Release, TypeOK, PCs
  <2>2. Ownership' BY <1>13 DEF Release, TypeOK, Ownership
  <2> QED BY <2>1, <2>2
<1>14. ASSUME NEW t \in Threads, Wake(t) PROVE IInv'
  <2>1. TypeOK' BY <1>14 DEF Wake, Asleep, TypeOK, PCs
  <2>2. Ownership' BY <1>14 DEF Wake, Asleep, TypeOK, Ownership
  <2> QED BY <2>1, <2>2
<1>15. CASE UNCHANGED vars
  BY <1>15 DEF vars, TypeOK, Ownership
<1> QED BY <1>1, <1>2, <1>3, <1>4, <1>5, <1>6, <1>7, <1>8, <1>9, <1>10,
           <1>11, <1>12, <1>13, <1>14, <1>15 DEF Next, Call, Inside

\* Type correctness of the mutex (the fields of ipc::Mutex, Mutex.h:94-96).
THEOREM TypeCorrect == Spec => []TypeOK
<1>1. IInv => TypeOK BY DEF IInv
<1> QED BY <1>1, InitIInv, NextIInv, PTL DEF Spec

\* The lock word, the owner, the counter and the clients' view always agree.
THEOREM OwnershipHolds == Spec => []Ownership
<1>1. IInv => Ownership BY DEF IInv
<1> QED BY <1>1, InitIInv, NextIInv, PTL DEF Spec

\* Two threads never hold the mutex at once (Mutex::lock, try_lock, unlock).
THEOREM MutualExclusionHolds == Spec => []MutualExclusion
<1>1. IInv => MutualExclusion
  BY DEF IInv, TypeOK, Ownership, Holding, MutualExclusion
<1> QED BY <1>1, InitIInv, NextIInv, PTL DEF Spec

-----------------------------------------------------------------------------
(* No lost wakeup                                                          *)

\* Every step preserves NoLostWakeup: the word becomes free only together with
\* a thread at the futex call, and that thread leaves a woken one behind.
LEMMA NextNoLostWakeup == TypeOK /\ NoLostWakeup /\ [Next]_vars => NoLostWakeup'
<1> SUFFICES ASSUME TypeOK, NoLostWakeup, [Next]_vars PROVE NoLostWakeup'
  OBVIOUS
<1> USE DEF TypeOK, NoLostWakeup, Asleep, Goto, Return
<1>1. ASSUME NEW t \in Threads, Call(t) PROVE NoLostWakeup'
  BY <1>1 DEF Call, LockAgain, LockEnter, TryEnter, UnlockRefused, Unlock
<1>2. ASSUME NEW t \in Threads, FutexInterrupted(t) PROVE NoLostWakeup'
  BY <1>2 DEF FutexInterrupted
<1>3. ASSUME NEW t \in Threads, LockCas(t) \/ TryCas(t) PROVE NoLostWakeup'
  BY <1>3 DEF LockCas, TryCas
<1>4. ASSUME NEW t \in Threads, FutexWait(t) PROVE NoLostWakeup'
  BY <1>4 DEF FutexWait
<1>5. ASSUME NEW t \in Threads, Own(t) \/ Count(t) \/ Clear(t) PROVE NoLostWakeup'
  BY <1>5 DEF Own, Count, Clear
<1>6. ASSUME NEW t \in Threads, Release(t) PROVE NoLostWakeup'
  <2>1. CASE nLock = 0
    BY <1>6, <2>1 DEF Release
  <2>2. CASE nLock = 1
    BY <1>6, <2>2 DEF Release
  <2> QED BY <2>1, <2>2
<1>7. ASSUME NEW t \in Threads, Wake(t) PROVE NoLostWakeup'
  <2>1. CASE Asleep = {}
    BY <1>7, <2>1 DEF Wake
  <2>2. ASSUME NEW w \in Asleep, pc' = [pc EXCEPT ![t] = "idle", ![w] = "cas"]
        PROVE NoLostWakeup'
    <3>1. w \in Threads /\ w # t
      BY <1>7, <2>2 DEF Wake
    <3>2. pc'[w] = "cas"
      BY <2>2, <3>1
    <3> QED BY <3>1, <3>2
  <2> QED BY <1>7, <2>1, <2>2 DEF Wake
<1>8. CASE UNCHANGED vars
  BY <1>8 DEF vars
<1> QED BY <1>1, <1>2, <1>3, <1>4, <1>5, <1>6, <1>7, <1>8 DEF Next, Inside

\* A free mutex never has sleepers only: somebody awake is going to take it or
\* to wake one of them (the futex loop of lock, the single wake of unlock).
THEOREM NoLostWakeupHolds == Spec => []NoLostWakeup
<1>1. Init => NoLostWakeup
  BY DEF Init, NoLostWakeup, Asleep
<1> QED BY <1>1, NextNoLostWakeup, TypeCorrect, PTL DEF Spec

-----------------------------------------------------------------------------
(* Refinement                                                              *)

\* Every step of the mutex is a step of the abstract lock or leaves it alone:
\* a grant is the return of lock, a release the decrement of unlock.
LEMMA StepRefines == IInv /\ [Next]_vars => [Abs!AbsNext]_(Abs!absVars)
<1> SUFFICES ASSUME IInv, [Next]_vars PROVE [Abs!AbsNext]_(Abs!absVars)
  OBVIOUS
<1> USE DEF IInv, TypeOK, Ownership, Holding, Goto, Return, Abs!AbsNext, Abs!absVars, Abs!Returns
<1>1. ASSUME NEW t \in Threads, LockAgain(t) \/ Count(t) PROVE Abs!Acquire(t)
  BY <1>1 DEF LockAgain, Count, Abs!Acquire
<1>2. ASSUME NEW t \in Threads, Unlock(t) PROVE Abs!Release(t)
  BY <1>2 DEF Unlock, Abs!Release
<1>3. ASSUME NEW t \in Threads, UnlockRefused(t) PROVE Abs!Refuse(t)
  BY <1>3 DEF UnlockRefused, Abs!Refuse
<1>4. ASSUME NEW t \in Threads, TryCas(t)
      PROVE Abs!Busy(t) \/ UNCHANGED Abs!absVars
  BY <1>4 DEF TryCas, Abs!Busy
<1>5. ASSUME NEW t \in Threads, LockEnter(t) \/ TryEnter(t) \/ FutexInterrupted(t)
                                 \/ LockCas(t) \/ FutexWait(t) \/ Own(t)
                                 \/ Clear(t) \/ Release(t) \/ Wake(t)
      PROVE UNCHANGED Abs!absVars
  BY <1>5 DEF LockEnter, TryEnter, FutexInterrupted, LockCas, FutexWait, Own,
              Clear, Release, Wake
<1>6. CASE UNCHANGED vars
  BY <1>6 DEF vars
<1> QED BY <1>1, <1>2, <1>3, <1>4, <1>5, <1>6 DEF Next, Call, Inside

\* ipc::Mutex implements the recursive lock its header describes.
THEOREM MutexImplementsLock == Spec => ImplementsLock
<1>1. Init => Abs!AbsInit
  BY DEF Init, Abs!AbsInit
<1> QED BY <1>1, StepRefines, InitIInv, NextIInv, PTL DEF Spec, ImplementsLock, Abs!AbsSpec
=============================================================================
