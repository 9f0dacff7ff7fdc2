--------------------------- MODULE SharedMutexOpen ---------------------------
(***************************************************************************)
(* SharedMutex::open where robust mutexes exist                            *)
(* (src/main/ipc/SharedMutex.cpp, LSP_ROBUST_MUTEX_SUPPORTED): processes   *)
(* open the same shared memory segment, and the first one initialises the  *)
(* mutex in it, under a file lock and a spin lock.  A process may die      *)
(* between any two steps: the system then drops its file lock, and nothing *)
(* drops the spin lock, which is a word of the segment.  Nor does a live   *)
(* process whose flock(LOCK_UN) fails: it returns that error at once.      *)
(*                                                                         *)
(*   idle -> check -> flock -> spin -> recheck -> init -> mark             *)
(*                 -> unflock -> unspin -> open                            *)
(*                            -> broken (the unlock has failed)            *)
(***************************************************************************)
EXTENDS Naturals, FiniteSets, FiniteSetTheorems, TLAPS

CONSTANTS
    Procs,          \* the processes that open the mutex
    Nobody,         \* no process
    MaxDeaths       \* bound: how many processes die

ASSUME NobodyAssumption == Nobody \notin Procs
ASSUME DeathsAssumption == MaxDeaths \in Nat

VARIABLES
    flockWorks,     \* whether the system supports flock() on shared memory
    initFlag,       \* shared_mutex_t::init_flag = SHMUTEX_INIT_FLAG
    spinLock,       \* shared_mutex_t::spin_lock
    fileLock,       \* the process that holds flock() on the segment
    inits,          \* auxiliary: how often pthread_mutex_init was called
    pc,             \* where each process stands
    failed          \* the processes whose open() is going to fail

vars == <<flockWorks, initFlag, spinLock, fileLock, inits, pc, failed>>

PCs == {"idle", "check", "flock", "spin", "recheck", "init", "mark",
        "unflock", "unspin", "open", "error", "broken", "dead"}

Goto(p, label) == pc' = [pc EXCEPT ![p] = label]

Init ==
    /\ flockWorks \in BOOLEAN
    /\ initFlag = FALSE
    /\ spinLock = FALSE
    /\ fileLock = Nobody
    /\ inits    = 0
    /\ pc       = [p \in Procs |-> "idle"]
    /\ failed   = {}

\* shm_open, ftruncate and mmap: the segment is there, full of zeros at first.
Map(p) ==
    /\ pc[p] = "idle"
    /\ Goto(p, "check")
    /\ UNCHANGED <<flockWorks, initFlag, spinLock, fileLock, inits, failed>>

MapFails(p) ==
    /\ pc[p] = "idle"
    /\ Goto(p, "error")
    /\ UNCHANGED <<flockWorks, initFlag, spinLock, fileLock, inits, failed>>

\* The first look at init_flag, without any lock.
CheckFlag(p) ==
    /\ pc[p] = "check"
    /\ Goto(p, IF initFlag THEN "open" ELSE "flock")
    /\ UNCHANGED <<flockWorks, initFlag, spinLock, fileLock, inits, failed>>

\* lock_memory: flock(LOCK_EX) waits for the holder, or is not supported.
FileLock(p) ==
    /\ pc[p] = "flock"
    /\ IF flockWorks
         THEN fileLock = Nobody /\ fileLock' = p
         ELSE UNCHANGED fileLock
    /\ Goto(p, "spin")
    /\ UNCHANGED <<flockWorks, initFlag, spinLock, inits, failed>>

\* lock_memory: flock fails for another reason, and so does open.
FileLockFails(p) ==
    /\ pc[p] = "flock"
    /\ Goto(p, "error")
    /\ UNCHANGED <<flockWorks, initFlag, spinLock, fileLock, inits, failed>>

\* Variant: the spin lock is only tested.
SpinTest(p) ==
    /\ pc[p] = "spin"
    /\ ~spinLock
    /\ Goto(p, "recheck")
    /\ UNCHANGED <<flockWorks, initFlag, spinLock, fileLock, inits, failed>>

\* lock_memory: the spin lock, after flock whether it worked or not.
SpinLock(p) ==
    /\ pc[p] = "spin"
    /\ ~spinLock
    /\ spinLock' = TRUE
    /\ Goto(p, "recheck")
    /\ UNCHANGED <<flockWorks, initFlag, fileLock, inits, failed>>

\* Variant: the flag is not looked at again.
RecheckNothing(p) ==
    /\ pc[p] = "recheck"
    /\ Goto(p, "init")
    /\ UNCHANGED <<flockWorks, initFlag, spinLock, fileLock, inits, failed>>

\* The second look at init_flag, under the locks.
Recheck(p) ==
    /\ pc[p] = "recheck"
    /\ Goto(p, IF initFlag THEN "unflock" ELSE "init")
    /\ UNCHANGED <<flockWorks, initFlag, spinLock, fileLock, inits, failed>>

\* pthread_mutex_init on the shared mutex.
InitMutex(p) ==
    /\ pc[p] = "init"
    /\ inits' = inits + 1
    /\ Goto(p, "mark")
    /\ UNCHANGED <<flockWorks, initFlag, spinLock, fileLock, failed>>

\* An attribute cannot be set: open fails, the scope unlocks the memory.
InitFails(p) ==
    /\ pc[p] = "init"
    /\ failed' = failed \cup {p}
    /\ Goto(p, "unflock")
    /\ UNCHANGED <<flockWorks, initFlag, spinLock, fileLock, inits>>

MarkFlag(p) ==
    /\ pc[p] = "mark"
    /\ initFlag' = TRUE
    /\ Goto(p, "unflock")
    /\ UNCHANGED <<flockWorks, spinLock, fileLock, inits, failed>>

\* unlock_memory: flock(LOCK_UN)
FileUnlock(p) ==
    /\ pc[p] = "unflock"
    /\ fileLock' = IF fileLock = p THEN Nobody ELSE fileLock
    /\ Goto(p, "unspin")
    /\ UNCHANGED <<flockWorks, initFlag, spinLock, inits, failed>>

\* unlock_memory: flock(LOCK_UN) fails, and open returns that error, or the one
\* it was about to return.  The spin lock stays as it is; the descriptor is
\* closed on the way out, and the file lock goes with it.
FileUnlockFails(p) ==
    /\ pc[p] = "unflock"
    /\ fileLock' = IF fileLock = p THEN Nobody ELSE fileLock
    /\ Goto(p, "broken")
    /\ UNCHANGED <<flockWorks, initFlag, spinLock, inits, failed>>

\* Variant: a failing open leaves the spin lock set.
SpinUnlockOnSuccess(p) ==
    /\ pc[p] = "unspin"
    /\ spinLock' = (p \in failed)
    /\ Goto(p, IF p \in failed THEN "error" ELSE "open")
    /\ UNCHANGED <<flockWorks, initFlag, fileLock, inits, failed>>

\* unlock_memory: the spin lock, and open returns.
SpinUnlock(p) ==
    /\ pc[p] = "unspin"
    /\ spinLock' = FALSE
    /\ Goto(p, IF p \in failed THEN "error" ELSE "open")
    /\ UNCHANGED <<flockWorks, initFlag, fileLock, inits, failed>>

\* The process dies; its descriptors are closed and the file lock goes with them.
Dies(p) ==
    /\ pc[p] # "dead"
    /\ Cardinality({q \in Procs : pc[q] = "dead"}) < MaxDeaths
    /\ fileLock' = IF fileLock = p THEN Nobody ELSE fileLock
    /\ Goto(p, "dead")
    /\ UNCHANGED <<flockWorks, initFlag, spinLock, inits, failed>>

Step(p) ==
    \/ CheckFlag(p) \/ FileLock(p) \/ SpinLock(p) \/ Recheck(p) \/ InitMutex(p)
    \/ MarkFlag(p) \/ FileUnlock(p) \/ SpinUnlock(p)

Next == \E p \in Procs :
    \/ Map(p) \/ MapFails(p) \/ FileLockFails(p) \/ InitFails(p) \/ FileUnlockFails(p)
    \/ Step(p) \/ Dies(p)

Spec == Init /\ [][Next]_vars

\* A live process that is not waiting runs; flock() and the spin loop give
\* every waiter its turn.
FairSpec == Spec /\ \A p \in Procs : WF_vars(Step(p)) /\ SF_vars(FileLock(p)) /\ SF_vars(SpinLock(p))

-----------------------------------------------------------------------------
(* Properties                                                              *)

\* The ranges of the variables.
TypeOK ==
    /\ flockWorks \in BOOLEAN /\ initFlag \in BOOLEAN /\ spinLock \in BOOLEAN
    /\ fileLock \in Procs \cup {Nobody}
    /\ inits \in Nat
    /\ pc \in [Procs -> PCs]
    /\ failed \subseteq Procs

\* At most one process initialises the segment, with or without flock() and
\* although processes die inside (lock_memory, unlock_memory).
Initialising == {p \in Procs : pc[p] \in {"recheck", "init", "mark", "unflock"}}
OneInitialiser == \A p, q \in Initialising : p = q

\* Whoever has opened the mutex finds it initialised, and nobody initialises it
\* again under his hands: a death before the flag is set may cost a second
\* pthread_mutex_init, but never after somebody has got through.
OpenedIsInitialised ==
    (\E p \in Procs : pc[p] = "open") =>
        /\ initFlag /\ inits > 0
        /\ \A p \in Procs : pc[p] \notin {"init", "mark"}

\* The number of initialisations is that of the processes that died or are busy
\* in the middle of one, plus the one that counts.
FewInits ==
    inits <= Cardinality({p \in Procs : pc[p] \in {"dead", "mark"}})
             + IF initFlag THEN 1 ELSE 0

\* open() returns, unless the spin lock is stranded: taken, with nobody inside
\* to release it, because a process died there or could not undo its flock().
\* flock() itself is released by then, the spin lock never is.
Stranded ==
    /\ spinLock /\ \E p \in Procs : pc[p] \in {"dead", "broken"}
    /\ \A p \in Procs : pc[p] \notin {"recheck", "init", "mark", "unflock", "unspin"}
OpenReturns ==
    \A p \in Procs :
        pc[p] = "check" ~> (pc[p] \in {"open", "error", "broken", "dead"} \/ Stranded)

-----------------------------------------------------------------------------
(* Proofs, for any number of processes and deaths, with flock() or without. *)
(* The spin lock alone carries the argument: it is set as long as anybody  *)
(* is inside, and nobody resets it for a process that died there.          *)

\* The processes that have taken the spin lock and not released it.
Inside(p) == pc[p] \in {"recheck", "init", "mark", "unflock", "unspin"}

\* The spin lock excludes, the flag is stable, and who gets out has seen it set.
SpinInv ==
    /\ \A p \in Procs : Inside(p) => spinLock
    /\ \A p, q \in Procs : Inside(p) /\ Inside(q) => p = q
    /\ initFlag => inits > 0 /\ \A p \in Procs : pc[p] \notin {"init", "mark"}
    /\ \A p \in Procs : pc[p] = "mark" => inits > 0
    /\ \A p \in failed : pc[p] \in {"unflock", "unspin", "error", "broken", "dead"}
    /\ \A p \in Procs :
          pc[p] = "open" \/ (pc[p] \in {"unflock", "unspin"} /\ p \notin failed)
            => initFlag

IInv == TypeOK /\ SpinInv

\* The initial state satisfies the inductive invariant.
LEMMA InitIInv == Init => IInv
<1> SUFFICES ASSUME Init PROVE IInv
  OBVIOUS
<1>1. flockWorks \in BOOLEAN /\ initFlag \in BOOLEAN /\ spinLock \in BOOLEAN
  BY Zenon DEF Init
<1>2. TypeOK
  BY <1>1 DEF Init, TypeOK, PCs
<1>3. SpinInv
  BY DEF Init, SpinInv, Inside
<1> QED BY <1>2, <1>3 DEF IInv

\* Every step of open(), a failure and a death, preserves the inductive invariant.
LEMMA NextIInv == IInv /\ [Next]_vars => IInv'
<1> SUFFICES ASSUME IInv, [Next]_vars PROVE IInv'
  OBVIOUS
<1> USE DEF IInv, TypeOK, SpinInv, Inside, Goto
<1>1. ASSUME NEW p \in Procs, Map(p) \/ MapFails(p) \/ CheckFlag(p) PROVE IInv'
  BY <1>1 DEF Map, MapFails, CheckFlag, PCs
<1>2. ASSUME NEW p \in Procs, FileLock(p) \/ FileLockFails(p) PROVE IInv'
  BY <1>2 DEF FileLock, FileLockFails, PCs
<1>3. ASSUME NEW p \in Procs, SpinLock(p) PROVE IInv'
  BY <1>3 DEF SpinLock, PCs
<1>4. ASSUME NEW p \in Procs, Recheck(p) PROVE IInv'
  BY <1>4 DEF Recheck, PCs
<1>5. ASSUME NEW p \in Procs, InitMutex(p) PROVE IInv'
  BY <1>5 DEF InitMutex, PCs
<1>6. ASSUME NEW p \in Procs, InitFails(p) PROVE IInv'
  BY <1>6 DEF InitFails, PCs
<1>7. ASSUME NEW p \in Procs, MarkFlag(p) PROVE IInv'
  BY <1>7 DEF MarkFlag, PCs
<1>8. ASSUME NEW p \in Procs, FileUnlock(p) PROVE IInv'
  BY <1>8 DEF FileUnlock, PCs
<1>8b. ASSUME NEW p \in Procs, FileUnlockFails(p) PROVE IInv'
  BY <1>8b DEF FileUnlockFails, PCs
<1>8a. ASSUME NEW p \in Procs, SpinUnlock(p) PROVE IInv'
  <2>1. spinLock' \in BOOLEAN
    BY <1>8a DEF SpinUnlock
  <2>2. TypeOK'
    BY <1>8a, <2>1 DEF SpinUnlock, PCs
  <2>3. \A q \in Procs : ~Inside(q)'
    BY <1>8a DEF SpinUnlock
  <2> QED BY <1>8a, <2>2, <2>3 DEF SpinUnlock
<1>9. ASSUME NEW p \in Procs, Dies(p) PROVE IInv'
  BY <1>9 DEF Dies, PCs
<1>10. CASE UNCHANGED vars
  BY <1>10 DEF vars
<1> QED BY <1>1, <1>2, <1>3, <1>4, <1>5, <1>6, <1>7, <1>8, <1>8a, <1>8b, <1>9, <1>10 DEF Next, Step

\* Type correctness of the shared segment and of the openers.
THEOREM TypeCorrect == Spec => []TypeOK
<1>1. IInv => TypeOK BY DEF IInv
<1> QED BY <1>1, InitIInv, NextIInv, PTL DEF Spec

\* At most one process is inside the double-checked initialisation at a time.
THEOREM OneInitialiserHolds == Spec => []OneInitialiser
<1>1. IInv => OneInitialiser
  BY DEF IInv, SpinInv, Inside, OneInitialiser, Initialising
<1> QED BY <1>1, InitIInv, NextIInv, PTL DEF Spec

\* Whoever has opened the mutex finds it initialised, once and for all.
THEOREM OpenedIsInitialisedHolds == Spec => []OpenedIsInitialised
<1>1. IInv => OpenedIsInitialised
  BY DEF IInv, SpinInv, OpenedIsInitialised
<1> QED BY <1>1, InitIInv, NextIInv, PTL DEF Spec

-----------------------------------------------------------------------------
(* The number of initialisations                                           *)

\* Those whose initialisation may have been for nothing.  The set is finite
\* though Procs need not be: it grows by one process at a time.
Spent == {p \in Procs : pc[p] \in {"dead", "mark"}}
CountInv == IsFiniteSet(Spent) /\ FewInits

\* Nobody has initialised anything at first.
LEMMA InitCount == Init => CountInv
<1> SUFFICES ASSUME Init PROVE CountInv
  OBVIOUS
<1>1. Spent = {}
  BY DEF Init, Spent
<1> QED BY <1>1, FS_EmptySet DEF Init, CountInv, FewInits, Spent

\* An initialisation adds its process to those that may have spent one, until
\* the flag is set; a death keeps what the process has spent.
LEMMA NextCount == IInv /\ CountInv /\ [Next]_vars => CountInv'
<1> SUFFICES ASSUME IInv, CountInv, [Next]_vars PROVE CountInv'
  OBVIOUS
<1>. DEFINE Flag == IF initFlag THEN 1 ELSE 0
<1>1. inits \in Nat /\ IsFiniteSet(Spent) /\ Cardinality(Spent) \in Nat
      /\ inits <= Cardinality(Spent) + Flag
  BY FS_CardinalityType DEF IInv, TypeOK, CountInv, FewInits, Spent
<1>2. ASSUME IsFiniteSet(Spent'), inits' <= Cardinality(Spent') + Flag' PROVE CountInv'
  BY <1>2 DEF CountInv, FewInits, Spent
<1>3. ASSUME Spent' = Spent, inits' = inits, initFlag' = initFlag PROVE CountInv'
  BY <1>1, <1>2, <1>3
<1>4. ASSUME NEW p \in Procs, pc[p] \notin {"dead", "mark"}, pc' = [pc EXCEPT ![p] = "dead"] \/
             \E label \in PCs \ {"dead", "mark"} : pc' = [pc EXCEPT ![p] = label],
             inits' = inits, initFlag' = initFlag
      PROVE  CountInv'
  <2>1. Spent' = Spent \/ Spent' = Spent \cup {p}
    BY <1>4 DEF Spent, IInv, TypeOK
  <2>2. IsFiniteSet(Spent \cup {p}) /\ Cardinality(Spent) <= Cardinality(Spent \cup {p})
        /\ Cardinality(Spent \cup {p}) \in Nat
    BY <1>1, FS_AddElement, FS_CardinalityType
  <2>3. CASE Spent' = Spent
    BY <1>3, <1>4, <2>3
  <2>4. CASE Spent' = Spent \cup {p}
    BY <1>1, <1>2, <1>4, <2>2, <2>4
  <2> QED BY <2>1, <2>3, <2>4
<1>5. ASSUME NEW p \in Procs, Map(p) \/ MapFails(p) \/ CheckFlag(p) \/ FileLock(p) \/ FileLockFails(p)
             \/ SpinLock(p) \/ Recheck(p) \/ InitFails(p) \/ FileUnlock(p) \/ FileUnlockFails(p)
             \/ SpinUnlock(p)
      PROVE  CountInv'
  BY <1>4, <1>5 DEF Map, MapFails, CheckFlag, FileLock, FileLockFails, SpinLock, Recheck,
     InitFails, FileUnlock, FileUnlockFails, SpinUnlock, Goto, PCs
<1>6. ASSUME NEW p \in Procs, InitMutex(p) PROVE CountInv'
  <2>1. Spent' = Spent \cup {p} /\ p \notin Spent
    BY <1>6 DEF InitMutex, Goto, Spent, IInv, TypeOK
  <2>2. IsFiniteSet(Spent') /\ Cardinality(Spent') = Cardinality(Spent) + 1
    BY <1>1, <2>1, FS_AddElement
  <2> QED BY <1>1, <1>2, <1>6, <2>2 DEF InitMutex
<1>7. ASSUME NEW p \in Procs, MarkFlag(p) PROVE CountInv'
  <2>1. Spent' = Spent \ {p} /\ p \in Spent
    BY <1>7 DEF MarkFlag, Goto, Spent, IInv, TypeOK
  <2>2. IsFiniteSet(Spent') /\ Cardinality(Spent') = Cardinality(Spent) - 1
    BY <1>1, <2>1, FS_RemoveElement
  <2>3. initFlag = FALSE /\ initFlag' = TRUE /\ inits' = inits
    BY <1>7 DEF MarkFlag, IInv, TypeOK, SpinInv
  <2> QED BY <1>1, <1>2, <2>2, <2>3
<1>8. ASSUME NEW p \in Procs, Dies(p) PROVE CountInv'
  <2>1. CASE pc[p] = "mark"
    <3>1. Spent' = Spent
      BY <1>8, <2>1 DEF Dies, Goto, Spent, IInv, TypeOK
    <3> QED BY <1>3, <1>8, <3>1 DEF Dies
  <2>2. CASE pc[p] # "mark"
    BY <1>4, <1>8, <2>2 DEF Dies, Goto
  <2> QED BY <2>1, <2>2
<1>9. CASE UNCHANGED vars
  BY <1>3, <1>9 DEF vars, Spent
<1> QED BY <1>5, <1>6, <1>7, <1>8, <1>9 DEF Next, Step

\* pthread_mutex_init is called once for each process that dies in or after its
\* own call of it, and once more for the call that counts.
THEOREM FewInitsHolds == Spec => []FewInits
<1>1. CountInv => FewInits BY DEF CountInv
<1> QED BY <1>1, InitIInv, NextIInv, InitCount, NextCount, PTL DEF Spec

=============================================================================
