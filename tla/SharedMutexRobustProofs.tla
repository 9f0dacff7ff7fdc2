----------------------- MODULE SharedMutexRobustProofs -----------------------
(***************************************************************************)
(* Proofs about SharedMutexRobust, for any number of processes, any number *)
(* of threads sharing their objects, and any deaths and closings.          *)
(***************************************************************************)
EXTENDS SharedMutexRobust, TLAPS

\* OwnersAgree, strengthened: a thread between the kernel call and the store of
\* nOwner owns the mutex, and one that erases it no longer does; calls run on open
\* objects only; an object that is closed names no owner unless its process is
\* dead; and a thread that shares its object with nobody and owns the mutex is
\* named by its object.
KernelInv ==
    /\ OwnersAgree
    /\ \A t \in Threads : pc[t] \in {"store", "kunlock"} => kOwner = t
    /\ \A t \in Threads : pc[t] \notin {"idle", "dead"} => ObjectOf[t] \in opened
    /\ \A o \in Objects \ opened :
          nOwner[o] = Nobody \/ \A m \in Mates(o) : pc[m] = "dead"
    /\ \A t \in Threads : pc[t] = "clear" => kOwner # t
    /\ \A t \in Threads \ Sharers :
          kOwner = t => pc[t] = "store" \/ nOwner[ObjectOf[t]] = t

IInv == TypeOK /\ KernelInv

\* The initial state satisfies the inductive invariant.
LEMMA InitIInv == Init => IInv
  BY NobodyAssumption DEF Init, IInv, TypeOK, KernelInv, OwnersAgree, PCs, Mates

\* Two threads of one object share it.
LEMMA MatesShare ==
    ASSUME NEW t \in Threads, NEW u \in Threads, t # u, ObjectOf[t] = ObjectOf[u]
    PROVE  t \in Sharers
  BY DEF Sharers, Mates

\* Every call, every closing and every death preserves the inductive invariant.
LEMMA NextIInv == IInv /\ [Next]_vars => IInv'
<1> SUFFICES ASSUME IInv, [Next]_vars PROVE IInv'
  OBVIOUS
<1> USE NobodyAssumption, ObjectAssumption
    DEF IInv, TypeOK, KernelInv, OwnersAgree, Goto, Return, Mates, PCs
<1>1. ASSUME NEW t \in Threads, Open(t) PROVE IInv'
  <2>1. nOwner[ObjectOf[t]] = Nobody
    BY <1>1 DEF Open
  <2> QED BY <1>1, <2>1 DEF Open
<1>2. ASSUME NEW t \in Threads, LockClosed(t) PROVE IInv'
  BY <1>2 DEF LockClosed
<1>3. ASSUME NEW t \in Threads, NEW kind \in Kinds, LockEnter(t, kind) PROVE IInv'
  BY <1>3 DEF LockEnter, Kinds
<1>4. ASSUME NEW t \in Threads, KernelLock(t) PROVE IInv'
  BY <1>4 DEF KernelLock, Kinds
<1>5. ASSUME NEW t \in Threads, KernelBusy(t) PROVE IInv'
  BY <1>5 DEF KernelBusy
<1>6. ASSUME NEW t \in Threads, StoreOwner(t) PROVE IInv'
  <2>1. TypeOK' BY <1>6 DEF StoreOwner
  <2>2. kOwner = t /\ ObjectOf[t] \in opened BY <1>6 DEF StoreOwner
  <2> QED BY <1>6, <2>1, <2>2 DEF StoreOwner
<1>7. ASSUME NEW t \in Threads, UnlockRefused(t) PROVE IInv'
  BY <1>7 DEF UnlockRefused
<1>8. ASSUME NEW t \in Threads, UnlockEnter(t) PROVE IInv'
  BY <1>8 DEF UnlockEnter
<1>9. ASSUME NEW t \in Threads, KernelUnlock(t) PROVE IInv'
  BY <1>9 DEF KernelUnlock
<1>10. ASSUME NEW t \in Threads, ClearOwner(t) PROVE IInv'
  <2>1. kOwner # t
    BY <1>10 DEF ClearOwner
  <2>2. \A u \in Threads \ Sharers : kOwner = u => ObjectOf[u] # ObjectOf[t]
    BY <2>1, MatesShare
  <2>3. TypeOK'
    BY <1>10 DEF ClearOwner
  <2>4. (\A u \in Threads \ Sharers :
            kOwner = u => pc[u] = "store" \/ nOwner[ObjectOf[u]] = u)'
    BY <1>10, <2>1, <2>2 DEF ClearOwner, Sharers
  <2>5. (\A u \in Threads \ Sharers : kOwner = u => ObjectOf[u] \in opened /\ mapped)'
    BY <1>10 DEF ClearOwner, Sharers
  <2> QED BY <1>10, <2>1, <2>3, <2>4, <2>5 DEF ClearOwner
<1>11. ASSUME NEW t \in Threads, Close(t) PROVE IInv'
  <2>1. \A u \in Threads \ Sharers : kOwner' = u => kOwner = u /\ ObjectOf[u] # ObjectOf[t]
    <3> SUFFICES ASSUME NEW u \in Threads \ Sharers, kOwner' = u
                 PROVE  kOwner = u /\ ObjectOf[u] # ObjectOf[t]
      OBVIOUS
    <3>1. kOwner = u
      BY <1>11 DEF Close
    <3>2. CASE u = t
      BY <1>11, <3>1, <3>2 DEF Close, CloseUnlocks
    <3>3. CASE u # t
      BY <3>1, <3>3, MatesShare
    <3> QED BY <3>2, <3>3
  <2>2. TypeOK'
    BY <1>11 DEF Close
  <2>3. \A u \in Threads \ Sharers : kOwner' = u => kOwner' \notin Mates(ObjectOf[t])
    BY <2>1
  <2>4. (\A u \in Threads \ Sharers : kOwner = u => ObjectOf[u] \in opened /\ mapped)'
    BY <1>11, <2>1, <2>3 DEF Close, Sharers
  <2>5. (\A u \in Threads \ Sharers :
            kOwner = u => pc[u] = "store" \/ nOwner[ObjectOf[u]] = u)'
    BY <1>11, <2>1 DEF Close, Sharers
  <2>6. (\A u \in Threads : held[u] = 1 => kOwner = u)'
    BY <1>11 DEF Close, CloseUnlocks
  <2>7. (\A o \in opened : nOwner[o] # Nobody =>
          /\ ObjectOf[nOwner[o]] = o
          /\ kOwner = nOwner[o] \/ pc[nOwner[o]] = "clear")'
    BY <1>11 DEF Close, CloseUnlocks
  <2>8. OwnersAgree'
    BY <2>4, <2>6, <2>7
  <2>9. (\A u \in Threads : pc[u] \in {"store", "kunlock"} => kOwner = u)'
    BY <1>11 DEF Close, CloseUnlocks
  <2>10. (\A u \in Threads : pc[u] \notin {"idle", "dead"} => ObjectOf[u] \in opened)'
    BY <1>11 DEF Close
  <2>11. (\A o \in Objects \ opened :
            nOwner[o] = Nobody \/ \A m \in Mates(o) : pc[m] = "dead")'
    BY <1>11 DEF Close
  <2>12. (\A u \in Threads : pc[u] = "clear" => kOwner # u)'
    BY <1>11 DEF Close, CloseUnlocks
  <2> QED BY <2>2, <2>5, <2>8, <2>9, <2>10, <2>11, <2>12
<1>12. ASSUME NEW o \in Objects, Dies(o) PROVE IInv'
  <2>1. \A u \in Threads \ Sharers :
          kOwner' = u => kOwner = u /\ ObjectOf[u] # o /\ mapped' = mapped
    BY <1>12 DEF Dies
  <2>2. TypeOK'
    BY <1>12 DEF Dies
  <2>3. (\A u \in Threads \ Sharers : kOwner = u => ObjectOf[u] \in opened /\ mapped)'
    BY <1>12, <2>1 DEF Dies, Sharers
  <2>4. (\A u \in Threads \ Sharers :
            kOwner = u => pc[u] = "store" \/ nOwner[ObjectOf[u]] = u)'
    BY <1>12, <2>1 DEF Dies, Sharers
  <2>5. kOwner' = kOwner \/ (kOwner \in Mates(o) /\ kOwner' = Ghost)
    BY <1>12 DEF Dies
  <2>6. (\A u \in Threads : held[u] = 1 => kOwner = u)'
    BY <1>12, <2>5 DEF Dies
  <2>7. (\A q \in opened : nOwner[q] # Nobody =>
          /\ ObjectOf[nOwner[q]] = q
          /\ kOwner = nOwner[q] \/ pc[nOwner[q]] = "clear")'
    BY <1>12, <2>5 DEF Dies
  <2>8. OwnersAgree'
    BY <2>3, <2>6, <2>7
  <2>9. (\A u \in Threads : pc[u] \in {"store", "kunlock"} => kOwner = u)'
    BY <1>12, <2>5 DEF Dies
  <2>10. (\A u \in Threads : pc[u] = "clear" => kOwner # u)'
    BY <1>12, <2>5 DEF Dies
  <2> QED BY <1>12, <2>2, <2>4, <2>8, <2>9, <2>10 DEF Dies
<1>13. CASE UNCHANGED vars
  BY <1>13 DEF vars
<1> QED BY <1>1, <1>2, <1>3, <1>4, <1>5, <1>6, <1>7, <1>8, <1>9, <1>10, <1>11,
           <1>12, <1>13 DEF Next, Call, Inside

\* Type correctness of the objects and of the shared mutex.
THEOREM TypeCorrect == Spec => []TypeOK
<1>1. IInv => TypeOK BY DEF IInv
<1> QED BY <1>1, InitIInv, NextIInv, PTL DEF Spec

\* A thread that believes it holds the mutex owns it in the kernel, and an
\* object's nOwner names the owner or a thread that is about to erase itself.
THEOREM OwnersAgreeHolds == Spec => []OwnersAgree
<1>1. IInv => OwnersAgree BY DEF IInv, KernelInv
<1> QED BY <1>1, InitIInv, NextIInv, PTL DEF Spec

\* No two threads of any processes hold the shared mutex at once.
THEOREM MutualExclusionHolds == Spec => []MutualExclusion
<1>1. IInv => MutualExclusion
  BY DEF IInv, KernelInv, OwnersAgree, MutualExclusion
<1> QED BY <1>1, InitIInv, NextIInv, PTL DEF Spec

-----------------------------------------------------------------------------
(* The abstract lock                                                       *)

\* What the steps of a call know of the abstract lock: whom an open object
\* names holds the lock or has just released it, a thread that has the mutex to
\* store has not been told yet, and only a thread that shares its object can
\* hold the lock without being named.
HeldInv ==
    /\ \A t \in Threads \ Sharers : held[t] = 1 => ObjectOf[t] \in opened
    /\ \A t \in Threads : pc[t] = "kunlock" => held[t] = 1
    /\ \A t \in Threads : pc[t] \in {"store", "clear"} => held[t] = 0
    /\ \A o \in opened : nOwner[o] # Nobody => held[nOwner[o]] = 1 \/ pc[nOwner[o]] = "clear"
    /\ \A t \in Threads \ Sharers : held[t] = 1 => nOwner[ObjectOf[t]] = t

\* Nobody holds anything at first.
LEMMA InitHeld == Init => HeldInv
  BY NobodyAssumption DEF Init, HeldInv

\* Every step preserves what the calls know of the abstract lock.
LEMMA NextHeld == IInv /\ HeldInv /\ [Next]_vars => HeldInv'
<1> SUFFICES ASSUME IInv, HeldInv, [Next]_vars PROVE HeldInv'
  OBVIOUS
<1> USE NobodyAssumption, ObjectAssumption
    DEF IInv, TypeOK, KernelInv, OwnersAgree, HeldInv, Goto, Return, Mates
<1>1. ASSUME NEW t \in Threads, Open(t) PROVE HeldInv'
  <2>1. nOwner[ObjectOf[t]] = Nobody
    BY <1>1 DEF Open
  <2> QED BY <1>1, <2>1 DEF Open
<1>2. ASSUME NEW t \in Threads, LockClosed(t) \/ KernelBusy(t) \/ UnlockRefused(t) PROVE HeldInv'
  BY <1>2 DEF LockClosed, KernelBusy, UnlockRefused
<1>3. ASSUME NEW t \in Threads, NEW kind \in Kinds, LockEnter(t, kind) PROVE HeldInv'
  BY <1>3 DEF LockEnter, Kinds
<1>4. ASSUME NEW t \in Threads, KernelLock(t) PROVE HeldInv'
  BY <1>4 DEF KernelLock, Kinds
<1>5. ASSUME NEW t \in Threads, StoreOwner(t) PROVE HeldInv'
  BY <1>5, MatesShare DEF StoreOwner
<1>6. ASSUME NEW t \in Threads, UnlockEnter(t) PROVE HeldInv'
  BY <1>6 DEF UnlockEnter
<1>7. ASSUME NEW t \in Threads, KernelUnlock(t) PROVE HeldInv'
  BY <1>7 DEF KernelUnlock
<1>8. ASSUME NEW t \in Threads, ClearOwner(t) PROVE HeldInv'
  BY <1>8, MatesShare DEF ClearOwner
<1>9. ASSUME NEW t \in Threads, Close(t) PROVE HeldInv'
  <2>1. \A u \in Threads : held'[u] = 1 => held[u] = 1 /\ kOwner = u /\ kOwner' = u
    BY <1>9 DEF Close, CloseUnlocks
  <2>2. \A u \in Threads \ Sharers : held'[u] = 1 => ObjectOf[u] # ObjectOf[t]
    <3> SUFFICES ASSUME NEW u \in Threads \ Sharers, held'[u] = 1,
                        ObjectOf[u] = ObjectOf[t]
                 PROVE  FALSE
      OBVIOUS
    <3>1. u = t
      BY MatesShare
    <3>2. held[t] = 1 /\ kOwner = t /\ nOwner[ObjectOf[t]] = t
      BY <2>1, <3>1
    <3>3. CloseUnlocks(t)
      BY <3>2 DEF CloseUnlocks
    <3> QED BY <1>9, <2>1, <3>1, <3>3 DEF Close
  <2>3. (\A u \in Threads \ Sharers :
           held[u] = 1 => ObjectOf[u] \in opened /\ nOwner[ObjectOf[u]] = u)'
    BY <1>9, <2>1, <2>2 DEF Close, Sharers
  <2>4. (\A o \in opened : nOwner[o] # Nobody => held[nOwner[o]] = 1 \/ pc[nOwner[o]] = "clear")'
    <3> SUFFICES ASSUME NEW o \in opened', nOwner'[o] # Nobody
                 PROVE  held'[nOwner'[o]] = 1 \/ pc'[nOwner'[o]] = "clear"
      OBVIOUS
    <3>1. o \in opened /\ o # ObjectOf[t] /\ nOwner'[o] = nOwner[o] /\ pc' = pc
      BY <1>9 DEF Close
    <3>2. nOwner[o] \in Threads /\ nOwner[o] # t
      BY <3>1
    <3> QED BY <1>9, <3>1, <3>2 DEF Close
  <2> QED BY <1>9, <2>3, <2>4 DEF Close
<1>10. ASSUME NEW o \in Objects, Dies(o) PROVE HeldInv'
  BY <1>10 DEF Dies
<1>11. CASE UNCHANGED vars
  BY <1>11 DEF vars, Sharers
<1> QED BY <1>1, <1>2, <1>3, <1>4, <1>5, <1>6, <1>7, <1>8, <1>9, <1>10, <1>11
        DEF Next, Call, Inside

\* At first the abstract lock is free.
LEMMA InitMaps == Init => Abs!AbsInit
  BY DEF Init, Abs!AbsInit

\* A successful lock() acquires at the store of nOwner, unlock() releases in
\* the kernel, refusals and closed objects are refusals of the abstract lock,
\* who closes abandons what it held itself, and a process that dies what its
\* threads held.
LEMMA NextMaps == IInv /\ HeldInv /\ [Next]_vars => [Abs!AbsNext]_(Abs!absVars)
<1> SUFFICES ASSUME IInv, HeldInv, [Next]_vars PROVE [Abs!AbsNext]_(Abs!absVars)
  OBVIOUS
<1> USE DEF Abs!Returns, Return, Goto
<1>1. ASSUME NEW t \in Threads, Abs!Acquire(t) \/ Abs!Busy(t) \/ Abs!Release(t) \/ Abs!Refuse(t)
      PROVE  Abs!AbsNext
  BY <1>1 DEF Abs!AbsNext
<1>2. ASSUME NEW gone \in SUBSET Threads, ret' = ret,
             held' = [m \in Threads |-> IF m \in gone THEN 0 ELSE held[m]]
      PROVE  Abs!AbsNext
  <2>2. Abs!Abandon(gone)
    BY <1>2 DEF Abs!Abandon
  <2> QED BY <2>2 DEF Abs!AbsNext
<1>3. ASSUME UNCHANGED <<held, ret>> PROVE UNCHANGED Abs!absVars
  BY <1>3 DEF Abs!absVars
<1>4. ASSUME NEW t \in Threads, Open(t) \/ KernelLock(t) \/ UnlockEnter(t) \/ ClearOwner(t)
      PROVE  UNCHANGED Abs!absVars
  BY <1>3, <1>4 DEF Open, KernelLock, UnlockEnter, ClearOwner
<1>5. ASSUME NEW t \in Threads, LockClosed(t) PROVE Abs!AbsNext
  <2>1. held[t] = 0 \/ t \in Sharers
    BY <1>5 DEF LockClosed, HeldInv, IInv, TypeOK
  <2>2. Abs!Busy(t) \/ Abs!Refuse(t)
    BY <1>5, <2>1 DEF LockClosed, Abs!Busy, Abs!Refuse
  <2> QED BY <1>1, <2>2
<1>6. ASSUME NEW t \in Threads, NEW kind \in Kinds, LockEnter(t, kind)
      PROVE  Abs!AbsNext \/ UNCHANGED Abs!absVars
  <2>1. Abs!Busy(t) \/ UNCHANGED <<held, ret>>
    BY <1>6 DEF LockEnter, Abs!Busy
  <2> QED BY <1>1, <1>3, <2>1
<1>7. ASSUME NEW t \in Threads, KernelBusy(t) PROVE Abs!AbsNext
  <2>1. Abs!Busy(t)
    BY <1>7 DEF KernelBusy, Abs!Busy
  <2> QED BY <1>1, <2>1
<1>8. ASSUME NEW t \in Threads, StoreOwner(t) PROVE Abs!AbsNext
  <2>1. kOwner = t /\ held[t] = 0
    BY <1>8 DEF StoreOwner, HeldInv, IInv, KernelInv
  <2>2. \A u \in Threads \ {t} : held[u] = 0
    BY <2>1 DEF IInv, TypeOK, KernelInv, OwnersAgree
  <2>3. Abs!Acquire(t)
    BY <1>8, <2>1, <2>2 DEF StoreOwner, Abs!Acquire, IInv, TypeOK
  <2> QED BY <1>1, <2>3
<1>9. ASSUME NEW t \in Threads, UnlockRefused(t) PROVE Abs!AbsNext
  <2>1. held[t] = 0 \/ t \in Sharers
    BY <1>9 DEF UnlockRefused, HeldInv, IInv, TypeOK
  <2>2. Abs!Refuse(t)
    BY <1>9, <2>1 DEF UnlockRefused, Abs!Refuse
  <2> QED BY <1>1, <2>2
<1>10. ASSUME NEW t \in Threads, KernelUnlock(t) PROVE Abs!AbsNext
  <2>1. held[t] = 1
    BY <1>10 DEF KernelUnlock, HeldInv
  <2>2. Abs!Release(t)
    BY <1>10, <2>1 DEF KernelUnlock, Abs!Release, IInv, TypeOK
  <2> QED BY <1>1, <2>2
<1>11. ASSUME NEW t \in Threads, Close(t) PROVE Abs!AbsNext \/ UNCHANGED Abs!absVars
  <2>1. CASE CloseUnlocks(t)
    <3>1. held' = [m \in Threads |-> IF m \in {t} THEN 0 ELSE held[m]]
      BY <1>11, <2>1 DEF Close, IInv, TypeOK
    <3>2. {t} \in SUBSET Threads /\ ret' = ret
      BY <1>11 DEF Close
    <3> QED BY <1>2, <3>1, <3>2
  <2>2. CASE ~CloseUnlocks(t)
    BY <1>3, <1>11, <2>2 DEF Close
  <2> QED BY <2>1, <2>2
<1>12. ASSUME NEW o \in Objects, Dies(o) PROVE Abs!AbsNext
  <2>1. Mates(o) \in SUBSET Threads
    BY DEF Mates
  <2> QED BY <1>2, <1>12, <2>1 DEF Dies
<1>13. CASE UNCHANGED vars
  BY <1>3, <1>13 DEF vars
<1> QED BY <1>4, <1>5, <1>6, <1>7, <1>8, <1>9, <1>10, <1>11, <1>12, <1>13 DEF Next, Call, Inside

\* The shared mutex implements the abstract lock, for any processes, threads,
\* sharings, closings and deaths.
THEOREM LockImplements == Spec => ImplementsLock
BY InitIInv, NextIInv, InitHeld, NextHeld, InitMaps, NextMaps, PTL
   DEF Spec, ImplementsLock, Abs!AbsSpec

=============================================================================
