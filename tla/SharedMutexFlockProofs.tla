----------------------- MODULE SharedMutexFlockProofs ------------------------
(***************************************************************************)
(* Proofs about SharedMutexFlock, for any threads and any way they share   *)
(* the objects.  Two arguments meet in the invariant: among the threads of *)
(* one object the compare-and-swap of nOwner decides, and among threads    *)
(* that have an object of their own the file lock does.                    *)
(***************************************************************************)
EXTENDS SharedMutexFlock, TLAPS

\* nOwner names the thread of its object that holds the lock, or that has
\* released the file lock and not yet erased itself, or has died.
OwnerInv ==
    /\ \A t \in Threads : held[t] = 1 => nOwner[objectOf[t]] = t
    /\ \A t \in Threads : nOwner[objectOf[t]] = t => held[t] = 1 \/ pc[t] \in {"clear", "dead"}
    /\ \A t \in Threads : pc[t] = "clear" => nOwner[objectOf[t]] = t
    /\ \A t \in Threads : pc[t] = "funlock" => held[t] = 1
    /\ \A t \in Threads : pc[t] \notin {"idle", "dead", "funlock"} => held[t] = 0
    /\ \A t \in Threads : held[t] = 1 \/ pc[t] \notin {"idle", "dead"} => objectOf[t] \in opened

\* The file lock of a lone thread's descriptor is its own doing.
LoneInv ==
    \A t \in Threads :
        Alone(t) /\ (held[t] = 1 \/ pc[t] \in {"spin", "tspin", "ncas"}) => fileLock = objectOf[t]

IInv == TypeOK /\ OwnerInv /\ LoneInv

\* What follows each of the three ways to ask for the file lock.
LEMMA Asking ==
    /\ DOMAIN After = {"flock", "tflock", "nflock"}
    /\ \A label \in DOMAIN After : After[label] \in {"spin", "tspin", "ncas"}
  BY DEF After

\* Lone threads have different objects.
LEMMA LoneObjects ==
    ASSUME NEW t \in Threads, NEW u \in Threads, Alone(t), objectOf[t] = objectOf[u]
    PROVE  t = u
  BY DEF Alone, Mates

\* The initial state satisfies the inductive invariant.
LEMMA InitIInv == Init => IInv
<1> SUFFICES ASSUME Init PROVE IInv
  OBVIOUS
<1>1. objectOf \in [Threads -> Objects]
  BY SharingAssumption DEF Init
<1>2. TypeOK
  BY DEF Init, TypeOK, PCs
<1>3. OwnerInv /\ LoneInv
  BY <1>1, NobodyAssumption DEF Init, OwnerInv, LoneInv
<1> QED BY <1>2, <1>3 DEF IInv

\* Every call, closing and death preserves the inductive invariant.
LEMMA NextIInv == IInv /\ [Next]_vars => IInv'
<1> SUFFICES ASSUME IInv, [Next]_vars PROVE IInv'
  OBVIOUS
<1>0. objectOf \in [Threads -> Objects]
  BY SharingAssumption DEF IInv, TypeOK
<1> USE <1>0, NobodyAssumption
    DEF IInv, TypeOK, OwnerInv, LoneInv, PCs, Goto, Return, Mates, Unlocked, Alone
<1>1. ASSUME NEW t \in Threads, Open(t) PROVE IInv'
  BY <1>1 DEF Open
<1>2. ASSUME NEW t \in Threads, LockClosed(t) PROVE IInv'
  BY <1>2 DEF LockClosed
<1>3. ASSUME NEW t \in Threads, NEW kind \in DOMAIN After, LockEnter(t, kind) PROVE IInv'
  BY <1>3, Asking DEF LockEnter
<1>4. ASSUME NEW t \in Threads, FileLock(t) PROVE IInv'
  BY <1>4, Asking DEF FileLock
<1>5. ASSUME NEW t \in Threads, FileLockBusy(t) PROVE IInv'
  BY <1>5 DEF FileLockBusy
<1>6. ASSUME NEW t \in Threads, OwnerCas(t) PROVE IInv'
  BY <1>6 DEF OwnerCas
<1>7. ASSUME NEW t \in Threads, OwnerBusy(t) PROVE IInv'
  BY <1>7 DEF OwnerBusy
<1>8. ASSUME NEW t \in Threads, FileUnlockBack(t) PROVE IInv'
  BY <1>8 DEF FileUnlockBack
<1>9. ASSUME NEW t \in Threads, UnlockRefused(t) PROVE IInv'
  BY <1>9 DEF UnlockRefused
<1>10. ASSUME NEW t \in Threads, UnlockEnter(t) PROVE IInv'
  BY <1>10 DEF UnlockEnter
<1>11. ASSUME NEW t \in Threads, FileUnlock(t) PROVE IInv'
  BY <1>11 DEF FileUnlock
<1>12. ASSUME NEW t \in Threads, ClearOwner(t) PROVE IInv'
  BY <1>12 DEF ClearOwner
<1>13. ASSUME NEW t \in Threads, Close(t) PROVE IInv'
  BY <1>13 DEF Close
<1>14. ASSUME NEW o \in Objects, Dies(o) PROVE IInv'
  BY <1>14 DEF Dies
<1>15. CASE UNCHANGED vars
  BY <1>15 DEF vars
<1> QED BY <1>1, <1>2, <1>3, <1>4, <1>5, <1>6, <1>7, <1>8, <1>9, <1>10, <1>11,
           <1>12, <1>13, <1>14, <1>15 DEF Next

\* Type correctness of the objects, the file lock and the threads.
THEOREM TypeCorrect == Spec => []TypeOK
<1>1. IInv => TypeOK BY DEF IInv
<1> QED BY <1>1, InitIInv, NextIInv, PTL DEF Spec

\* The threads of one object exclude each other, and its nOwner names the one
\* that holds the lock, although the file lock does not tell them apart.
THEOREM MatesExcludeHolds == Spec => []MatesExclude
<1>1. IInv => MatesExclude
  <2> SUFFICES ASSUME IInv PROVE MatesExclude
    OBVIOUS
  <2>1. \A t \in Threads : held[t] = 1 => nOwner[objectOf[t]] = t
    BY DEF IInv, OwnerInv
  <2>2. \A t, u \in Threads : held[t] = 1 /\ held[u] = 1 /\ objectOf[t] = objectOf[u] => t = u
    BY <2>1
  <2> QED BY <2>1, <2>2 DEF MatesExclude
<1> QED BY <1>1, InitIInv, NextIInv, PTL DEF Spec

\* What is left of MutualExclusion: threads that have an object of their own,
\* such as processes of one thread each, exclude one another.
LoneExclude ==
    \A t, u \in Threads : Alone(t) /\ Alone(u) /\ held[t] = 1 /\ held[u] = 1 => t = u
THEOREM LoneExcludeHolds == Spec => []LoneExclude
<1>1. IInv => LoneExclude
  BY LoneObjects DEF IInv, LoneInv, LoneExclude
<1> QED BY <1>1, InitIInv, NextIInv, PTL DEF Spec

-----------------------------------------------------------------------------
(* The abstract lock of the lone threads                                   *)

\* What the abstract lock knows, of the lone threads only.
LoneHeld == [t \in Threads |-> IF Alone(t) THEN held[t] ELSE 0]
LoneRet  == [t \in Threads |-> IF Alone(t) THEN ret[t] ELSE "none"]

\* At first the abstract lock is free.
LEMMA InitMaps == Init => Abs!AbsInit
<1> SUFFICES ASSUME Init PROVE LoneHeld = [t \in Threads |-> 0] /\ LoneRet = [t \in Threads |-> "none"]
  BY DEF Abs!AbsInit, LoneHeld, LoneRet
<1> QED BY DEF Init, LoneHeld, LoneRet

\* A step of one thread's call is a step of that client of the abstract lock if
\* the thread is alone, and nothing otherwise.
LEMMA CallMaps ==
    ASSUME TypeOK, NEW t \in Threads, NEW h \in {0, 1}, NEW r, objectOf' = objectOf,
           held' = [held EXCEPT ![t] = h], ret' = [ret EXCEPT ![t] = r]
    PROVE  IF Alone(t)
             THEN LoneHeld' = [LoneHeld EXCEPT ![t] = h] /\ LoneRet' = [LoneRet EXCEPT ![t] = r]
             ELSE LoneHeld' = LoneHeld /\ LoneRet' = LoneRet
<1>1. \A u \in Threads : Alone(u)' <=> Alone(u)
  BY DEF Alone, Mates
<1>2. LoneHeld' = [u \in Threads |-> IF Alone(u) THEN held'[u] ELSE 0]
      /\ LoneRet' = [u \in Threads |-> IF Alone(u) THEN ret'[u] ELSE "none"]
  BY <1>1 DEF LoneHeld, LoneRet
<1> QED BY <1>2 DEF TypeOK, LoneHeld, LoneRet

\* A lone thread acquires at the compare-and-swap, releases with the file lock, and is refused
\* what the abstract lock refuses; closing and dying abandon.
LEMMA NextMaps == IInv /\ [Next]_vars => [Abs!AbsNext]_(Abs!absVars)
<1> SUFFICES ASSUME IInv, [Next]_vars PROVE [Abs!AbsNext]_(Abs!absVars)
  OBVIOUS
<1> USE DEF IInv, TypeOK
<1>1. ASSUME LoneHeld' = LoneHeld, LoneRet' = LoneRet PROVE UNCHANGED Abs!absVars
  BY <1>1 DEF Abs!absVars, LoneHeld, LoneRet
<1>2. ASSUME NEW t \in Threads, LoneHeld' = LoneHeld, NEW r \in {"busy", "refused"},
             LoneRet' = [LoneRet EXCEPT ![t] = r], r = "refused" => LoneHeld[t] = 0
      PROVE  Abs!AbsNext
  <2>1. Abs!Busy(t) \/ Abs!Refuse(t)
    BY <1>2 DEF Abs!Busy, Abs!Refuse, Abs!Returns, LoneHeld, LoneRet
  <2> QED BY <2>1 DEF Abs!AbsNext
<1>3. ASSUME objectOf' = objectOf, held' = held, ret' = ret PROVE UNCHANGED Abs!absVars
  BY <1>1, <1>3 DEF LoneHeld, LoneRet, Alone, Mates
<1>4. ASSUME NEW t \in Threads, NEW r \in {"busy", "refused"}, objectOf' = objectOf,
             held' = held, ret' = [ret EXCEPT ![t] = r], r = "refused" => held[t] = 0
      PROVE  [Abs!AbsNext]_(Abs!absVars)
  <2>1. held' = [held EXCEPT ![t] = held[t]] /\ held[t] \in {0, 1}
    BY <1>4
  <2>2. CASE Alone(t)
    <3>1. LoneHeld' = LoneHeld /\ LoneRet' = [LoneRet EXCEPT ![t] = r]
      <4>1. LoneHeld' = [LoneHeld EXCEPT ![t] = held[t]] /\ LoneRet' = [LoneRet EXCEPT ![t] = r]
        BY <1>4, <2>1, <2>2, CallMaps
      <4>2. LoneHeld = [LoneHeld EXCEPT ![t] = held[t]]
        BY <2>2 DEF LoneHeld
      <4> QED BY <4>1, <4>2
    <3>2. r = "refused" => LoneHeld[t] = 0
      BY <1>4, <2>2 DEF LoneHeld
    <3> QED BY <1>2, <3>1, <3>2
  <2>3. CASE ~Alone(t)
    BY <1>1, <1>4, <2>1, <2>3, CallMaps
  <2> QED BY <2>2, <2>3
<1>5. ASSUME NEW o \in Objects, objectOf' = objectOf, ret' = ret,
             held' = [m \in Threads |-> IF m \in Mates(o) THEN 0 ELSE held[m]]
      PROVE  Abs!AbsNext
  <2>1. \A u \in Threads : Alone(u)' <=> Alone(u)
    BY <1>5 DEF Alone, Mates
  <2>2. LoneHeld' = [m \in Threads |-> IF m \in Mates(o) THEN 0 ELSE LoneHeld[m]] /\ LoneRet' = LoneRet
    BY <1>5, <2>1 DEF LoneHeld, LoneRet
  <2>3. Mates(o) \in SUBSET Threads
    BY DEF Mates
  <2>4. \E gone \in SUBSET Threads : Abs!Abandon(gone)
    <3> SUFFICES Abs!Abandon(Mates(o))
      BY <2>3 DEF Abs!Abandon
    <3> QED BY <2>2 DEF Abs!Abandon, LoneHeld, LoneRet
  <2> QED BY <2>4 DEF Abs!AbsNext
<1>6. ASSUME NEW t \in Threads, Open(t) \/ FileLock(t) \/ OwnerBusy(t) \/ UnlockEnter(t) \/ ClearOwner(t)
      PROVE  UNCHANGED Abs!absVars
  BY <1>3, <1>6 DEF Open, FileLock, OwnerBusy, UnlockEnter, ClearOwner, Goto
<1>7. ASSUME NEW t \in Threads, LockClosed(t) PROVE [Abs!AbsNext]_(Abs!absVars)
  <2>1. held[t] = 0
    BY <1>7 DEF LockClosed, OwnerInv
  <2> QED BY <1>4, <1>7, <2>1 DEF LockClosed, Return
<1>8. ASSUME NEW t \in Threads, NEW kind \in DOMAIN After, LockEnter(t, kind)
      PROVE  [Abs!AbsNext]_(Abs!absVars)
  BY <1>3, <1>4, <1>8 DEF LockEnter, Return
<1>9. ASSUME NEW t \in Threads, FileLockBusy(t) \/ FileUnlockBack(t) PROVE [Abs!AbsNext]_(Abs!absVars)
  BY <1>4, <1>9 DEF FileLockBusy, FileUnlockBack, Return
<1>10. ASSUME NEW t \in Threads, UnlockRefused(t) PROVE [Abs!AbsNext]_(Abs!absVars)
  <2>1. held[t] = 0
    BY <1>10 DEF UnlockRefused, OwnerInv
  <2> QED BY <1>4, <1>10, <2>1 DEF UnlockRefused, Return
<1>11. ASSUME NEW t \in Threads, OwnerCas(t) PROVE [Abs!AbsNext]_(Abs!absVars)
  <2>1. CASE ~Alone(t)
    BY <1>1, <1>11, <2>1, CallMaps DEF OwnerCas, Return
  <2>2. CASE Alone(t)
    <3>1. LoneHeld' = [LoneHeld EXCEPT ![t] = 1] /\ LoneRet' = [LoneRet EXCEPT ![t] = "granted"]
      BY <1>11, <2>2, CallMaps DEF OwnerCas, Return
    <3>2. LoneHeld[t] = 0
      BY <1>11, <2>2 DEF OwnerCas, OwnerInv, LoneHeld
    <3>3. fileLock = objectOf[t]
      BY <1>11, <2>2 DEF OwnerCas, LoneInv
    <3>4. \A u \in Threads \ {t} : LoneHeld[u] = 0
      BY <2>2, <3>3, LoneObjects DEF LoneInv, LoneHeld
    <3>5. LoneHeld' = [LoneHeld EXCEPT ![t] = LoneHeld[t] + 1]
      BY <3>1, <3>2
    <3>6. Abs!Acquire(t)
      BY <3>1, <3>2, <3>4, <3>5, Zenon DEF Abs!Acquire, Abs!Returns, LoneHeld, LoneRet
    <3> QED BY <3>6 DEF Abs!AbsNext
  <2> QED BY <2>1, <2>2
<1>12. ASSUME NEW t \in Threads, FileUnlock(t) PROVE [Abs!AbsNext]_(Abs!absVars)
  <2>1. CASE ~Alone(t)
    BY <1>1, <1>12, <2>1, CallMaps DEF FileUnlock
  <2>2. CASE Alone(t)
    <3>1. LoneHeld' = [LoneHeld EXCEPT ![t] = 0] /\ LoneRet' = [LoneRet EXCEPT ![t] = "released"]
      BY <1>12, <2>2, CallMaps DEF FileUnlock
    <3>2. LoneHeld[t] = 1
      BY <1>12, <2>2 DEF FileUnlock, OwnerInv, LoneHeld
    <3>3. LoneHeld[t] > 0 /\ LoneHeld' = [LoneHeld EXCEPT ![t] = LoneHeld[t] - 1]
      BY <3>1, <3>2
    <3>4. Abs!Release(t)
      BY <3>1, <3>3, Zenon DEF Abs!Release, Abs!Returns, LoneHeld, LoneRet
    <3> QED BY <3>4 DEF Abs!AbsNext
  <2> QED BY <2>1, <2>2
<1>13. ASSUME NEW t \in Threads, Close(t) PROVE [Abs!AbsNext]_(Abs!absVars)
  BY <1>5, <1>13, SharingAssumption DEF Close
<1>14. ASSUME NEW o \in Objects, Dies(o) PROVE [Abs!AbsNext]_(Abs!absVars)
  BY <1>5, <1>14 DEF Dies
<1>15. CASE UNCHANGED vars
  BY <1>3, <1>15 DEF vars
<1> QED BY <1>6, <1>7, <1>8, <1>9, <1>10, <1>11, <1>12, <1>13, <1>14, <1>15 DEF Next

\* Among lone threads the file lock implements the abstract lock, whatever is
\* closed or killed and whatever the threads that share an object do.
THEOREM LockImplements == Spec => ImplementsLock
BY InitIInv, NextIInv, InitMaps, NextMaps, PTL DEF Spec, ImplementsLock, Abs!AbsSpec

=============================================================================
