------------------------- MODULE NativeExecutorProofs -------------------------
(***************************************************************************)
(* Proofs about NativeExecutor, for any tasks, submitters and results.     *)
(* The inductive invariant has four parts: who is inside the critical      *)
(* section, where each task is, what the links spell out, and which code   *)
(* is stored.                                                              *)
(***************************************************************************)
EXTENDS NativeExecutor, TLAPS

-----------------------------------------------------------------------------
(* The inductive invariant                                                 *)

SubIn(s) == sub[s].at \in {"link", "tail", "unlock"}
RunIn    == os = "body" /\ rpc \in {"head", "empty", "unlink", "tail", "unlock"}
BossIn   == boss \in {"look", "release", "cancel", "join", "done"}

\* ListIsGuarded without the set, and the launcher's part in it.
Guarded ==
    /\ \A s, u \in Submitters : SubIn(s) /\ SubIn(u) => s = u
    /\ \A s \in Submitters : SubIn(s) => ~RunIn /\ ~BossIn /\ ~nLock
    /\ RunIn => ~BossIn /\ ~nLock
    /\ BossIn => ~nLock
    /\ ~nLock => RunIn \/ BossIn \/ \E s \in Submitters : SubIn(s)
    /\ os # "body" => rpc \in {"check", "lock", "nap"}

Held(s)  == sub[s].at \in {"lock", "undo", "link"}
Waits(t) == \E i \in 1..Len(order) : order[i] = t
InHand   == os = "body" /\ rpc \in {"tail", "unlock", "running", "zero", "exec", "code", "complete"}

\* A submitted or running task is in exactly one place: with a submitter, in
\* the list, or in the hand of the worker.
Places ==
    /\ \A s \in Submitters : sub[s].at # "idle" => sub[s].task \in Tasks
    /\ \A s \in Submitters : Held(s) =>
          /\ state[sub[s].task] = "SUBMITTED"
          /\ ~Waits(sub[s].task)
          /\ InHand => task # sub[s].task
    /\ \A s, u \in Submitters : Held(s) /\ Held(u) /\ sub[s].task = sub[u].task => s = u
    /\ \A i \in 1..Len(order) : state[order[i]] = "SUBMITTED"
    /\ \A i, j \in 1..Len(order) : order[i] = order[j] => i = j
    /\ InHand =>
          /\ task \in Tasks /\ ~Waits(task)
          /\ state[task] = IF rpc \in {"tail", "unlock", "running"} THEN "SUBMITTED" ELSE "RUNNING"
    /\ At("unlink") => task = pHead /\ order # <<>>
    /\ \A t \in Tasks : state[t] \in {"SUBMITTED", "RUNNING"} => Owned(t)

\* The list at every step, also in the middle of a change.
Links ==
    /\ pHead = IF order = <<>> THEN NoTask ELSE order[1]
    /\ \A i \in 1..Len(order) :
          pNext[order[i]] = IF i = Len(order) THEN NoTask ELSE order[i + 1]
    /\ \A t \in Tasks : ~Waits(t) => pNext[t] = NoTask
    /\ (\A s \in Submitters : sub[s].at # "tail") /\ ~At("tail") =>
          pTail = IF order = <<>> THEN NoTask ELSE order[Len(order)]
    /\ \A s \in Submitters : sub[s].at = "tail" =>
          order # <<>> /\ order[Len(order)] = sub[s].task
    /\ At("tail") /\ order # <<>> => pTail = order[Len(order)]

\* The code that is stored, before COMPLETED is.
CodeStored ==
    /\ outcome \in [Tasks -> Codes \cup {0}]
    /\ CompletedCode
    /\ At("complete") => nCode[task] = outcome[task]

IInv == TypeOK /\ Guarded /\ Places /\ Links /\ CodeStored

-----------------------------------------------------------------------------
(* The steps of the owner and of the launcher                              *)

\* What start(), shutdown() and the launcher leave alone: they touch neither
\* tasks nor list, and enter or leave run() only while it has nothing in hand.
LEMMA ThreadSteps ==
    ASSUME StartExecutor \/ ShutdownBegin \/ ShutdownStep \/ LauncherStep
    PROVE  OthersStay /\ (os = "body" => os' = "body")
<1> USE DEF OthersStay
<1>1. CASE StartExecutor
  BY <1>1 DEF StartExecutor, T!StartCreate, T!StartHandle, T!StartPending
<1>2. CASE ShutdownBegin \/ ShutdownPoll \/ ShutdownLook \/ ShutdownRelease
  BY <1>2 DEF ShutdownBegin, ShutdownPoll, ShutdownLook, ShutdownRelease, threadVars
<1>3. CASE ShutdownCancel
  BY <1>3 DEF ShutdownCancel, T!CancelLoad, T!CancelFlag, T!threadVars
<1>4. CASE ShutdownJoin
  BY <1>4 DEF ShutdownJoin, T!JoinLoad, T!JoinWait, T!threadVars
<1>5. CASE LauncherStep
  BY <1>5 DEF LauncherStep, T!Launcher, T!Launch, T!Commit, T!StoreResult
<1> QED BY <1>1, <1>2, <1>3, <1>4, <1>5 DEF ShutdownStep

\* What the first step of submit() makes of the submitter.
LEMMA SubmitTaskSub ==
    ASSUME TypeOK, NEW s \in Submitters, NEW t \in Tasks, SubmitTask(s, t)
    PROVE  /\ \A u \in Submitters \ {s} : sub'[u] = sub[u]
           /\ sub[s].at = "idle"
           /\ sub'[s].task = t
           /\ sub'[s].at = IF state[t] = "IDLE" THEN "lock" ELSE "idle"
           /\ state' = IF state[t] = "IDLE" THEN [state EXCEPT ![t] = "SUBMITTED"] ELSE state
<1>1. CASE state[t] = "IDLE"
  <2>1. sub' = [sub EXCEPT ![s] = [sub[s] EXCEPT !.at = "lock", !.task = t]]
    BY <1>1 DEF SubmitTask
  <2> QED BY <1>1, <2>1 DEF SubmitTask, TypeOK
<1>2. CASE state[t] # "IDLE"
  BY <1>2 DEF SubmitTask, TypeOK
<1> QED BY <1>1, <1>2

SubType == [Submitters -> [at : {"idle", "lock", "undo", "link", "tail", "unlock"},
                           task : Tasks \cup {NoTask}, result : BOOLEAN]]

\* What the other steps of submit() make of it.
LEMMA SubGotoSub ==
    ASSUME TypeOK, NEW s \in Submitters, NEW label \in {"link", "undo", "tail", "unlock"},
           SubGoto(s, label)
    PROVE  /\ sub' \in SubType
           /\ \A u \in Submitters \ {s} : sub'[u] = sub[u]
           /\ sub'[s].at = label /\ sub'[s].task = sub[s].task
  BY DEF TypeOK, SubType, SubGoto

LEMMA SubReturnSub ==
    ASSUME TypeOK, NEW s \in Submitters, NEW r \in BOOLEAN, SubReturn(s, r)
    PROVE  /\ sub' \in SubType
           /\ \A u \in Submitters \ {s} : sub'[u] = sub[u]
           /\ sub'[s].at = "idle" /\ sub'[s].task = sub[s].task
<1>1. sub' = [sub EXCEPT ![s] = [sub[s] EXCEPT !.at = "idle", !.result = r]]
  BY DEF TypeOK, SubReturn
<1> QED BY <1>1 DEF TypeOK, SubType

-----------------------------------------------------------------------------
(* Types                                                                   *)

\* The initial state satisfies the invariant.
LEMMA InitIInv == Init => IInv
  BY NoTaskAssumption DEF Init, IInv, TypeOK, Guarded, Places, Links, CodeStored, CompletedCode,
     SubIn, RunIn, BossIn, Held, Waits, InHand, Owned, At, TaskStates, T!Init

\* Every step keeps the types; the tasks in hand and in the list are tasks.
LEMMA NextTypeOK == IInv /\ [Next]_vars => TypeOK'
<1> SUFFICES ASSUME IInv, [Next]_vars PROVE TypeOK'
  OBVIOUS
<1> USE DEF IInv, TypeOK, TaskStates, SubGoto, SubReturn, RunStays, listVars, taskVars, auxVars
<1>1. ASSUME NEW s \in Submitters, NEW t \in Tasks, SubmitTask(s, t) PROVE TypeOK'
  <2>1. state' \in [Tasks -> TaskStates]
    BY <1>1 DEF SubmitTask
  <2> DEFINE R == [at : {"idle", "lock", "undo", "link", "tail", "unlock"},
                  task : Tasks \cup {NoTask}, result : BOOLEAN]
  <2>2. [sub[s] EXCEPT !.at = "lock", !.task = t] \in R
    OBVIOUS
  <2>3. [at |-> "idle", task |-> t, result |-> FALSE] \in R
    OBVIOUS
  <2>4. PICK r \in R : sub' = [sub EXCEPT ![s] = r]
    <3> HIDE DEF R
    <3> QED BY <1>1, <2>2, <2>3 DEF SubmitTask
  <2>5. sub' \in [Submitters -> R]
    <3>1. sub \in [Submitters -> R]
      OBVIOUS
    <3> HIDE DEF R
    <3> QED BY <3>1, <2>4
  <2> QED BY <1>1, <2>1, <2>5 DEF SubmitTask
<1>2. ASSUME NEW s \in Submitters, NEW t \in Tasks, ResetTask(s, t) PROVE TypeOK'
  BY <1>2 DEF ResetTask
<1>3. ASSUME NEW s \in Submitters, SubmitLock(s) PROVE TypeOK'
  <2> HIDE DEF SubGoto
  <2>1. sub' \in SubType
    BY <1>3, SubGotoSub DEF SubmitLock
  <2> QED BY <1>3, <2>1 DEF SubmitLock, SubType
<1>4. ASSUME NEW s \in Submitters, SubmitUndo(s) PROVE TypeOK'
  <2> HIDE DEF SubReturn
  <2>1. sub' \in SubType
    BY <1>4, SubReturnSub DEF SubmitUndo
  <2>2. state' \in [Tasks -> TaskStates]
    BY <1>4 DEF SubmitUndo
  <2> QED BY <1>4, <2>1, <2>2 DEF SubmitUndo, SubType
<1>5. ASSUME NEW s \in Submitters, SubmitLink(s) PROVE TypeOK'
  <2>1. sub[s].task \in Tasks
    BY <1>5 DEF SubmitLink, Places
  <2>2. order' \in Seq(Tasks)
    BY <1>5, <2>1 DEF SubmitLink
  <2>3. pNext' \in [Tasks -> Tasks \cup {NoTask}] /\ pHead' \in Tasks \cup {NoTask}
    BY <1>5, <2>1 DEF SubmitLink
  <2> HIDE DEF SubGoto
  <2>4. sub' \in SubType
    BY <1>5, SubGotoSub DEF SubmitLink
  <2> QED BY <1>5, <2>2, <2>3, <2>4 DEF SubmitLink, SubType
<1>6. ASSUME NEW s \in Submitters, SubmitTail(s) PROVE TypeOK'
  <2> HIDE DEF SubGoto
  <2>1. sub' \in SubType
    BY <1>6, SubGotoSub DEF SubmitTail
  <2> QED BY <1>6, <2>1 DEF SubmitTail, SubType
<1>7. ASSUME NEW s \in Submitters, SubmitUnlock(s) PROVE TypeOK'
  <2> HIDE DEF SubReturn
  <2>1. sub' \in SubType
    BY <1>7, SubReturnSub DEF SubmitUnlock
  <2> QED BY <1>7, <2>1 DEF SubmitUnlock, SubType
<1>8. ASSUME RunCheck PROVE TypeOK'
  BY <1>8 DEF RunCheck, RunReturns
<1>9. ASSUME RunLock PROVE TypeOK'
  BY <1>9 DEF RunLock
<1>10. ASSUME RunRetry PROVE TypeOK'
  BY <1>10 DEF RunRetry, RunReturns
<1>11. ASSUME RunNap PROVE TypeOK'
  BY <1>11 DEF RunNap, RunReturns
<1>12. ASSUME RunHead PROVE TypeOK'
  BY <1>12 DEF RunHead
<1>13. ASSUME RunEmpty PROVE TypeOK'
  BY <1>13 DEF RunEmpty
<1>14. ASSUME RunUnlink PROVE TypeOK'
  <2>1. pHead \in Tasks /\ order # <<>>
    BY <1>14 DEF RunUnlink, Places, Links, At
  <2>2. Tail(order) \in Seq(Tasks)
    BY <2>1
  <2> QED BY <1>14, <2>1, <2>2 DEF RunUnlink
<1>15. ASSUME RunTail PROVE TypeOK'
  BY <1>15 DEF RunTail
<1>16. ASSUME RunUnlock PROVE TypeOK'
  BY <1>16 DEF RunUnlock
<1>17. ASSUME TaskRunning PROVE TypeOK'
  BY <1>17 DEF TaskRunning
<1>18. ASSUME TaskZero PROVE TypeOK'
  BY <1>18 DEF TaskZero
<1>19. ASSUME NEW code \in Codes, TaskBody(code) PROVE TypeOK'
  BY <1>19 DEF TaskBody
<1>20. ASSUME TaskCode PROVE TypeOK'
  BY <1>20 DEF TaskCode, CodeStored, Places, InHand, At
<1>21. ASSUME TaskComplete PROVE TypeOK'
  BY <1>21 DEF TaskComplete
<1>22. ASSUME TaskFinished PROVE TypeOK'
  BY <1>22 DEF TaskFinished
<1>23. CASE StartExecutor \/ ShutdownBegin \/ ShutdownStep \/ LauncherStep
  <2>1. OthersStay
    BY <1>23, ThreadSteps
  <2>2. boss' \in {"idle", "poll", "look", "release", "cancel", "join", "done"} /\ nLock' \in BOOLEAN
    <3>1. CASE StartExecutor \/ ShutdownBegin \/ LauncherStep
      BY <3>1 DEF StartExecutor, ShutdownBegin, LauncherStep
    <3>2. CASE ShutdownStep
      BY <3>2 DEF ShutdownStep, ShutdownPoll, ShutdownLook, ShutdownRelease, ShutdownCancel, ShutdownJoin
    <3> QED BY <1>23, <3>1, <3>2
  <2> QED BY <2>1, <2>2 DEF OthersStay
<1>24. CASE UNCHANGED vars
  BY <1>24 DEF vars
<1> QED BY <1>1, <1>2, <1>3, <1>4, <1>5, <1>6, <1>7, <1>8, <1>9, <1>10, <1>11, <1>12, <1>13, <1>14, <1>15, <1>16, <1>17, <1>18, <1>19, <1>20, <1>21, <1>22, <1>23, <1>24
        DEF Next, Client, SubmitStep, RunStep

-----------------------------------------------------------------------------
(* The critical section                                                    *)

\* Every step keeps the critical section to one thread, and the flag with it.
LEMMA NextGuarded == IInv /\ [Next]_vars => Guarded'
<1> SUFFICES ASSUME IInv, [Next]_vars PROVE Guarded'
  OBVIOUS
<1> USE DEF threadVars, IInv, Guarded, TypeOK, SubIn, RunIn, BossIn, SubGoto, SubReturn, RunStays, At
<1>1. ASSUME NEW s \in Submitters, NEW t \in Tasks, SubmitTask(s, t) PROVE Guarded'
  <2>1. \A u \in Submitters : SubIn(u)' = SubIn(u)
    BY <1>1, SubmitTaskSub
  <2> QED BY <1>1, <2>1 DEF SubmitTask
<1>2. ASSUME NEW s \in Submitters, NEW t \in Tasks, ResetTask(s, t) PROVE Guarded'
  BY <1>2 DEF ResetTask
<1>3. ASSUME NEW s \in Submitters, SubmitLock(s) PROVE Guarded'
  BY <1>3 DEF SubmitLock
<1>4. ASSUME NEW s \in Submitters, SubmitUndo(s) PROVE Guarded'
  <2> HIDE DEF SubReturn
  <2>1. \A u \in Submitters : SubIn(u)' <=> SubIn(u)
    <3>1. sub[s].at = "undo" /\ SubReturn(s, FALSE)
      BY <1>4 DEF SubmitUndo
    <3>2. sub'[s].at = "idle" /\ \A u \in Submitters \ {s} : sub'[u] = sub[u]
      BY <3>1, SubReturnSub
    <3> QED BY <3>1, <3>2
  <2> QED BY <1>4, <2>1 DEF SubmitUndo
<1>5. ASSUME NEW s \in Submitters, SubmitLink(s) PROVE Guarded'
  BY <1>5 DEF SubmitLink
<1>6. ASSUME NEW s \in Submitters, SubmitTail(s) PROVE Guarded'
  BY <1>6 DEF SubmitTail
<1>7. ASSUME NEW s \in Submitters, SubmitUnlock(s) PROVE Guarded'
  <2> HIDE DEF SubReturn
  <2>1. SubIn(s) /\ \A u \in Submitters : SubIn(u)' <=> SubIn(u) /\ u # s
    <3>1. sub[s].at = "unlock" /\ SubReturn(s, TRUE)
      BY <1>7 DEF SubmitUnlock
    <3>2. sub'[s].at = "idle" /\ \A u \in Submitters \ {s} : sub'[u] = sub[u]
      BY <3>1, SubReturnSub
    <3> QED BY <3>1, <3>2
  <2> QED BY <1>7, <2>1 DEF SubmitUnlock
<1>8. ASSUME RunCheck PROVE Guarded'
  BY <1>8 DEF RunCheck, RunReturns, T!BodyReturn
<1>9. ASSUME RunLock PROVE Guarded'
  BY <1>9 DEF RunLock
<1>10. ASSUME RunRetry PROVE Guarded'
  BY <1>10 DEF RunRetry, RunReturns, T!BodyReturn
<1>11. ASSUME RunNap PROVE Guarded'
  BY <1>11 DEF RunNap, RunReturns, T!BodyReturn
<1>12. ASSUME RunHead PROVE Guarded'
  BY <1>12 DEF RunHead
<1>13. ASSUME RunEmpty PROVE Guarded'
  BY <1>13 DEF RunEmpty
<1>14. ASSUME RunUnlink PROVE Guarded'
  BY <1>14 DEF RunUnlink
<1>15. ASSUME RunTail PROVE Guarded'
  BY <1>15 DEF RunTail
<1>16. ASSUME RunUnlock PROVE Guarded'
  BY <1>16 DEF RunUnlock
<1>17. ASSUME TaskRunning PROVE Guarded'
  BY <1>17 DEF TaskRunning
<1>18. ASSUME TaskZero PROVE Guarded'
  BY <1>18 DEF TaskZero
<1>19. ASSUME NEW code \in Codes, TaskBody(code) PROVE Guarded'
  BY <1>19 DEF TaskBody
<1>20. ASSUME TaskCode PROVE Guarded'
  BY <1>20 DEF TaskCode
<1>21. ASSUME TaskComplete PROVE Guarded'
  BY <1>21 DEF TaskComplete
<1>22. ASSUME TaskFinished PROVE Guarded'
  BY <1>22 DEF TaskFinished
<1>23. CASE StartExecutor \/ ShutdownBegin \/ ShutdownStep \/ LauncherStep
  <2>1. OthersStay /\ (os = "body" => os' = "body")
    BY <1>23, ThreadSteps
  <2>2. RunIn' = RunIn /\ \A s \in Submitters : SubIn(s)' = SubIn(s)
    BY <2>1 DEF OthersStay
  <2>3. \/ BossIn' = BossIn /\ nLock' = nLock
        \/ ShutdownPoll \/ ShutdownRelease
    <3>1. CASE StartExecutor \/ LauncherStep
      BY <3>1 DEF StartExecutor, LauncherStep
    <3>2. CASE ShutdownBegin \/ ShutdownLook
      BY <3>2 DEF ShutdownBegin, ShutdownLook
    <3>3. CASE ShutdownCancel \/ ShutdownJoin
      BY <3>3 DEF ShutdownCancel, ShutdownJoin
    <3> QED BY <1>23, <3>1, <3>2, <3>3 DEF ShutdownStep
  <2>4. CASE ShutdownPoll \/ ShutdownRelease
    BY <2>1, <2>2, <2>4 DEF ShutdownPoll, ShutdownRelease, OthersStay
  <2> QED BY <2>1, <2>2, <2>3, <2>4 DEF OthersStay
<1>24. CASE UNCHANGED vars
  BY <1>24 DEF vars, threadVars
<1> QED BY <1>1, <1>2, <1>3, <1>4, <1>5, <1>6, <1>7, <1>8, <1>9, <1>10, <1>11, <1>12, <1>13, <1>14, <1>15, <1>16, <1>17, <1>18, <1>19, <1>20, <1>21, <1>22, <1>23, <1>24
        DEF Next, Client, SubmitStep, RunStep

\* What is left of a queue without its head.
LEMMA TailFacts ==
    ASSUME NEW S, NEW q \in Seq(S), q # <<>>
    PROVE  /\ Len(q) \in Nat /\ Len(q) > 0 /\ q[1] \in S
           /\ Tail(q) \in Seq(S)
           /\ Len(Tail(q)) = Len(q) - 1
           /\ \A i \in 1..Len(Tail(q)) : Tail(q)[i] = q[i + 1] /\ i + 1 \in 1..Len(q)
           /\ Len(q) # 1 => 1 \in 1..Len(q) /\ 1 \in 1..Len(Tail(q))
<1>1. Len(q) \in Nat /\ Len(q) > 0 /\ q[1] \in S /\ Tail(q) \in Seq(S)
  OBVIOUS
<1>2. Len(Tail(q)) = Len(q) - 1
  OBVIOUS
<1>3. \A i \in 1..Len(Tail(q)) : Tail(q)[i] = q[i + 1] /\ i + 1 \in 1..Len(q)
  OBVIOUS
<1>4. Len(q) # 1 => 1 \in 1..Len(q) /\ 1 \in 1..Len(Tail(q))
  <2>1. ASSUME NEW n \in Nat, n > 0, n # 1 PROVE 1 \in 1..n /\ 1 \in 1..(n - 1)
    BY <2>1
  <2> QED BY <1>1, <1>2, <2>1
<1> QED BY <1>1, <1>2, <1>3, <1>4

-----------------------------------------------------------------------------
(* The list                                                                *)

\* Every step keeps the links: SubmitLink appends, RunUnlink removes the head.
LEMMA NextLinks == IInv /\ [Next]_vars => Links'
<1> SUFFICES ASSUME IInv, [Next]_vars PROVE Links'
  OBVIOUS
<1> USE DEF IInv, Links, TypeOK, Waits, SubGoto, SubReturn, RunStays, listVars, taskVars, auxVars, threadVars
<1>1. ASSUME NEW s \in Submitters, NEW t \in Tasks, SubmitTask(s, t) PROVE Links'
  <2>1. \A u \in Submitters : (sub[u].at = "tail") = (sub'[u].at = "tail")
    BY <1>1, SubmitTaskSub
  <2>2. \A u \in Submitters : sub[u].at = "tail" => sub'[u].task = sub[u].task
    BY <1>1, SubmitTaskSub
  <2> QED BY <1>1, <2>1, <2>2 DEF SubmitTask, At
<1>2. ASSUME NEW s \in Submitters, NEW t \in Tasks, ResetTask(s, t) PROVE Links'
  BY <1>2 DEF ResetTask, At
<1>3. ASSUME NEW s \in Submitters, SubmitLock(s) PROVE Links'
  BY <1>3 DEF SubmitLock, At
<1>4. ASSUME NEW s \in Submitters, SubmitUndo(s) PROVE Links'
  BY <1>4 DEF SubmitUndo, At
<1>5. ASSUME NEW s \in Submitters, SubmitLink(s) PROVE Links'
  <2> DEFINE t == sub[s].task
  <2>1. t \in Tasks /\ ~Waits(t) /\ t # NoTask
    BY <1>5, NoTaskAssumption DEF SubmitLink, Places, Held
  <2>2. (\A u \in Submitters : sub[u].at # "tail") /\ ~At("tail")
    BY <1>5 DEF SubmitLink, Guarded, SubIn, RunIn, At
  <2>3. pTail = IF order = <<>> THEN NoTask ELSE order[Len(order)]
    BY <2>2
  <2>4. order' = Append(order, t) /\ Len(order') = Len(order) + 1
    BY <1>5 DEF SubmitLink
  <2>5. \A i \in 1..Len(order) : order'[i] = order[i] /\ order[i] \in Tasks /\ order[i] # t
    BY <2>1, <2>4
  <2>6. order'[Len(order')] = t /\ order' # <<>>
    BY <2>1, <2>4
  <2>7. CASE order = <<>>
    <3>1. pHead' = t /\ pNext' = pNext
      BY <1>5, <2>3, <2>7 DEF SubmitLink
    <3> QED BY <1>5, <2>1, <2>2, <2>4, <2>6, <2>7, <3>1 DEF SubmitLink, At
  <2>8. CASE order # <<>>
    <3>1. pTail = order[Len(order)] /\ pTail \in Tasks /\ pTail # NoTask /\ pTail # t
      BY <2>3, <2>5, <2>8, NoTaskAssumption
    <3>2. pHead' = pHead /\ pNext' = [pNext EXCEPT ![pTail] = t, ![t] = NoTask]
      BY <1>5, <3>1 DEF SubmitLink
    <3>3. pNext'[t] = NoTask /\ pNext'[pTail] = t
          /\ \A x \in Tasks : x # t /\ x # pTail => pNext'[x] = pNext[x]
      BY <2>1, <3>1, <3>2
    <3>4. pHead' = order'[1]
      BY <2>5, <2>8, <3>2
    <3>5. \A i \in 1..Len(order') :
            pNext'[order'[i]] = IF i = Len(order') THEN NoTask ELSE order'[i + 1]
      <4> SUFFICES ASSUME NEW i \in 1..Len(order')
                   PROVE  pNext'[order'[i]] = IF i = Len(order') THEN NoTask ELSE order'[i + 1]
        OBVIOUS
      <4>1. CASE i = Len(order')
        BY <2>6, <3>3, <4>1
      <4>2. CASE i = Len(order)
        BY <2>4, <2>5, <2>6, <2>8, <3>1, <3>3, <4>2
      <4>3. CASE i # Len(order') /\ i # Len(order)
        <5>1. i \in 1..Len(order) /\ i + 1 \in 1..Len(order)
          BY <2>4, <4>3
        <5>2. order[i] # pTail
          BY <3>1, <4>3, <5>1 DEF Places
        <5> QED BY <2>4, <2>5, <3>3, <4>3, <5>1, <5>2
      <4> QED BY <4>1, <4>2, <4>3
    <3>6. \A x \in Tasks : ~Waits(x)' => pNext'[x] = NoTask
      <4>1. \A x \in Tasks : ~Waits(x)' => ~Waits(x) /\ x # t /\ x # pTail
        BY <2>4, <2>5, <2>6, <2>8, <3>1
      <4> QED BY <3>3, <4>1
    <3> QED BY <1>5, <2>2, <2>6, <3>4, <3>5, <3>6 DEF SubmitLink, At
  <2> QED BY <2>7, <2>8
<1>6. ASSUME NEW s \in Submitters, SubmitTail(s) PROVE Links'
  <2>1. \A u \in Submitters : u # s => sub[u].at # "tail"
    BY <1>6 DEF SubmitTail, Guarded, SubIn
  <2>2. ~At("tail")
    BY <1>6 DEF SubmitTail, Guarded, SubIn, RunIn, At
  <2> QED BY <1>6, <2>1, <2>2 DEF SubmitTail, At
<1>7. ASSUME NEW s \in Submitters, SubmitUnlock(s) PROVE Links'
  <2> HIDE DEF SubReturn
  <2>1. sub[s].at = "unlock" /\ \A u \in Submitters : sub'[u].at = "tail" <=> sub[u].at = "tail"
    BY <1>7, SubReturnSub DEF SubmitUnlock
  <2>2. \A u \in Submitters : sub'[u].task = sub[u].task
    BY <1>7, SubReturnSub DEF SubmitUnlock
  <2> QED BY <1>7, <2>1, <2>2 DEF SubmitUnlock, At
<1>8. ASSUME RunCheck PROVE Links'
  BY <1>8 DEF RunCheck, RunReturns, T!BodyReturn, At
<1>9. ASSUME RunLock PROVE Links'
  BY <1>9 DEF RunLock, At
<1>10. ASSUME RunRetry PROVE Links'
  BY <1>10 DEF RunRetry, RunReturns, T!BodyReturn, At
<1>11. ASSUME RunNap PROVE Links'
  BY <1>11 DEF RunNap, RunReturns, T!BodyReturn, At
<1>12. ASSUME RunHead PROVE Links'
  BY <1>12 DEF RunHead, At
<1>13. ASSUME RunEmpty PROVE Links'
  BY <1>13 DEF RunEmpty, At
<1>14. ASSUME RunUnlink PROVE Links'
  <2>1. order # <<>> /\ pHead = order[1] /\ pHead \in Tasks
    BY <1>14 DEF RunUnlink, Places
  <2>2. \A u \in Submitters : sub[u].at # "tail"
    BY <1>14 DEF RunUnlink, Guarded, SubIn, RunIn, At
  <2>3. pTail = order[Len(order)]
    BY <1>14, <2>1, <2>2 DEF RunUnlink, At
  <2>4. /\ order' = Tail(order) /\ Len(order') = Len(order) - 1
        /\ Len(order) \in Nat /\ Len(order) > 0
        /\ Len(order) # 1 => 1 \in 1..Len(order) /\ 1 \in 1..Len(order')
        /\ \A i \in 1..Len(order') : order'[i] = order[i + 1] /\ i + 1 \in 1..Len(order)
    BY <1>14, <2>1, TailFacts DEF RunUnlink
  <2>5. \A i \in 1..Len(order') : order'[i] = order[i + 1] /\ order'[i] \in Tasks /\ order'[i] # pHead
    <3>1. \A i \in 1..Len(order) : i # 1 => order[i] # order[1]
      BY <2>4 DEF Places
    <3> SUFFICES ASSUME NEW i \in 1..Len(order')
                 PROVE  order'[i] = order[i + 1] /\ order'[i] \in Tasks /\ order'[i] # pHead
      OBVIOUS
    <3>2. order'[i] = order[i + 1] /\ i + 1 \in 1..Len(order) /\ i + 1 # 1
      BY <2>4
    <3>3. order[i + 1] \in Tasks
      BY <3>2
    <3> QED BY <2>1, <3>1, <3>2, <3>3
  <2>6. pNext' = [pNext EXCEPT ![pHead] = NoTask] /\ pHead' = pNext[pHead]
    BY <1>14 DEF RunUnlink
  <2>7. pHead' = IF order' = <<>> THEN NoTask ELSE order'[1]
    <3>1. CASE Len(order) = 1
      BY <2>1, <2>4, <2>6, <3>1
    <3>2. CASE Len(order) # 1
      <4>1. 1 \in 1..Len(order) /\ 1 \in 1..Len(order')
        BY <2>4, <3>2
      <4>2. order' # <<>>
        BY <4>1
      <4> QED BY <2>1, <2>5, <2>6, <3>2, <4>1, <4>2
    <3> QED BY <3>1, <3>2
  <2>8. \A i \in 1..Len(order') :
          pNext'[order'[i]] = IF i = Len(order') THEN NoTask ELSE order'[i + 1]
    <3> SUFFICES ASSUME NEW i \in 1..Len(order')
                 PROVE  pNext'[order'[i]] = IF i = Len(order') THEN NoTask ELSE order'[i + 1]
      OBVIOUS
    <3>1. i + 1 \in 1..Len(order) /\ pNext'[order'[i]] = pNext[order[i + 1]]
      BY <2>4, <2>5, <2>6
    <3>2. pNext[order[i + 1]] = IF i + 1 = Len(order) THEN NoTask ELSE order[i + 2]
      BY <3>1
    <3>3. i # Len(order') => order'[i + 1] = order[i + 2]
      BY <2>4, <2>5
    <3> QED BY <2>4, <3>1, <3>2, <3>3
  <2>9. \A x \in Tasks : ~Waits(x)' => pNext'[x] = NoTask
    <3>1. \A x \in Tasks : ~Waits(x)' /\ x # pHead => ~Waits(x)
      <4> SUFFICES ASSUME NEW x \in Tasks, x # pHead, NEW i \in 1..Len(order), order[i] = x
                   PROVE  Waits(x)'
        OBVIOUS
      <4>1. i # 1
        BY <2>1
      <4>2. i - 1 \in 1..Len(order') /\ order'[i - 1] = order[i]
        BY <2>4, <2>5, <4>1
      <4> QED BY <4>2
    <3> QED BY <2>1, <2>6, <3>1
  <2>10. order' # <<>> => pTail = order'[Len(order')]
    BY <2>3, <2>4, <2>5
  <2> QED BY <1>14, <2>2, <2>7, <2>8, <2>9, <2>10 DEF RunUnlink, At
<1>15. ASSUME RunTail PROVE Links'
  <2>1. \A u \in Submitters : sub[u].at # "tail"
    BY <1>15 DEF RunTail, Guarded, SubIn, RunIn, At
  <2>2. (pHead = NoTask) = (order = <<>>)
    BY NoTaskAssumption
  <2> QED BY <1>15, <2>1, <2>2 DEF RunTail, At
<1>16. ASSUME RunUnlock PROVE Links'
  BY <1>16 DEF RunUnlock, At
<1>17. ASSUME TaskRunning PROVE Links'
  BY <1>17 DEF TaskRunning, At
<1>18. ASSUME TaskZero PROVE Links'
  BY <1>18 DEF TaskZero, At
<1>19. ASSUME NEW code \in Codes, TaskBody(code) PROVE Links'
  BY <1>19 DEF TaskBody, At
<1>20. ASSUME TaskCode PROVE Links'
  BY <1>20 DEF TaskCode, At
<1>21. ASSUME TaskComplete PROVE Links'
  BY <1>21 DEF TaskComplete, At
<1>22. ASSUME TaskFinished PROVE Links'
  BY <1>22 DEF TaskFinished, At
<1>23. CASE StartExecutor \/ ShutdownBegin \/ ShutdownStep \/ LauncherStep
  <2>1. OthersStay /\ (os = "body" => os' = "body")
    BY <1>23, ThreadSteps
  <2>2. At("tail")' = At("tail")
    BY <2>1 DEF OthersStay, At, Guarded
  <2> QED BY <2>1, <2>2 DEF OthersStay
<1>24. CASE UNCHANGED vars
  BY <1>24 DEF vars, threadVars, At
<1> QED BY <1>1, <1>2, <1>3, <1>4, <1>5, <1>6, <1>7, <1>8, <1>9, <1>10, <1>11, <1>12, <1>13, <1>14, <1>15, <1>16, <1>17, <1>18, <1>19, <1>20, <1>21, <1>22, <1>23, <1>24
        DEF Next, Client, SubmitStep, RunStep

-----------------------------------------------------------------------------
(* The codes                                                               *)

\* Every step keeps the stored codes: only the task in hand gets another one,
\* and that task is not COMPLETED.
LEMMA NextCodeStored == IInv /\ [Next]_vars => CodeStored'
<1> SUFFICES ASSUME IInv, [Next]_vars PROVE CodeStored'
  OBVIOUS
<1> USE DEF IInv, CodeStored, CompletedCode, TypeOK, SubGoto, SubReturn, RunStays, listVars, taskVars, auxVars, threadVars
<1>1. ASSUME NEW s \in Submitters, NEW t \in Tasks, SubmitTask(s, t) PROVE CodeStored'
  <2>1. \A x \in Tasks : state'[x] = "COMPLETED" => state[x] = "COMPLETED"
    BY <1>1, SubmitTaskSub
  <2>2. UNCHANGED <<nCode, outcome, os, rpc, task>>
    BY <1>1 DEF SubmitTask
  <2> QED BY <2>1, <2>2 DEF At
<1>2. ASSUME NEW s \in Submitters, NEW t \in Tasks, ResetTask(s, t) PROVE CodeStored'
  BY <1>2 DEF ResetTask, At
<1>3. ASSUME NEW s \in Submitters, SubmitLock(s) PROVE CodeStored'
  BY <1>3 DEF SubmitLock, At
<1>4. ASSUME NEW s \in Submitters, SubmitUndo(s) PROVE CodeStored'
  BY <1>4 DEF SubmitUndo, At
<1>5. ASSUME NEW s \in Submitters, SubmitLink(s) PROVE CodeStored'
  BY <1>5 DEF SubmitLink, At
<1>6. ASSUME NEW s \in Submitters, SubmitTail(s) PROVE CodeStored'
  BY <1>6 DEF SubmitTail, At
<1>7. ASSUME NEW s \in Submitters, SubmitUnlock(s) PROVE CodeStored'
  BY <1>7 DEF SubmitUnlock, At
<1>8. ASSUME RunCheck PROVE CodeStored'
  BY <1>8 DEF RunCheck, RunReturns, T!BodyReturn, At
<1>9. ASSUME RunLock PROVE CodeStored'
  BY <1>9 DEF RunLock, At, Places, InHand
<1>10. ASSUME RunRetry PROVE CodeStored'
  BY <1>10 DEF RunRetry, RunReturns, T!BodyReturn, At
<1>11. ASSUME RunNap PROVE CodeStored'
  BY <1>11 DEF RunNap, RunReturns, T!BodyReturn, At
<1>12. ASSUME RunHead PROVE CodeStored'
  BY <1>12 DEF RunHead, At, Places, InHand
<1>13. ASSUME RunEmpty PROVE CodeStored'
  BY <1>13 DEF RunEmpty, At, Places, InHand
<1>14. ASSUME RunUnlink PROVE CodeStored'
  BY <1>14 DEF RunUnlink, At, Places, InHand
<1>15. ASSUME RunTail PROVE CodeStored'
  BY <1>15 DEF RunTail, At, Places, InHand
<1>16. ASSUME RunUnlock PROVE CodeStored'
  BY <1>16 DEF RunUnlock, At, Places, InHand
<1>17. ASSUME TaskRunning PROVE CodeStored'
  BY <1>17 DEF TaskRunning, At, Places, InHand
<1>18. ASSUME TaskZero PROVE CodeStored'
  BY <1>18 DEF TaskZero, At, Places, InHand
<1>19. ASSUME NEW code \in Codes, TaskBody(code) PROVE CodeStored'
  BY <1>19 DEF TaskBody, At, Places, InHand
<1>20. ASSUME TaskCode PROVE CodeStored'
  BY <1>20 DEF TaskCode, At, Places, InHand
<1>21. ASSUME TaskComplete PROVE CodeStored'
  BY <1>21 DEF TaskComplete, At, Places, InHand
<1>22. ASSUME TaskFinished PROVE CodeStored'
  BY <1>22 DEF TaskFinished, At, Places, InHand
<1>23. CASE StartExecutor \/ ShutdownBegin \/ ShutdownStep \/ LauncherStep
  <2>1. OthersStay /\ (os = "body" => os' = "body")
    BY <1>23, ThreadSteps
  <2>2. At("complete")' = At("complete")
    BY <2>1 DEF OthersStay, At, Guarded
  <2> QED BY <2>1, <2>2 DEF OthersStay
<1>24. CASE UNCHANGED vars
  BY <1>24 DEF vars, threadVars, At
<1> QED BY <1>1, <1>2, <1>3, <1>4, <1>5, <1>6, <1>7, <1>8, <1>9, <1>10, <1>11, <1>12, <1>13, <1>14, <1>15, <1>16, <1>17, <1>18, <1>19, <1>20, <1>21, <1>22, <1>23, <1>24
        DEF Next, Client, SubmitStep, RunStep

-----------------------------------------------------------------------------
(* Where the tasks are                                                     *)

\* Every step keeps each submitted or running task in one place.
LEMMA NextPlaces == IInv /\ [Next]_vars => Places'
<1> SUFFICES ASSUME IInv, [Next]_vars PROVE Places'
  OBVIOUS
<1> USE DEF IInv, Places, TypeOK, TaskStates, SubGoto, SubReturn, RunStays, listVars, taskVars, auxVars, threadVars
<1>1. ASSUME NEW s \in Submitters, NEW t \in Tasks, SubmitTask(s, t) PROVE Places'
  <2>1. CASE state[t] = "IDLE"
    <3>1. UNCHANGED <<order, os, rpc, task, pHead>>
      BY <1>1 DEF SubmitTask
    <3>2. ~Waits(t) /\ (InHand => task # t) /\ \A u \in Submitters : Held(u) => sub[u].task # t
      BY <2>1 DEF Waits
    <3>3. /\ ~Held(s) /\ sub'[s].task = t /\ Held(s)'
          /\ \A u \in Submitters \ {s} : sub'[u] = sub[u] /\ Held(u)' = Held(u)
      BY <1>1, <2>1, SubmitTaskSub DEF Held
    <3>4. /\ state'[t] = "SUBMITTED"
          /\ \A x \in Tasks : x # t => state'[x] = state[x]
      BY <1>1, <2>1, SubmitTaskSub
    <3>5. Owned(t)' /\ \A x \in Tasks : Owned(x) => Owned(x)'
      BY <3>1, <3>3 DEF Owned, Held
    <3>6. InHand' = InHand /\ At("unlink")' = At("unlink") /\ \A x \in Tasks : Waits(x)' = Waits(x)
      BY <3>1 DEF InHand, At, Waits
    <3>7. \A i \in 1..Len(order) : order[i] \in Tasks /\ order[i] # t
      BY <3>2 DEF Waits
    <3>8. \A u \in Submitters : Held(u)' => /\ state'[sub'[u].task] = "SUBMITTED" /\ ~Waits(sub[u].task)'
                                          /\ (InHand' => task' # sub'[u].task)
      <4> SUFFICES ASSUME NEW u \in Submitters, Held(u)'
                   PROVE  /\ state'[sub'[u].task] = "SUBMITTED" /\ ~Waits(sub[u].task)'
                          /\ (InHand' => task' # sub'[u].task)
        OBVIOUS
      <4>1. CASE u = s
        BY <3>1, <3>2, <3>3, <3>4, <3>6, <4>1 DEF Waits
      <4>2. CASE u # s
        <5>1. PICK x \in Tasks : x = sub[u].task /\ x = sub'[u].task /\ Held(u) /\ x # t
          BY <3>2, <3>3, <4>2 DEF Held
        <5>2. state[x] = "SUBMITTED" /\ ~Waits(x) /\ (InHand => task # x)
          BY <5>1
        <5> QED BY <3>1, <3>4, <3>6, <5>1, <5>2 DEF Waits
      <4> QED BY <4>1, <4>2
    <3>9. \A u, v \in Submitters : Held(u)' /\ Held(v)' /\ sub'[u].task = sub'[v].task => u = v
      BY <3>2, <3>3
    <3>10. \A i \in 1..Len(order) : state'[order[i]] = "SUBMITTED"
      BY <3>4, <3>7
    <3>11. InHand' => /\ task' \in Tasks /\ ~Waits(task)'
                      /\ state'[task'] = IF rpc' \in {"tail", "unlock", "running"} THEN "SUBMITTED" ELSE "RUNNING"
      BY <3>1, <3>2, <3>4, <3>6 DEF Waits
    <3>12. \A u \in Submitters : sub'[u].at # "idle" => sub'[u].task \in Tasks
      BY <3>3
    <3> QED BY <3>1, <3>4, <3>5, <3>6, <3>8, <3>9, <3>10, <3>11, <3>12 DEF Waits
  <2>2. CASE state[t] # "IDLE"
    <3>1. UNCHANGED <<state, order, os, rpc, task, pHead>>
      BY <1>1, <2>2 DEF SubmitTask
    <3>2. \A u \in Submitters : Held(u)' = Held(u)
                                /\ (sub[u].at = "idle" => sub'[u].at = "idle")
                                /\ (sub[u].at # "idle" => sub'[u] = sub[u])
      BY <1>1, <2>2, SubmitTaskSub DEF Held
    <3>3. \A x \in Tasks : Owned(x) => Owned(x)'
      BY <3>1, <3>2 DEF Owned, Held
    <3>4. InHand' = InHand /\ At("unlink")' = At("unlink") /\ \A x \in Tasks : Waits(x)' = Waits(x)
      BY <3>1 DEF InHand, At, Waits
    <3> QED BY <3>1, <3>2, <3>3, <3>4 DEF Held
  <2> QED BY <2>1, <2>2
<1>2. ASSUME NEW s \in Submitters, NEW t \in Tasks, ResetTask(s, t) PROVE Places'
  BY <1>2 DEF ResetTask, At, InHand, Owned, Held, Waits
<1>3. ASSUME NEW s \in Submitters, SubmitLock(s) PROVE Places'
  BY <1>3 DEF SubmitLock, At, InHand, Owned, Held, Waits
<1>4. ASSUME NEW s \in Submitters, SubmitUndo(s) PROVE Places'
  <2> DEFINE t == sub[s].task
  <2>1. UNCHANGED <<order, os, rpc, task, pHead>>
    BY <1>4 DEF SubmitUndo
  <2>2. Held(s) /\ t \in Tasks /\ ~Waits(t) /\ (InHand => task # t)
    BY <1>4 DEF SubmitUndo, Held
  <2>3. /\ state'[t] = "IDLE"
        /\ \A x \in Tasks : x # t => state'[x] = state[x]
    BY <1>4, <2>2 DEF SubmitUndo
  <2>4. /\ sub'[s].at = "idle" /\ ~Held(s)'
        /\ \A u \in Submitters \ {s} : sub'[u] = sub[u] /\ Held(u)' = Held(u)
    BY <1>4 DEF SubmitUndo, Held
  <2>5. \A u \in Submitters : u # s /\ Held(u) => sub[u].task # t
    BY <2>2
  <2>6. \A x \in Tasks : x # t /\ Owned(x) => Owned(x)'
    BY <2>1, <2>4 DEF Owned, Held
  <2>7. InHand' = InHand /\ At("unlink")' = At("unlink") /\ \A x \in Tasks : Waits(x)' = Waits(x)
    BY <2>1 DEF InHand, At, Waits
  <2>8. \A i \in 1..Len(order) : order[i] \in Tasks /\ order[i] # t
    BY <2>2 DEF Waits
  <2> HIDE DEF t
  <2>9. \A u \in Submitters : Held(u) => sub[u].task \in Tasks
    BY DEF Held
  <2> QED BY <2>1, <2>2, <2>3, <2>4, <2>5, <2>6, <2>7, <2>8, <2>9
<1>5. ASSUME NEW s \in Submitters, SubmitLink(s) PROVE Places'
  <2> DEFINE t == sub[s].task
  <2>1. UNCHANGED <<state, os, rpc, task>> /\ order' = Append(order, t)
    BY <1>5 DEF SubmitLink
  <2>2. Held(s) /\ t \in Tasks /\ ~Waits(t) /\ state[t] = "SUBMITTED" /\ (InHand => task # t)
    BY <1>5 DEF SubmitLink, Held
  <2>3. /\ sub'[s].task = t /\ ~Held(s)'
        /\ \A u \in Submitters \ {s} : sub'[u] = sub[u] /\ Held(u)' = Held(u)
    BY <1>5 DEF SubmitLink, Held
  <2>4. \A u \in Submitters : u # s /\ Held(u) => sub[u].task # t
    BY <2>2
  <2>5. ~At("unlink") /\ ~At("unlink")' /\ InHand' = InHand
    BY <1>5, <2>1 DEF SubmitLink, Guarded, SubIn, RunIn, At, InHand
  <2>6. /\ Len(order) \in Nat /\ Len(order') = Len(order) + 1 /\ order'[Len(order) + 1] = t
        /\ \A i \in 1..Len(order) : order'[i] = order[i] /\ order[i] \in Tasks /\ order[i] # t
    BY <2>1, <2>2 DEF Waits
  <2>7. \A x \in Tasks : Waits(x)' <=> Waits(x) \/ x = t
    <3> HIDE DEF t
    <3> QED BY <2>6 DEF Waits
  <2>8. \A x \in Tasks : Owned(x) => Owned(x)'
    <3>1. \A x \in Tasks : Owned(x) <=> Waits(x) \/ (InHand /\ task = x)
                                        \/ \E u \in Submitters : Held(u) /\ sub[u].task = x
      BY DEF Owned, Waits, InHand, Held
    <3>2. \A x \in Tasks : Owned(x)' <=> Waits(x)' \/ (InHand' /\ task' = x)
                                        \/ \E u \in Submitters : Held(u)' /\ sub'[u].task = x
      BY DEF Owned, Waits, InHand, Held
    <3> QED BY <2>1, <2>3, <2>5, <2>7, <3>1, <3>2
  <2> HIDE DEF t
  <2>9. \A i \in 1..Len(order') : state'[order'[i]] = "SUBMITTED"
    BY <2>1, <2>2, <2>6
  <2>10. \A i, j \in 1..Len(order') : order'[i] = order'[j] => i = j
    BY <2>6
  <2>11. \A u \in Submitters : Held(u) => sub[u].task \in Tasks
    BY DEF Held
  <2>12. \A u \in Submitters : sub'[u].at # "idle" => sub'[u].task \in Tasks
    BY <2>2, <2>3
  <2>13. \A u \in Submitters : Held(u)' => /\ state'[sub'[u].task] = "SUBMITTED" /\ ~Waits(sub[u].task)'
                                         /\ (InHand' => task' # sub'[u].task)
    <3> SUFFICES ASSUME NEW u \in Submitters, Held(u)'
                 PROVE  /\ state'[sub'[u].task] = "SUBMITTED" /\ ~Waits(sub[u].task)'
                        /\ (InHand' => task' # sub'[u].task)
      OBVIOUS
    <3>1. PICK x \in Tasks : x = sub[u].task /\ x = sub'[u].task /\ Held(u) /\ x # t
      BY <2>3, <2>4, <2>11
    <3>2. state[x] = "SUBMITTED" /\ ~Waits(x) /\ (InHand => task # x)
      BY <3>1
    <3>3. ~Waits(x)'
      BY <2>7, <3>1, <3>2
    <3> QED BY <2>1, <2>5, <3>1, <3>2, <3>3 DEF Waits
  <2>14. \A u, v \in Submitters : Held(u)' /\ Held(v)' /\ sub'[u].task = sub'[v].task => u = v
    BY <2>3
  <2>15. InHand' => /\ task' \in Tasks /\ ~Waits(task)'
                    /\ state'[task'] = IF rpc' \in {"tail", "unlock", "running"} THEN "SUBMITTED" ELSE "RUNNING"
    BY <2>1, <2>2, <2>5, <2>7
  <2> QED BY <2>1, <2>5, <2>8, <2>9, <2>10, <2>12, <2>13, <2>14, <2>15 DEF Waits
<1>6. ASSUME NEW s \in Submitters, SubmitTail(s) PROVE Places'
  BY <1>6 DEF SubmitTail, At, InHand, Owned, Held, Waits
<1>7. ASSUME NEW s \in Submitters, SubmitUnlock(s) PROVE Places'
  <2> HIDE DEF SubReturn
  <2>1. UNCHANGED <<state, order, os, rpc, task, pHead>>
    BY <1>7 DEF SubmitUnlock
  <2>2. \A u \in Submitters : /\ Held(u)' <=> Held(u)
                              /\ sub'[u].task = sub[u].task
                              /\ sub'[u].at # "idle" => sub[u].at # "idle"
    <3>1. sub[s].at = "unlock" /\ SubReturn(s, TRUE)
      BY <1>7 DEF SubmitUnlock
    <3>2. /\ sub'[s].at = "idle" /\ sub'[s].task = sub[s].task
          /\ \A u \in Submitters \ {s} : sub'[u] = sub[u]
      BY <3>1, SubReturnSub
    <3> QED BY <3>1, <3>2 DEF Held
  <2>3. \A x \in Tasks : Owned(x) => Owned(x)'
    <3>1. \A x \in Tasks : Owned(x) <=> Waits(x) \/ (InHand /\ task = x)
                                        \/ \E u \in Submitters : Held(u) /\ sub[u].task = x
      BY DEF Owned, Waits, InHand, Held
    <3>2. \A x \in Tasks : Owned(x)' <=> Waits(x)' \/ (InHand' /\ task' = x)
                                        \/ \E u \in Submitters : Held(u)' /\ sub'[u].task = x
      BY DEF Owned, Waits, InHand, Held
    <3>3. (InHand' <=> InHand) /\ \A x \in Tasks : Waits(x)' <=> Waits(x)
      BY <2>1 DEF InHand, Waits
    <3> QED BY <2>1, <2>2, <3>1, <3>2, <3>3
  <2>4. (InHand' <=> InHand) /\ (At("unlink")' <=> At("unlink"))
    BY <2>1 DEF InHand, At
  <2> QED BY <2>1, <2>2, <2>3, <2>4 DEF Waits
<1>8. ASSUME RunCheck PROVE Places'
  BY <1>8 DEF RunCheck, RunReturns, T!BodyReturn, At, InHand, Owned, Held, Waits
<1>9. ASSUME RunLock PROVE Places'
  BY <1>9 DEF RunLock, At, InHand, Owned, Held, Waits
<1>10. ASSUME RunRetry PROVE Places'
  BY <1>10 DEF RunRetry, RunReturns, T!BodyReturn, At, InHand, Owned, Held, Waits
<1>11. ASSUME RunNap PROVE Places'
  BY <1>11 DEF RunNap, RunReturns, T!BodyReturn, At, InHand, Owned, Held, Waits
<1>12. ASSUME RunHead PROVE Places'
  BY <1>12 DEF RunHead, Links, At, InHand, Owned, Held, Waits
<1>13. ASSUME RunEmpty PROVE Places'
  BY <1>13 DEF RunEmpty, At, InHand, Owned, Held, Waits
<1>14. ASSUME RunUnlink PROVE Places'
  <2>1. UNCHANGED <<state, os, sub, task>> /\ order' = Tail(order) /\ os = "body" /\ rpc' = "tail"
    BY <1>14 DEF RunUnlink, At
  <2>2. order # <<>> /\ task = order[1] /\ task \in Tasks /\ ~InHand /\ InHand'
    BY <1>14, <2>1 DEF RunUnlink, Links, At, InHand
  <2>3. /\ Len(order') = Len(order) - 1 /\ Len(order) \in Nat /\ Len(order) > 0
        /\ \A i \in 1..Len(order') : order'[i] = order[i + 1] /\ i + 1 \in 1..Len(order)
    BY <2>1, <2>2, TailFacts
  <2>4. Waits(task)
    BY <2>2, <2>3 DEF Waits
  <2>5. \A x \in Tasks : Waits(x)' <=> Waits(x) /\ x # task
    <3>1. ASSUME NEW x \in Tasks, Waits(x)' PROVE Waits(x) /\ x # task
      <4>1. PICK i \in 1..Len(order') : order'[i] = x
        BY <3>1 DEF Waits
      <4>2. order[i + 1] = x /\ i + 1 \in 1..Len(order) /\ i + 1 # 1 /\ 1 \in 1..Len(order)
        BY <2>3, <4>1
      <4> QED BY <2>2, <4>2 DEF Waits
    <3>2. ASSUME NEW x \in Tasks, Waits(x), x # task PROVE Waits(x)'
      <4>1. PICK i \in 1..Len(order) : order[i] = x
        BY <3>2 DEF Waits
      <4>2. i # 1
        BY <2>2, <3>2, <4>1
      <4>3. i - 1 \in 1..Len(order') /\ order'[i - 1] = x
        BY <2>3, <4>1, <4>2
      <4> QED BY <4>3 DEF Waits
    <3> QED BY <3>1, <3>2
  <2>6. \A x \in Tasks : Owned(x) => Owned(x)'
    <3>1. \A x \in Tasks : Owned(x) <=> Waits(x) \/ (InHand /\ task = x)
                                        \/ \E u \in Submitters : Held(u) /\ sub[u].task = x
      BY DEF Owned, Waits, InHand, Held
    <3>2. \A x \in Tasks : Owned(x)' <=> Waits(x)' \/ (InHand' /\ task' = x)
                                        \/ \E u \in Submitters : Held(u)' /\ sub'[u].task = x
      BY DEF Owned, Waits, InHand, Held
    <3>3. \A u \in Submitters : Held(u)' = Held(u)
      BY <2>1 DEF Held
    <3> QED BY <2>1, <2>2, <2>5, <3>1, <3>2, <3>3
  <2>7. \A u \in Submitters : Held(u)' = Held(u) /\ (Held(u) => sub[u].task # task /\ sub[u].task \in Tasks)
    BY <2>1, <2>4 DEF Held
  <2>8. \A i, j \in 1..Len(order') : order'[i] = order'[j] => i = j
    <3> SUFFICES ASSUME NEW i \in 1..Len(order'), NEW j \in 1..Len(order'), order'[i] = order'[j]
                 PROVE  i = j
      OBVIOUS
    <3>1. i + 1 \in 1..Len(order) /\ j + 1 \in 1..Len(order) /\ order[i + 1] = order[j + 1]
      BY <2>3
    <3>2. i + 1 = j + 1
      BY <3>1
    <3> QED BY <2>3, <3>2
  <2>9. \A i \in 1..Len(order') : state'[order'[i]] = "SUBMITTED"
    BY <2>1, <2>3
  <2>10. state[task] = "SUBMITTED"
    BY <2>2, <2>3
  <2>11. ~Waits(task)' /\ ~At("unlink")'
    BY <2>1, <2>2, <2>5 DEF At
  <2>12. \A u \in Submitters : Held(u)' => /\ state'[sub'[u].task] = "SUBMITTED" /\ ~Waits(sub[u].task)'
                                         /\ (InHand' => task' # sub'[u].task)
    <3> SUFFICES ASSUME NEW u \in Submitters, Held(u)'
                 PROVE  /\ state'[sub'[u].task] = "SUBMITTED" /\ ~Waits(sub[u].task)'
                        /\ (InHand' => task' # sub'[u].task)
      OBVIOUS
    <3>1. PICK x \in Tasks : x = sub[u].task /\ x = sub'[u].task /\ Held(u) /\ x # task
      BY <2>1, <2>7
    <3>2. state[x] = "SUBMITTED" /\ ~Waits(x)
      BY <3>1
    <3>3. ~Waits(x)'
      BY <2>5, <3>2
    <3> QED BY <2>1, <3>1, <3>2, <3>3 DEF Waits
  <2> QED BY <2>1, <2>2, <2>6, <2>7, <2>8, <2>9, <2>10, <2>11, <2>12 DEF Waits
<1>15. ASSUME RunTail PROVE Places'
  BY <1>15 DEF RunTail, At, InHand, Owned, Held, Waits
<1>16. ASSUME RunUnlock PROVE Places'
  BY <1>16 DEF RunUnlock, At, InHand, Owned, Held, Waits
<1>17. ASSUME TaskRunning PROVE Places'
  BY <1>17 DEF TaskRunning, At, InHand, Owned, Held, Waits
<1>18. ASSUME TaskZero PROVE Places'
  BY <1>18 DEF TaskZero, At, InHand, Owned, Held, Waits
<1>19. ASSUME NEW code \in Codes, TaskBody(code) PROVE Places'
  BY <1>19 DEF TaskBody, At, InHand, Owned, Held, Waits
<1>20. ASSUME TaskCode PROVE Places'
  BY <1>20 DEF TaskCode, At, InHand, Owned, Held, Waits
<1>21. ASSUME TaskComplete PROVE Places'
  BY <1>21 DEF TaskComplete, At, InHand, Owned, Held, Waits
<1>22. ASSUME TaskFinished PROVE Places'
  BY <1>22 DEF TaskFinished, At, InHand, Owned, Held, Waits
<1>23. CASE StartExecutor \/ ShutdownBegin \/ ShutdownStep \/ LauncherStep
  <2>1. OthersStay /\ (os = "body" => os' = "body")
    BY <1>23, ThreadSteps
  <2>2. InHand' = InHand /\ At("unlink")' = At("unlink")
    BY <2>1 DEF OthersStay, At, Guarded, InHand
  <2>3. \A t \in Tasks : Owned(t)' = Owned(t)
    BY <2>1, <2>2 DEF OthersStay, Owned, InHand
  <2> QED BY <2>1, <2>2, <2>3 DEF OthersStay, Held, Waits
<1>24. CASE UNCHANGED vars
  <2>1. \A t \in Tasks : Owned(t)' = Owned(t)
    BY <1>24 DEF vars, Owned
  <2> QED BY <1>24, <2>1 DEF vars, At, InHand, Held, Waits
<1> QED BY <1>1, <1>2, <1>3, <1>4, <1>5, <1>6, <1>7, <1>8, <1>9, <1>10, <1>11, <1>12, <1>13, <1>14, <1>15, <1>16, <1>17, <1>18, <1>19, <1>20, <1>21, <1>22, <1>23, <1>24
        DEF Next, Client, SubmitStep, RunStep

-----------------------------------------------------------------------------
(* The invariant and what follows from it                                  *)

LEMMA SpecIInv == Spec => []IInv
<1>1. IInv /\ [Next]_vars => IInv'
  BY NextTypeOK, NextGuarded, NextPlaces, NextLinks, NextCodeStored DEF IInv
<1> QED BY InitIInv, <1>1, PTL DEF Spec

\* The variables of the executor keep their ranges.
THEOREM TypeCorrect == Spec => []TypeOK
<1>1. IInv => TypeOK
  BY DEF IInv
<1> QED BY SpecIInv, <1>1, PTL

\* submit(), run() and shutdown() are never between trylock and unlock of
\* nLock at the same time, and the flag is free exactly when none of them is.
THEOREM ListIsGuardedHolds == Spec => []ListIsGuarded
<1>1. ASSUME IInv PROVE ListIsGuarded
  <2> USE <1>1 DEF IInv, Guarded, SubIn, RunIn, BossIn, At
  <2>1. \A x \in InSection :
          \/ x \in Submitters /\ SubIn(x)
          \/ x = "run" /\ RunIn
          \/ x = "boss" /\ BossIn
    BY DEF InSection
  <2>2. \A x, y \in InSection : x = y
    BY <2>1
  <2>3. nLock => InSection = {}
    BY <2>1
  <2>4. (RunIn => "run" \in InSection) /\ (BossIn => "boss" \in InSection)
        /\ \A s \in Submitters : SubIn(s) => s \in InSection
    BY DEF InSection
  <2>5. ~nLock => InSection # {}
    BY <2>4
  <2> QED BY <2>2, <2>3, <2>5 DEF ListIsGuarded
<1> QED BY SpecIInv, <1>1, PTL

\* Whenever the lock is free, pHead, the links and pTail spell out the accepted
\* tasks in the order of acceptance, and no other task has a link.
THEOREM ListIsQueueHolds == Spec => []ListIsQueue
<1>1. ASSUME IInv PROVE ListIsQueue
  <2> SUFFICES ASSUME nLock PROVE ListIsQueue
    BY DEF ListIsQueue
  <2>1. (\A s \in Submitters : sub[s].at # "tail") /\ ~At("tail")
    BY <1>1 DEF IInv, Guarded, SubIn, RunIn, At
  <2> QED BY <1>1, <2>1 DEF IInv, Links, Waits, ListIsQueue
<1> QED BY SpecIInv, <1>1, PTL

\* A task is SUBMITTED or RUNNING exactly when a submission of it is under way,
\* in the list or in the hand of the worker: reset() and a second submit()
\* cannot put it into the list twice.
THEOREM OneSubmissionHolds == Spec => []OneSubmission
<1>1. ASSUME IInv PROVE OneSubmission
  <2> USE <1>1 DEF IInv, Places
  <2>1. ASSUME NEW t \in Tasks, Owned(t) PROVE state[t] \in {"SUBMITTED", "RUNNING"}
    <3>1. CASE \E s \in Submitters : sub[s].task = t /\ Held(s)
      BY <3>1
    <3>2. CASE Waits(t)
      BY <3>2 DEF Waits
    <3>3. CASE InHand /\ task = t
      BY <3>3
    <3> QED BY <2>1, <3>1, <3>2, <3>3 DEF Owned, Held, Waits, InHand
  <2> QED BY <2>1 DEF OneSubmission
<1> QED BY SpecIInv, <1>1, PTL

\* A client that sees COMPLETED reads the code the last run of the task has
\* returned: run_task stores the code before the state.
THEOREM CompletedCodeHolds == Spec => []CompletedCode
<1>1. IInv => CompletedCode
  BY DEF IInv, CodeStored
<1> QED BY SpecIInv, <1>1, PTL

-----------------------------------------------------------------------------
(* Shutdown and refinement: what shutdown() leaves behind, and that the    *)
(* executor implements AbstractExecutor.  To the invariant above they add  *)
(* the life of the thread object, that the queue stays empty once          *)
(* shutdown() has found it so, and the accounts of accepted and run tasks. *)

(* The rest of the inductive invariant                                     *)

\* The thread object, as far as shutdown() depends on it: it is started before
\* and not FINISHED before run() has returned.
Life ==
    /\ enState \in {"CREATED", "PENDING", "RUNNING", "FINISHED"}
    /\ os \in {"none", "spin", "body", "commit", "store", "gone"}
    /\ at \in [{Owner} -> {"idle", "handle", "pending", "flag", "pjoin"}]
    /\ enState = "FINISHED" <=> os \in {"store", "gone"}
    /\ os = "none" => at[Owner] = "idle" /\ enState = "CREATED" /\ boss = "idle"
    /\ at[Owner] \in {"handle", "pending"} => os = "spin" /\ enState = "CREATED" /\ boss = "idle"
    /\ os # "none" /\ enState = "CREATED" => at[Owner] \in {"handle", "pending"}
    /\ boss = "done" => os \in {"store", "gone"}

\* The queue shutdown() has found empty stays empty: it keeps the lock.
Drained == boss \in {"cancel", "join", "done"} => order = <<>>

\* The task that runs, in the terms of AbstractExecutor.
Current == IF os = "body" /\ rpc \in {"tail", "unlock", "running", "zero", "exec"}
             THEN task ELSE NoTask

\* What has been accepted and not run is in the list or current.
Counts ==
    /\ accepted \in [Tasks -> Nat]
    /\ ran \in [Tasks -> Nat]
    /\ \A t \in Tasks : accepted[t] = ran[t] + (IF Waits(t) \/ Current = t THEN 1 ELSE 0)

SInv == Life /\ Drained /\ Counts

-----------------------------------------------------------------------------
(* The thread object                                                       *)

\* What submit(), reset() and run() do to the thread object: nothing, or run()
\* returns with nothing in hand.
LEMMA WorkerSteps ==
    ASSUME (\E s \in Submitters : Client(s) \/ SubmitStep(s)) \/ RunStep
    PROVE  /\ UNCHANGED <<enState, at, boss>>
           /\ os' = os \/ (os = "body" /\ os' = "commit" /\ rpc' = rpc
                            /\ rpc \in {"check", "lock", "nap"}
                            /\ UNCHANGED <<taskVars, task, auxVars>>)
<1>1. ASSUME NEW s \in Submitters, Client(s) \/ SubmitStep(s)
      PROVE  UNCHANGED <<enState, at, boss, os>>
  BY <1>1 DEF Client, SubmitStep, SubmitTask, ResetTask, SubmitLock, SubmitUndo, SubmitLink,
     SubmitTail, SubmitUnlock, threadVars
<1>2. CASE RunCheck \/ RunRetry \/ RunNap
  BY <1>2 DEF RunCheck, RunRetry, RunNap, RunReturns, RunStays, At, T!BodyReturn, T!callerVars
<1>3. CASE RunLock \/ RunHead \/ RunEmpty \/ RunUnlink \/ RunTail \/ RunUnlock \/ TaskRunning
           \/ TaskZero \/ TaskCode \/ TaskComplete \/ TaskFinished
           \/ \E code \in Codes : TaskBody(code)
  BY <1>3 DEF RunLock, RunHead, RunEmpty, RunUnlink, RunTail, RunUnlock, TaskRunning, TaskZero,
     TaskCode, TaskComplete, TaskFinished, TaskBody, RunStays
<1> QED BY <1>1, <1>2, <1>3 DEF RunStep

\* Every step keeps the account of the thread's life.
LEMMA NextLife == Life /\ [Next]_vars => Life'
<1> SUFFICES ASSUME Life, [Next]_vars PROVE Life'
  OBVIOUS
<1> USE DEF Life
<1>1. CASE (\E s \in Submitters : Client(s) \/ SubmitStep(s)) \/ RunStep
  BY <1>1, WorkerSteps
<1>2. CASE StartExecutor
  BY <1>2 DEF StartExecutor, T!StartCreate, T!StartHandle, T!StartPending, T!Goto, T!Return
<1>3. CASE ShutdownBegin
  BY <1>3 DEF ShutdownBegin, threadVars
<1>4. CASE ShutdownPoll \/ ShutdownLook \/ ShutdownRelease
  BY <1>4 DEF ShutdownPoll, ShutdownLook, ShutdownRelease, threadVars
<1>5. CASE ShutdownCancel
  BY <1>5 DEF ShutdownCancel, T!CancelLoad, T!CancelFlag, T!Goto, T!Return, T!threadVars
<1>6. CASE ShutdownJoin
  BY <1>6 DEF ShutdownJoin, T!JoinLoad, T!JoinWait, T!Goto, T!Return, T!threadVars
<1>7. CASE LauncherStep
  BY <1>7 DEF LauncherStep, T!Launcher, T!Launch, T!Commit, T!StoreResult, T!callerVars
<1>8. CASE UNCHANGED vars
  BY <1>8 DEF vars, threadVars
<1> QED BY <1>1, <1>2, <1>3, <1>4, <1>5, <1>6, <1>7, <1>8 DEF Next, ShutdownStep

-----------------------------------------------------------------------------
(* The queue                                                               *)

\* Which steps change the queue or the accounts, and how: a submission enters
\* it, the worker takes the head, a body returns.
Enters(s) == SubmitLink(s) /\ order' = Append(order, sub[s].task)
Leaves    == RunUnlink /\ order' = Tail(order)

LEMMA QueueSteps ==
    ASSUME IInv, [Next]_vars
    PROVE  \/ UNCHANGED <<order, accepted, ran, Current>>
           \/ \E s \in Submitters : Enters(s) /\ UNCHANGED <<ran, boss>>
           \/ Leaves /\ UNCHANGED <<accepted, ran, boss>>
           \/ (\E code \in Codes : TaskBody(code)) /\ UNCHANGED <<order, accepted>>
<1>1. ASSUME NEW s \in Submitters, Client(s) \/ SubmitLock(s) \/ SubmitUndo(s) \/ SubmitTail(s)
                                   \/ SubmitUnlock(s)
      PROVE  UNCHANGED <<auxVars, Current>>
  BY <1>1 DEF Client, SubmitTask, ResetTask, SubmitLock, SubmitUndo, SubmitTail, SubmitUnlock,
     threadVars, Current
<1>2. ASSUME NEW s \in Submitters, SubmitLink(s) PROVE Enters(s) /\ UNCHANGED <<ran, boss>>
  BY <1>2 DEF SubmitLink, Enters
<1>3. CASE RunCheck \/ RunRetry \/ RunNap
  BY <1>3 DEF RunCheck, RunRetry, RunNap, RunReturns, RunStays, T!BodyReturn, At, auxVars, Current
<1>4. CASE RunLock \/ RunHead \/ RunEmpty \/ RunTail \/ RunUnlock \/ TaskRunning \/ TaskZero
           \/ TaskCode \/ TaskComplete \/ TaskFinished
  BY <1>4 DEF RunLock, RunHead, RunEmpty, RunTail, RunUnlock, TaskRunning, TaskZero, TaskCode,
     TaskComplete, TaskFinished, RunStays, At, auxVars, Current
<1>5. CASE RunUnlink
  BY <1>5 DEF RunUnlink, Leaves, RunStays
<1>6. ASSUME NEW code \in Codes, TaskBody(code) PROVE UNCHANGED <<order, accepted>>
  BY <1>6 DEF TaskBody
<1>7. CASE StartExecutor \/ ShutdownBegin \/ ShutdownStep \/ LauncherStep
  <2>1. OthersStay /\ (os = "body" => os' = "body")
    BY <1>7, ThreadSteps
  <2>2. Current' = Current
    BY <2>1 DEF OthersStay, Current, IInv, Guarded
  <2> QED BY <2>1, <2>2 DEF OthersStay, auxVars
<1>8. CASE UNCHANGED vars
  BY <1>8 DEF vars, threadVars, auxVars, Current
<1> QED BY <1>1, <1>2, <1>3, <1>4, <1>5, <1>6, <1>7, <1>8 DEF Next, SubmitStep, RunStep, auxVars

\* Nothing enters the queue after shutdown() has found it empty.
LEMMA NextDrained == IInv /\ Drained /\ [Next]_vars => Drained'
<1> SUFFICES ASSUME IInv, Drained, [Next]_vars, boss' \in {"cancel", "join", "done"}
             PROVE  order' = <<>>
  BY DEF Drained
<1>1. ASSUME NEW s \in Submitters, SubmitLink(s) PROVE ~BossIn
  BY <1>1 DEF IInv, Guarded, SubmitLink, SubIn
<1>2. CASE Leaves
  BY <1>2 DEF Leaves, RunUnlink, RunStays, At, IInv, Guarded, RunIn, BossIn
<1>3. CASE boss \in {"cancel", "join", "done"}
  <2>1. order = <<>>
    BY <1>3 DEF Drained
  <2> QED BY <1>1, <1>2, <1>3, <2>1, QueueSteps DEF Enters, BossIn
<1>4. CASE boss \notin {"cancel", "join", "done"}
  <2>1. CASE (\E s \in Submitters : Client(s) \/ SubmitStep(s)) \/ RunStep
    BY <1>4, <2>1, WorkerSteps
  <2>2. CASE StartExecutor \/ ShutdownBegin \/ ShutdownPoll \/ ShutdownRelease \/ LauncherStep
    BY <1>4, <2>2 DEF StartExecutor, ShutdownBegin, ShutdownPoll, ShutdownRelease, LauncherStep
  <2>3. CASE ShutdownCancel \/ ShutdownJoin
    BY <1>4, <2>3 DEF ShutdownCancel, ShutdownJoin
  <2>4. CASE ShutdownLook
    <3>1. pHead = NoTask /\ order' = order
      BY <1>4, <2>4 DEF ShutdownLook, OthersStay, auxVars
    <3>2. order = <<>> \/ order[1] \in Tasks
      BY DEF IInv, TypeOK
    <3> QED BY <3>1, <3>2, NoTaskAssumption DEF IInv, Links
  <2>5. CASE UNCHANGED vars
    BY <1>4, <2>5 DEF vars
  <2> QED BY <2>1, <2>2, <2>3, <2>4, <2>5 DEF Next, ShutdownStep
<1> QED BY <1>3, <1>4

\* Every step keeps the accounts: a submission is counted where it enters the
\* queue, a run where the body returns.
LEMMA NextCounts == IInv /\ Counts /\ [Next]_vars => Counts'
<1> SUFFICES ASSUME IInv, Counts, [Next]_vars PROVE Counts'
  OBVIOUS
<1>1. \A t \in Tasks : t # NoTask
  BY NoTaskAssumption
<1>2. ASSUME NEW s \in Submitters, Enters(s), UNCHANGED <<ran, boss>> PROVE Counts'
  <2> DEFINE t == sub[s].task
  <2>1. t \in Tasks /\ ~Waits(t) /\ Current # t
    BY <1>1, <1>2 DEF Enters, SubmitLink, IInv, Places, Held, InHand, Current
  <2>2. accepted' = [accepted EXCEPT ![t] = @ + 1] /\ Current' = Current
    BY <1>2 DEF Enters, SubmitLink, Current, threadVars
  <2>3. \A x \in Tasks : Waits(x)' <=> Waits(x) \/ x = t
    <3>1. /\ Len(order) \in Nat /\ Len(order') = Len(order) + 1 /\ order'[Len(order) + 1] = t
          /\ \A i \in 1..Len(order) : order'[i] = order[i]
      BY <1>2, <2>1 DEF Enters, IInv, TypeOK
    <3> HIDE DEF t
    <3> QED BY <3>1 DEF Waits
  <2> HIDE DEF t
  <2> QED BY <1>2, <2>1, <2>2, <2>3 DEF Counts
<1>3. CASE Leaves /\ UNCHANGED <<accepted, ran, boss>>
  <2>1. UNCHANGED <<os, task>> /\ os = "body" /\ rpc = "unlink" /\ rpc' = "tail" /\ order' = Tail(order)
    BY <1>3 DEF Leaves, RunUnlink, RunStays, At
  <2>2. order # <<>> /\ task = order[1] /\ task \in Tasks /\ order \in Seq(Tasks)
    BY <2>1 DEF IInv, TypeOK, Places, Links, At
  <2>3. Current = NoTask /\ Current' = task
    BY <2>1 DEF Current
  <2>4. \A x \in Tasks : Waits(x)' \/ x = task <=> Waits(x)
    <3>1. /\ Len(order') = Len(order) - 1 /\ Len(order) \in Nat /\ Len(order) > 0
          /\ \A i \in 1..Len(order') : order'[i] = order[i + 1] /\ i + 1 \in 1..Len(order)
      BY <2>1, <2>2, TailFacts
    <3>2. ASSUME NEW x \in Tasks, Waits(x)' PROVE Waits(x)
      BY <3>1, <3>2 DEF Waits
    <3>3. Waits(task)
      BY <2>2, <3>1 DEF Waits
    <3>4. ASSUME NEW x \in Tasks, Waits(x), x # task PROVE Waits(x)'
      <4>1. PICK i \in 1..Len(order) : order[i] = x
        BY <3>4 DEF Waits
      <4>2. i # 1
        BY <2>2, <3>4, <4>1
      <4>3. i - 1 \in 1..Len(order') /\ order'[i - 1] = x
        BY <3>1, <4>1, <4>2
      <4> QED BY <4>3 DEF Waits
    <3> QED BY <3>2, <3>3, <3>4
  <2> QED BY <1>1, <1>3, <2>2, <2>3, <2>4 DEF Counts
<1>4. ASSUME NEW code \in Codes, TaskBody(code), UNCHANGED <<order, accepted>> PROVE Counts'
  <2>1. /\ task \in Tasks /\ Current = task /\ Current' = NoTask
        /\ ran' = [ran EXCEPT ![task] = @ + 1]
    BY <1>4 DEF TaskBody, RunStays, At, Current, IInv, Places, InHand
  <2>2. ~Waits(task) /\ \A x \in Tasks : Waits(x)' <=> Waits(x)
    BY <1>4 DEF TaskBody, At, Waits, IInv, Places, InHand
  <2> QED BY <1>1, <1>4, <2>1, <2>2 DEF Counts
<1>5. CASE UNCHANGED <<order, accepted, ran, Current>>
  <2>1. \A t \in Tasks : Waits(t)' <=> Waits(t)
    BY <1>5 DEF Waits
  <2> QED BY <1>5, <2>1 DEF Counts
<1> QED BY <1>2, <1>3, <1>4, <1>5, QueueSteps

-----------------------------------------------------------------------------
(* Shutdown                                                                *)

LEMMA SpecSInv == Spec => [](IInv /\ SInv)
<1>1. Init => IInv /\ SInv
  <2>1. Init => Life /\ Drained
    BY DEF Init, Life, Drained, T!Init
  <2>2. Init => Counts
    BY NoTaskAssumption DEF Init, Counts, Waits, Current
  <2> QED BY <2>1, <2>2, InitIInv DEF SInv
<1>2. (IInv /\ SInv) /\ [Next]_vars => (IInv /\ SInv)'
  BY NextTypeOK, NextGuarded, NextPlaces, NextLinks, NextCodeStored, NextLife, NextDrained,
     NextCounts DEF IInv, SInv
<1> QED BY <1>1, <1>2, PTL DEF Spec

\* When shutdown() has returned, run() has returned too, the queue is empty,
\* every accepted task has been run to its end and none is marked RUNNING.
THEOREM ShutdownQuiescesHolds == Spec => []ShutdownQuiesces
<1>1. ASSUME IInv, SInv PROVE ShutdownQuiesces
  <2> SUFFICES ASSUME boss = "done" PROVE ShutdownQuiesces
    BY DEF ShutdownQuiesces
  <2>1. os \in {"store", "gone"} /\ order = <<>>
    BY <1>1 DEF SInv, Life, Drained
  <2>2. ASSUME NEW t \in Tasks PROVE accepted[t] = ran[t] /\ state[t] # "RUNNING"
    <3>1. ~Waits(t) /\ Current # t
      BY <2>1, NoTaskAssumption DEF Waits, Current
    <3>2. accepted[t] = ran[t]
      BY <1>1, <3>1 DEF SInv, Counts
    <3>3. ASSUME state[t] = "RUNNING" PROVE FALSE
      <4>1. PICK s \in Submitters : sub[s].task = t /\ Held(s)
        BY <1>1, <2>1, <3>3 DEF IInv, Places, Owned, Held
      <4> QED BY <1>1, <3>3, <4>1 DEF IInv, Places
    <3> QED BY <3>2, <3>3
  <2> QED BY <2>1, <2>2 DEF ShutdownQuiesces
<1> QED BY SpecSInv, <1>1, PTL

-----------------------------------------------------------------------------
(* Refinement                                                              *)

\* A step of the executor is a step of the abstract executor or a stutter:
\* Accept where the task is linked, Begin where it is unlinked, End where its
\* body returns, Close where shutdown() returns.
LEMMA StepRefines ==
    ASSUME IInv, SInv, [Next]_vars
    PROVE  [Abs!AbsNext]_(Abs!absVars)
<1> USE NoTaskAssumption
<1>1. ASSUME NEW s \in Submitters, Enters(s), UNCHANGED <<ran, boss>>
      PROVE  Abs!Accept(sub[s].task) /\ sub[s].task \in Tasks
  <2>1. SubIn(s) /\ boss # "done"
    BY <1>1 DEF Enters, SubmitLink, SubIn, IInv, Guarded, BossIn
  <2>2. sub[s].task \in Tasks /\ ~Waits(sub[s].task) /\ Current # sub[s].task
    BY <1>1 DEF Enters, SubmitLink, IInv, Places, Held, InHand, Current
  <2>3. Current' = Current
    BY <1>1 DEF Enters, SubmitLink, Current, threadVars
  <2> QED BY <1>1, <2>1, <2>2, <2>3 DEF Abs!Accept, Abs!ToSet, Enters, Waits, Current
<1>2. CASE Leaves /\ UNCHANGED <<accepted, ran, boss>>
  <2>1. UNCHANGED <<os, task>> /\ os = "body" /\ rpc = "unlink" /\ rpc' = "tail" /\ order' = Tail(order)
    BY <1>2 DEF Leaves, RunUnlink, RunStays, At
  <2>2. order # <<>> /\ task = order[1] /\ task \in Tasks
    BY <2>1 DEF IInv, TypeOK, Places, Links, At
  <2>3. Current = NoTask /\ Current' = Head(order)
    BY <2>1, <2>2 DEF Current, IInv, TypeOK
  <2>4. Abs!Begin
    BY <1>2, <2>1, <2>2, <2>3 DEF Abs!Begin, Current
  <2> QED BY <2>4 DEF Abs!AbsNext
<1>3. ASSUME NEW code \in Codes, TaskBody(code), UNCHANGED <<order, accepted>> PROVE Abs!End
  <2>1. /\ task \in Tasks /\ Current = task /\ Current' = NoTask /\ boss' = boss
        /\ ran' = [ran EXCEPT ![task] = @ + 1]
    BY <1>3 DEF TaskBody, RunStays, At, Current, IInv, Places, InHand
  <2> QED BY <1>3, <2>1 DEF Abs!End, Current
<1>4. CASE UNCHANGED <<order, accepted, ran, Current>>
  <2>1. CASE (boss = "done") = (boss' = "done")
    BY <1>4, <2>1 DEF Abs!absVars, Current
  <2>2. CASE (boss = "done") # (boss' = "done")
    <3>1. boss # "done" /\ boss' = "done"
      <4>1. CASE (\E s \in Submitters : Client(s) \/ SubmitStep(s)) \/ RunStep
        BY <2>2, <4>1, WorkerSteps
      <4>2. CASE StartExecutor \/ ShutdownBegin \/ ShutdownPoll \/ ShutdownLook \/ ShutdownRelease
                 \/ LauncherStep
        BY <2>2, <4>2 DEF StartExecutor, ShutdownBegin, ShutdownPoll, ShutdownLook,
           ShutdownRelease, LauncherStep
      <4>3. CASE ShutdownCancel \/ ShutdownJoin
        BY <2>2, <4>3 DEF ShutdownCancel, ShutdownJoin
      <4>4. CASE UNCHANGED vars
        BY <2>2, <4>4 DEF vars
      <4> QED BY <4>1, <4>2, <4>3, <4>4 DEF Next, ShutdownStep
    <3>2. os' \in {"store", "gone"} /\ order' = <<>>
      BY <3>1, NextLife, NextDrained DEF SInv, Life, Drained
    <3>3. order = <<>> /\ Current = NoTask /\ Current' = NoTask
      BY <1>4, <3>2 DEF Current
    <3>4. Abs!Close
      BY <1>4, <3>1, <3>3 DEF Abs!Close, Current
    <3> QED BY <3>4 DEF Abs!AbsNext
  <2> QED BY <2>1, <2>2
<1> QED BY <1>1, <1>2, <1>3, <1>4, QueueSteps DEF Abs!AbsNext

\* The executor runs the accepted tasks one at a time, once for each acceptance,
\* in the order of acceptance, and has none left when shutdown() returns.
THEOREM ExecutorImplements == Spec => ImplementsExecutor
<1>1. Init => Abs!AbsInit
  BY DEF Init, Abs!AbsInit, T!Init
<1> QED BY <1>1, SpecSInv, StepRefines, PTL DEF Spec, ImplementsExecutor, Abs!AbsSpec
=============================================================================
