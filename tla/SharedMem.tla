------------------------------ MODULE SharedMem ------------------------------
(***************************************************************************)
(* src/main/ipc/SharedMem.cpp: named segments of shared memory, opened by  *)
(* processes through objects whose copies share one counted context.       *)
(*                                                                         *)
(*   obj   h: the context of each object, 0 without one; ctx: the contexts *)
(*         pend: the open() or create() a process is in                    *)
(*   env   the system: which segment a name stands for (0: none), the size *)
(*         of each segment, how many there have been                       *)
(*   ret   OK, or FAILED for any other status of the last call             *)
(*   abs   early: contexts opened before the creator had set the size;     *)
(*         left: names of which the creator is gone without removing them  *)
(* A process has one thread; its open() takes two steps, between which the *)
(* other process runs or the process itself dies.                          *)
(***************************************************************************)
EXTENDS Integers, FiniteSets

CONSTANTS Home,       \* the process each object is in
          Slots,      \* the contexts each process can have
          Names, Modes, Size,
          MaxSegments \* bound on the segments there have been

VARIABLES obj, env, ret, abs
vars == <<obj, env, ret, abs>>

Objects == DOMAIN Home
Procs == DOMAIN Slots
Contexts == UNION {Slots[p] : p \in Procs}
NoContext == [refs |-> 0, fd |-> 0, mode |-> {}, size |-> 0, map |-> <<>>, name |-> ""]
NewContext == [NoContext EXCEPT !.refs = 1]
Idle == [obj |-> "", mode |-> {}]

\* The object's own state.
opened(o, h) == o.h[h] # 0 /\ o.ctx[o.h[h]].fd # 0
mapped(o, h) == o.h[h] # 0 /\ o.ctx[o.h[h]].map # <<>>
data(o, h)   == IF o.h[h] # 0 THEN o.ctx[o.h[h]].map ELSE <<>>
size(o, h)   == IF opened(o, h) THEN o.ctx[o.h[h]].size ELSE "CLOSED"
map_size(o, h) == IF ~opened(o, h) THEN "CLOSED" ELSE IF ~mapped(o, h) THEN "NOT_MAPPED" ELSE data(o, h)[3]
map_offset(o, h) == IF ~opened(o, h) THEN "CLOSED" ELSE IF ~mapped(o, h) THEN "NOT_MAPPED" ELSE data(o, h)[2]
allocate_context(o, h) ==
    IF o.h[h] # 0 THEN o
    ELSE LET c == CHOOSE k \in Slots[Home[h]] : o.ctx[k].refs = 0 IN [o EXCEPT !.h[h] = c, !.ctx[c] = NewContext]

\* What closing does to the context, and to the system.  What a closed
\* context still holds is not read again.
unmap_context(c) == [c EXCEPT !.map = <<>>]
Unlinks(c) == c.fd # 0 /\ "CREATE" \in c.mode /\ "PERSIST" \notin c.mode
unlink_file(e, c) == [e EXCEPT !.names[c.name] = 0]
close_file(e, c) ==
    [ctx |-> [NoContext EXCEPT !.refs = c.refs], env |-> IF Unlinks(c) THEN unlink_file(e, c) ELSE e,
     res |-> IF Unlinks(c) /\ e.names[c.name] = 0 THEN "IO_ERROR" ELSE "OK"]
close_context(e, c) == close_file(e, unmap_context(c))
\* One reference less; the last one closes.
release_context(o, e, h) ==
    LET k == o.h[h]
        c == close_context(e, o.ctx[k])
    IN  IF k = 0 THEN [obj |-> o, env |-> e]
        ELSE IF o.ctx[k].refs > 1 THEN [obj |-> [o EXCEPT !.ctx[k].refs = @ - 1], env |-> e]
        ELSE [obj |-> [o EXCEPT !.ctx[k] = NoContext, !.h[h] = 0], env |-> c.env]
\* The constructor that copies, on an object that has no context.
SharedMem(o, h, g) ==
    LET k == o.h[g] IN IF k = 0 THEN [o EXCEPT !.h[h] = 0] ELSE [o EXCEPT !.h[h] = k, !.ctx[k].refs = @ + 1]
\* Assignment: releases, and then takes what the source has now.
AssignCopy(o, e, h, g) ==
    LET r == release_context(o, e, h) IN [obj |-> SharedMem(r.obj, h, g), env |-> r.env]
AssignMove(o, e, h, g) ==
    LET r == release_context(o, e, h)
    IN  [obj |-> [r.obj EXCEPT !.h = [x \in Objects |-> IF x = g THEN 0 ELSE IF x = h THEN r.obj.h[g] ELSE r.obj.h[x]]], env |-> r.env]
Destroy(o, e, h) == LET r == release_context(o, e, h) IN [r EXCEPT !.obj.h[h] = 0]

----------------------------------------------------------------------------
Done(res, o, e) == obj' = o /\ env' = e /\ ret' = IF res = "OK" THEN "OK" ELSE "FAILED"
\* Names whose creator has removed them, or whose creators are gone.
Init ==
    /\ obj = [h |-> [x \in Objects |-> 0], ctx |-> [k \in Contexts |-> NoContext], pend |-> [p \in Procs |-> Idle]]
    /\ env = [names |-> [n \in Names |-> 0], size |-> [s \in 1..MaxSegments |-> 0], count |-> 0]
    /\ ret = "OK"
    /\ abs = [early |-> {}, left |-> {}]
Free(p) == obj.pend[p] = Idle
Early(o) == [abs EXCEPT !.early = {k \in @ : o.ctx[k].fd # 0}]
\* A name that stays after its creator: kept on purpose.
Kept(o) == {n \in Names : \E k \in Contexts : obj.ctx[k].fd # 0 /\ {"CREATE", "PERSIST"} \subseteq obj.ctx[k].mode
                              /\ obj.ctx[k].name = n /\ o.ctx[k].fd = 0}
Ends(o) == abs' = [Early(o) EXCEPT !.left = @ \union Kept(o)]

\* What open() and create() check, and which mode and names create() tries:
\* as many as it takes to find one that is not taken.
open(o, h, mode) == CASE mode \intersect {"READ", "WRITE"} = {} -> "BAD_ARGUMENTS" [] opened(o, h) -> "OPENED" [] OTHER -> "OK"
create(e, mode) == [mode |-> mode \union {"CREATE"}, names |-> {n \in Names : e.names[n] = 0}]
\* shm_open().
shm_open(e, name, creates) ==
    CASE creates /\ e.names[name] # 0 -> "ALREADY_EXISTS" [] ~creates /\ e.names[name] = 0 -> "NOT_FOUND" [] OTHER -> "OK"
Begun(h, name, m) ==
    LET o == allocate_context(obj, h)
        k == o.h[h]
        creates == "CREATE" \in m
        kept == [o.ctx[k] EXCEPT !.name = name, !.mode = m \ {"PERSIST"}]
    IN  CASE open(obj, h, m) # "OK" -> Done(open(obj, h, m), obj, env)
          [] open(obj, h, m) = "OK" /\ shm_open(env, name, creates) # "OK" ->
                 Done(shm_open(env, name, creates), [o EXCEPT !.ctx[k] = close_context(env, kept).ctx], env)
          [] OTHER -> Done("OK", [o EXCEPT !.ctx[k] = [kept EXCEPT !.fd = IF creates THEN env.count + 1 ELSE env.names[name]],
                                           !.pend[Home[h]] = [obj |-> h, mode |-> m]],
                           IF creates THEN [env EXCEPT !.names[name] = env.count + 1, !.count = @ + 1] ELSE env)
Open == \E h \in Objects, mode \in Modes :
    /\ Free(Home[h]) /\ env.count < MaxSegments
    /\ \/ \E name \in Names : Begun(h, name, mode)
       \/ LET c == create(env, mode) IN \E name \in c.names : Begun(h, name, c.mode)
    /\ UNCHANGED abs
\* ftruncate() or stat(), each of which can fail, and what the context gets.
\* A segment without SHM_WRITE is not open for writing and gets no size.
Finish == \E p \in Procs, fails \in BOOLEAN :
    /\ ~Free(p)
    /\ LET q == obj.pend[p]
           k == obj.h[q.obj]
           c == obj.ctx[k]
           creates == "CREATE" \in q.mode
           bad == fails \/ (creates /\ "WRITE" \notin q.mode)
           e == IF creates /\ ~bad THEN [env EXCEPT !.size[c.fd] = Size] ELSE env
           x == close_context(env, c)
       IN  IF bad THEN /\ Done("FAILED", [obj EXCEPT !.ctx[k] = x.ctx, !.pend[p] = Idle], x.env) /\ UNCHANGED abs
           ELSE /\ Done("OK", [obj EXCEPT !.ctx[k].mode = q.mode, !.ctx[k].size = e.size[c.fd], !.pend[p] = Idle], e)
                /\ abs' = IF e.size[c.fd] # Size THEN [abs EXCEPT !.early = @ \union {k}] ELSE abs
close == \E h \in Objects :
    LET k == obj.h[h]
        x == close_context(env, obj.ctx[k])
        o == IF k = 0 THEN obj ELSE [obj EXCEPT !.ctx[k] = x.ctx]
    IN  Free(Home[h]) /\ Done(IF k = 0 THEN "OK" ELSE x.res, o, IF k = 0 THEN env ELSE x.env) /\ Ends(o)
\* mmap() of the whole segment as the object knows it.
map_context(c, offset, amount) == [c EXCEPT !.map = <<c.fd, offset, amount>>]
map == \E h \in Objects, fails \in BOOLEAN :
    LET k == obj.h[h]
        bad == fails \/ obj.ctx[k].size = 0
    IN  /\ Free(Home[h]) /\ UNCHANGED abs
        /\ IF ~opened(obj, h) THEN Done("CLOSED", obj, env)
           ELSE IF bad THEN Done("IO_ERROR", obj, env)
           ELSE Done("OK", [obj EXCEPT !.ctx[k] = map_context(@, 0, @.size)], env)
unmap == \E h \in Objects :
    LET res == IF ~opened(obj, h) THEN "CLOSED" ELSE IF ~mapped(obj, h) THEN "NOT_MAPPED" ELSE "OK"
    IN  /\ Free(Home[h]) /\ UNCHANGED abs
        /\ Done(res, IF res = "OK" THEN [obj EXCEPT !.ctx[obj.h[h]] = unmap_context(@)] ELSE obj, env)
Share == \E h, g \in Objects :
    /\ Home[h] = Home[g] /\ Free(Home[h])
    /\ \E r \in {AssignCopy(obj, env, h, g), AssignMove(obj, env, h, g)} : Done("OK", r.obj, r.env) /\ Ends(r.obj)
Drop == \E h \in Objects :
    LET r == Destroy(obj, env, h) IN Free(Home[h]) /\ Done("OK", r.obj, r.env) /\ Ends(r.obj)
\* A process dies, at any time: its descriptors and mappings go, names stay.
Die == \E p \in Procs :
    LET gone == {k \in Slots[p] : obj.ctx[k].fd # 0}
        made == {obj.ctx[k].name : k \in {c \in gone : "CREATE" \in obj.ctx[c].mode}}
        o == [obj EXCEPT !.h = [x \in Objects |-> IF Home[x] = p THEN 0 ELSE @[x]],
                         !.ctx = [k \in Contexts |-> IF k \in Slots[p] THEN NoContext ELSE @[k]], !.pend[p] = Idle]
    IN  /\ gone # {}
        /\ Done("OK", o, env)
        /\ abs' = [Early(o) EXCEPT !.left = @ \union made]
Next == Open \/ Finish \/ close \/ map \/ unmap \/ Share \/ Drop \/ Die
Spec == Init /\ [][Next]_vars

----------------------------------------------------------------------------
\* A context counts the objects that have it, and is given up, with its
\* descriptor and mapping, when none has it (SharedMem.cpp:81-157).  What is
\* mapped is the segment that is open.
ContextsCounted == \A k \in Contexts :
    LET c == obj.ctx[k]
    IN  /\ c.refs = Cardinality({h \in Objects : obj.h[h] = k})
        /\ c.refs = 0 => c = NoContext
        /\ c.map # <<>> => c.fd # 0 /\ c.map[1] = c.fd

\* While an object that created a segment has it open, the segment has its
\* name, whatever other processes do; and a name is of a segment that a
\* process has open as its creator, unless the name was to stay or its
\* creator died (SharedMem.cpp:348-701).
NamesOwned ==
    /\ \A k \in Contexts : obj.ctx[k].fd # 0 /\ "CREATE" \in obj.ctx[k].mode => env.names[obj.ctx[k].name] = obj.ctx[k].fd
    /\ \A n \in Names \ abs.left : env.names[n] # 0 =>
           \E k \in Contexts : obj.ctx[k].fd = env.names[n] /\ "CREATE" \in obj.ctx[k].mode

\* The size an open object tells is that of its segment, or nothing when it
\* opened the segment before its creator had set the size (SharedMem.cpp:668).
SizesTrue == \A h \in Objects : opened(obj, h) /\ obj.pend[Home[h]] = Idle =>
    size(obj, h) = (IF obj.h[h] \in abs.early THEN 0 ELSE env.size[obj.ctx[obj.h[h]].fd])

\* A call that fails leaves the names, and what was open, as they were before
\* it began; an open() that fails leaves nothing open, and no name it made
\* (SharedMem.cpp:455-701).
FailuresUndoneStep == ret' = "FAILED" =>
    LET own == {obj.h[obj.pend[p].obj] : p \in {q \in Procs : ~Free(q) /\ obj'.pend[q] = Idle}}
    IN  /\ \A n \in Names : env'.names[n] # env.names[n] =>
               env'.names[n] = 0 /\ \E k \in own : env.names[n] = obj.ctx[k].fd /\ "CREATE" \in obj.ctx[k].mode
        /\ \A k \in own : "CREATE" \in obj.ctx[k].mode => env'.names[obj.ctx[k].name] = 0
        /\ \A k \in Contexts : obj'.ctx[k].fd = IF k \in own THEN 0 ELSE obj.ctx[k].fd
FailuresUndone == [][FailuresUndoneStep]_vars

----------------------------------------------------------------------------
\* The modes of a call.
Flags == {"READ", "WRITE", "CREATE", "PERSIST"}

\* What the constants stand for: each object is in one process, and a process
\* has contexts of its own, which are allocated, as many as it has objects.
Sane ==
    /\ IsFiniteSet(Objects) /\ Home \in [Objects -> Procs]
    /\ \A p \in Procs :
          /\ Slots[p] \subseteq Nat \ {0} /\ IsFiniteSet(Slots[p])
          /\ Cardinality({x \in Objects : Home[x] = p}) <= Cardinality(Slots[p])
    /\ \A p, q \in Procs : p # q => Slots[p] \intersect Slots[q] = {}
    /\ Modes \subseteq SUBSET Flags
    /\ Size \in Nat /\ MaxSegments \in Nat
=============================================================================
