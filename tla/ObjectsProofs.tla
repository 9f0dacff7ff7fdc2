---------------------------- MODULE ObjectsProofs ----------------------------
(***************************************************************************)
(* Proofs about the objects of module Objects:                             *)
(*                                                                         *)
(*   SharedMem    the five properties of the segments                      *)
(*   InBufStream  the ring buffer                                          *)
(*   BitStreams   the bit streams                                          *)
(*   LSPString    the strings                                              *)
(*   Objects      what is stated of the four together                      *)
(*                                                                         *)
(* Each part has the types, the inductive invariant, a lemma for each      *)
(* action, and the theorems last; what a model assumes of its constants is *)
(* its own Sane.                                                           *)
(***************************************************************************)
EXTENDS Objects, Sequences, FiniteSets, FiniteSetTheorems, SequenceTheorems, TLAPS

-----------------------------------------------------------------------------
(* SharedMem                                                               *)

\* The invariant is said of an object o, a system e and an account a, so that
\* the stages of one call can be followed one by one.
Ctx == [refs : Nat, fd : 0..MaxSegments, mode : SUBSET Shm!Flags, size : {0, Size},
        map : {<<>>} \union ((1..MaxSegments) \X {0} \X {Size}), name : Names \union {""}]
Types(o, e, a) ==
    /\ o \in [h : [Shm!Objects -> Shm!Contexts \union {0}], ctx : [Shm!Contexts -> Ctx],
              pend : [Shm!Procs -> [obj : Shm!Objects \union {""}, mode : SUBSET Shm!Flags]]]
    /\ e \in [names : [Names -> 0..MaxSegments], size : [1..MaxSegments -> {0, Size}], count : 0..MaxSegments]
    /\ a \in [early : SUBSET Shm!Contexts, left : SUBSET Names]
ShmTypes == Types(obj, env, abs) /\ ret \in {"OK", "FAILED"}

\* An object has a context of its own process, which counts its users; what
\* nobody uses is not open.
Users(o, k) == {x \in Shm!Objects : o.h[x] = k}
Counted(o) ==
    /\ \A x \in Shm!Objects : o.h[x] # 0 => o.h[x] \in Slots[Home[x]]
    /\ \A k \in Shm!Contexts : o.ctx[k].refs = Cardinality(Users(o, k)) /\ (o.ctx[k].refs = 0 => o.ctx[k].fd = 0)

\* A process that is in open() has the segment, and is not yet told a size.
Waits(o, p, k) == o.pend[p] # Shm!Idle /\ k = o.h[o.pend[p].obj]
Begins(o, a) ==
    \A p \in Shm!Procs : o.pend[p] # Shm!Idle =>
        LET k == o.h[o.pend[p].obj]
        IN  /\ o.pend[p].obj \in Shm!Objects /\ Home[o.pend[p].obj] = p /\ k # 0
            /\ o.ctx[k].fd # 0 /\ o.ctx[k].mode = o.pend[p].mode \ {"PERSIST"} /\ k \notin a.early

\* A closed context is blank, no segment has two names, and no two open
\* contexts have created one.
Segments(o, e) ==
    /\ \A k \in Shm!Contexts :
          LET c == o.ctx[k]
          IN  /\ c.fd <= e.count
              /\ c.fd # 0 => c.name \in Names
              /\ c.fd = 0 => c = [Shm!NoContext EXCEPT !.refs = c.refs]
              /\ c.map # <<>> => c.map[1] = c.fd
    /\ \A n \in Names : e.names[n] <= e.count
    /\ \A m, n \in Names : e.names[m] = e.names[n] /\ e.names[m] # 0 => m = n
    /\ \A j, k \in Shm!Contexts :
          o.ctx[j].fd = o.ctx[k].fd /\ o.ctx[j].fd # 0 /\ "CREATE" \in o.ctx[j].mode /\ "CREATE" \in o.ctx[k].mode => j = k

\* NamesOwned.
Owned(o, e, a) ==
    /\ \A k \in Shm!Contexts : o.ctx[k].fd # 0 /\ "CREATE" \in o.ctx[k].mode => e.names[o.ctx[k].name] = o.ctx[k].fd
    /\ \A n \in Names \ a.left : e.names[n] # 0 =>
           \E k \in Shm!Contexts : o.ctx[k].fd = e.names[n] /\ "CREATE" \in o.ctx[k].mode

\* A context that came too early has the size 0 and keeps it; any other was
\* told the size, which stays as it is.
Sizes(o, e, a) ==
    /\ \A k \in a.early : o.ctx[k].fd # 0 /\ o.ctx[k].size = 0
    /\ \A p \in Shm!Procs : \A k \in Slots[p] :
          o.ctx[k].fd # 0 /\ k \notin a.early /\ ~Waits(o, p, k) =>
              o.ctx[k].size = Size /\ e.size[o.ctx[k].fd] = Size

Rest(o, e, a) == Types(o, e, a) /\ Begins(o, a) /\ Segments(o, e) /\ Owned(o, e, a) /\ Sizes(o, e, a)
Sound(o, e, a) == Counted(o) /\ Rest(o, e, a)
ShmInv == Sound(obj, env, abs) /\ ret \in {"OK", "FAILED"}

\* A context is of one process.
LEMMA OwnContexts ==
    ASSUME Shm!Sane
    PROVE  /\ Shm!Contexts \subseteq Nat \ {0}
           /\ \A p \in Shm!Procs : Slots[p] \subseteq Shm!Contexts
           /\ \A x \in Shm!Objects : Home[x] \in Shm!Procs /\ Slots[Home[x]] \subseteq Shm!Contexts
           /\ \A p, q \in Shm!Procs : \A k \in Slots[p] : k \in Slots[q] => p = q
<1>1. \A p \in Shm!Procs : Slots[p] \subseteq Shm!Contexts
  BY DEF Shm!Contexts
<1>2. \A x \in Shm!Objects : Home[x] \in Shm!Procs
  BY DEF Shm!Sane
<1> QED BY <1>1, <1>2 DEF Shm!Sane, Shm!Contexts

\* The model's finite sets are those of the library.
LEMMA ShmFinite == ASSUME NEW S PROVE (Shm!IsFiniteSet(S) <=> IsFiniteSet(S)) /\ Shm!Cardinality(S) = Cardinality(S)
  BY Zenon DEF Shm!IsFiniteSet, Shm!Cardinality, IsFiniteSet, Cardinality

\* A process has as many contexts as objects.
LEMMA EnoughSlots ==
    ASSUME Shm!Sane
    PROVE  /\ IsFiniteSet(Shm!Objects)
           /\ \A p \in Shm!Procs : /\ IsFiniteSet(Slots[p])
                                   /\ Cardinality({y \in Shm!Objects : Home[y] = p}) <= Cardinality(Slots[p])
  BY Zenon, ShmFinite DEF Shm!Sane

LEMMA UsersFinite ==
    ASSUME Shm!Sane, NEW o, NEW k
    PROVE  IsFiniteSet(Users(o, k)) /\ Cardinality(Users(o, k)) \in Nat
<1>1. Users(o, k) \in SUBSET Shm!Objects
  BY DEF Users
<1>2. IsFiniteSet(Users(o, k))
  BY <1>1, EnoughSlots, FS_Subset
<1> QED BY <1>2, FS_CardinalityType

\* An object that changes its context is one user less here and one more there.
OthersKeep(o, r, x) == \A y \in Shm!Objects \ {x} : r.h[y] = o.h[y]
UsersMove(o, r, i, j) ==
    /\ Cardinality(Users(r, i)) = Cardinality(Users(o, i)) - 1
    /\ Cardinality(Users(r, j)) = Cardinality(Users(o, j)) + 1
    /\ \A k : k # i /\ k # j => Users(r, k) = Users(o, k)
LEMMA Moved ==
    ASSUME Shm!Sane, NEW o, NEW r, NEW x \in Shm!Objects, OthersKeep(o, r, x), o.h[x] # r.h[x]
    PROVE  UsersMove(o, r, o.h[x], r.h[x])
<1>0. PICK i, j : i = o.h[x] /\ j = r.h[x]
  OBVIOUS
<1>1. Users(r, i) = Users(o, i) \ {x} /\ x \in Users(o, i)
  BY <1>0 DEF Users, OthersKeep
<1>2. Users(r, j) = Users(o, j) \union {x} /\ x \notin Users(o, j)
  BY <1>0 DEF Users, OthersKeep
<1>3. \A k : k # i /\ k # j => Users(r, k) = Users(o, k)
  BY <1>0 DEF Users, OthersKeep
<1>4. IsFiniteSet(Users(o, i)) /\ IsFiniteSet(Users(o, j))
  BY UsersFinite
<1>5. Cardinality(Users(o, i) \ {x}) = Cardinality(Users(o, i)) - 1
  BY <1>1, <1>4, FS_RemoveElement
<1>6. Cardinality(Users(o, j) \union {x}) = Cardinality(Users(o, j)) + 1
  BY <1>2, <1>4, FS_AddElement
<1> QED BY <1>0, <1>1, <1>2, <1>3, <1>5, <1>6 DEF UsersMove

\* An object without a context finds a free one: each of the others uses one
\* at most.
LEMMA FreeSlot ==
    ASSUME Shm!Sane, NEW o, Counted(o), NEW x \in Shm!Objects, o.h[x] = 0
    PROVE  \E k \in Slots[Home[x]] : o.ctx[k].refs = 0
<1> SUFFICES ASSUME \A k \in Slots[Home[x]] : o.ctx[k].refs # 0 PROVE FALSE
  OBVIOUS
<1> DEFINE S == Slots[Home[x]]
           Mates == {y \in Shm!Objects : Home[y] = Home[x]}
           Using == {y \in Mates : o.h[y] # 0}
           f == [y \in Using |-> o.h[y]]
<1>1. \A k \in S : \E y \in Using : o.h[y] = k
  <2> SUFFICES ASSUME NEW k \in S PROVE \E y \in Using : o.h[y] = k
    OBVIOUS
  <2>1. k \in Shm!Contexts /\ k # 0
    BY OwnContexts
  <2>2. Users(o, k) # {}
    BY <2>1, FS_EmptySet DEF Counted
  <2>3. PICK y \in Shm!Objects : o.h[y] = k
    BY <2>2 DEF Users
  <2>4. Home[y] = Home[x]
    BY <2>1, <2>3, OwnContexts DEF Counted
  <2> QED BY <2>1, <2>3, <2>4
<1>2. f \in Surjection(Using, S)
  BY <1>1 DEF Surjection, Counted
<1>3. IsFiniteSet(Mates) /\ Mates \in SUBSET Shm!Objects
  <2>1. Mates \in SUBSET Shm!Objects
    OBVIOUS
  <2> QED BY <2>1, EnoughSlots, FS_Subset
<1>4. Using \in SUBSET Mates /\ x \in Mates /\ x \notin Using
  OBVIOUS
<1>5. IsFiniteSet(Using) /\ Cardinality(Using) <= Cardinality(Mates) /\ Cardinality(Using) # Cardinality(Mates)
  BY <1>3, <1>4, FS_Subset
<1>6. Cardinality(S) <= Cardinality(Using)
  BY <1>2, <1>5, FS_Surjection
<1>7. Cardinality(Mates) <= Cardinality(S)
  BY Zenon, OwnContexts, EnoughSlots
<1>8. IsFiniteSet(S)
  BY Zenon, OwnContexts, EnoughSlots
<1>9. Cardinality(Mates) \in Nat /\ Cardinality(Using) \in Nat /\ Cardinality(S) \in Nat
  BY <1>3, <1>5, <1>8, FS_CardinalityType
<1> HIDE DEF S, Mates, Using
<1> QED BY <1>5, <1>6, <1>7, <1>9

\* The account after a call that makes r of the object o.
After(o, r, a) ==
    [early |-> {k \in a.early : r.ctx[k].fd # 0},
     left |-> a.left \union
              {n \in Names : \E k \in Shm!Contexts : o.ctx[k].fd # 0 /\ {"CREATE", "PERSIST"} \subseteq o.ctx[k].mode
                                                 /\ o.ctx[k].name = n /\ r.ctx[k].fd = 0}]

\* A context that is as before but for its users and its mapping.
Alike(c, d) ==
    /\ d \in Ctx
    /\ d.fd = c.fd /\ d.mode = c.mode /\ d.size = c.size /\ d.name = c.name
    /\ c.fd = 0 => d = [Shm!NoContext EXCEPT !.refs = d.refs]
    /\ d.map # <<>> => d.map[1] = d.fd
\* The calls in progress stay where they are.
Stays(o, r) ==
    /\ r \in [h : [Shm!Objects -> Shm!Contexts \union {0}], ctx : [Shm!Contexts -> Ctx],
              pend : [Shm!Procs -> [obj : Shm!Objects \union {""}, mode : SUBSET Shm!Flags]]]
    /\ r.pend = o.pend
    /\ \A p \in Shm!Procs : o.pend[p] # Shm!Idle => r.h[o.pend[p].obj] = o.h[o.pend[p].obj]

\* What a call that neither opens nor closes leaves.
LEMMA SameRest ==
    ASSUME Shm!Sane, NEW o, NEW e, NEW a, Rest(o, e, a), NEW r, Stays(o, r),
           \A k \in Shm!Contexts : Alike(o.ctx[k], r.ctx[k])
    PROVE  Rest(r, e, a) /\ After(o, r, a) = a
<1>1. Types(r, e, a)
  BY DEF Rest, Types, Stays
<1>2. Begins(r, a)
  <2> SUFFICES ASSUME NEW p \in Shm!Procs, r.pend[p] # Shm!Idle
               PROVE  LET k == r.h[r.pend[p].obj]
                      IN  /\ r.pend[p].obj \in Shm!Objects /\ Home[r.pend[p].obj] = p /\ k # 0
                          /\ r.ctx[k].fd # 0 /\ r.ctx[k].mode = r.pend[p].mode \ {"PERSIST"} /\ k \notin a.early
    BY Zenon DEF Begins
  <2>1. r.pend[p] = o.pend[p] /\ r.h[o.pend[p].obj] = o.h[o.pend[p].obj]
    BY DEF Stays
  <2>2. PICK k : k = o.h[o.pend[p].obj]
    OBVIOUS
  <2>3. /\ k # 0 /\ o.pend[p].obj \in Shm!Objects /\ Home[o.pend[p].obj] = p
        /\ o.ctx[k].fd # 0 /\ o.ctx[k].mode = o.pend[p].mode \ {"PERSIST"} /\ k \notin a.early
    BY Zenon, <2>1, <2>2 DEF Rest, Begins
  <2>4. k \in Shm!Contexts
    BY Zenon, <2>2, <2>3 DEF Rest, Types
  <2>5. r.ctx[k].fd = o.ctx[k].fd /\ r.ctx[k].mode = o.ctx[k].mode
    BY <2>4 DEF Alike
  <2> QED BY Zenon, <2>1, <2>2, <2>3, <2>5
<1>3. Segments(r, e)
  BY ZenonT(30) DEF Rest, Segments, Alike
<1>4. Owned(r, e, a)
  <2>1. \A k \in Shm!Contexts : r.ctx[k].fd = o.ctx[k].fd /\ r.ctx[k].mode = o.ctx[k].mode /\ r.ctx[k].name = o.ctx[k].name
    BY DEF Alike
  <2> QED BY <2>1 DEF Rest, Owned
<1>5. Sizes(r, e, a)
  <2>1. a.early \subseteq Shm!Contexts
    BY DEF Rest, Types
  <2>2. \A k \in Shm!Contexts : r.ctx[k].fd = o.ctx[k].fd /\ r.ctx[k].size = o.ctx[k].size
    BY DEF Alike
  <2>3. \A p \in Shm!Procs : \A k : Waits(r, p, k) <=> Waits(o, p, k)
    BY DEF Waits, Stays
  <2> QED BY <2>1, <2>2, <2>3, OwnContexts DEF Rest, Sizes
<1>6. After(o, r, a) = a
  <2>1. \A k \in Shm!Contexts : r.ctx[k].fd = o.ctx[k].fd
    BY DEF Alike
  <2>2. a = [early |-> a.early, left |-> a.left] /\ a.early \subseteq Shm!Contexts
    BY DEF Rest, Types
  <2>3. {k \in a.early : r.ctx[k].fd # 0} = a.early
    BY <2>1, <2>2 DEF Rest, Sizes
  <2>4. {n \in Names : \E k \in Shm!Contexts : o.ctx[k].fd # 0 /\ {"CREATE", "PERSIST"} \subseteq o.ctx[k].mode
                                           /\ o.ctx[k].name = n /\ r.ctx[k].fd = 0} = {}
    BY <2>1
  <2> QED BY <2>2, <2>3, <2>4 DEF After
<1> QED BY <1>1, <1>2, <1>3, <1>4, <1>5, <1>6 DEF Rest

Closed(e, c) == IF Shm!Unlinks(c) THEN Shm!unlink_file(e, c) ELSE e

\* What a call leaves that closes one context, and ends the open() in it.
Leaves(o, r, i) ==
    /\ r \in [h : [Shm!Objects -> Shm!Contexts \union {0}], ctx : [Shm!Contexts -> Ctx],
              pend : [Shm!Procs -> [obj : Shm!Objects \union {""}, mode : SUBSET Shm!Flags]]]
    /\ \A p \in Shm!Procs : Waits(o, p, i) => r.pend[p] = Shm!Idle
    /\ \A p \in Shm!Procs : ~Waits(o, p, i) =>
          r.pend[p] = o.pend[p] /\ (o.pend[p] # Shm!Idle => r.h[o.pend[p].obj] = o.h[o.pend[p].obj])
LEMMA CloseRest ==
    ASSUME Shm!Sane, NEW o, NEW e, NEW a, Rest(o, e, a), NEW r, NEW i \in Shm!Contexts, Leaves(o, r, i), r.ctx[i] = [Shm!NoContext EXCEPT !.refs = r.ctx[i].refs],
           \A k \in Shm!Contexts \ {i} : Alike(o.ctx[k], r.ctx[k])
    PROVE  Rest(r, Closed(e, o.ctx[i]), After(o, r, a))
<1> DEFINE c == o.ctx[i]
           f == Closed(e, c)
           b == After(o, r, a)
<1>0. /\ c \in Ctx /\ r.ctx[i].fd = 0 /\ r.ctx[i].map = <<>>
      /\ \A k \in Shm!Contexts \ {i} : r.ctx[k].fd = o.ctx[k].fd /\ r.ctx[k].mode = o.ctx[k].mode /\ r.ctx[k].name = o.ctx[k].name
  BY DEF Rest, Types, Shm!NoContext, Alike
<1>1. Types(r, f, b)
  <2>1. f \in [names : [Names -> 0..MaxSegments], size : [1..MaxSegments -> {0, Size}], count : 0..MaxSegments]
    <3>1. e \in [names : [Names -> 0..MaxSegments], size : [1..MaxSegments -> {0, Size}], count : 0..MaxSegments]
      BY DEF Rest, Types
    <3>2. 0 \in 0..MaxSegments
      BY DEF Shm!Sane
    <3>3. Shm!unlink_file(e, c) \in [names : [Names -> 0..MaxSegments], size : [1..MaxSegments -> {0, Size}], count : 0..MaxSegments]
      BY Zenon, <3>1, <3>2 DEF Shm!unlink_file
    <3> QED BY <3>1, <3>3 DEF Closed
  <2>2. b \in [early : SUBSET Shm!Contexts, left : SUBSET Names]
    BY DEF Rest, Types, After
  <2> QED BY <2>1, <2>2 DEF Types, Leaves
<1>2. Begins(r, b)
  <2> SUFFICES ASSUME NEW p \in Shm!Procs, r.pend[p] # Shm!Idle
               PROVE  LET k == r.h[r.pend[p].obj]
                      IN  /\ r.pend[p].obj \in Shm!Objects /\ Home[r.pend[p].obj] = p /\ k # 0
                          /\ r.ctx[k].fd # 0 /\ r.ctx[k].mode = r.pend[p].mode \ {"PERSIST"} /\ k \notin b.early
    BY Zenon DEF Begins
  <2>0. ~Waits(o, p, i) /\ r.pend[p] = o.pend[p] /\ o.pend[p] # Shm!Idle /\ r.h[o.pend[p].obj] = o.h[o.pend[p].obj]
    BY Zenon DEF Leaves
  <2>1. PICK k : k = o.h[o.pend[p].obj] /\ k # i /\ k # 0 /\ o.pend[p].obj \in Shm!Objects
    BY Zenon, <2>0 DEF Rest, Begins, Waits
  <2>2. k \in Shm!Contexts /\ r.h[r.pend[p].obj] = k /\ r.pend[p] = o.pend[p]
    BY Zenon, <2>0, <2>1 DEF Rest, Types
  <2>3. b.early \subseteq a.early
    BY DEF After
  <2>4. o.ctx[k].fd # 0 /\ o.ctx[k].mode = o.pend[p].mode \ {"PERSIST"} /\ k \notin a.early /\ Home[o.pend[p].obj] = p
    BY Zenon, <2>0, <2>1 DEF Rest, Begins
  <2>5. r.ctx[k].fd = o.ctx[k].fd /\ r.ctx[k].mode = o.ctx[k].mode
    BY <1>0, <2>1, <2>2
  <2> HIDE DEF b
  <2> QED BY Zenon, <2>1, <2>2, <2>3, <2>4, <2>5
<1>3. Segments(r, f)
  <2>1. f.count = e.count /\ \A n \in Names : f.names[n] = e.names[n] \/ f.names[n] = 0
    <3>1. e \in [names : [Names -> 0..MaxSegments], size : [1..MaxSegments -> {0, Size}], count : 0..MaxSegments]
      BY DEF Rest, Types
    <3>2. CASE Shm!Unlinks(c)
      <4>0. f = [e EXCEPT !.names[c.name] = 0]
        BY <3>2 DEF Closed, Shm!unlink_file
      <4>1. f.names = [e.names EXCEPT ![c.name] = 0] /\ f.count = e.count
        <5> HIDE DEF f, c
        <5> QED BY <3>1, <4>0
      <4>2. e.names \in [Names -> 0..MaxSegments]
        BY <3>1
      <4> HIDE DEF f, c
      <4> QED BY <4>1, <4>2
    <3>3. CASE ~Shm!Unlinks(c)
      BY <3>3 DEF Closed
    <3> QED BY <3>2, <3>3, Zenon
  <2>2. e.count \in Nat
    <3>1. e.count \in 0..MaxSegments
      BY DEF Rest, Types
    <3> QED BY <3>1 DEF Shm!Sane
  <2>3. \A k \in Shm!Contexts :
          LET d == r.ctx[k]
          IN  /\ d.fd <= f.count
              /\ d.fd # 0 => d.name \in Names
              /\ d.fd = 0 => d = [Shm!NoContext EXCEPT !.refs = d.refs]
              /\ d.map # <<>> => d.map[1] = d.fd
    <3> SUFFICES ASSUME NEW k \in Shm!Contexts
                 PROVE  /\ r.ctx[k].fd <= f.count
                        /\ r.ctx[k].fd # 0 => r.ctx[k].name \in Names
                        /\ r.ctx[k].fd = 0 => r.ctx[k] = [Shm!NoContext EXCEPT !.refs = r.ctx[k].refs]
                        /\ r.ctx[k].map # <<>> => r.ctx[k].map[1] = r.ctx[k].fd
      BY Zenon
    <3>1. CASE k = i
      BY <1>0, <2>1, <2>2, <3>1
    <3>2. CASE k # i
      <4>1. Alike(o.ctx[k], r.ctx[k])
        BY <3>2
      <4>2. o.ctx[k].fd <= e.count /\ (o.ctx[k].fd # 0 => o.ctx[k].name \in Names)
        BY DEF Rest, Segments
      <4> HIDE DEF f
      <4> QED BY <2>1, <4>1, <4>2 DEF Alike
    <3> QED BY <3>1, <3>2
  <2>4. \A n \in Names : f.names[n] <= f.count
    BY <2>1, <2>2 DEF Rest, Segments
  <2>5. \A m, n \in Names : f.names[m] = f.names[n] /\ f.names[m] # 0 => m = n
    BY <2>1 DEF Rest, Segments
  <2>6. \A j, k \in Shm!Contexts :
          r.ctx[j].fd = r.ctx[k].fd /\ r.ctx[j].fd # 0 /\ "CREATE" \in r.ctx[j].mode /\ "CREATE" \in r.ctx[k].mode => j = k
    BY <1>0 DEF Rest, Segments
  <2> HIDE DEF f, b, c
  <2> QED BY <2>3, <2>4, <2>5, <2>6, Zenon DEF Segments
<1>4. Owned(r, f, b)
  <2>1. \A n \in Names : f.names[n] = IF Shm!Unlinks(c) /\ c.name = n THEN 0 ELSE e.names[n]
    BY DEF Rest, Types, Closed, Shm!unlink_file
  <2>2. ASSUME NEW k \in Shm!Contexts, r.ctx[k].fd # 0, "CREATE" \in r.ctx[k].mode PROVE f.names[r.ctx[k].name] = r.ctx[k].fd
    <3>1. k # i /\ o.ctx[k].fd # 0 /\ "CREATE" \in o.ctx[k].mode /\ r.ctx[k].name = o.ctx[k].name /\ r.ctx[k].fd = o.ctx[k].fd
      BY <1>0, <2>2
    <3>2. e.names[o.ctx[k].name] = o.ctx[k].fd /\ o.ctx[k].name \in Names
      BY <3>1 DEF Rest, Owned, Segments
    <3>3. Shm!Unlinks(c) => e.names[c.name] = c.fd /\ c.fd # 0 /\ "CREATE" \in c.mode
      BY DEF Rest, Owned, Shm!Unlinks
    <3>4. Shm!Unlinks(c) => c.name # o.ctx[k].name
      BY <3>1, <3>2, <3>3 DEF Rest, Segments
    <3> QED BY <2>1, <3>1, <3>2, <3>4
  <2>3. ASSUME NEW n \in Names \ b.left, f.names[n] # 0
        PROVE  \E k \in Shm!Contexts : r.ctx[k].fd = f.names[n] /\ "CREATE" \in r.ctx[k].mode
    <3>1. f.names[n] = e.names[n] /\ ~(Shm!Unlinks(c) /\ c.name = n) /\ n \notin a.left
      BY <2>1, <2>3 DEF After
    <3>2. PICK k \in Shm!Contexts : o.ctx[k].fd = e.names[n] /\ "CREATE" \in o.ctx[k].mode
      BY <2>3, <3>1 DEF Rest, Owned
    <3>3. CASE k # i
      BY <1>0, <3>1, <3>2, <3>3
    <3>4. CASE k = i
      <4>1. c.fd # 0 /\ "CREATE" \in c.mode /\ e.names[c.name] = c.fd /\ c.name \in Names
        BY <2>3, <3>1, <3>2, <3>4 DEF Rest, Owned, Segments
      <4>0. c.name = n
        BY <2>3, <3>1, <3>2, <3>4, <4>1 DEF Rest, Segments
      <4>2. CASE "PERSIST" \in c.mode
        <5>1. c.name \in b.left
          BY <1>0, <4>1, <4>2 DEF After
        <5> QED BY <2>3, <4>0, <5>1
      <4>3. CASE "PERSIST" \notin c.mode
        BY <3>1, <4>0, <4>1, <4>3 DEF Shm!Unlinks
      <4> QED BY <4>2, <4>3
    <3> QED BY <3>3, <3>4
  <2> QED BY <2>2, <2>3 DEF Owned
<1>5. Sizes(r, f, b)
  <2>1. ASSUME NEW k \in b.early PROVE r.ctx[k].fd # 0 /\ r.ctx[k].size = 0
    <3>1. k \in a.early /\ k \in Shm!Contexts /\ r.ctx[k].fd # 0
      BY <2>1 DEF After, Rest, Types
    <3>2. k # i
      BY <1>0, <3>1
    <3> QED BY <3>1, <3>2 DEF Rest, Sizes, Alike
  <2>2. ASSUME NEW p \in Shm!Procs, NEW k \in Slots[p], r.ctx[k].fd # 0, k \notin b.early, ~Waits(r, p, k)
        PROVE  r.ctx[k].size = Size /\ f.size[r.ctx[k].fd] = Size
    <3>1. k \in Shm!Contexts /\ k # i /\ k \notin a.early
      BY <1>0, <2>2, OwnContexts DEF After
    <3>2. ~Waits(o, p, k)
      BY <2>2, <3>1 DEF Waits, Leaves
    <3>3. f.size = e.size
      BY DEF Closed, Shm!unlink_file, Rest, Types
    <3> QED BY Zenon, <2>2, <3>1, <3>2, <3>3 DEF Rest, Sizes, Alike
  <2> QED BY <2>1, <2>2 DEF Sizes
<1> QED BY <1>1, <1>2, <1>3, <1>4, <1>5 DEF Rest

\* What close() makes of a context, and of the system.
LEMMA ContextClosed ==
    ASSUME NEW e, NEW c \in Ctx
    PROVE  /\ Shm!close_context(e, c).ctx = [Shm!NoContext EXCEPT !.refs = c.refs]
           /\ Shm!close_context(e, c).env = Closed(e, c)
           /\ Shm!close_context(e, c).res = IF Shm!Unlinks(c) /\ e.names[c.name] = 0 THEN "IO_ERROR" ELSE "OK"
<1>1. Shm!unmap_context(c) = [c EXCEPT !.map = <<>>]
  BY DEF Shm!unmap_context
<1>2. /\ Shm!unmap_context(c).refs = c.refs /\ Shm!unmap_context(c).name = c.name
      /\ Shm!unmap_context(c).fd = c.fd /\ Shm!unmap_context(c).mode = c.mode
  BY <1>1 DEF Ctx
<1>3. Shm!Unlinks(Shm!unmap_context(c)) = Shm!Unlinks(c) /\ Shm!unlink_file(e, Shm!unmap_context(c)) = Shm!unlink_file(e, c)
  BY <1>2 DEF Shm!Unlinks, Shm!unlink_file
<1> QED BY <1>2, <1>3, Zenon DEF Shm!close_context, Shm!close_file, Closed

\* The fields of what is made of an object.
Fields(o) == o = [h |-> o.h, ctx |-> o.ctx, pend |-> o.pend]
LEMMA SetHandle ==
    ASSUME NEW o, Fields(o), NEW x, NEW j
    PROVE  LET r == [o EXCEPT !.h[x] = j]
           IN  Fields(r) /\ r.h = [o.h EXCEPT ![x] = j] /\ r.ctx = o.ctx /\ r.pend = o.pend
BY DEF Fields
LEMMA SetContext ==
    ASSUME NEW o, Fields(o), NEW k, NEW c
    PROVE  LET r == [o EXCEPT !.ctx[k] = c]
           IN  Fields(r) /\ r.ctx = [o.ctx EXCEPT ![k] = c] /\ r.h = o.h /\ r.pend = o.pend
BY DEF Fields

\* A context with another number of users.
LEMMA ContextRefs ==
    ASSUME NEW c \in Ctx, NEW n \in Nat, NEW d, d = [c EXCEPT !.refs = n]
    PROVE  /\ d \in Ctx /\ d.refs = n
           /\ d.fd = c.fd /\ d.mode = c.mode /\ d.size = c.size /\ d.name = c.name /\ d.map = c.map
BY DEF Ctx

\* What r, with the system in it, is after x has given up its context.
Freed(o, e, x, r) ==
    LET k == o.h[x]
    IN  /\ Fields(r.obj) /\ r.obj.h = [o.h EXCEPT ![x] = 0] /\ r.obj.pend = o.pend
        /\ k = 0 => r.obj.ctx = o.ctx /\ r.env = e
        /\ k # 0 /\ o.ctx[k].refs > 1 => r.obj.ctx = [o.ctx EXCEPT ![k].refs = @ - 1] /\ r.env = e
        /\ k # 0 /\ ~(o.ctx[k].refs > 1) => r.obj.ctx = [o.ctx EXCEPT ![k] = Shm!NoContext] /\ r.env = Shm!close_context(e, o.ctx[k]).env
LEMMA DestroyForm ==
    ASSUME NEW o, Fields(o), NEW e, NEW x
    PROVE  Freed(o, e, x, Shm!Destroy(o, e, x))
<1>1. PICK k, r : k = o.h[x] /\ r = Shm!Destroy(o, e, x)
  OBVIOUS
<1> SUFFICES /\ Fields(r.obj) /\ r.obj.h = [o.h EXCEPT ![x] = 0] /\ r.obj.pend = o.pend
             /\ k = 0 => r.obj.ctx = o.ctx /\ r.env = e
             /\ k # 0 /\ o.ctx[k].refs > 1 => r.obj.ctx = [o.ctx EXCEPT ![k].refs = @ - 1] /\ r.env = e
             /\ k # 0 /\ ~(o.ctx[k].refs > 1) => r.obj.ctx = [o.ctx EXCEPT ![k] = Shm!NoContext] /\ r.env = Shm!close_context(e, o.ctx[k]).env
  BY <1>1 DEF Freed
<1>3. ASSUME NEW w, NEW f, Shm!release_context(o, e, x) = [obj |-> w, env |-> f], Fields(w)
      PROVE  Fields(r.obj) /\ r.obj.h = [w.h EXCEPT ![x] = 0] /\ r.obj.pend = w.pend /\ r.obj.ctx = w.ctx /\ r.env = f
  <2>1. r = [[obj |-> w, env |-> f] EXCEPT !.obj.h[x] = 0]
    BY <1>1, <1>3, Zenon DEF Shm!Destroy
  <2>2. r.obj = [w EXCEPT !.h[x] = 0] /\ r.env = f
    BY <2>1
  <2> QED BY <1>3, <2>2, SetHandle
<1>4. CASE k = 0
  <2>1. Shm!release_context(o, e, x) = [obj |-> o, env |-> e]
    BY <1>1, <1>4 DEF Shm!release_context
  <2> QED BY <1>3, <1>4, <2>1
<1>5. CASE k # 0 /\ o.ctx[k].refs > 1
  <2>1. PICK w : w = [o EXCEPT !.ctx[k].refs = @ - 1]
    OBVIOUS
  <2>2. Shm!release_context(o, e, x) = [obj |-> w, env |-> e]
    BY <1>1, <1>5, <2>1, Zenon DEF Shm!release_context
  <2>3. Fields(w) /\ w.ctx = [o.ctx EXCEPT ![k].refs = @ - 1] /\ w.h = o.h /\ w.pend = o.pend
    BY <2>1 DEF Fields
  <2> QED BY <1>3, <1>5, <2>2, <2>3
<1>6. CASE k # 0 /\ ~(o.ctx[k].refs > 1)
  <2>1. PICK w : w = [o EXCEPT !.ctx[k] = Shm!NoContext, !.h[x] = 0]
    OBVIOUS
  <2>2. Shm!release_context(o, e, x) = [obj |-> w, env |-> Shm!close_context(e, o.ctx[k]).env]
    BY <1>1, <1>6, <2>1, Zenon DEF Shm!release_context
  <2>3. Fields(w) /\ w.ctx = [o.ctx EXCEPT ![k] = Shm!NoContext] /\ w.h = [o.h EXCEPT ![x] = 0] /\ w.pend = o.pend
    BY <2>1 DEF Fields
  <2>4. [w.h EXCEPT ![x] = 0] = [o.h EXCEPT ![x] = 0]
    BY <2>3
  <2> QED BY <1>3, <1>6, <2>2, <2>3, <2>4
<1> QED BY <1>4, <1>5, <1>6

\* What the types say of an object and of its context.
Contexted(o, x) == o.h[x] # 0 => o.h[x] \in Shm!Contexts /\ o.ctx[o.h[x]] \in Ctx
LEMMA SoundTypes ==
    ASSUME Shm!Sane, NEW o, NEW e, NEW a, Sound(o, e, a)
    PROVE  /\ Fields(o) /\ o.h \in [Shm!Objects -> Shm!Contexts \union {0}] /\ o.ctx \in [Shm!Contexts -> Ctx]
           /\ o.pend \in [Shm!Procs -> [obj : Shm!Objects \union {""}, mode : SUBSET Shm!Flags]]
           /\ \A x \in Shm!Objects : Contexted(o, x)
           /\ \A k \in Shm!Contexts : o.ctx[k] \in Ctx /\ Alike(o.ctx[k], o.ctx[k])
           /\ \A p \in Shm!Procs : o.pend[p] # Shm!Idle => o.pend[p].obj \in Shm!Objects /\ Home[o.pend[p].obj] = p
<1>1. /\ Fields(o) /\ o.h \in [Shm!Objects -> Shm!Contexts \union {0}] /\ o.ctx \in [Shm!Contexts -> Ctx]
      /\ o.pend \in [Shm!Procs -> [obj : Shm!Objects \union {""}, mode : SUBSET Shm!Flags]]
  BY DEF Sound, Rest, Types, Fields
<1>2. \A k \in Shm!Contexts : o.ctx[k] \in Ctx /\ Alike(o.ctx[k], o.ctx[k])
  BY <1>1 DEF Sound, Rest, Segments, Alike
<1>3. \A p \in Shm!Procs : o.pend[p] # Shm!Idle => o.pend[p].obj \in Shm!Objects /\ Home[o.pend[p].obj] = p
  BY DEF Sound, Rest, Begins
<1> QED BY Zenon, <1>1, <1>2, <1>3 DEF Contexted
\* While a process is not in open(), nothing waits for a context of its objects.
LEMMA NobodyWaits ==
    ASSUME Shm!Sane, NEW o, NEW e, NEW a, Sound(o, e, a), NEW x \in Shm!Objects, o.pend[Home[x]] = Shm!Idle, o.h[x] # 0
    PROVE  \A p \in Shm!Procs : ~Waits(o, p, o.h[x])
<1>1. PICK k : k = o.h[x]
  OBVIOUS
<1> SUFFICES ASSUME NEW p \in Shm!Procs, Waits(o, p, k) PROVE FALSE
  BY <1>1
<1>2. PICK y \in Shm!Objects : Home[y] = p /\ o.h[y] = k
  BY SoundTypes DEF Waits
<1>3. Home[x] = p
  BY <1>1, <1>2, OwnContexts DEF Sound, Counted
<1> QED BY <1>3 DEF Waits

\* An object gives up its context: one of several users leaves it to the
\* others, the last one closes it.
LEMMA Destroyed ==
    ASSUME Shm!Sane, NEW o, NEW e, NEW a, Sound(o, e, a), NEW x \in Shm!Objects, o.pend[Home[x]] = Shm!Idle
    PROVE  LET r == Shm!Destroy(o, e, x)
           IN  /\ Sound(r.obj, r.env, After(o, r.obj, a))
               /\ r.obj.h[x] = 0 /\ r.obj.pend = o.pend
               /\ \A y \in Shm!Objects \ {x} : r.obj.h[y] = o.h[y]
<1>1. PICK k, c, r, w : k = o.h[x] /\ c = o.ctx[k] /\ r = Shm!Destroy(o, e, x) /\ w = r.obj
  OBVIOUS
<1>h. o.h \in [Shm!Objects -> Shm!Contexts \union {0}]
  BY SoundTypes, Zenon
<1>c. o.ctx \in [Shm!Contexts -> Ctx]
  BY SoundTypes, Zenon
<1>p. o.pend \in [Shm!Procs -> [obj : Shm!Objects \union {""}, mode : SUBSET Shm!Flags]]
  BY SoundTypes, Zenon
<1>2. /\ Fields(o)
      /\ k # 0 => k \in Shm!Contexts /\ c \in Ctx
      /\ \A j \in Shm!Contexts : o.ctx[j] \in Ctx /\ Alike(o.ctx[j], o.ctx[j])
      /\ \A p \in Shm!Procs : o.pend[p] # Shm!Idle => o.pend[p].obj \in Shm!Objects /\ Home[o.pend[p].obj] = p
  BY <1>1, SoundTypes DEF Contexted
<1>3. /\ Fields(w) /\ w.h = [o.h EXCEPT ![x] = 0] /\ w.pend = o.pend
      /\ k = 0 => w.ctx = o.ctx /\ r.env = e
      /\ k # 0 /\ c.refs > 1 => w.ctx = [o.ctx EXCEPT ![k].refs = @ - 1] /\ r.env = e
      /\ k # 0 /\ ~(c.refs > 1) => w.ctx = [o.ctx EXCEPT ![k] = Shm!NoContext] /\ r.env = Shm!close_context(e, c).env
  <2>1. Freed(o, e, x, r)
    BY <1>1, <1>2, DestroyForm, Zenon
  <2> QED BY <1>1, <2>1 DEF Freed
<1>4. w.h[x] = 0 /\ \A y \in Shm!Objects \ {x} : w.h[y] = o.h[y]
  BY <1>h, <1>3
<1>5. ASSUME w.ctx \in [Shm!Contexts -> Ctx] PROVE Stays(o, w)
  <2>1. w.h \in [Shm!Objects -> Shm!Contexts \union {0}]
    BY <1>h, <1>3
  <2>2. w \in [h : [Shm!Objects -> Shm!Contexts \union {0}], ctx : [Shm!Contexts -> Ctx],
               pend : [Shm!Procs -> [obj : Shm!Objects \union {""}, mode : SUBSET Shm!Flags]]]
    BY <1>p, <1>3, <1>5, <2>1 DEF Fields
  <2>3. ASSUME NEW p \in Shm!Procs, o.pend[p] # Shm!Idle PROVE w.h[o.pend[p].obj] = o.h[o.pend[p].obj]
    BY <1>2, <1>4, <2>3
  <2> QED BY <1>3, <2>2, <2>3 DEF Stays
<1>6. k # 0 => /\ Cardinality(Users(w, k)) = Cardinality(Users(o, k)) - 1
               /\ \A j \in Shm!Contexts : j # k => Users(w, j) = Users(o, j)
  <2> SUFFICES ASSUME k # 0 PROVE /\ Cardinality(Users(w, k)) = Cardinality(Users(o, k)) - 1
                                  /\ \A j \in Shm!Contexts : j # k => Users(w, j) = Users(o, j)
    OBVIOUS
  <2>1. Cardinality(Users(w, k)) = Cardinality(Users(o, k)) - 1 /\ \A j : j # k /\ j # 0 => Users(w, j) = Users(o, j)
    <3>1. o.h[x] = k /\ w.h[x] = 0 /\ OthersKeep(o, w, x)
      BY <1>1, <1>4 DEF OthersKeep
    <3>2. UsersMove(o, w, o.h[x], w.h[x])
      BY <3>1, Moved
    <3> QED BY <3>1, <3>2 DEF UsersMove
  <2> QED BY <2>1, OwnContexts
<1>7. Counted(o) /\ Rest(o, e, a)
  BY DEF Sound
<1>8. Sound(w, r.env, After(o, w, a))
  <2>1. CASE k = 0
    <3>1. Stays(o, w) /\ \A j \in Shm!Contexts : Alike(o.ctx[j], w.ctx[j])
      BY <1>c, <1>2, <1>3, <1>5, <2>1
    <3>2. Rest(w, e, a) /\ After(o, w, a) = a
      BY <1>7, <3>1, SameRest
    <3>3. \A j \in Shm!Contexts : Users(w, j) = Users(o, j)
      BY <1>1, <1>4, <2>1 DEF Users
    <3>4. Counted(w)
      BY <1>3, <1>4, <1>7, <2>1, <3>3 DEF Counted
    <3> QED BY <1>3, <2>1, <3>2, <3>4 DEF Sound
  <2>2. CASE k # 0 /\ c.refs > 1
    <3>1. k \in Shm!Contexts /\ c \in Ctx /\ c = o.ctx[k]
      BY <1>1, <1>2, <2>2
    <3>2. PICK d : d = [c EXCEPT !.refs = c.refs - 1]
      OBVIOUS
    <3>3. d \in Ctx /\ d.refs = c.refs - 1
      <4>1. c.refs \in Nat
        BY <3>1 DEF Ctx
      <4>2. c.refs - 1 \in Nat
        BY <2>2, <4>1
      <4> QED BY <3>1, <3>2, <4>2, ContextRefs
    <3>4. w.ctx[k] = d /\ w.ctx \in [Shm!Contexts -> Ctx] /\ \A j \in Shm!Contexts : j # k => w.ctx[j] = o.ctx[j]
      <4>1. w.ctx = [o.ctx EXCEPT ![k] = d]
        BY <1>c, <1>3, <2>2, <3>1, <3>2
      <4> QED BY <1>c, <3>1, <3>3, <4>1
    <3>5. Alike(c, d)
      BY ZenonT(30), <1>2, <3>1, <3>2, <3>3 DEF Alike, Ctx, Shm!NoContext
    <3>6. \A j \in Shm!Contexts : Alike(o.ctx[j], w.ctx[j])
      BY <1>2, <3>1, <3>4, <3>5
    <3>7. Rest(w, e, a) /\ After(o, w, a) = a
      BY <1>5, <1>7, <3>4, <3>6, SameRest
    <3>8. Counted(w)
      <4>0. c.refs \in Nat
        BY <3>1 DEF Ctx
      <4>1. d.refs # 0
        BY <2>2, <3>3, <4>0
      <4> QED BY <1>4, <1>6, <1>7, <2>2, <3>1, <3>3, <3>4, <4>1 DEF Counted
    <3> QED BY <1>3, <2>2, <3>7, <3>8 DEF Sound
  <2>3. CASE k # 0 /\ ~(c.refs > 1)
    <3>1. k \in Shm!Contexts /\ c \in Ctx /\ c = o.ctx[k]
      BY <1>1, <1>2, <2>3
    <3>2. Shm!NoContext \in Ctx /\ Shm!NoContext = [Shm!NoContext EXCEPT !.refs = Shm!NoContext.refs]
      <4>1. 0 \in 0..MaxSegments /\ 0 \in Nat
        BY DEF Shm!Sane
      <4> QED BY <4>1 DEF Ctx, Shm!NoContext
    <3>3. w.ctx[k] = Shm!NoContext /\ w.ctx \in [Shm!Contexts -> Ctx] /\ \A j \in Shm!Contexts : j # k => w.ctx[j] = o.ctx[j]
      BY <1>c, <1>3, <2>3, <3>1, <3>2
    <3>4. \A p \in Shm!Procs : ~Waits(o, p, k)
      BY <1>1, <2>3, NobodyWaits
    <3>5. Rest(w, Closed(e, c), After(o, w, a))
      <4>1. \A j \in Shm!Contexts \ {k} : Alike(o.ctx[j], w.ctx[j])
        BY <1>2, <3>3
      <4>2. Leaves(o, w, k)
        BY <1>5, <3>3, <3>4 DEF Stays, Leaves
      <4> QED BY <1>7, <3>1, <3>2, <3>3, <4>1, <4>2, CloseRest
    <3>6. Closed(e, c) = r.env
      BY Zenon, <1>3, <2>3, <3>1, ContextClosed
    <3>7. Counted(w)
      <4>1. Cardinality(Users(o, k)) = c.refs /\ c.refs \in Nat /\ Cardinality(Users(w, k)) \in Nat
        BY <1>7, <3>1, UsersFinite DEF Counted, Ctx
      <4>2. Cardinality(Users(w, k)) = 0 /\ w.ctx[k].refs = 0 /\ w.ctx[k].fd = 0
        <5>1. Shm!NoContext.refs = 0 /\ Shm!NoContext.fd = 0
          BY DEF Shm!NoContext
        <5> QED BY <1>6, <2>3, <3>3, <4>1, <5>1
      <4> QED BY <1>4, <1>6, <1>7, <2>3, <3>1, <3>3, <4>2 DEF Counted
    <3> QED BY <3>5, <3>6, <3>7 DEF Sound
  <2> QED BY <2>1, <2>2, <2>3
<1> QED BY <1>1, <1>3, <1>4, <1>8, Zenon

\* A call that changes only who uses what.
Reused(o, w) ==
    /\ Fields(w) /\ w.pend = o.pend
    /\ w.h \in [Shm!Objects -> Shm!Contexts \union {0}] /\ w.ctx \in [Shm!Contexts -> Ctx]
    /\ \A k \in Shm!Contexts : \E n \in Nat : w.ctx[k] = [o.ctx[k] EXCEPT !.refs = n]
    /\ \A p \in Shm!Procs : o.pend[p] # Shm!Idle => w.h[o.pend[p].obj] = o.h[o.pend[p].obj]
LEMMA SameContexts ==
    ASSUME Shm!Sane, NEW o, NEW e, NEW a, Sound(o, e, a), NEW w, Reused(o, w), Counted(w)
    PROVE  Sound(w, e, a) /\ \A k \in Shm!Contexts : w.ctx[k].fd = o.ctx[k].fd
<1>1. o.pend \in [Shm!Procs -> [obj : Shm!Objects \union {""}, mode : SUBSET Shm!Flags]]
  BY SoundTypes, Zenon
<1>2. Stays(o, w)
  BY <1>1 DEF Stays, Fields, Reused
<1>3. ASSUME NEW k \in Shm!Contexts PROVE Alike(o.ctx[k], w.ctx[k])
  <2>1. PICK n \in Nat : w.ctx[k] = [o.ctx[k] EXCEPT !.refs = n]
    BY DEF Reused
  <2>2. PICK c : c = o.ctx[k] /\ c \in Ctx /\ Alike(c, c)
    BY SoundTypes
  <2>3. PICK d : d = w.ctx[k] /\ d = [c EXCEPT !.refs = n]
    BY <2>1, <2>2
  <2>4. /\ d \in Ctx /\ d.refs = n
        /\ d.fd = c.fd /\ d.mode = c.mode /\ d.size = c.size /\ d.name = c.name /\ d.map = c.map
    BY <2>2, <2>3, ContextRefs
  <2>5. c.fd = 0 => d = [Shm!NoContext EXCEPT !.refs = d.refs]
    BY <2>2, <2>3, <2>4 DEF Alike, Shm!NoContext
  <2>6. Alike(c, d)
    BY <2>2, <2>4, <2>5 DEF Alike
  <2> QED BY <2>2, <2>3, <2>6
<1>4. Rest(w, e, a)
  BY <1>2, <1>3, SameRest DEF Sound
<1> QED BY <1>3, <1>4 DEF Sound, Alike

\* A copy: one user more.
LEMMA Copied ==
    ASSUME Shm!Sane, NEW o, NEW e, NEW a, Sound(o, e, a), NEW x \in Shm!Objects, NEW g \in Shm!Objects,
           Home[x] = Home[g], o.pend[Home[x]] = Shm!Idle, o.h[x] = 0, NEW w, w = Shm!SharedMem(o, x, g)
    PROVE  Sound(w, e, a) /\ \A k \in Shm!Contexts : w.ctx[k].fd = o.ctx[k].fd
<1>1. PICK k : k = o.h[g]
  OBVIOUS
<1>2. Fields(o) /\ (k # 0 => k \in Shm!Contexts /\ o.ctx[k] \in Ctx)
  BY <1>1, SoundTypes DEF Contexted
<1>h. o.h \in [Shm!Objects -> Shm!Contexts \union {0}]
  BY SoundTypes, Zenon
<1>c. o.ctx \in [Shm!Contexts -> Ctx]
  BY SoundTypes, Zenon
<1>p. \A p \in Shm!Procs : o.pend[p] # Shm!Idle => o.pend[p].obj \in Shm!Objects /\ Home[o.pend[p].obj] = p
  BY SoundTypes, Zenon
<1>3. ASSUME NEW i \in Shm!Contexts PROVE \E n \in Nat : o.ctx[i] = [o.ctx[i] EXCEPT !.refs = n]
  <2>1. o.ctx[i] \in Ctx
    BY <1>c
  <2>2. o.ctx[i].refs \in Nat /\ o.ctx[i] = [o.ctx[i] EXCEPT !.refs = o.ctx[i].refs]
    BY <2>1 DEF Ctx
  <2> QED BY <2>2
<1>4. CASE k = 0
  <2>1. w = [o EXCEPT !.h[x] = 0]
    BY <1>1, <1>4 DEF Shm!SharedMem
  <2>2. Fields(w) /\ w.h = [o.h EXCEPT ![x] = 0] /\ w.ctx = o.ctx /\ w.pend = o.pend
    BY <1>2, <2>1 DEF Fields
  <2>3. w.h = o.h
    BY <1>h, <2>2
  <2>4. w = o
    BY <1>2, <2>2, <2>3 DEF Fields
  <2> QED BY <2>4
<1>5. CASE k # 0
  <2>1. w = [o EXCEPT !.h[x] = k, !.ctx[k].refs = @ + 1]
    BY <1>1, <1>5 DEF Shm!SharedMem
  <2>2. Fields(w) /\ w.h = [o.h EXCEPT ![x] = k] /\ w.ctx = [o.ctx EXCEPT ![k].refs = @ + 1] /\ w.pend = o.pend
    BY <1>2, <2>1 DEF Fields
  <2>3. PICK c, d : c = o.ctx[k] /\ d = [c EXCEPT !.refs = c.refs + 1]
    OBVIOUS
  <2>4. c.refs \in Nat /\ c.refs + 1 \in Nat /\ c \in Ctx
    <3>1. c \in Ctx
      BY <1>2, <1>5, <2>3
    <3>2. c.refs \in Nat
      BY <3>1 DEF Ctx
    <3> QED BY <3>1, <3>2
  <2>5. d \in Ctx /\ d.refs = c.refs + 1
    BY <2>3, <2>4, ContextRefs
  <2>6. w.ctx[k] = d /\ w.ctx \in [Shm!Contexts -> Ctx] /\ \A i \in Shm!Contexts : i # k => w.ctx[i] = o.ctx[i]
    <3>1. w.ctx = [o.ctx EXCEPT ![k] = d]
      BY <1>2, <1>5, <1>c, <2>2, <2>3
    <3> QED BY <1>2, <1>5, <1>c, <2>5, <3>1
  <2>7. w.h[x] = k /\ (\A y \in Shm!Objects \ {x} : w.h[y] = o.h[y]) /\ w.h \in [Shm!Objects -> Shm!Contexts \union {0}]
    BY <1>2, <1>5, <1>h, <2>2
  <2>8. /\ Cardinality(Users(w, k)) = Cardinality(Users(o, k)) + 1
        /\ \A j : j # 0 /\ j # k => Users(w, j) = Users(o, j)
    <3>1. o.h[x] = 0 /\ w.h[x] = k /\ OthersKeep(o, w, x)
      BY <2>7 DEF OthersKeep
    <3>2. UsersMove(o, w, o.h[x], w.h[x])
      BY <1>5, <3>1, Moved
    <3> QED BY <3>1, <3>2 DEF UsersMove
  <2>9. Counted(w)
    <3>1. \A y \in Shm!Objects : w.h[y] # 0 => w.h[y] \in Slots[Home[y]]
      BY <1>1, <1>5, <2>7 DEF Sound, Counted
    <3>2. \A j \in Shm!Contexts : w.ctx[j].refs = Cardinality(Users(w, j))
      BY <1>2, <1>5, <2>3, <2>5, <2>6, <2>8, OwnContexts DEF Sound, Counted
    <3>3. \A j \in Shm!Contexts : w.ctx[j].refs = 0 => w.ctx[j].fd = 0
      <4>1. d.refs # 0
        BY <2>4, <2>5
      <4> QED BY <1>2, <1>5, <2>6, <4>1 DEF Sound, Counted
    <3> QED BY <3>1, <3>2, <3>3 DEF Counted
  <2>10. \A i \in Shm!Contexts : \E n \in Nat : w.ctx[i] = [o.ctx[i] EXCEPT !.refs = n]
    BY <1>3, <2>3, <2>4, <2>6
  <2>11. \A p \in Shm!Procs : o.pend[p] # Shm!Idle => w.h[o.pend[p].obj] = o.h[o.pend[p].obj]
    BY <1>p, <2>7
  <2>12. Reused(o, w)
    BY <2>2, <2>6, <2>7, <2>10, <2>11 DEF Reused
  <2> QED BY <2>9, <2>12, SameContexts
<1> QED BY <1>4, <1>5

\* A move: the same users but one, which is another.
LEMMA MovedOver ==
    ASSUME Shm!Sane, NEW o, NEW e, NEW a, Sound(o, e, a), NEW x \in Shm!Objects, NEW g \in Shm!Objects, x # g,
           Home[x] = Home[g], o.pend[Home[x]] = Shm!Idle, o.h[x] = 0,
           NEW w, Fields(w), w.pend = o.pend, w.ctx = o.ctx, w.h = [o.h EXCEPT ![x] = o.h[g], ![g] = 0]
    PROVE  Sound(w, e, a) /\ \A k \in Shm!Contexts : w.ctx[k].fd = o.ctx[k].fd
<1>1. PICK k : k = o.h[g]
  OBVIOUS
<1>h. o.h \in [Shm!Objects -> Shm!Contexts \union {0}]
  BY SoundTypes, Zenon
<1>c. o.ctx \in [Shm!Contexts -> Ctx]
  BY SoundTypes, Zenon
<1>p. \A p \in Shm!Procs : o.pend[p] # Shm!Idle => o.pend[p].obj \in Shm!Objects /\ Home[o.pend[p].obj] = p
  BY SoundTypes, Zenon
<1>3. ASSUME NEW i \in Shm!Contexts PROVE \E n \in Nat : o.ctx[i] = [o.ctx[i] EXCEPT !.refs = n]
  <2>1. o.ctx[i] \in Ctx
    BY <1>c
  <2>2. o.ctx[i].refs \in Nat /\ o.ctx[i] = [o.ctx[i] EXCEPT !.refs = o.ctx[i].refs]
    BY <2>1 DEF Ctx
  <2> QED BY <2>2
<1>4. /\ w.h[x] = k /\ w.h[g] = 0 /\ \A y \in Shm!Objects : y # x /\ y # g => w.h[y] = o.h[y]
      /\ w.h \in [Shm!Objects -> Shm!Contexts \union {0}]
  BY <1>1, <1>h
<1>5. \A j \in Shm!Contexts : Cardinality(Users(w, j)) = Cardinality(Users(o, j))
  <2>1. CASE k = 0
    <3>1. \A j : Users(w, j) = Users(o, j)
      BY <1>1, <1>4, <2>1 DEF Users
    <3> QED BY <3>1
  <2>2. CASE k # 0
    <3>1. PICK v : v = [h |-> [o.h EXCEPT ![g] = 0]]
      OBVIOUS
    <3>2. o.h[g] = k /\ v.h[g] = 0 /\ OthersKeep(o, v, g)
      BY <1>1, <1>h, <3>1 DEF OthersKeep
    <3>3. UsersMove(o, v, k, 0)
      BY <2>2, <3>2, Moved
    <3>4. v.h[x] = 0 /\ w.h[x] = k /\ OthersKeep(v, w, x)
      BY <1>4, <3>2 DEF OthersKeep
    <3>5. UsersMove(v, w, 0, k)
      <4>1. UsersMove(v, w, v.h[x], w.h[x])
        BY <2>2, <3>4, Moved
      <4> QED BY <3>4, <4>1
    <3>6. Cardinality(Users(o, k)) \in Nat
      BY UsersFinite
    <3> QED BY <3>3, <3>5, <3>6, OwnContexts DEF UsersMove
  <2> QED BY <2>1, <2>2
<1>6. Counted(w)
  <2>1. \A y \in Shm!Objects : w.h[y] # 0 => w.h[y] \in Slots[Home[y]]
    BY <1>1, <1>4 DEF Sound, Counted
  <2> QED BY <1>5, <2>1 DEF Sound, Counted
<1>7. \A p \in Shm!Procs : o.pend[p] # Shm!Idle => w.h[o.pend[p].obj] = o.h[o.pend[p].obj]
  BY <1>p, <1>4
<1>8. Reused(o, w)
  BY <1>3, <1>4, <1>7, <1>c DEF Reused
<1> QED BY <1>6, <1>8, SameContexts

\* What release_context() leaves before the object is given anything else.
Released(o, e, x, r, d) ==
    /\ r = [obj |-> r.obj, env |-> r.env] /\ Fields(r.obj) /\ r.obj.pend = o.pend
    /\ d.obj = [r.obj EXCEPT !.h[x] = 0] /\ d.env = r.env
    /\ o.h[x] = 0 => r.obj = o /\ r.env = e
    /\ o.h[x] # 0 /\ o.ctx[o.h[x]].refs > 1 => r.obj = [o EXCEPT !.ctx[o.h[x]].refs = @ - 1] /\ r.env = e
    /\ o.h[x] # 0 /\ ~(o.ctx[o.h[x]].refs > 1) => r.obj = [o EXCEPT !.ctx[o.h[x]] = Shm!NoContext, !.h[x] = 0]
LEMMA ReleaseForm ==
    ASSUME NEW o, Fields(o), NEW e, NEW x
    PROVE  Released(o, e, x, Shm!release_context(o, e, x), Shm!Destroy(o, e, x))
<1>0. PICK k, r, d : k = o.h[x] /\ r = Shm!release_context(o, e, x) /\ d = Shm!Destroy(o, e, x)
  OBVIOUS
<1> SUFFICES /\ r = [obj |-> r.obj, env |-> r.env] /\ Fields(r.obj) /\ r.obj.pend = o.pend
             /\ d.obj = [r.obj EXCEPT !.h[x] = 0] /\ d.env = r.env
             /\ k = 0 => r.obj = o /\ r.env = e
             /\ k # 0 /\ o.ctx[k].refs > 1 => r.obj = [o EXCEPT !.ctx[k].refs = @ - 1] /\ r.env = e
             /\ k # 0 /\ ~(o.ctx[k].refs > 1) => r.obj = [o EXCEPT !.ctx[k] = Shm!NoContext, !.h[x] = 0]
  BY <1>0 DEF Released
<1>1. d = [r EXCEPT !.obj.h[x] = 0]
  BY <1>0, Zenon DEF Shm!Destroy
<1>2. ASSUME NEW w, NEW f, r = [obj |-> w, env |-> f], Fields(w)
      PROVE  r = [obj |-> r.obj, env |-> r.env] /\ r.obj = w /\ r.env = f /\ d.obj = [w EXCEPT !.h[x] = 0] /\ d.env = f
  <2>1. d = [[obj |-> w, env |-> f] EXCEPT !.obj.h[x] = 0]
    BY <1>1, <1>2, Zenon
  <2> QED BY <1>2, <2>1
<1>3. CASE k = 0
  <2>1. r = [obj |-> o, env |-> e]
    BY <1>0, <1>3, Zenon DEF Shm!release_context
  <2> QED BY <1>2, <1>3, <2>1
<1>4. CASE k # 0 /\ o.ctx[k].refs > 1
  <2>1. PICK w : w = [o EXCEPT !.ctx[k].refs = @ - 1]
    OBVIOUS
  <2>2. r = [obj |-> w, env |-> e]
    BY <1>0, <1>4, <2>1, Zenon DEF Shm!release_context
  <2>3. Fields(w) /\ w.pend = o.pend
    BY <2>1 DEF Fields
  <2> QED BY <1>2, <1>4, <2>1, <2>2, <2>3
<1>5. CASE k # 0 /\ ~(o.ctx[k].refs > 1)
  <2>1. PICK w : w = [o EXCEPT !.ctx[k] = Shm!NoContext, !.h[x] = 0]
    OBVIOUS
  <2>2. r = [obj |-> w, env |-> Shm!close_context(e, o.ctx[k]).env]
    BY <1>0, <1>5, <2>1, Zenon DEF Shm!release_context
  <2>3. Fields(w) /\ w.pend = o.pend
    BY <2>1 DEF Fields
  <2> QED BY <1>2, <1>5, <2>1, <2>2, <2>3
<1> QED BY <1>3, <1>4, <1>5

\* The account depends on what is open only.
LEMMA AfterSame ==
    ASSUME Shm!Sane, NEW o, NEW e, NEW a, Sound(o, e, a), NEW v, NEW w, \A k \in Shm!Contexts : w.ctx[k].fd = v.ctx[k].fd
    PROVE  After(o, w, a) = After(o, v, a)
<1>1. a.early \subseteq Shm!Contexts
  BY DEF Sound, Rest, Types
<1> QED BY <1>1 DEF After

LEMMA AfterNothing ==
    ASSUME Shm!Sane, NEW o, NEW e, NEW a, Sound(o, e, a)
    PROVE  After(o, o, a) = a
<1>1. Stays(o, o)
  BY DEF Sound, Rest, Types, Stays
<1>2. \A k \in Shm!Contexts : Alike(o.ctx[k], o.ctx[k])
  BY SoundTypes
<1> QED BY <1>1, <1>2, SameRest DEF Sound

\* The copy assignment: the old context is given up as by the destructor, and
\* then there is one user more of the other's.
LEMMA AssignedCopy ==
    ASSUME Shm!Sane, NEW o, NEW e, NEW a, Sound(o, e, a), NEW x \in Shm!Objects, NEW g \in Shm!Objects,
           Home[x] = Home[g], o.pend[Home[x]] = Shm!Idle, NEW s, s = Shm!AssignCopy(o, e, x, g)
    PROVE  Sound(s.obj, s.env, After(o, s.obj, a))
<1>1. PICK r, d : r = Shm!release_context(o, e, x) /\ d = Shm!Destroy(o, e, x)
  OBVIOUS
<1>2. Fields(o)
  BY SoundTypes
<1>3. /\ r = [obj |-> r.obj, env |-> r.env] /\ Fields(r.obj) /\ r.obj.pend = o.pend
      /\ d.obj = [r.obj EXCEPT !.h[x] = 0] /\ d.env = r.env
      /\ o.h[x] = 0 => r.obj = o /\ r.env = e
      /\ o.h[x] # 0 /\ o.ctx[o.h[x]].refs > 1 => r.obj = [o EXCEPT !.ctx[o.h[x]].refs = @ - 1] /\ r.env = e
      /\ o.h[x] # 0 /\ ~(o.ctx[o.h[x]].refs > 1) => r.obj = [o EXCEPT !.ctx[o.h[x]] = Shm!NoContext, !.h[x] = 0]
  <2>1. Released(o, e, x, r, d)
    BY <1>1, <1>2, ReleaseForm, Zenon
  <2> QED BY <2>1 DEF Released
<1>4. /\ Sound(d.obj, d.env, After(o, d.obj, a)) /\ d.obj.h[x] = 0 /\ d.obj.pend = o.pend
      /\ \A y \in Shm!Objects \ {x} : d.obj.h[y] = o.h[y]
  BY <1>1, Destroyed
<1>5. s = [obj |-> Shm!SharedMem(r.obj, x, g), env |-> r.env]
  BY <1>1, Zenon DEF Shm!AssignCopy
<1>6. CASE g # x
  <2>1. Fields(d.obj) /\ d.obj.h = [r.obj.h EXCEPT ![x] = 0] /\ d.obj.ctx = r.obj.ctx /\ d.obj.pend = r.obj.pend
    BY <1>3 DEF Fields
  <2>2. d.obj.h[g] = r.obj.h[g]
    BY <1>6, <2>1
  <2>3. Shm!SharedMem(r.obj, x, g) = Shm!SharedMem(d.obj, x, g)
    <3>1. PICK k : k = r.obj.h[g] /\ k = d.obj.h[g]
      BY <2>2
    <3>2. [r.obj EXCEPT !.h[x] = 0] = [d.obj EXCEPT !.h[x] = 0]
      BY <1>3, <2>1 DEF Fields
    <3>3. [r.obj EXCEPT !.h[x] = k, !.ctx[k].refs = @ + 1] = [d.obj EXCEPT !.h[x] = k, !.ctx[k].refs = @ + 1]
      BY <1>3, <2>1 DEF Fields
    <3> QED BY <3>1, <3>2, <3>3, Zenon DEF Shm!SharedMem
  <2>4. Sound(s.obj, s.env, After(o, d.obj, a)) /\ \A k \in Shm!Contexts : s.obj.ctx[k].fd = d.obj.ctx[k].fd
    <3>1. s.obj = Shm!SharedMem(d.obj, x, g) /\ s.env = d.env /\ d.obj.pend[Home[x]] = Shm!Idle
      BY <1>3, <1>4, <1>5, <2>3
    <3> QED BY <1>4, <3>1, Copied
  <2> QED BY <2>4, AfterSame
<1>7. CASE g = x /\ r.obj.h[x] = 0
  <2>1. s.obj = d.obj /\ s.env = d.env
    BY <1>3, <1>5, <1>7 DEF Shm!SharedMem
  <2> QED BY <1>4, <2>1
<1>8. CASE g = x /\ r.obj.h[x] # 0
  <2>1. PICK k : k = o.h[x] /\ k # 0
    BY <1>2, <1>3, <1>8 DEF Fields
  <2>2. k \in Shm!Contexts /\ o.ctx[k] \in Ctx
    BY <2>1, SoundTypes DEF Contexted
  <2>3. o.h \in [Shm!Objects -> Shm!Contexts \union {0}]
    BY SoundTypes, Zenon
  <2>4. o.ctx \in [Shm!Contexts -> Ctx]
    BY SoundTypes, Zenon
  <2>5. r.obj = [o EXCEPT !.ctx[k].refs = @ - 1] /\ r.env = e
    <3>1. SUFFICES o.ctx[k].refs > 1
      BY <1>3, <2>1
    <3>2. SUFFICES ASSUME ~(o.ctx[k].refs > 1) PROVE r.obj.h[x] = 0
      BY <1>8
    <3>3. r.obj = [o EXCEPT !.ctx[k] = Shm!NoContext, !.h[x] = 0]
      BY <1>3, <2>1, <3>2
    <3>4. r.obj.h = [o.h EXCEPT ![x] = 0]
      BY <1>2, <3>3 DEF Fields
    <3> QED BY <2>3, <3>4
  <2>6. Fields(r.obj) /\ r.obj.h = o.h /\ r.obj.ctx = [o.ctx EXCEPT ![k].refs = @ - 1] /\ r.obj.pend = o.pend
    BY <1>2, <2>5 DEF Fields
  <2>7. s.obj = [r.obj EXCEPT !.h[x] = k, !.ctx[k].refs = @ + 1] /\ s.env = e
    BY <1>5, <1>8, <2>1, <2>5, <2>6 DEF Shm!SharedMem
  <2>8. /\ Fields(s.obj) /\ s.obj.h = [o.h EXCEPT ![x] = k] /\ s.obj.pend = o.pend
        /\ s.obj.ctx = [r.obj.ctx EXCEPT ![k].refs = @ + 1]
    BY <2>6, <2>7 DEF Fields
  <2>9. s.obj.h = o.h
    BY <2>1, <2>3, <2>8
  <2>10. s.obj.ctx = o.ctx
    <3>1. PICK c, f : c = o.ctx[k] /\ f = [c EXCEPT !.refs = c.refs - 1]
      OBVIOUS
    <3>2. r.obj.ctx = [o.ctx EXCEPT ![k] = f]
      BY <2>2, <2>4, <2>6, <3>1
    <3>3. r.obj.ctx[k] = f
      BY <2>2, <2>4, <3>2
    <3>4. s.obj.ctx = [o.ctx EXCEPT ![k] = [f EXCEPT !.refs = f.refs + 1]]
      BY <2>2, <2>4, <2>8, <3>2, <3>3
    <3>5. c.refs \in Nat /\ c \in Ctx
      BY <2>2, <3>1 DEF Ctx
    <3>6. [f EXCEPT !.refs = f.refs + 1] = c
      <4>1. f.refs = c.refs - 1
        BY <3>1, <3>5 DEF Ctx
      <4>2. f.refs + 1 = c.refs
        BY <3>5, <4>1
      <4>3. [f EXCEPT !.refs = c.refs] = c
        BY <3>1, <3>5 DEF Ctx
      <4> QED BY <4>2, <4>3
    <3> QED BY <2>2, <2>4, <3>1, <3>4, <3>6
  <2>11. s.obj = o
    BY <1>2, <2>8, <2>9, <2>10 DEF Fields
  <2> QED BY <2>7, <2>11, AfterNothing
<1> QED BY <1>6, <1>7, <1>8

\* The move assignment: the same, and the other is left without.
LEMMA AssignedMove ==
    ASSUME Shm!Sane, NEW o, NEW e, NEW a, Sound(o, e, a), NEW x \in Shm!Objects, NEW g \in Shm!Objects,
           Home[x] = Home[g], o.pend[Home[x]] = Shm!Idle, NEW s, s = Shm!AssignMove(o, e, x, g)
    PROVE  Sound(s.obj, s.env, After(o, s.obj, a))
<1>1. PICK r, d : r = Shm!release_context(o, e, x) /\ d = Shm!Destroy(o, e, x)
  OBVIOUS
<1>2. Fields(o)
  BY SoundTypes
<1>3. /\ r = [obj |-> r.obj, env |-> r.env] /\ Fields(r.obj) /\ r.obj.pend = o.pend
      /\ d.obj = [r.obj EXCEPT !.h[x] = 0] /\ d.env = r.env
  <2>1. Released(o, e, x, r, d)
    BY <1>1, <1>2, ReleaseForm, Zenon
  <2> QED BY <2>1 DEF Released
<1>4. /\ Sound(d.obj, d.env, After(o, d.obj, a)) /\ d.obj.h[x] = 0 /\ d.obj.pend = o.pend
      /\ \A y \in Shm!Objects \ {x} : d.obj.h[y] = o.h[y]
  BY <1>1, Destroyed
<1>5. Fields(d.obj) /\ d.obj.h = [r.obj.h EXCEPT ![x] = 0] /\ d.obj.ctx = r.obj.ctx /\ d.obj.pend = r.obj.pend
  BY <1>3 DEF Fields
<1>6. d.obj.h \in [Shm!Objects -> Shm!Contexts \union {0}]
  BY <1>4, SoundTypes, Zenon
<1>7. PICK t : t = [y \in Shm!Objects |-> IF y = g THEN 0 ELSE IF y = x THEN r.obj.h[g] ELSE r.obj.h[y]]
  OBVIOUS
<1>8. s = [obj |-> [r.obj EXCEPT !.h = t], env |-> r.env]
  BY <1>1, <1>7, Zenon DEF Shm!AssignMove
<1>9. Fields(s.obj) /\ s.obj.h = t /\ s.obj.ctx = d.obj.ctx /\ s.obj.pend = o.pend /\ s.env = d.env
  BY <1>3, <1>5, <1>8 DEF Fields
<1>10. DOMAIN r.obj.h = Shm!Objects
  BY <1>5, <1>6
<1>11. CASE g # x
  <2>1. t = [d.obj.h EXCEPT ![x] = d.obj.h[g], ![g] = 0]
    BY <1>5, <1>6, <1>7, <1>10, <1>11
  <2>2. Sound(s.obj, d.env, After(o, d.obj, a)) /\ \A k \in Shm!Contexts : s.obj.ctx[k].fd = d.obj.ctx[k].fd
    BY <1>4, <1>9, <1>11, <2>1, MovedOver
  <2> QED BY <1>9, <2>2, AfterSame
<1>12. CASE g = x
  <2>1. t = d.obj.h
    BY <1>5, <1>6, <1>7, <1>10, <1>12
  <2>2. s.obj = d.obj
    BY <1>4, <1>5, <1>9, <2>1 DEF Fields
  <2> QED BY <1>4, <1>9, <2>2
<1> QED BY <1>11, <1>12

\* The first context of an object is a free one, and blank.
LEMMA Allocated ==
    ASSUME Shm!Sane, NEW o, NEW e, NEW a, Sound(o, e, a), NEW x \in Shm!Objects, o.pend[Home[x]] = Shm!Idle, ~Shm!opened(o, x),
           NEW w, w = Shm!allocate_context(o, x)
    PROVE  /\ Sound(w, e, a) /\ w.pend = o.pend
           /\ w.h[x] # 0 /\ w.ctx[w.h[x]].fd = 0
           /\ \A k \in Shm!Contexts : w.ctx[k].fd = o.ctx[k].fd
<1>h. o.h \in [Shm!Objects -> Shm!Contexts \union {0}]
  BY SoundTypes, Zenon
<1>c. o.ctx \in [Shm!Contexts -> Ctx]
  BY SoundTypes, Zenon
<1>p. \A p \in Shm!Procs : o.pend[p] # Shm!Idle => o.pend[p].obj \in Shm!Objects /\ Home[o.pend[p].obj] = p
  BY SoundTypes, Zenon
<1>1. CASE o.h[x] # 0
  <2>1. w = o
    BY <1>1 DEF Shm!allocate_context
  <2> QED BY <1>1, <2>1 DEF Shm!opened
<1>2. CASE o.h[x] = 0
  <2>1. PICK k : k = CHOOSE j \in Slots[Home[x]] : o.ctx[j].refs = 0
    OBVIOUS
  <2>2. k \in Slots[Home[x]] /\ o.ctx[k].refs = 0
    <3>1. \E j \in Slots[Home[x]] : o.ctx[j].refs = 0
      BY <1>2, FreeSlot DEF Sound
    <3> QED BY <2>1, <3>1, Zenon
  <2>3. k \in Shm!Contexts /\ k # 0
    BY <2>2, OwnContexts
  <2>4. w = [o EXCEPT !.h[x] = k, !.ctx[k] = Shm!NewContext]
    BY <1>2, <2>1, Zenon DEF Shm!allocate_context
  <2>5. Fields(w) /\ w.h = [o.h EXCEPT ![x] = k] /\ w.ctx = [o.ctx EXCEPT ![k] = Shm!NewContext] /\ w.pend = o.pend
    <3>1. Fields(o)
      BY SoundTypes
    <3> QED BY <2>4, <3>1 DEF Fields
  <2>6. o.ctx[k].fd = 0 /\ Shm!NewContext = [o.ctx[k] EXCEPT !.refs = 1]
    <3>1. o.ctx[k].fd = 0
      BY <2>2, <2>3 DEF Sound, Counted
    <3>2. o.ctx[k] = [Shm!NoContext EXCEPT !.refs = o.ctx[k].refs]
      BY <2>3, <3>1 DEF Sound, Rest, Segments
    <3> QED BY <3>1, <3>2 DEF Shm!NewContext, Shm!NoContext
  <2>7. Shm!NewContext \in Ctx /\ Shm!NewContext.refs = 1 /\ Shm!NewContext.fd = 0
    <3>1. o.ctx[k] \in Ctx
      BY <2>3, <1>c
    <3> QED BY <2>6, <3>1, ContextRefs
  <2>8. w.ctx[k] = Shm!NewContext /\ w.ctx \in [Shm!Contexts -> Ctx] /\ \A j \in Shm!Contexts : j # k => w.ctx[j] = o.ctx[j]
    BY <1>c, <2>3, <2>5, <2>7
  <2>9. w.h[x] = k /\ (\A y \in Shm!Objects \ {x} : w.h[y] = o.h[y]) /\ w.h \in [Shm!Objects -> Shm!Contexts \union {0}]
    BY <1>h, <2>3, <2>5
  <2>10. /\ Cardinality(Users(w, k)) = Cardinality(Users(o, k)) + 1
         /\ \A j : j # 0 /\ j # k => Users(w, j) = Users(o, j)
    <3>1. o.h[x] = 0 /\ w.h[x] = k /\ OthersKeep(o, w, x)
      BY <1>2, <2>9 DEF OthersKeep
    <3>2. UsersMove(o, w, o.h[x], w.h[x])
      BY <2>3, <3>1, Moved
    <3> QED BY <3>1, <3>2 DEF UsersMove
  <2>11. Counted(w)
    <3>1. \A y \in Shm!Objects : w.h[y] # 0 => w.h[y] \in Slots[Home[y]]
      BY <2>2, <2>9 DEF Sound, Counted
    <3>2. ASSUME NEW j \in Shm!Contexts PROVE w.ctx[j].refs = Cardinality(Users(w, j)) /\ (w.ctx[j].refs = 0 => w.ctx[j].fd = 0)
      <4>1. CASE j = k
        BY <2>2, <2>3, <2>7, <2>8, <2>10, <4>1 DEF Sound, Counted
      <4>2. CASE j # k
        BY <2>8, <2>10, <4>2, OwnContexts DEF Sound, Counted
      <4> QED BY <4>1, <4>2
    <3> QED BY <3>1, <3>2 DEF Counted
  <2>12. \A i \in Shm!Contexts : \E n \in Nat : w.ctx[i] = [o.ctx[i] EXCEPT !.refs = n]
    <3> SUFFICES ASSUME NEW i \in Shm!Contexts PROVE \E n \in Nat : w.ctx[i] = [o.ctx[i] EXCEPT !.refs = n]
      OBVIOUS
    <3>1. CASE i = k
      BY <2>6, <2>8, <3>1
    <3>2. CASE i # k
      <4>1. o.ctx[i] \in Ctx /\ w.ctx[i] = o.ctx[i]
        BY <1>c, <2>8, <3>2
      <4>2. o.ctx[i].refs \in Nat /\ o.ctx[i] = [o.ctx[i] EXCEPT !.refs = o.ctx[i].refs]
        BY <4>1 DEF Ctx
      <4> QED BY <4>1, <4>2
    <3> QED BY <3>1, <3>2
  <2>13. \A p \in Shm!Procs : o.pend[p] # Shm!Idle => w.h[o.pend[p].obj] = o.h[o.pend[p].obj]
    BY <1>p, <2>9
  <2>14. Reused(o, w)
    BY <2>5, <2>8, <2>9, <2>12, <2>13 DEF Reused
  <2>15. Sound(w, e, a) /\ \A i \in Shm!Contexts : w.ctx[i].fd = o.ctx[i].fd
    BY <2>11, <2>14, SameContexts
  <2> QED BY <2>3, <2>5, <2>6, <2>9, <2>15
<1> QED BY <1>1, <1>2

\* A blank context gets the segment s of a name that is new, or of one that
\* there is, and its process waits.
Created(e, name, s, f) ==
    e.names[name] = 0 /\ e.count < MaxSegments /\ s = e.count + 1 /\ f = [e EXCEPT !.names[name] = s, !.count = s]
Found(e, name, s, f) == e.names[name] # 0 /\ s = e.names[name] /\ f = e
Told(o, r, x, k, d, m) ==
    /\ Fields(r) /\ r.h = o.h /\ r.ctx = [o.ctx EXCEPT ![k] = d]
    /\ r.pend = [o.pend EXCEPT ![Home[x]] = [obj |-> x, mode |-> m]]
LEMMA Opened ==
    ASSUME Shm!Sane, NEW o, NEW e, NEW a, Sound(o, e, a), NEW x \in Shm!Objects, o.pend[Home[x]] = Shm!Idle,
           NEW k, k = o.h[x], k # 0, o.ctx[k].fd = 0,
           NEW m \in SUBSET Shm!Flags, m # {}, NEW name \in Names, NEW s, NEW f,
           IF "CREATE" \in m THEN Created(e, name, s, f) ELSE Found(e, name, s, f),
           NEW d, d = [o.ctx[k] EXCEPT !.name = name, !.mode = m \ {"PERSIST"}, !.fd = s],
           NEW r, Told(o, r, x, k, d, m)
    PROVE  Sound(r, f, a)
<1>h. o.h \in [Shm!Objects -> Shm!Contexts \union {0}]
  BY SoundTypes, Zenon
<1>c. o.ctx \in [Shm!Contexts -> Ctx]
  BY SoundTypes, Zenon
<1>p. o.pend \in [Shm!Procs -> [obj : Shm!Objects \union {""}, mode : SUBSET Shm!Flags]]
  BY SoundTypes, Zenon
<1>q. \A p \in Shm!Procs : o.pend[p] # Shm!Idle => o.pend[p].obj \in Shm!Objects /\ Home[o.pend[p].obj] = p
  BY SoundTypes, Zenon
<1>e. /\ e \in [names : [Names -> 0..MaxSegments], size : [1..MaxSegments -> {0, Size}], count : 0..MaxSegments]
      /\ a.early \subseteq Shm!Contexts
  BY DEF Sound, Rest, Types
<1>1. k \in Shm!Contexts /\ k \in Slots[Home[x]] /\ Home[x] \in Shm!Procs /\ MaxSegments \in Nat
  BY <1>h, OwnContexts DEF Sound, Counted, Shm!Sane
<1>2. PICK c : c = o.ctx[k] /\ c \in Ctx /\ c = [Shm!NoContext EXCEPT !.refs = c.refs] /\ c.refs \in Nat
  <2>1. o.ctx[k] \in Ctx /\ o.ctx[k] = [Shm!NoContext EXCEPT !.refs = o.ctx[k].refs]
    BY <1>1, <1>c DEF Sound, Rest, Segments
  <2> QED BY <2>1 DEF Ctx
<1>3. /\ f.size = e.size /\ s \in 1..f.count /\ f.count \in 0..MaxSegments /\ e.count <= f.count
      /\ \A n \in Names : f.names[n] = IF n = name THEN s ELSE e.names[n]
      /\ f \in [names : [Names -> 0..MaxSegments], size : [1..MaxSegments -> {0, Size}], count : 0..MaxSegments]
  <2>1. CASE "CREATE" \in m
    <3>1. e.count < MaxSegments /\ s = e.count + 1 /\ f = [e EXCEPT !.names[name] = s, !.count = s]
      BY <2>1 DEF Created
    <3>2. e.count \in 0..MaxSegments /\ e.names \in [Names -> 0..MaxSegments]
      BY <1>e
    <3>3. s \in 1..MaxSegments
      BY <1>1, <3>1, <3>2
    <3>4. f.names = [e.names EXCEPT ![name] = s] /\ f.count = s /\ f.size = e.size
      BY <1>e, <3>1
    <3>5. f \in [names : [Names -> 0..MaxSegments], size : [1..MaxSegments -> {0, Size}], count : 0..MaxSegments]
      <4>1. s \in 0..MaxSegments /\ f.names \in [Names -> 0..MaxSegments]
        BY <1>1, <3>2, <3>3, <3>4
      <4>2. f = [names |-> f.names, size |-> f.size, count |-> f.count]
        BY <1>e, <3>1
      <4> QED BY <1>e, <3>4, <4>1, <4>2
    <3> QED BY <1>1, <3>1, <3>2, <3>3, <3>4, <3>5
  <2>2. CASE "CREATE" \notin m
    <3>1. e.names[name] # 0 /\ s = e.names[name] /\ f = e
      BY <2>2 DEF Found
    <3>2. e.names[name] \in 0..MaxSegments /\ e.count \in 0..MaxSegments
      BY <1>e
    <3>3. e.names[name] <= e.count
      BY DEF Sound, Rest, Segments
    <3> QED BY <1>1, <1>e, <3>1, <3>2, <3>3
  <2> QED BY <2>1, <2>2
<1>4. /\ d.refs = c.refs /\ d.fd = s /\ d.mode = m \ {"PERSIST"} /\ d.size = 0 /\ d.map = <<>> /\ d.name = name
      /\ d \in Ctx
  <2>1. c.size = 0 /\ c.map = <<>>
    BY <1>2 DEF Shm!NoContext
  <2>2. d = [c EXCEPT !.name = name, !.mode = m \ {"PERSIST"}, !.fd = s]
    BY <1>2
  <2>3. d.refs = c.refs /\ d.fd = s /\ d.mode = m \ {"PERSIST"} /\ d.size = 0 /\ d.map = <<>> /\ d.name = name
    BY <1>2, <2>1, <2>2 DEF Ctx
  <2>4. s \in 0..MaxSegments /\ m \ {"PERSIST"} \in SUBSET Shm!Flags
    BY <1>1, <1>3
  <2>5. d \in Ctx
    BY Zenon, <1>2, <2>2, <2>4 DEF Ctx
  <2> QED BY <2>3, <2>5
<1>5. /\ Fields(r) /\ r.h = o.h /\ r.ctx[k] = d /\ r.ctx \in [Shm!Contexts -> Ctx] /\ \A j \in Shm!Contexts : j # k => r.ctx[j] = o.ctx[j]
  BY <1>1, <1>4, <1>c DEF Told
<1>6. /\ r.pend[Home[x]] = [obj |-> x, mode |-> m] /\ r.pend[Home[x]] # Shm!Idle
      /\ \A p \in Shm!Procs : p # Home[x] => r.pend[p] = o.pend[p]
      /\ r.pend \in [Shm!Procs -> [obj : Shm!Objects \union {""}, mode : SUBSET Shm!Flags]]
  <2>1. r.pend = [o.pend EXCEPT ![Home[x]] = [obj |-> x, mode |-> m]]
    BY DEF Told
  <2>2. [obj |-> x, mode |-> m] \in [obj : Shm!Objects \union {""}, mode : SUBSET Shm!Flags] /\ [obj |-> x, mode |-> m] # Shm!Idle
    BY DEF Shm!Idle
  <2>3. r.pend[Home[x]] = [obj |-> x, mode |-> m]
    BY Zenon, <1>1, <1>p, <2>1
  <2>4. \A p \in Shm!Procs : p # Home[x] => r.pend[p] = o.pend[p]
    BY Zenon, <1>1, <1>p, <2>1
  <2>5. r.pend \in [Shm!Procs -> [obj : Shm!Objects \union {""}, mode : SUBSET Shm!Flags]]
    BY Zenon, <1>p, <2>1, <2>2
  <2> QED BY <2>2, <2>3, <2>4, <2>5
<1>z. s # 0 /\ s <= f.count /\ ("CREATE" \in d.mode <=> "CREATE" \in m)
  <2>1. s # 0 /\ s <= f.count
    BY <1>1, <1>3
  <2> QED BY <1>4, <2>1
<1>w. r.pend[Home[x]].obj = x /\ r.pend[Home[x]].mode = m
  <2>1. PICK q : q = r.pend[Home[x]] /\ q = [obj |-> x, mode |-> m]
    BY <1>6
  <2> QED BY <2>1
<1>7. k \notin a.early
  BY DEF Sound, Rest, Sizes
<1>8. Counted(r)
  <2>1. Users(o, k) # {} /\ \A j : Users(r, j) = Users(o, j)
    BY <1>5 DEF Users
  <2>2. d.refs # 0
    BY <1>1, <1>2, <1>4, <2>1, UsersFinite, FS_EmptySet DEF Sound, Counted
  <2>3. \A j \in Shm!Contexts : r.ctx[j].refs = o.ctx[j].refs
    BY <1>2, <1>4, <1>5
  <2>4. \A j \in Shm!Contexts : r.ctx[j].refs = 0 => r.ctx[j].fd = 0
    BY <1>5, <2>2 DEF Sound, Counted
  <2> QED BY <1>5, <2>1, <2>3, <2>4 DEF Sound, Counted
<1>9. Types(r, f, a)
  BY <1>3, <1>5, <1>6, <1>h DEF Sound, Rest, Types, Fields
<1>10. Begins(r, a)
  <2> SUFFICES ASSUME NEW p \in Shm!Procs, r.pend[p] # Shm!Idle
               PROVE  LET i == r.h[r.pend[p].obj]
                      IN  /\ r.pend[p].obj \in Shm!Objects /\ Home[r.pend[p].obj] = p /\ i # 0
                          /\ r.ctx[i].fd # 0 /\ r.ctx[i].mode = r.pend[p].mode \ {"PERSIST"} /\ i \notin a.early
    BY Zenon DEF Begins
  <2>1. CASE p = Home[x]
    <3>1. r.pend[p].obj = x /\ r.pend[p].mode = m /\ r.h[x] = k
      BY <1>5, <1>w, <2>1
    <3>2. /\ r.ctx[k].fd # 0 /\ r.ctx[k].mode = m \ {"PERSIST"}
      BY <1>4, <1>5, <1>z
    <3> QED BY <1>7, <2>1, <3>1, <3>2
  <2>2. CASE p # Home[x]
    <3>1. r.pend[p] = o.pend[p]
      BY <1>6, <2>2
    <3>2. PICK i : i = o.h[o.pend[p].obj] /\ r.h[r.pend[p].obj] = i
      BY <1>5, <3>1
    <3>3. /\ o.pend[p].obj \in Shm!Objects /\ Home[o.pend[p].obj] = p /\ i # 0
          /\ o.ctx[i].fd # 0 /\ o.ctx[i].mode = o.pend[p].mode \ {"PERSIST"} /\ i \notin a.early
      BY Zenon, <3>1, <3>2 DEF Sound, Rest, Begins
    <3>4. i \in Shm!Contexts /\ i # k
      BY Zenon, <1>h, <3>2, <3>3
    <3> QED BY Zenon, <1>5, <3>1, <3>2, <3>3, <3>4
  <2> QED BY Zenon, <2>1, <2>2
<1>11. Segments(r, f)
  <2>1. \A j \in Shm!Contexts :
          LET i == r.ctx[j]
          IN  /\ i.fd <= f.count
              /\ i.fd # 0 => i.name \in Names
              /\ i.fd = 0 => i = [Shm!NoContext EXCEPT !.refs = i.refs]
              /\ i.map # <<>> => i.map[1] = i.fd
    <3> SUFFICES ASSUME NEW j \in Shm!Contexts
                 PROVE  /\ r.ctx[j].fd <= f.count
                        /\ r.ctx[j].fd # 0 => r.ctx[j].name \in Names
                        /\ r.ctx[j].fd = 0 => r.ctx[j] = [Shm!NoContext EXCEPT !.refs = r.ctx[j].refs]
                        /\ r.ctx[j].map # <<>> => r.ctx[j].map[1] = r.ctx[j].fd
      BY Zenon
    <3>1. CASE j = k
      BY Zenon, <1>4, <1>5, <1>z, <3>1
    <3>2. CASE j # k
      <4>1. r.ctx[j] = o.ctx[j] /\ o.ctx[j].fd <= e.count
        BY <1>5, <3>2 DEF Sound, Rest, Segments
      <4>2. o.ctx[j].fd \in 0..MaxSegments /\ e.count \in 0..MaxSegments
        <5>1. o.ctx[j] \in Ctx
          BY <1>c
        <5>2. o.ctx[j].fd \in 0..MaxSegments
          BY <5>1 DEF Ctx
        <5> QED BY <1>e, <5>2
      <4>3. o.ctx[j].fd <= f.count
        BY <1>1, <1>3, <4>1, <4>2
      <4> QED BY <4>1, <4>3 DEF Sound, Rest, Segments
    <3> QED BY <3>1, <3>2
  <2>2. ASSUME NEW n \in Names PROVE f.names[n] <= f.count
    <3>1. e.names[n] <= e.count /\ e.names[n] \in 0..MaxSegments /\ e.count \in 0..MaxSegments
      BY <1>e DEF Sound, Rest, Segments
    <3> QED BY <1>1, <1>3, <3>1
  <2>3. ASSUME NEW i \in Names, NEW n \in Names, f.names[i] = f.names[n], f.names[i] # 0 PROVE i = n
    <3>1. CASE "CREATE" \in m
      <4>1. s = e.count + 1
        BY <3>1 DEF Created
      <4>2. \A j \in Names : e.names[j] # s
        BY <1>1, <1>e, <4>1 DEF Sound, Rest, Segments
      <4> QED BY <1>3, <2>3, <4>2 DEF Sound, Rest, Segments
    <3>2. CASE "CREATE" \notin m
      BY <2>3, <3>2 DEF Found, Sound, Rest, Segments
    <3> QED BY <3>1, <3>2
  <2>4. ASSUME NEW i \in Shm!Contexts, NEW j \in Shm!Contexts, r.ctx[i].fd = r.ctx[j].fd, r.ctx[i].fd # 0,
               "CREATE" \in r.ctx[i].mode, "CREATE" \in r.ctx[j].mode
        PROVE  i = j
    <3>1. ASSUME NEW l \in Shm!Contexts, l # k, r.ctx[l].fd = s PROVE "CREATE" \notin m
      <4> SUFFICES ASSUME "CREATE" \in m PROVE FALSE
        OBVIOUS
      <4>1. s = e.count + 1 /\ e.count \in 0..MaxSegments
        BY <1>e DEF Created
      <4>2. o.ctx[l].fd <= e.count /\ o.ctx[l].fd = s
        BY <1>5, <3>1 DEF Sound, Rest, Segments
      <4> QED BY <1>1, <4>1, <4>2
    <3>2. CASE i = k \/ j = k
      <4>1. r.ctx[k].fd = s /\ ("CREATE" \in r.ctx[k].mode => "CREATE" \in m)
        BY <1>4, <1>5, <1>z
      <4>2. r.ctx[i].fd = s /\ r.ctx[j].fd = s /\ "CREATE" \in m
        BY <2>4, <3>2, <4>1
      <4>3. i = k /\ j = k
        BY <3>1, <4>2
      <4> QED BY <4>3
    <3>3. CASE i # k /\ j # k
      BY <1>5, <2>4, <3>3 DEF Sound, Rest, Segments
    <3> QED BY <3>2, <3>3
  <2> QED BY <2>1, <2>2, <2>3, <2>4, Zenon DEF Segments
<1>12. Owned(r, f, a)
  <2>1. ASSUME NEW j \in Shm!Contexts, r.ctx[j].fd # 0, "CREATE" \in r.ctx[j].mode PROVE f.names[r.ctx[j].name] = r.ctx[j].fd
    <3>1. CASE j = k
      <4>1. r.ctx[j].name = name /\ r.ctx[j].fd = s
        BY <1>4, <1>5, <3>1
      <4>2. f.names[name] = s
        BY <1>3
      <4> QED BY <4>1, <4>2
    <3>2. CASE j # k
      <4>1. /\ r.ctx[j] = o.ctx[j] /\ o.ctx[j].name \in Names
            /\ e.names[o.ctx[j].name] = o.ctx[j].fd /\ o.ctx[j].fd # 0
        BY <1>5, <2>1, <3>2 DEF Sound, Rest, Owned, Segments
      <4>2. o.ctx[j].name = name => s = e.names[name]
        BY <4>1 DEF Created, Found
      <4> QED BY <1>3, <4>1, <4>2
    <3> QED BY <3>1, <3>2
  <2>2. ASSUME NEW n \in Names \ a.left, f.names[n] # 0
        PROVE  \E j \in Shm!Contexts : r.ctx[j].fd = f.names[n] /\ "CREATE" \in r.ctx[j].mode
    <3>1. CASE n = name /\ "CREATE" \in m
      BY ZenonT(30), <1>1, <1>3, <1>4, <1>5, <3>1
    <3>2. CASE ~(n = name /\ "CREATE" \in m)
      <4>1. f.names[n] = e.names[n]
        BY <1>3, <3>2 DEF Found
      <4>2. PICK j \in Shm!Contexts : o.ctx[j].fd = e.names[n] /\ "CREATE" \in o.ctx[j].mode
        BY <2>2, <4>1 DEF Sound, Rest, Owned
      <4> QED BY <1>5, <2>2, <4>1, <4>2
    <3> QED BY <3>1, <3>2
  <2> QED BY <2>1, <2>2 DEF Owned
<1>13. Sizes(r, f, a)
  <2>1. ASSUME NEW j \in a.early PROVE r.ctx[j].fd # 0 /\ r.ctx[j].size = 0
    BY <1>5, <1>7, <1>e DEF Sound, Rest, Sizes
  <2>2. ASSUME NEW p \in Shm!Procs, NEW j \in Slots[p], r.ctx[j].fd # 0, j \notin a.early, ~Waits(r, p, j)
        PROVE  r.ctx[j].size = Size /\ f.size[r.ctx[j].fd] = Size
    <3>1. j # k
      <4>1. k \in Slots[p] => p = Home[x]
        BY <1>1, OwnContexts
      <4>2. Waits(r, Home[x], k)
        BY <1>5, <1>6, <1>w DEF Waits
      <4> QED BY <2>2, <4>1, <4>2
    <3>2. ~Waits(o, p, j)
      BY <1>5, <1>6, <2>2 DEF Waits
    <3> QED BY <1>3, <1>5, <2>2, <3>1, <3>2, OwnContexts DEF Sound, Rest, Sizes
  <2> QED BY <2>1, <2>2 DEF Sizes
<1> QED BY <1>8, <1>9, <1>10, <1>11, <1>12, <1>13 DEF Sound, Rest

\* A closed context is blank again, so that what a name of it was is not read.
Named(c, d, name, m) == d = [c EXCEPT !.name = name, !.mode = m]
LEMMA StaysBlank ==
    ASSUME Shm!Sane, NEW o, NEW e, NEW a, Sound(o, e, a), NEW k \in Shm!Contexts, o.ctx[k].fd = 0,
           NEW name \in Names, NEW m \in SUBSET Shm!Flags, NEW d, Named(o.ctx[k], d, name, m)
    PROVE  Shm!close_context(e, d).ctx = o.ctx[k] /\ [o EXCEPT !.ctx[k] = o.ctx[k]] = o
<1>0. o.ctx[k] \in Ctx
  BY SoundTypes
<1>1. PICK c : c = o.ctx[k] /\ c \in Ctx /\ c = [Shm!NoContext EXCEPT !.refs = c.refs]
  <2>1. o.ctx[k] = [Shm!NoContext EXCEPT !.refs = o.ctx[k].refs]
    BY DEF Sound, Rest, Segments
  <2> QED BY <1>0, <2>1
<1>2. d = [c EXCEPT !.name = name, !.mode = m]
  BY <1>1 DEF Named
<1>3. d \in Ctx /\ d.refs = c.refs
  BY <1>1, <1>2 DEF Ctx
<1>4. Shm!close_context(e, d).ctx = c
  <2>1. Shm!close_context(e, d).ctx = [Shm!NoContext EXCEPT !.refs = d.refs]
    BY <1>3, ContextClosed
  <2> QED BY <1>1, <1>3, <2>1
<1>5. o.ctx \in [Shm!Contexts -> Ctx]
  BY SoundTypes, Zenon
<1>6. Fields(o)
  BY SoundTypes
<1>7. [o EXCEPT !.ctx[k] = c] = o
  <2>1. PICK r : r = [o EXCEPT !.ctx[k] = c]
    OBVIOUS
  <2>2. Fields(r) /\ r.ctx = [o.ctx EXCEPT ![k] = c] /\ r.h = o.h /\ r.pend = o.pend
    BY <1>6, <2>1, SetContext
  <2>3. r.ctx = o.ctx
    BY <1>1, <1>5, <2>2
  <2> QED BY <1>6, <2>1, <2>2, <2>3 DEF Fields
<1> QED BY <1>1, <1>4, <1>7

LEMMA ToldForm ==
    ASSUME NEW o, Fields(o), NEW x, NEW k, NEW d, NEW m
    PROVE  Told(o, [o EXCEPT !.ctx[k] = d, !.pend[Home[x]] = [obj |-> x, mode |-> m]], x, k, d, m)
<1>1. PICK r : r = [o EXCEPT !.ctx[k] = d, !.pend[Home[x]] = [obj |-> x, mode |-> m]]
  OBVIOUS
<1>2. /\ Fields(r) /\ r.h = o.h /\ r.ctx = [o.ctx EXCEPT ![k] = d]
      /\ r.pend = [o.pend EXCEPT ![Home[x]] = [obj |-> x, mode |-> m]]
  BY <1>1 DEF Fields
<1>3. Told(o, r, x, k, d, m)
  BY <1>2, Zenon DEF Told
<1> QED BY <1>1, <1>3

\* open() and create().
Lets(o, w) == w.pend = o.pend /\ \A k \in Shm!Contexts : w.ctx[k].fd = o.ctx[k].fd
LEMMA BegunSound ==
    ASSUME Shm!Sane, ShmInv, NEW x \in Shm!Objects, NEW name \in Names, NEW m \in SUBSET Shm!Flags,
           obj.pend[Home[x]] = Shm!Idle, env.count < MaxSegments, Shm!Begun(x, name, m)
    PROVE  /\ Sound(obj', env', abs) /\ ret' \in {"OK", "FAILED"}
           /\ ret' = "FAILED" => env' = env /\ Lets(obj, obj')
<1> DEFINE w == Shm!allocate_context(obj, x)
           k == w.h[x]
           kept == [w.ctx[k] EXCEPT !.name = name, !.mode = m \ {"PERSIST"}]
           st == Shm!shm_open(env, name, "CREATE" \in m)
           creates == "CREATE" \in m
<1>0. Sound(obj, env, abs)
  BY DEF ShmInv
<1>1. CASE Shm!open(obj, x, m) # "OK"
  <2>1. Shm!Done(Shm!open(obj, x, m), obj, env)
    BY <1>1, Zenon DEF Shm!Begun
  <2> QED BY <1>0, <2>1 DEF Shm!Done, Lets
<1>2. CASE Shm!open(obj, x, m) = "OK"
  <2>0. m # {} /\ ~Shm!opened(obj, x)
    <3>1. m \intersect {"READ", "WRITE"} # {} /\ ~Shm!opened(obj, x)
      BY <1>2 DEF Shm!open
    <3> QED BY <3>1
  <2>1. /\ Sound(w, env, abs) /\ w.pend = obj.pend /\ k # 0 /\ w.ctx[k].fd = 0
        /\ \A j \in Shm!Contexts : w.ctx[j].fd = obj.ctx[j].fd
    BY <1>0, <2>0, Allocated
  <2>2. k \in Shm!Contexts
    BY <2>1, SoundTypes DEF Contexted
  <2>3. CASE st # "OK"
    <3>1. Shm!Done(st, [w EXCEPT !.ctx[k] = Shm!close_context(env, kept).ctx], env)
      BY <1>2, <2>3, Zenon DEF Shm!Begun
    <3>2. [w EXCEPT !.ctx[k] = Shm!close_context(env, kept).ctx] = w
      <4>1. m \ {"PERSIST"} \in SUBSET Shm!Flags
        OBVIOUS
      <4>2. Named(w.ctx[k], kept, name, m \ {"PERSIST"})
        BY DEF Named
      <4> HIDE DEF w, k, kept
      <4>3. Shm!close_context(env, kept).ctx = w.ctx[k] /\ [w EXCEPT !.ctx[k] = w.ctx[k]] = w
        BY <2>1, <2>2, <4>1, <4>2, StaysBlank
      <4> QED BY <4>3, Zenon
    <3>3. obj' = w /\ env' = env /\ ret' \in {"OK", "FAILED"}
      <4> HIDE DEF w, k, kept, st
      <4> QED BY <3>1, <3>2 DEF Shm!Done
    <3> QED BY <2>1, <3>3 DEF Lets
  <2>4. CASE st = "OK"
    <3> DEFINE s == IF creates THEN env.count + 1 ELSE env.names[name]
               d == [kept EXCEPT !.fd = s]
               r == [w EXCEPT !.ctx[k] = d, !.pend[Home[x]] = [obj |-> x, mode |-> m]]
               f == IF creates THEN [env EXCEPT !.names[name] = env.count + 1, !.count = @ + 1] ELSE env
    <3>1. Shm!Done("OK", r, f)
      BY <1>2, <2>4, Zenon DEF Shm!Begun
    <3>2. IF creates THEN Created(env, name, s, f) ELSE Found(env, name, s, f)
      <4>1. IF creates THEN env.names[name] = 0 ELSE env.names[name] # 0
        BY <2>4 DEF Shm!shm_open
      <4>2. CASE creates
        BY <4>1, <4>2 DEF Created
      <4>3. CASE ~creates
        BY <4>1, <4>3 DEF Found
      <4> QED BY <4>2, <4>3, Zenon
    <3>3. d = [w.ctx[k] EXCEPT !.name = name, !.mode = m \ {"PERSIST"}, !.fd = s]
      OBVIOUS
    <3>4. Told(w, r, x, k, d, m)
      <4>1. Fields(w)
        BY <2>1, SoundTypes
      <4> HIDE DEF w, k, d
      <4> QED BY <4>1, ToldForm
    <3>5. w.pend[Home[x]] = Shm!Idle
      BY <2>1
    <3>6. Sound(r, f, abs)
      <4> HIDE DEF w, k, s, d, r, f
      <4> QED BY <2>0, <2>1, <3>2, <3>3, <3>4, <3>5, Opened DEF k
    <3>7. obj' = r /\ env' = f /\ ret' = "OK"
      <4> HIDE DEF r, f
      <4> QED BY <3>1 DEF Shm!Done
    <3> HIDE DEF r, f
    <3> QED BY <3>6, <3>7
  <2> QED BY <2>3, <2>4
<1> QED BY <1>1, <1>2

\* A mapping is made, or removed.
LEMMA SetMap ==
    ASSUME Shm!Sane, NEW o, NEW e, NEW a, Sound(o, e, a), NEW k \in Shm!Contexts, o.ctx[k].fd # 0,
           NEW v \in {<<>>, <<o.ctx[k].fd, 0, Size>>}, NEW w, w = [o EXCEPT !.ctx[k] = [o.ctx[k] EXCEPT !.map = v]]
    PROVE  Sound(w, e, a) /\ Lets(o, w)
<1>1. PICK c, d : c = o.ctx[k] /\ c \in Ctx /\ c.fd # 0 /\ d = [c EXCEPT !.map = v]
  BY SoundTypes
<1>2. /\ Fields(o) /\ o.ctx \in [Shm!Contexts -> Ctx]
      /\ o.h \in [Shm!Objects -> Shm!Contexts \union {0}]
      /\ o.pend \in [Shm!Procs -> [obj : Shm!Objects \union {""}, mode : SUBSET Shm!Flags]]
      /\ \A j \in Shm!Contexts : Alike(o.ctx[j], o.ctx[j])
  BY SoundTypes
<1>3. Fields(w) /\ w.ctx = [o.ctx EXCEPT ![k] = d] /\ w.h = o.h /\ w.pend = o.pend
  <2>1. w = [o EXCEPT !.ctx[k] = d]
    BY <1>1
  <2> QED BY <1>2, <2>1 DEF Fields
<1>4. /\ d \in Ctx /\ d.refs = c.refs /\ d.map = v
      /\ d.fd = c.fd /\ d.mode = c.mode /\ d.size = c.size /\ d.name = c.name
  <2>1. c.fd \in 1..MaxSegments
    <3>1. c.fd \in 0..MaxSegments
      BY <1>1 DEF Ctx
    <3> QED BY <1>1, <3>1 DEF Shm!Sane
  <2>2. v \in {<<>>} \union ((1..MaxSegments) \X {0} \X {Size})
    BY <1>1, <2>1
  <2> QED BY <1>1, <2>2 DEF Ctx
<1>5. d.map # <<>> => d.map[1] = d.fd
  BY <1>1, <1>4
<1>6. Alike(c, d)
  BY <1>1, <1>4, <1>5, Zenon DEF Alike
<1>7. w.ctx[k] = d /\ w.ctx \in [Shm!Contexts -> Ctx] /\ \A j \in Shm!Contexts : j # k => w.ctx[j] = o.ctx[j]
  <2>1. o.ctx \in [Shm!Contexts -> Ctx] /\ w.ctx = [o.ctx EXCEPT ![k] = d] /\ d \in Ctx
    BY <1>2, <1>3, <1>4
  <2> QED BY <2>1
<1>8. Stays(o, w)
  BY <1>2, <1>3, <1>7 DEF Stays, Fields
<1>9. \A j \in Shm!Contexts : Alike(o.ctx[j], w.ctx[j])
  BY <1>1, <1>2, <1>6, <1>7
<1>10. Counted(w)
  <2>1. \A j : Users(w, j) = Users(o, j)
    BY <1>3 DEF Users
  <2>2. \A j \in Shm!Contexts : w.ctx[j].refs = o.ctx[j].refs /\ w.ctx[j].fd = o.ctx[j].fd
    BY <1>1, <1>4, <1>7
  <2> QED BY <1>3, <2>1, <2>2 DEF Sound, Counted
<1>11. Rest(w, e, a)
  BY <1>8, <1>9, SameRest DEF Sound
<1>12. Lets(o, w)
  BY <1>3, <1>9 DEF Lets, Alike
<1> QED BY <1>10, <1>11, <1>12 DEF Sound

\* The open() of a process ends, and makes d of the context k it waits for.
Ended(o, r, p, k, d) ==
    Fields(r) /\ r.h = o.h /\ r.ctx = [o.ctx EXCEPT ![k] = d] /\ r.pend = [o.pend EXCEPT ![p] = Shm!Idle]
LEMMA EndedForm ==
    ASSUME NEW o, Fields(o), NEW p, NEW k, NEW d
    PROVE  Ended(o, [o EXCEPT !.ctx[k] = d, !.pend[p] = Shm!Idle], p, k, d)
<1>1. PICK r : r = [o EXCEPT !.ctx[k] = d, !.pend[p] = Shm!Idle]
  OBVIOUS
<1>2. Fields(r) /\ r.h = o.h /\ r.ctx = [o.ctx EXCEPT ![k] = d] /\ r.pend = [o.pend EXCEPT ![p] = Shm!Idle]
  BY Zenon, <1>1 DEF Fields
<1>3. Ended(o, r, p, k, d)
  BY <1>2, Zenon DEF Ended
<1> QED BY <1>1, <1>3

LEMMA Numbers ==
    ASSUME Shm!Sane
    PROVE  MaxSegments \in Nat /\ 0 \in 0..MaxSegments /\ \A s \in 0..MaxSegments : s # 0 => s \in 1..MaxSegments
<1>1. MaxSegments \in Nat
  BY DEF Shm!Sane
<1> QED BY <1>1

\* What waits, and what is as before when it has ended.
Opening(o, a, p, k) ==
    /\ k \in Shm!Contexts /\ k \in Slots[p] /\ \A q \in Shm!Procs : Waits(o, q, k) <=> q = p
    /\ o.ctx[k] \in Ctx /\ o.ctx[k].fd \in 1..MaxSegments /\ o.ctx[k].mode = o.pend[p].mode \ {"PERSIST"}
    /\ k \notin a.early
LEMMA Waiting ==
    ASSUME Shm!Sane, NEW o, NEW e, NEW a, Sound(o, e, a), NEW p \in Shm!Procs, o.pend[p] # Shm!Idle,
           NEW k, k = o.h[o.pend[p].obj]
    PROVE  Opening(o, a, p, k)
<1>h. o.h \in [Shm!Objects -> Shm!Contexts \union {0}]
  BY SoundTypes, Zenon
<1>1. o.pend[p].obj \in Shm!Objects /\ Home[o.pend[p].obj] = p /\ k # 0
  BY DEF Sound, Rest, Begins
<1>2. k \in Shm!Contexts /\ k \in Slots[p]
  BY <1>h, <1>1 DEF Sound, Counted
<1>3. ASSUME NEW q \in Shm!Procs, Waits(o, q, k) PROVE q = p
  <2>1. PICK y : y = o.pend[q].obj /\ y \in Shm!Objects /\ Home[y] = q /\ o.h[y] = k
    BY <1>3, SoundTypes DEF Waits
  <2>2. k \in Slots[q]
    BY <1>1, <2>1 DEF Sound, Counted
  <2> QED BY <1>2, <2>2, OwnContexts
<1>4. Waits(o, p, k)
  BY DEF Waits
<1>5. o.ctx[k] \in Ctx
  BY Zenon, <1>2, SoundTypes
<1>6. o.ctx[k].fd # 0 /\ o.ctx[k].mode = o.pend[p].mode \ {"PERSIST"} /\ k \notin a.early
  BY SMTT(40) DEF Sound, Rest, Begins
<1>7. o.ctx[k].fd \in 1..MaxSegments
  <2>1. o.ctx[k].fd \in 0..MaxSegments
    BY <1>5 DEF Ctx
  <2> QED BY Zenon, <1>6, <2>1, Numbers
<1> QED BY Zenon, <1>2, <1>3, <1>4, <1>5, <1>6, <1>7 DEF Opening

Thus(o, r, p, k, d) ==
    /\ r \in [h : [Shm!Objects -> Shm!Contexts \union {0}], ctx : [Shm!Contexts -> Ctx],
              pend : [Shm!Procs -> [obj : Shm!Objects \union {""}, mode : SUBSET Shm!Flags]]]
    /\ r.h = o.h /\ r.ctx[k] = d /\ \A j \in Shm!Contexts : j # k => r.ctx[j] = o.ctx[j]
    /\ r.pend[p] = Shm!Idle /\ \A q \in Shm!Procs : q # p => r.pend[q] = o.pend[q]
    /\ Counted(r)
LEMMA EndedTypes ==
    ASSUME Shm!Sane, NEW o, NEW e, NEW a, Sound(o, e, a), NEW p \in Shm!Procs, NEW k \in Shm!Contexts,
           NEW d \in Ctx, d.refs = o.ctx[k].refs, d.fd = 0 \/ d.fd = o.ctx[k].fd, NEW r, Ended(o, r, p, k, d)
    PROVE  Thus(o, r, p, k, d)
<1>1. o.h \in [Shm!Objects -> Shm!Contexts \union {0}]
  BY SoundTypes, Zenon
<1>2. o.ctx \in [Shm!Contexts -> Ctx]
  BY SoundTypes, Zenon
<1>3. o.pend \in [Shm!Procs -> [obj : Shm!Objects \union {""}, mode : SUBSET Shm!Flags]]
  BY SoundTypes, Zenon
<1>4. Fields(r) /\ r.h = o.h /\ r.ctx = [o.ctx EXCEPT ![k] = d] /\ r.pend = [o.pend EXCEPT ![p] = Shm!Idle]
  BY DEF Ended
<1>5. r.ctx[k] = d /\ (\A j \in Shm!Contexts : j # k => r.ctx[j] = o.ctx[j]) /\ r.ctx \in [Shm!Contexts -> Ctx]
  BY <1>2, <1>4
<1>6. /\ r.pend[p] = Shm!Idle /\ (\A q \in Shm!Procs : q # p => r.pend[q] = o.pend[q])
      /\ r.pend \in [Shm!Procs -> [obj : Shm!Objects \union {""}, mode : SUBSET Shm!Flags]]
  <2>1. Shm!Idle \in [obj : Shm!Objects \union {""}, mode : SUBSET Shm!Flags]
    BY DEF Shm!Idle
  <2> QED BY ZenonT(30), <1>3, <1>4, <2>1
<1>7. r \in [h : [Shm!Objects -> Shm!Contexts \union {0}], ctx : [Shm!Contexts -> Ctx],
             pend : [Shm!Procs -> [obj : Shm!Objects \union {""}, mode : SUBSET Shm!Flags]]]
  BY <1>1, <1>4, <1>5, <1>6 DEF Fields
<1>8. Counted(r)
  <2>1. \A j : Users(r, j) = Users(o, j)
    BY <1>4 DEF Users
  <2>2. \A j \in Shm!Contexts : r.ctx[j].refs = o.ctx[j].refs /\ (r.ctx[j].fd = 0 \/ r.ctx[j].fd = o.ctx[j].fd)
    BY <1>5
  <2> QED BY <1>4, <2>1, <2>2 DEF Sound, Counted
<1> QED BY <1>4, <1>5, <1>6, <1>7, <1>8 DEF Thus

\* An open() that fails closes what it had, and removes a name it has made.
Blanked(c, d) == d = [Shm!NoContext EXCEPT !.refs = c.refs]
Shut(o, e, a, k, r) ==
    Sound(r, Closed(e, o.ctx[k]), a) /\ r.ctx[k].fd = 0 /\ \A j \in Shm!Contexts : j # k => r.ctx[j] = o.ctx[j]
LEMMA EndsBad ==
    ASSUME Shm!Sane, NEW o, NEW e, NEW a, Sound(o, e, a), NEW p \in Shm!Procs, o.pend[p] # Shm!Idle,
           NEW k, k = o.h[o.pend[p].obj], NEW d, Blanked(o.ctx[k], d),
           NEW r, Ended(o, r, p, k, d)
    PROVE  Shut(o, e, a, k, r)
<1>1. /\ k \in Shm!Contexts /\ \A q \in Shm!Procs : Waits(o, q, k) <=> q = p
      /\ o.ctx[k] \in Ctx /\ "PERSIST" \notin o.ctx[k].mode /\ k \notin a.early
  <2>1. Opening(o, a, p, k)
    BY Waiting
  <2> QED BY Zenon, <2>1 DEF Opening
<1>2. d \in Ctx /\ d.refs = o.ctx[k].refs /\ d.fd = 0
  <2>1. o.ctx[k].refs \in Nat /\ 0 \in 0..MaxSegments
    BY Zenon, <1>1, Numbers DEF Ctx
  <2>2. d = [Shm!NoContext EXCEPT !.refs = o.ctx[k].refs]
    BY Zenon DEF Blanked
  <2> QED BY Zenon, <2>1, <2>2 DEF Ctx, Shm!NoContext
<1>3. /\ r \in [h : [Shm!Objects -> Shm!Contexts \union {0}], ctx : [Shm!Contexts -> Ctx],
                pend : [Shm!Procs -> [obj : Shm!Objects \union {""}, mode : SUBSET Shm!Flags]]]
      /\ r.h = o.h /\ r.ctx[k] = d /\ \A j \in Shm!Contexts : j # k => r.ctx[j] = o.ctx[j]
      /\ r.pend[p] = Shm!Idle /\ \A q \in Shm!Procs : q # p => r.pend[q] = o.pend[q]
      /\ Counted(r)
  <2>1. Thus(o, r, p, k, d)
    BY <1>1, <1>2, EndedTypes, Zenon
  <2> QED BY Zenon, <2>1 DEF Thus
<1>4. Leaves(o, r, k)
  BY Zenon, <1>1, <1>3 DEF Leaves
<1>5. Rest(r, Closed(e, o.ctx[k]), After(o, r, a))
  <2>1. \A j \in Shm!Contexts \ {k} : Alike(o.ctx[j], r.ctx[j])
    BY ZenonT(30), <1>3, SoundTypes
  <2>2. r.ctx[k] = [Shm!NoContext EXCEPT !.refs = r.ctx[k].refs]
    BY Zenon, <1>2, <1>3 DEF Blanked
  <2> QED BY Zenon, <1>1, <1>4, <2>1, <2>2, CloseRest DEF Sound
<1>6. After(o, r, a) = a
  <2>1. a = [early |-> a.early, left |-> a.left] /\ a.early \subseteq Shm!Contexts
    BY Zenon DEF Sound, Rest, Types
  <2>2. {j \in a.early : r.ctx[j].fd # 0} = a.early
    <3>1. \A j \in a.early : o.ctx[j].fd # 0
      BY DEF Sound, Rest, Sizes
    <3>2. \A j \in a.early : r.ctx[j] = o.ctx[j]
      BY Zenon, <1>1, <1>3, <2>1
    <3> QED BY <3>1, <3>2
  <2>3. {n \in Names : \E j \in Shm!Contexts : o.ctx[j].fd # 0 /\ {"CREATE", "PERSIST"} \subseteq o.ctx[j].mode
                                           /\ o.ctx[j].name = n /\ r.ctx[j].fd = 0} = {}
    BY Zenon, <1>1, <1>3
  <2> QED BY <2>1, <2>2, <2>3 DEF After
<1> QED BY Zenon, <1>2, <1>3, <1>5, <1>6 DEF Sound, Shut

\* An open() that succeeds: the creator has set the size, the others are told
\* the size that is set, which is 0 if they came too early.
Given(o, e, a, p, k, q, z, f, d, b) ==
    /\ q = o.pend[p].mode
    /\ f = IF "CREATE" \in q THEN [e EXCEPT !.size[o.ctx[k].fd] = Size] ELSE e
    /\ z = f.size[o.ctx[k].fd]
    /\ d = [o.ctx[k] EXCEPT !.mode = q, !.size = z]
    /\ b = IF z # Size THEN [a EXCEPT !.early = @ \union {k}] ELSE a
LEMMA EndsWell ==
    ASSUME Shm!Sane, NEW o, NEW e, NEW a, Sound(o, e, a), NEW p \in Shm!Procs, o.pend[p] # Shm!Idle,
           NEW k, k = o.h[o.pend[p].obj], NEW q, NEW z, NEW f, NEW d, NEW b, Given(o, e, a, p, k, q, z, f, d, b),
           NEW r, Ended(o, r, p, k, d)
    PROVE  Sound(r, f, b)
<1>1. PICK c : c = o.ctx[k]
  OBVIOUS
<1>2. /\ k \in Shm!Contexts /\ k \in Slots[p] /\ \A i \in Shm!Procs : Waits(o, i, k) <=> i = p
      /\ c \in Ctx /\ c.fd \in 1..MaxSegments /\ c.mode = q \ {"PERSIST"} /\ k \notin a.early
  <2>1. Opening(o, a, p, k)
    BY Waiting
  <2> QED BY Zenon, <1>1, <2>1 DEF Opening, Given
<1>n. c.fd # 0
  BY <1>2
<1>3. q \in SUBSET Shm!Flags
  <2>1. o.pend \in [Shm!Procs -> [obj : Shm!Objects \union {""}, mode : SUBSET Shm!Flags]]
    BY SoundTypes, Zenon
  <2>2. o.pend[p] \in [obj : Shm!Objects \union {""}, mode : SUBSET Shm!Flags]
    BY <2>1
  <2> QED BY Zenon, <2>2 DEF Given
<1>4. /\ f.names = e.names /\ f.count = e.count /\ z \in {0, Size}
      /\ \A i \in 1..MaxSegments : f.size[i] = e.size[i] \/ f.size[i] = Size
      /\ f \in [names : [Names -> 0..MaxSegments], size : [1..MaxSegments -> {0, Size}], count : 0..MaxSegments]
  <2>1. e \in [names : [Names -> 0..MaxSegments], size : [1..MaxSegments -> {0, Size}], count : 0..MaxSegments]
    BY DEF Sound, Rest, Types
  <2>2. CASE "CREATE" \in q
    <3>1. f = [e EXCEPT !.size[c.fd] = Size]
      BY Zenon, <1>1, <2>2 DEF Given
    <3>2. f.names = e.names /\ f.count = e.count /\ f.size = [e.size EXCEPT ![c.fd] = Size] /\ f = [names |-> f.names, size |-> f.size, count |-> f.count]
      BY <2>1, <3>1
    <3>3. e.size \in [1..MaxSegments -> {0, Size}]
      BY <2>1
    <3>4. f.size \in [1..MaxSegments -> {0, Size}] /\ \A i \in 1..MaxSegments : f.size[i] = e.size[i] \/ f.size[i] = Size
      BY <1>2, <3>2, <3>3
    <3>5. z \in {0, Size}
      BY Zenon, <1>1, <1>2, <3>4 DEF Given
    <3> QED BY Zenon, <2>1, <3>2, <3>4, <3>5
  <2>3. CASE "CREATE" \notin q
    <3>1. f = e
      BY Zenon, <2>3 DEF Given
    <3>2. z \in {0, Size}
      BY Zenon, <1>1, <1>2, <2>1, <3>1 DEF Given
    <3> QED BY <2>1, <3>1, <3>2
  <2> QED BY <2>2, <2>3
<1>5. /\ d.mode = q /\ d.size = z /\ d.refs = c.refs /\ d.fd = c.fd /\ d.map = c.map /\ d.name = c.name
      /\ d \in Ctx
  <2>1. d = [c EXCEPT !.mode = q, !.size = z]
    BY Zenon, <1>1 DEF Given
  <2> QED BY Zenon, <1>2, <1>3, <1>4, <2>1 DEF Ctx
<1>6. /\ r \in [h : [Shm!Objects -> Shm!Contexts \union {0}], ctx : [Shm!Contexts -> Ctx],
                pend : [Shm!Procs -> [obj : Shm!Objects \union {""}, mode : SUBSET Shm!Flags]]]
      /\ r.h = o.h /\ r.ctx[k] = d /\ \A j \in Shm!Contexts : j # k => r.ctx[j] = o.ctx[j]
      /\ r.pend[p] = Shm!Idle /\ \A i \in Shm!Procs : i # p => r.pend[i] = o.pend[i]
      /\ Counted(r)
  <2>1. d.refs = o.ctx[k].refs /\ (d.fd = 0 \/ d.fd = o.ctx[k].fd) /\ k \in Shm!Contexts /\ d \in Ctx
    BY Zenon, <1>1, <1>2, <1>5
  <2>2. Thus(o, r, p, k, d)
    BY <2>1, EndedTypes, Zenon
  <2> QED BY Zenon, <2>2 DEF Thus
<1>7. /\ \A j \in Shm!Contexts : r.ctx[j].fd = o.ctx[j].fd /\ r.ctx[j].name = o.ctx[j].name
      /\ \A j \in Shm!Contexts : "CREATE" \in r.ctx[j].mode <=> "CREATE" \in o.ctx[j].mode
  <2>1. r.ctx[k].fd = o.ctx[k].fd /\ r.ctx[k].name = o.ctx[k].name /\ ("CREATE" \in r.ctx[k].mode <=> "CREATE" \in o.ctx[k].mode)
    BY Zenon, <1>1, <1>2, <1>5, <1>6
  <2> QED BY ZenonT(30), <1>6, <2>1
<1>8. b \in [early : SUBSET Shm!Contexts, left : SUBSET Names] /\ b.left = a.left /\ b.early = IF z # Size THEN a.early \union {k} ELSE a.early
  <2>1. a \in [early : SUBSET Shm!Contexts, left : SUBSET Names]
    BY Zenon DEF Sound, Rest, Types
  <2>2. b = IF z # Size THEN [a EXCEPT !.early = @ \union {k}] ELSE a
    BY Zenon DEF Given
  <2> QED BY <1>2, <2>1, <2>2
<1>9. Types(r, f, b)
  BY Zenon, <1>4, <1>6, <1>8 DEF Types
<1>10. Begins(r, b)
  <2> SUFFICES ASSUME NEW i \in Shm!Procs, r.pend[i] # Shm!Idle
               PROVE  LET j == r.h[r.pend[i].obj]
                      IN  /\ r.pend[i].obj \in Shm!Objects /\ Home[r.pend[i].obj] = i /\ j # 0
                          /\ r.ctx[j].fd # 0 /\ r.ctx[j].mode = r.pend[i].mode \ {"PERSIST"} /\ j \notin b.early
    BY Zenon DEF Begins
  <2>1. i # p /\ r.pend[i] = o.pend[i] /\ o.pend[i] # Shm!Idle
    BY Zenon, <1>6
  <2>2. PICK j : j = o.h[o.pend[i].obj] /\ j = r.h[r.pend[i].obj]
    BY Zenon, <1>6, <2>1
  <2>3. /\ o.pend[i].obj \in Shm!Objects /\ Home[o.pend[i].obj] = i /\ j # 0
        /\ o.ctx[j].fd # 0 /\ o.ctx[j].mode = o.pend[i].mode \ {"PERSIST"} /\ j \notin a.early
    BY Zenon, <2>1, <2>2 DEF Sound, Rest, Begins
  <2>4. j # k /\ j \in Shm!Contexts
    <3>1. j \in Shm!Contexts
      <4>1. Opening(o, a, i, j)
        BY <2>1, <2>2, Waiting
      <4> QED BY <4>1 DEF Opening
    <3>2. Waits(o, i, j)
      BY <2>1, <2>2 DEF Waits
    <3> QED BY <1>2, <2>1, <3>1, <3>2
  <2>5. r.ctx[j] = o.ctx[j]
    <3>1. \A l \in Shm!Contexts : l # k => r.ctx[l] = o.ctx[l]
      BY <1>6
    <3> QED BY <2>4, <3>1
  <2>6. j \notin b.early
    BY <1>8, <2>3, <2>4
  <2> QED BY Zenon, <2>1, <2>2, <2>3, <2>5, <2>6
<1>11. Segments(r, f)
  <2>1. \A j \in Shm!Contexts :
          LET i == r.ctx[j]
          IN  /\ i.fd <= f.count
              /\ i.fd # 0 => i.name \in Names
              /\ i.fd = 0 => i = [Shm!NoContext EXCEPT !.refs = i.refs]
              /\ i.map # <<>> => i.map[1] = i.fd
    <3> SUFFICES ASSUME NEW j \in Shm!Contexts
                 PROVE  /\ r.ctx[j].fd <= f.count
                        /\ r.ctx[j].fd # 0 => r.ctx[j].name \in Names
                        /\ r.ctx[j].fd = 0 => r.ctx[j] = [Shm!NoContext EXCEPT !.refs = r.ctx[j].refs]
                        /\ r.ctx[j].map # <<>> => r.ctx[j].map[1] = r.ctx[j].fd
      BY Zenon
    <3>0. /\ o.ctx[j].fd <= e.count
          /\ o.ctx[j].fd # 0 => o.ctx[j].name \in Names
          /\ o.ctx[j].fd = 0 => o.ctx[j] = [Shm!NoContext EXCEPT !.refs = o.ctx[j].refs]
          /\ o.ctx[j].map # <<>> => o.ctx[j].map[1] = o.ctx[j].fd
      BY DEF Sound, Rest, Segments
    <3>1. CASE j = k
      <4>1. r.ctx[j].fd # 0 /\ r.ctx[j].fd = o.ctx[j].fd /\ r.ctx[j].name = o.ctx[j].name /\ r.ctx[j].map = o.ctx[j].map
        BY Zenon, <1>1, <1>5, <1>6, <1>n, <3>1
      <4> QED BY <1>4, <3>0, <4>1
    <3>2. CASE j # k
      <4>1. r.ctx[j] = o.ctx[j]
        BY <1>6, <3>2
      <4> QED BY <1>4, <3>0, <4>1
    <3> QED BY <3>1, <3>2
  <2>2. (\A n \in Names : f.names[n] <= f.count) /\ \A n, i \in Names : f.names[n] = f.names[i] /\ f.names[n] # 0 => n = i
    BY <1>4 DEF Sound, Rest, Segments
  <2>3. \A i, j \in Shm!Contexts :
          r.ctx[i].fd = r.ctx[j].fd /\ r.ctx[i].fd # 0 /\ "CREATE" \in r.ctx[i].mode /\ "CREATE" \in r.ctx[j].mode => i = j
    BY <1>7 DEF Sound, Rest, Segments
  <2> QED BY <2>1, <2>2, <2>3, Zenon DEF Segments
<1>12. Owned(r, f, b)
  <2>1. \A j \in Shm!Contexts : r.ctx[j].fd # 0 /\ "CREATE" \in r.ctx[j].mode => f.names[r.ctx[j].name] = r.ctx[j].fd
    BY <1>4, <1>7 DEF Sound, Rest, Owned
  <2>2. \A n \in Names \ b.left : f.names[n] # 0 =>
            \E j \in Shm!Contexts : r.ctx[j].fd = f.names[n] /\ "CREATE" \in r.ctx[j].mode
    BY <1>4, <1>7, <1>8 DEF Sound, Rest, Owned
  <2> QED BY <2>1, <2>2 DEF Owned
<1>13. Sizes(r, f, b)
  <2>1. ASSUME NEW j \in b.early PROVE r.ctx[j].fd # 0 /\ r.ctx[j].size = 0
    <3>1. CASE j = k
      <4>1. z = 0
        BY <1>2, <1>4, <1>8, <2>1, <3>1
      <4>2. r.ctx[j].fd = c.fd /\ r.ctx[j].size = z /\ c.fd # 0
        BY Zenon, <1>5, <1>6, <1>n, <3>1
      <4> QED BY <4>1, <4>2
    <3>2. CASE j # k
      <4>1. j \in a.early /\ j \in Shm!Contexts
        BY <1>8, <2>1, <3>2
      <4> QED BY <1>6, <3>2, <4>1 DEF Sound, Rest, Sizes
    <3> QED BY <3>1, <3>2
  <2>2. ASSUME NEW i \in Shm!Procs, NEW j \in Slots[i], r.ctx[j].fd # 0, j \notin b.early, ~Waits(r, i, j)
        PROVE  r.ctx[j].size = Size /\ f.size[r.ctx[j].fd] = Size
    <3>0. j \in Shm!Contexts
      BY OwnContexts
    <3>1. CASE j = k
      <4>1. z = Size
        <5> SUFFICES ASSUME z # Size PROVE FALSE
          OBVIOUS
        <5>1. b.early = a.early \union {k}
          BY Zenon, <1>8
        <5>2. j \in b.early
          BY Zenon, <3>1, <5>1
        <5> QED BY Zenon, <2>2, <5>2
      <4>2. r.ctx[j].fd = c.fd /\ r.ctx[j].size = z
        BY <1>5, <1>6, <3>1
      <4> QED BY ZenonT(30), <1>1, <4>1, <4>2 DEF Given
    <3>2. CASE j # k
      <4>1. ~Waits(o, i, j) /\ j \notin a.early
        <5>1. i = p => ~Waits(o, i, j)
          BY <3>2 DEF Waits
        <5>2. i # p => ~Waits(o, i, j)
          BY Zenon, <1>6, <2>2 DEF Waits
        <5> QED BY <1>8, <2>2, <5>1, <5>2
      <4>2. r.ctx[j] = o.ctx[j] /\ o.ctx[j].fd # 0
        BY <1>6, <2>2, <3>0, <3>2
      <4>3. o.ctx[j].size = Size /\ e.size[o.ctx[j].fd] = Size
        BY <4>1, <4>2 DEF Sound, Rest, Sizes
      <4>4. o.ctx[j].fd \in 1..MaxSegments
        <5>1. o.ctx[j] \in Ctx
          BY <3>0, SoundTypes
        <5>2. o.ctx[j].fd \in 0..MaxSegments
          BY ZenonT(30), <5>1 DEF Ctx
        <5> QED BY <4>2, <5>2, Numbers
      <4> QED BY <1>4, <4>2, <4>3, <4>4
    <3> QED BY <3>1, <3>2
  <2> QED BY <2>1, <2>2 DEF Sizes
<1> QED BY <1>6, <1>9, <1>10, <1>11, <1>12, <1>13 DEF Sound, Rest

\* close() closes the context for every object that has it, and finds a name
\* to remove where it has one.
LEMMA ClosedByAll ==
    ASSUME Shm!Sane, NEW o, NEW e, NEW a, Sound(o, e, a), NEW x \in Shm!Objects, o.pend[Home[x]] = Shm!Idle,
           NEW k, k = o.h[x], k # 0, NEW d, d = [Shm!NoContext EXCEPT !.refs = o.ctx[k].refs],
           NEW r, r = [o EXCEPT !.ctx[k] = d]
    PROVE  Sound(r, Closed(e, o.ctx[k]), After(o, r, a)) /\ ~(Shm!Unlinks(o.ctx[k]) /\ e.names[o.ctx[k].name] = 0)
<1>h. o.h \in [Shm!Objects -> Shm!Contexts \union {0}]
  BY SoundTypes, Zenon
<1>c. o.ctx \in [Shm!Contexts -> Ctx]
  BY SoundTypes, Zenon
<1>p. o.pend \in [Shm!Procs -> [obj : Shm!Objects \union {""}, mode : SUBSET Shm!Flags]]
  BY SoundTypes, Zenon
<1>1. k \in Shm!Contexts /\ o.ctx[k] \in Ctx
  BY <1>h, <1>c
<1>2. d \in Ctx /\ d.refs = o.ctx[k].refs /\ d.fd = 0
  <2>1. o.ctx[k].refs \in Nat /\ 0 \in 0..MaxSegments
    BY <1>1, Numbers DEF Ctx
  <2> QED BY <2>1 DEF Ctx, Shm!NoContext
<1>3. Fields(r) /\ r.ctx = [o.ctx EXCEPT ![k] = d] /\ r.h = o.h /\ r.pend = o.pend
  <2>1. Fields(o)
    BY SoundTypes
  <2> QED BY <2>1 DEF Fields
<1>4. r.ctx[k] = d /\ r.ctx \in [Shm!Contexts -> Ctx] /\ \A j \in Shm!Contexts : j # k => r.ctx[j] = o.ctx[j]
  BY <1>1, <1>2, <1>3, <1>c
<1>5. \A p \in Shm!Procs : ~Waits(o, p, k)
  BY NobodyWaits
<1>6. Leaves(o, r, k)
  BY <1>3, <1>4, <1>5, <1>h, <1>p DEF Leaves, Fields
<1>7. Rest(r, Closed(e, o.ctx[k]), After(o, r, a))
  <2>1. \A j \in Shm!Contexts \ {k} : Alike(o.ctx[j], r.ctx[j])
    BY <1>4, SoundTypes
  <2>2. r.ctx[k] = [Shm!NoContext EXCEPT !.refs = r.ctx[k].refs]
    BY <1>2, <1>4
  <2> QED BY <1>1, <1>6, <2>1, <2>2, CloseRest DEF Sound
<1>8. Counted(r)
  <2>1. \A j : Users(r, j) = Users(o, j)
    BY <1>3 DEF Users
  <2>2. \A j \in Shm!Contexts : r.ctx[j].refs = o.ctx[j].refs /\ (r.ctx[j].fd = 0 \/ r.ctx[j].fd = o.ctx[j].fd)
    BY <1>2, <1>4
  <2> QED BY <1>3, <2>1, <2>2 DEF Sound, Counted
<1>9. ~(Shm!Unlinks(o.ctx[k]) /\ e.names[o.ctx[k].name] = 0)
  BY <1>1 DEF Shm!Unlinks, Sound, Rest, Owned
<1> QED BY <1>7, <1>8, <1>9 DEF Sound

\* A process that dies: its contexts are gone, its names are not.
Dead(o, a, p, r, b) ==
    /\ Fields(r) /\ r.h = [x \in Shm!Objects |-> IF Home[x] = p THEN 0 ELSE o.h[x]]
    /\ r.ctx = [k \in Shm!Contexts |-> IF k \in Slots[p] THEN Shm!NoContext ELSE o.ctx[k]]
    /\ r.pend = [o.pend EXCEPT ![p] = Shm!Idle]
    /\ b = [early |-> {k \in a.early : r.ctx[k].fd # 0},
            left |-> a.left \union {o.ctx[k].name : k \in {c \in {j \in Slots[p] : o.ctx[j].fd # 0} : "CREATE" \in o.ctx[c].mode}}]
LEMMA Died ==
    ASSUME Shm!Sane, NEW o, NEW e, NEW a, Sound(o, e, a), NEW p \in Shm!Procs, NEW r, NEW b, Dead(o, a, p, r, b)
    PROVE  Sound(r, e, b)
<1>h. o.h \in [Shm!Objects -> Shm!Contexts \union {0}]
  BY SoundTypes, Zenon
<1>c. o.ctx \in [Shm!Contexts -> Ctx]
  BY SoundTypes, Zenon
<1>p. o.pend \in [Shm!Procs -> [obj : Shm!Objects \union {""}, mode : SUBSET Shm!Flags]]
  BY SoundTypes, Zenon
<1>1. Fields(r) /\ \A x \in Shm!Objects : r.h[x] = IF Home[x] = p THEN 0 ELSE o.h[x]
  BY DEF Dead
<1>2. \A k \in Shm!Contexts : r.ctx[k] = IF k \in Slots[p] THEN Shm!NoContext ELSE o.ctx[k]
  BY DEF Dead
<1>3. r.pend[p] = Shm!Idle /\ \A q \in Shm!Procs : q # p => r.pend[q] = o.pend[q]
  BY <1>p DEF Dead
<1>n. Shm!NoContext \in Ctx /\ Shm!NoContext.fd = 0 /\ Shm!NoContext.refs = 0 /\ Shm!NoContext.map = <<>> /\ Shm!NoContext = [Shm!NoContext EXCEPT !.refs = Shm!NoContext.refs]
  BY Numbers DEF Shm!NoContext, Ctx
<1>4. \A x \in Shm!Objects : o.h[x] \in Shm!Contexts /\ o.h[x] \in Slots[p] => Home[x] = p
  BY OwnContexts DEF Sound, Counted
<1>a. /\ b.early = {k \in a.early : r.ctx[k].fd # 0} /\ a.left \subseteq b.left
      /\ \A k \in Slots[p] : o.ctx[k].fd # 0 /\ "CREATE" \in o.ctx[k].mode => o.ctx[k].name \in b.left
  BY DEF Dead
<1>5. Counted(r)
  <2>1. \A x \in Shm!Objects : r.h[x] # 0 => r.h[x] \in Slots[Home[x]]
    BY <1>1 DEF Sound, Counted
  <2>2. ASSUME NEW k \in Shm!Contexts PROVE r.ctx[k].refs = Cardinality(Users(r, k)) /\ (r.ctx[k].refs = 0 => r.ctx[k].fd = 0)
    <3>0. k # 0
      BY OwnContexts
    <3>1. CASE k \in Slots[p]
      <4>1. Users(r, k) = {}
        BY <1>1, <1>4, <3>0, <3>1 DEF Users
      <4> QED BY <1>2, <1>n, <3>1, <4>1, FS_EmptySet
    <3>2. CASE k \notin Slots[p]
      <4>1. ASSUME NEW x \in Shm!Objects PROVE r.h[x] = k <=> o.h[x] = k
        <5>1. Home[x] = p => o.h[x] # k
          BY <3>0, <3>2 DEF Sound, Counted
        <5> QED BY <1>1, <3>0, <5>1
      <4>2. Users(r, k) = Users(o, k)
        BY <4>1 DEF Users
      <4> QED BY <1>2, <3>2, <4>2 DEF Sound, Counted
    <3> QED BY <3>1, <3>2
  <2> QED BY <2>1, <2>2 DEF Counted
<1>6. Types(r, e, b)
  <2>1. r.h \in [Shm!Objects -> Shm!Contexts \union {0}]
    BY <1>h DEF Dead
  <2>2. r.ctx \in [Shm!Contexts -> Ctx]
    BY <1>c, <1>n DEF Dead
  <2>3. r.pend \in [Shm!Procs -> [obj : Shm!Objects \union {""}, mode : SUBSET Shm!Flags]]
    <3>1. Shm!Idle \in [obj : Shm!Objects \union {""}, mode : SUBSET Shm!Flags]
      BY DEF Shm!Idle
    <3>2. r.pend = [o.pend EXCEPT ![p] = Shm!Idle]
      BY DEF Dead
    <3> QED BY <1>p, <3>1, <3>2
  <2>4. b \in [early : SUBSET Shm!Contexts, left : SUBSET Names]
    <3>1. a.early \subseteq Shm!Contexts /\ a.left \subseteq Names
      BY DEF Sound, Rest, Types
    <3>2. \A k \in Slots[p] : o.ctx[k].fd # 0 => o.ctx[k].name \in Names
      BY OwnContexts DEF Sound, Rest, Segments
    <3>3. {o.ctx[k].name : k \in {c \in {j \in Slots[p] : o.ctx[j].fd # 0} : "CREATE" \in o.ctx[c].mode}} \subseteq Names
      BY <3>2
    <3> QED BY <3>1, <3>3 DEF Dead
  <2> QED BY <1>1, <2>1, <2>2, <2>3, <2>4 DEF Types, Fields, Sound, Rest
<1>7. Begins(r, b)
  <2> SUFFICES ASSUME NEW q \in Shm!Procs, r.pend[q] # Shm!Idle
               PROVE  LET k == r.h[r.pend[q].obj]
                      IN  /\ r.pend[q].obj \in Shm!Objects /\ Home[r.pend[q].obj] = q /\ k # 0
                          /\ r.ctx[k].fd # 0 /\ r.ctx[k].mode = r.pend[q].mode \ {"PERSIST"} /\ k \notin b.early
    BY Zenon DEF Begins
  <2>1. q # p /\ r.pend[q] = o.pend[q] /\ o.pend[q] # Shm!Idle
    BY <1>3
  <2>2. PICK k : k = o.h[o.pend[q].obj]
    OBVIOUS
  <2>3. /\ o.pend[q].obj \in Shm!Objects /\ Home[o.pend[q].obj] = q /\ k # 0
        /\ o.ctx[k].fd # 0 /\ o.ctx[k].mode = o.pend[q].mode \ {"PERSIST"} /\ k \notin a.early
    BY <2>1, <2>2 DEF Sound, Rest, Begins
  <2>4. k \in Slots[q] /\ k \in Shm!Contexts /\ k \notin Slots[p]
    <3>1. k \in Slots[q]
      BY Zenon, <2>2, <2>3 DEF Sound, Counted
    <3> QED BY <2>1, <3>1, OwnContexts
  <2>5. r.h[r.pend[q].obj] = k /\ r.ctx[k] = o.ctx[k] /\ k \notin b.early
    BY Zenon, <1>1, <1>2, <1>a, <2>1, <2>2, <2>3, <2>4
  <2> QED BY <2>1, <2>3, <2>5
<1>8. Segments(r, e)
  <2>0. \A k \in Shm!Contexts : k \in Slots[p] => r.ctx[k].fd = 0 /\ r.ctx[k].map = <<>>
    BY <1>2, <1>n
  <2>1. \A k \in Shm!Contexts :
          LET c == r.ctx[k]
          IN  /\ c.fd <= e.count
              /\ c.fd # 0 => c.name \in Names
              /\ c.fd = 0 => c = [Shm!NoContext EXCEPT !.refs = c.refs]
              /\ c.map # <<>> => c.map[1] = c.fd
    <3> SUFFICES ASSUME NEW k \in Shm!Contexts
                 PROVE  /\ r.ctx[k].fd <= e.count
                        /\ r.ctx[k].fd # 0 => r.ctx[k].name \in Names
                        /\ r.ctx[k].fd = 0 => r.ctx[k] = [Shm!NoContext EXCEPT !.refs = r.ctx[k].refs]
                        /\ r.ctx[k].map # <<>> => r.ctx[k].map[1] = r.ctx[k].fd
      BY Zenon
    <3>1. CASE k \in Slots[p]
      <4>1. r.ctx[k] = Shm!NoContext
        BY <1>2, <3>1
      <4>2. 0 <= e.count
        <5>1. e.count \in 0..MaxSegments
          BY DEF Sound, Rest, Types
        <5> QED BY <5>1, Numbers
      <4> QED BY <1>n, <4>1, <4>2
    <3>2. CASE k \notin Slots[p]
      <4>1. r.ctx[k] = o.ctx[k]
        BY <1>2, <3>2
      <4> QED BY <4>1 DEF Sound, Rest, Segments
    <3> QED BY <3>1, <3>2
  <2>2. (\A n \in Names : e.names[n] <= e.count) /\ \A m, n \in Names : e.names[m] = e.names[n] /\ e.names[m] # 0 => m = n
    BY DEF Sound, Rest, Segments
  <2>3. \A j, k \in Shm!Contexts :
          r.ctx[j].fd = r.ctx[k].fd /\ r.ctx[j].fd # 0 /\ "CREATE" \in r.ctx[j].mode /\ "CREATE" \in r.ctx[k].mode => j = k
    BY <1>2, <2>0 DEF Sound, Rest, Segments
  <2> QED BY <2>1, <2>2, <2>3, Zenon DEF Segments
<1>9. Owned(r, e, b)
  <2>1. ASSUME NEW k \in Shm!Contexts, r.ctx[k].fd # 0, "CREATE" \in r.ctx[k].mode PROVE e.names[r.ctx[k].name] = r.ctx[k].fd
    <3>1. k \notin Slots[p]
      BY <1>2, <1>n, <2>1
    <3> QED BY <1>2, <2>1, <3>1 DEF Sound, Rest, Owned
  <2>2. ASSUME NEW n \in Names \ b.left, e.names[n] # 0
        PROVE  \E k \in Shm!Contexts : r.ctx[k].fd = e.names[n] /\ "CREATE" \in r.ctx[k].mode
    <3>1. PICK k \in Shm!Contexts : o.ctx[k].fd = e.names[n] /\ "CREATE" \in o.ctx[k].mode
      BY <1>a, <2>2 DEF Sound, Rest, Owned
    <3>2. o.ctx[k].name = n
      <4>1. e.names[o.ctx[k].name] = e.names[n] /\ o.ctx[k].name \in Names
        BY <2>2, <3>1 DEF Sound, Rest, Owned, Segments
      <4> QED BY <2>2, <4>1 DEF Sound, Rest, Segments
    <3>3. k \notin Slots[p]
      BY <1>a, <2>2, <3>1, <3>2
    <3> QED BY <1>2, <3>1, <3>3
  <2> QED BY <2>1, <2>2 DEF Owned
<1>10. Sizes(r, e, b)
  <2>1. ASSUME NEW k \in b.early PROVE r.ctx[k].fd # 0 /\ r.ctx[k].size = 0
    <3>1. k \in a.early /\ k \in Shm!Contexts /\ r.ctx[k].fd # 0
      BY <1>a, <2>1 DEF Sound, Rest, Types
    <3>2. k \notin Slots[p]
      BY <1>2, <1>n, <3>1
    <3> QED BY <1>2, <3>1, <3>2 DEF Sound, Rest, Sizes
  <2>2. ASSUME NEW q \in Shm!Procs, NEW k \in Slots[q], r.ctx[k].fd # 0, k \notin b.early, ~Waits(r, q, k)
        PROVE  r.ctx[k].size = Size /\ e.size[r.ctx[k].fd] = Size
    <3>1. k \in Shm!Contexts /\ k \notin Slots[p] /\ r.ctx[k] = o.ctx[k]
      BY <1>2, <1>n, <2>2, OwnContexts
    <3>2. k \notin a.early /\ q # p
      BY <1>a, <2>2, <3>1
    <3>3. ~Waits(o, q, k)
      <4> SUFFICES ASSUME Waits(o, q, k) PROVE FALSE
        OBVIOUS
      <4>1. PICK y : y = o.pend[q].obj /\ o.pend[q] # Shm!Idle /\ k = o.h[y]
        BY DEF Waits
      <4>2. y \in Shm!Objects /\ Home[y] = q
        BY <4>1, SoundTypes
      <4>3. r.h[y] = k /\ r.pend[q] = o.pend[q]
        BY <1>1, <1>3, <3>2, <4>1, <4>2
      <4> QED BY <2>2, <4>1, <4>3 DEF Waits
    <3> QED BY <2>2, <3>1, <3>2, <3>3 DEF Sound, Rest, Sizes
  <2> QED BY <2>1, <2>2 DEF Sizes
<1> QED BY <1>5, <1>6, <1>7, <1>8, <1>9, <1>10 DEF Sound, Rest

LEMMA EndsAfter ==
    ASSUME Shm!Sane, ShmInv, NEW r, Shm!Ends(r)
    PROVE  abs' = After(obj, r, abs)
<1>1. abs = [early |-> abs.early, left |-> abs.left]
  BY DEF ShmInv, Sound, Rest, Types
<1>2. abs' = [[abs EXCEPT !.early = {k \in @ : r.ctx[k].fd # 0}] EXCEPT !.left = @ \union Shm!Kept(r)]
  BY DEF Shm!Ends, Shm!Early
<1>3. abs' = [early |-> {k \in abs.early : r.ctx[k].fd # 0}, left |-> abs.left \union Shm!Kept(r)]
  BY <1>1, <1>2
<1> QED BY <1>3, Zenon DEF After, Shm!Kept

LEMMA InitSound == ASSUME Shm!Sane, Shm!Init PROVE ShmInv
<1>0. \A x \in Shm!Objects : obj.h[x] = 0
  BY DEF Shm!Init
<1>1. \A k \in Shm!Contexts : obj.ctx[k] = Shm!NoContext
  BY DEF Shm!Init
<1>2. \A p \in Shm!Procs : obj.pend[p] = Shm!Idle
  BY DEF Shm!Init
<1>3. (\A n \in Names : env.names[n] = 0) /\ env.count = 0 /\ abs.early = {} /\ abs.left = {}
  BY DEF Shm!Init
<1>n. /\ Shm!NoContext \in Ctx /\ Shm!NoContext.fd = 0 /\ Shm!NoContext.refs = 0 /\ Shm!NoContext.map = <<>>
      /\ Shm!NoContext = [Shm!NoContext EXCEPT !.refs = Shm!NoContext.refs]
  BY Numbers DEF Shm!NoContext, Ctx
<1>4. Counted(obj)
  <2>1. ASSUME NEW k \in Shm!Contexts PROVE Users(obj, k) = {}
    BY <1>0, OwnContexts DEF Users
  <2> QED BY <1>0, <1>1, <1>n, <2>1, FS_EmptySet DEF Counted
<1>5. Types(obj, env, abs)
  <2>1. Shm!Idle \in [obj : Shm!Objects \union {""}, mode : SUBSET Shm!Flags]
    BY DEF Shm!Idle
  <2>2. obj \in [h : [Shm!Objects -> Shm!Contexts \union {0}], ctx : [Shm!Contexts -> Ctx],
                 pend : [Shm!Procs -> [obj : Shm!Objects \union {""}, mode : SUBSET Shm!Flags]]]
    BY <1>n, <2>1 DEF Shm!Init
  <2>3. env \in [names : [Names -> 0..MaxSegments], size : [1..MaxSegments -> {0, Size}], count : 0..MaxSegments]
    BY Numbers DEF Shm!Init
  <2>4. abs \in [early : SUBSET Shm!Contexts, left : SUBSET Names]
    BY DEF Shm!Init
  <2> QED BY <2>2, <2>3, <2>4 DEF Types
<1>6. Begins(obj, abs)
  BY <1>2 DEF Begins
<1>7. Segments(obj, env)
  BY <1>1, <1>3, <1>n DEF Segments
<1>8. Owned(obj, env, abs)
  BY <1>1, <1>3, <1>n DEF Owned
<1>9. Sizes(obj, env, abs)
  BY <1>1, <1>3, <1>n, OwnContexts DEF Sizes
<1>10. ret = "OK"
  BY DEF Shm!Init
<1> QED BY <1>4, <1>5, <1>6, <1>7, <1>8, <1>9, <1>10 DEF ShmInv, Sound, Rest

\* What each call does, for the names too when it fails.
Undone == ret' = "FAILED" => env' = env /\ Lets(obj, obj')
LEMMA OpenKeeps == ASSUME Shm!Sane, ShmInv, Shm!Open PROVE ShmInv' /\ Undone
<1>1. PICK x \in Shm!Objects, mode \in Modes :
        /\ Shm!Free(Home[x]) /\ env.count < MaxSegments
        /\ \/ \E name \in Names : Shm!Begun(x, name, mode)
           \/ LET c == Shm!create(env, mode) IN \E name \in c.names : Shm!Begun(x, name, c.mode)
  BY DEF Shm!Open
<1>2. abs' = abs
  BY DEF Shm!Open
<1>3. mode \in SUBSET Shm!Flags
  BY DEF Shm!Sane
<1>4. PICK name \in Names, m \in SUBSET Shm!Flags : Shm!Begun(x, name, m)
  <2>1. CASE \E name \in Names : Shm!Begun(x, name, mode)
    BY <1>3, <2>1
  <2>2. CASE \E name \in Shm!create(env, mode).names : Shm!Begun(x, name, Shm!create(env, mode).mode)
    <3>1. Shm!create(env, mode).names \subseteq Names /\ Shm!create(env, mode).mode = mode \union {"CREATE"}
      BY DEF Shm!create
    <3>2. Shm!create(env, mode).mode \in SUBSET Shm!Flags
      BY <1>3, <3>1 DEF Shm!Flags
    <3> QED BY <2>2, <3>1, <3>2
  <2> QED BY <1>1, <2>1, <2>2, Zenon
<1>5. obj.pend[Home[x]] = Shm!Idle
  BY <1>1 DEF Shm!Free
<1>6. /\ Sound(obj', env', abs) /\ ret' \in {"OK", "FAILED"}
      /\ ret' = "FAILED" => env' = env /\ Lets(obj, obj')
  BY <1>1, <1>4, <1>5, BegunSound
<1> QED BY <1>2, <1>6 DEF ShmInv, Undone

LEMMA closeKeeps == ASSUME Shm!Sane, ShmInv, Shm!close PROVE ShmInv' /\ ret' = "OK"
<1>1. PICK x \in Shm!Objects :
        LET k == obj.h[x]
            z == Shm!close_context(env, obj.ctx[k])
            o == IF k = 0 THEN obj ELSE [obj EXCEPT !.ctx[k] = z.ctx]
        IN  Shm!Free(Home[x]) /\ Shm!Done(IF k = 0 THEN "OK" ELSE z.res, o, IF k = 0 THEN env ELSE z.env) /\ Shm!Ends(o)
  BY DEF Shm!close
<1>2. PICK k, c, z : k = obj.h[x] /\ c = obj.ctx[k] /\ z = Shm!close_context(env, c)
  OBVIOUS
<1>3. Sound(obj, env, abs) /\ obj.pend[Home[x]] = Shm!Idle
  BY <1>1 DEF ShmInv, Shm!Free
<1>4. CASE k = 0
  <2>1. Shm!Done("OK", obj, env) /\ Shm!Ends(obj)
    BY <1>1, <1>2, <1>4, Zenon
  <2>2. abs' = abs
    BY <1>3, <2>1, EndsAfter, AfterNothing
  <2> QED BY <1>3, <2>1, <2>2 DEF Shm!Done, ShmInv
<1>5. CASE k # 0
  <2>0. c \in Ctx
    BY <1>2, <1>3, <1>5, SoundTypes DEF Contexted
  <2>1. PICK r : r = [obj EXCEPT !.ctx[k] = z.ctx]
    OBVIOUS
  <2>2. Shm!Done(z.res, r, z.env) /\ Shm!Ends(r)
    BY <1>1, <1>2, <1>5, <2>1, Zenon
  <2>3. z.ctx = [Shm!NoContext EXCEPT !.refs = c.refs] /\ z.env = Closed(env, c) /\ z.res = IF Shm!Unlinks(c) /\ env.names[c.name] = 0 THEN "IO_ERROR" ELSE "OK"
    <3>1. z = Shm!close_context(env, c)
      BY <1>2
    <3> QED BY <2>0, <3>1, ContextClosed
  <2>4. Sound(r, Closed(env, c), After(obj, r, abs)) /\ ~(Shm!Unlinks(c) /\ env.names[c.name] = 0)
    BY SMTT(30), <1>2, <1>3, <1>5, <2>1, <2>3, ClosedByAll
  <2>5. obj' = r /\ env' = Closed(env, c) /\ ret' = "OK" /\ abs' = After(obj, r, abs)
    BY <2>2, <2>3, <2>4, EndsAfter DEF Shm!Done
  <2> QED BY <2>4, <2>5 DEF ShmInv
<1> QED BY <1>4, <1>5

LEMMA mapKeeps == ASSUME Shm!Sane, ShmInv, Shm!map PROVE ShmInv' /\ Undone
<1>1. PICK x \in Shm!Objects, fails \in BOOLEAN :
        LET k == obj.h[x]
            bad == fails \/ obj.ctx[k].size = 0
        IN  /\ Shm!Free(Home[x]) /\ UNCHANGED abs
            /\ IF ~Shm!opened(obj, x) THEN Shm!Done("CLOSED", obj, env)
               ELSE IF bad THEN Shm!Done("IO_ERROR", obj, env)
               ELSE Shm!Done("OK", [obj EXCEPT !.ctx[k] = Shm!map_context(@, 0, @.size)], env)
  BY Zenon DEF Shm!map
<1>2. PICK k, c, r : k = obj.h[x] /\ c = obj.ctx[k] /\ r = [obj EXCEPT !.ctx[k] = Shm!map_context(@, 0, @.size)]
  OBVIOUS
<1>3. abs' = abs
  BY <1>1
<1>4. \/ Shm!Done("CLOSED", obj, env) \/ Shm!Done("IO_ERROR", obj, env)
      \/ Shm!opened(obj, x) /\ c.size # 0 /\ Shm!Done("OK", r, env)
  BY <1>1, <1>2, Zenon
<1>5. CASE Shm!Done("CLOSED", obj, env) \/ Shm!Done("IO_ERROR", obj, env)
  BY <1>3, <1>5 DEF Shm!Done, ShmInv, Undone, Lets
<1>6. CASE Shm!opened(obj, x) /\ c.size # 0 /\ Shm!Done("OK", r, env)
  <2>1. k # 0 /\ c.fd # 0
    BY <1>2, <1>6 DEF Shm!opened
  <2>2. k \in Shm!Contexts /\ c \in Ctx
    BY <1>2, <2>1, SoundTypes DEF ShmInv, Contexted
  <2>3. c.size = Size
    BY <1>6, <2>2 DEF Ctx
  <2>4. r = [obj EXCEPT !.ctx[k] = [obj.ctx[k] EXCEPT !.map = <<obj.ctx[k].fd, 0, Size>>]]
    <3>1. obj.ctx \in [Shm!Contexts -> Ctx] /\ Fields(obj)
      BY SoundTypes DEF ShmInv
    <3>2. r = [obj EXCEPT !.ctx[k] = Shm!map_context(c, 0, Size)]
      BY <1>2, <2>2, <2>3, <3>1
    <3> QED BY <1>2, <3>2, Zenon DEF Shm!map_context
  <2>5. PICK v : v = <<obj.ctx[k].fd, 0, Size>>
    OBVIOUS
  <2>6. Sound(r, env, abs) /\ Lets(obj, r)
    BY <1>2, <2>1, <2>2, <2>4, <2>5, SetMap DEF ShmInv
  <2> QED BY <1>3, <1>6, <2>6 DEF Shm!Done, ShmInv, Undone
<1> QED BY <1>4, <1>5, <1>6

LEMMA unmapKeeps == ASSUME Shm!Sane, ShmInv, Shm!unmap PROVE ShmInv' /\ Undone
<1>1. PICK x \in Shm!Objects :
        LET res == IF ~Shm!opened(obj, x) THEN "CLOSED" ELSE IF ~Shm!mapped(obj, x) THEN "NOT_MAPPED" ELSE "OK"
        IN  /\ Shm!Free(Home[x]) /\ UNCHANGED abs
            /\ Shm!Done(res, IF res = "OK" THEN [obj EXCEPT !.ctx[obj.h[x]] = Shm!unmap_context(@)] ELSE obj, env)
  BY Zenon DEF Shm!unmap
<1>2. PICK k, r : k = obj.h[x] /\ r = [obj EXCEPT !.ctx[k] = Shm!unmap_context(@)]
  OBVIOUS
<1>3. abs' = abs
  BY <1>1
<1>4. \/ Shm!Done("CLOSED", obj, env) \/ Shm!Done("NOT_MAPPED", obj, env)
      \/ Shm!opened(obj, x) /\ Shm!Done("OK", r, env)
  <2>1. PICK res : res = IF ~Shm!opened(obj, x) THEN "CLOSED" ELSE IF ~Shm!mapped(obj, x) THEN "NOT_MAPPED" ELSE "OK"
    OBVIOUS
  <2>2. Shm!Done(res, IF res = "OK" THEN r ELSE obj, env)
    BY <1>1, <1>2, <2>1, Zenon
  <2>3. CASE res = "OK"
    BY <2>1, <2>2, <2>3
  <2>4. CASE res # "OK"
    <3>1. res = "CLOSED" \/ res = "NOT_MAPPED"
      BY <2>1, <2>4
    <3>2. Shm!Done(res, obj, env)
      BY <2>2, <2>4
    <3> QED BY <3>1, <3>2
  <2> QED BY <2>3, <2>4
<1>5. CASE Shm!Done("CLOSED", obj, env) \/ Shm!Done("NOT_MAPPED", obj, env)
  BY <1>3, <1>5 DEF Shm!Done, ShmInv, Undone, Lets
<1>6. CASE Shm!opened(obj, x) /\ Shm!Done("OK", r, env)
  <2>1. k # 0 /\ obj.ctx[k].fd # 0
    BY <1>2, <1>6 DEF Shm!opened
  <2>2. k \in Shm!Contexts
    BY <1>2, <2>1, SoundTypes DEF ShmInv, Contexted
  <2>3. PICK v : v = <<>>
    OBVIOUS
  <2>4. r = [obj EXCEPT !.ctx[k] = [obj.ctx[k] EXCEPT !.map = v]]
    <3>1. obj.ctx \in [Shm!Contexts -> Ctx] /\ Fields(obj)
      BY SoundTypes DEF ShmInv
    <3>2. r = [obj EXCEPT !.ctx[k] = Shm!unmap_context(obj.ctx[k])]
      BY <1>2, <2>2, <3>1
    <3> QED BY <2>3, <3>2, Zenon DEF Shm!unmap_context
  <2>5. Sound(r, env, abs) /\ Lets(obj, r)
    BY <2>1, <2>2, <2>3, <2>4, SetMap DEF ShmInv
  <2> QED BY <1>3, <1>6, <2>5 DEF Shm!Done, ShmInv, Undone
<1> QED BY <1>4, <1>5, <1>6

LEMMA ShareKeeps == ASSUME Shm!Sane, ShmInv, Shm!Share PROVE ShmInv' /\ ret' = "OK"
<1>1. PICK x \in Shm!Objects, g \in Shm!Objects :
        /\ Home[x] = Home[g] /\ Shm!Free(Home[x])
        /\ \E s \in {Shm!AssignCopy(obj, env, x, g), Shm!AssignMove(obj, env, x, g)} : Shm!Done("OK", s.obj, s.env) /\ Shm!Ends(s.obj)
  BY Zenon DEF Shm!Share
<1>s. PICK s : (s = Shm!AssignCopy(obj, env, x, g) \/ s = Shm!AssignMove(obj, env, x, g)) /\ Shm!Done("OK", s.obj, s.env) /\ Shm!Ends(s.obj)
  BY <1>1, Zenon
<1>2. Sound(obj, env, abs) /\ obj.pend[Home[x]] = Shm!Idle
  BY <1>1 DEF ShmInv, Shm!Free
<1>3. Sound(s.obj, s.env, After(obj, s.obj, abs))
  BY <1>1, <1>s, <1>2, AssignedCopy, AssignedMove
<1>4. obj' = s.obj /\ env' = s.env /\ ret' = "OK" /\ abs' = After(obj, s.obj, abs)
  BY <1>s, EndsAfter DEF Shm!Done
<1> QED BY <1>3, <1>4 DEF ShmInv

LEMMA DropKeeps == ASSUME Shm!Sane, ShmInv, Shm!Drop PROVE ShmInv' /\ ret' = "OK"
<1>s. PICK x \in Shm!Objects :
        LET s == Shm!Destroy(obj, env, x) IN Shm!Free(Home[x]) /\ Shm!Done("OK", s.obj, s.env) /\ Shm!Ends(s.obj)
  BY Zenon DEF Shm!Drop
<1>1. PICK s : s = Shm!Destroy(obj, env, x) /\ Shm!Free(Home[x]) /\ Shm!Done("OK", s.obj, s.env) /\ Shm!Ends(s.obj)
  BY <1>s
<1>2. Sound(obj, env, abs) /\ obj.pend[Home[x]] = Shm!Idle
  BY <1>1 DEF ShmInv, Shm!Free
<1>3. Sound(s.obj, s.env, After(obj, s.obj, abs))
  BY <1>1, <1>2, Destroyed
<1>4. obj' = s.obj /\ env' = s.env /\ ret' = "OK" /\ abs' = After(obj, s.obj, abs)
  BY <1>1, EndsAfter DEF Shm!Done
<1> QED BY <1>3, <1>4 DEF ShmInv

LEMMA DieKeeps == ASSUME Shm!Sane, ShmInv, Shm!Die PROVE ShmInv' /\ ret' = "OK"
<1>1. PICK p \in Shm!Procs :
        LET gone == {k \in Slots[p] : obj.ctx[k].fd # 0}
            made == {obj.ctx[k].name : k \in {c \in gone : "CREATE" \in obj.ctx[c].mode}}
            o == [obj EXCEPT !.h = [x \in Shm!Objects |-> IF Home[x] = p THEN 0 ELSE @[x]],
                             !.ctx = [k \in Shm!Contexts |-> IF k \in Slots[p] THEN Shm!NoContext ELSE @[k]], !.pend[p] = Shm!Idle]
        IN  Shm!Done("OK", o, env) /\ abs' = [Shm!Early(o) EXCEPT !.left = @ \union made]
  BY Zenon DEF Shm!Die
<1>2. PICK o : o = [obj EXCEPT !.h = [x \in Shm!Objects |-> IF Home[x] = p THEN 0 ELSE @[x]],
                               !.ctx = [k \in Shm!Contexts |-> IF k \in Slots[p] THEN Shm!NoContext ELSE @[k]], !.pend[p] = Shm!Idle]
  OBVIOUS
<1>3. PICK made : made = {obj.ctx[k].name : k \in {c \in {j \in Slots[p] : obj.ctx[j].fd # 0} : "CREATE" \in obj.ctx[c].mode}}
  OBVIOUS
<1>4. Shm!Done("OK", o, env) /\ abs' = [Shm!Early(o) EXCEPT !.left = @ \union made]
  BY <1>1, <1>2, <1>3, Zenon
<1>5. PICK b : b = [early |-> {k \in abs.early : o.ctx[k].fd # 0}, left |-> abs.left \union made]
  OBVIOUS
<1>6. abs' = b
  <2>1. abs = [early |-> abs.early, left |-> abs.left]
    BY DEF ShmInv, Sound, Rest, Types
  <2>2. abs' = [[abs EXCEPT !.early = {k \in @ : o.ctx[k].fd # 0}] EXCEPT !.left = @ \union made]
    BY <1>4, Zenon DEF Shm!Early
  <2>3. abs' = [early |-> {k \in abs.early : o.ctx[k].fd # 0}, left |-> abs.left \union made]
    BY <2>1, <2>2
  <2> QED BY <1>5, <2>3
<1>7. Dead(obj, abs, p, o, b)
  <2>1. Fields(obj)
    BY SoundTypes DEF ShmInv
  <2>2. /\ Fields(o) /\ o.h = [x \in Shm!Objects |-> IF Home[x] = p THEN 0 ELSE obj.h[x]]
        /\ o.ctx = [k \in Shm!Contexts |-> IF k \in Slots[p] THEN Shm!NoContext ELSE obj.ctx[k]]
        /\ o.pend = [obj.pend EXCEPT ![p] = Shm!Idle]
    BY <1>2, <2>1 DEF Fields
  <2> QED BY <1>3, <1>5, <2>2, Zenon DEF Dead
<1>8. Sound(o, env, b)
  BY <1>7, Died DEF ShmInv
<1> QED BY <1>4, <1>6, <1>8 DEF ShmInv, Shm!Done

\* The end of an open(); one that fails takes back the name it made.
EndUndone(p) == ret' = "FAILED" =>
    LET k == obj.h[obj.pend[p].obj]
        c == obj.ctx[k]
    IN  /\ k \in Shm!Contexts /\ env' = Closed(env, c) /\ ("CREATE" \in c.mode => Shm!Unlinks(c))
        /\ obj'.ctx[k].fd = 0 /\ \A j \in Shm!Contexts : j # k => obj'.ctx[j].fd = obj.ctx[j].fd
        /\ \A q \in Shm!Procs : ~Shm!Free(q) /\ obj'.pend[q] = Shm!Idle <=> q = p
LEMMA FinishKeeps == ASSUME Shm!Sane, ShmInv, Shm!Finish PROVE ShmInv' /\ \E p \in Shm!Procs : EndUndone(p)
<1>1. PICK p \in Shm!Procs, fails \in BOOLEAN :
        /\ ~Shm!Free(p)
        /\ LET q == obj.pend[p]
               k == obj.h[q.obj]
               c == obj.ctx[k]
               creates == "CREATE" \in q.mode
               bad == fails \/ (creates /\ "WRITE" \notin q.mode)
               e == IF creates /\ ~bad THEN [env EXCEPT !.size[c.fd] = Size] ELSE env
               x == Shm!close_context(env, c)
           IN  IF bad THEN /\ Shm!Done("FAILED", [obj EXCEPT !.ctx[k] = x.ctx, !.pend[p] = Shm!Idle], x.env) /\ UNCHANGED abs
               ELSE /\ Shm!Done("OK", [obj EXCEPT !.ctx[k].mode = q.mode, !.ctx[k].size = e.size[c.fd], !.pend[p] = Shm!Idle], e)
                    /\ abs' = IF e.size[c.fd] # Size THEN [abs EXCEPT !.early = @ \union {k}] ELSE abs
  BY Zenon DEF Shm!Finish
<1>2. PICK i, q, k, c, x : i = obj.pend[p] /\ q = i.mode /\ k = obj.h[i.obj] /\ c = obj.ctx[k] /\ x = Shm!close_context(env, c)
  OBVIOUS
<1>3. Sound(obj, env, abs) /\ obj.pend[p] # Shm!Idle /\ k = obj.h[obj.pend[p].obj] /\ q = obj.pend[p].mode
  BY Zenon, <1>1, <1>2 DEF ShmInv, Shm!Free
<1>4. Opening(obj, abs, p, k)
  BY <1>2, <1>3, Waiting
<1>5. k \in Shm!Contexts /\ c \in Ctx /\ c.fd \in 1..MaxSegments /\ c.fd # 0 /\ "PERSIST" \notin c.mode
  <2>1. c = obj.ctx[k]
    BY <1>2
  <2>2. k \in Shm!Contexts /\ c \in Ctx /\ c.fd \in 1..MaxSegments /\ c.mode = obj.pend[p].mode \ {"PERSIST"}
    BY <1>4, <2>1 DEF Opening
  <2>3. c.fd # 0
    BY <2>2
  <2>4. "PERSIST" \notin c.mode
    BY <2>2
  <2> QED BY <2>2, <2>3, <2>4
<1>6. Fields(obj)
  BY <1>3, SoundTypes
<1>7. PICK bad : bad = (fails \/ ("CREATE" \in q /\ "WRITE" \notin q))
  OBVIOUS
<1>8. CASE bad
  <2>1. PICK r : r = [obj EXCEPT !.ctx[k] = x.ctx, !.pend[p] = Shm!Idle]
    OBVIOUS
  <2>2. Shm!Done("FAILED", r, x.env) /\ abs' = abs
    <3>1. Shm!Done("FAILED", [obj EXCEPT !.ctx[k] = x.ctx, !.pend[p] = Shm!Idle], x.env) /\ UNCHANGED abs
      BY <1>1, <1>2, <1>7, <1>8, Zenon
    <3> QED BY <2>1, <3>1
  <2>3. x.ctx = [Shm!NoContext EXCEPT !.refs = c.refs] /\ x.env = Closed(env, c)
    <3>1. /\ Shm!close_context(env, c).ctx = [Shm!NoContext EXCEPT !.refs = c.refs]
          /\ Shm!close_context(env, c).env = Closed(env, c)
      BY <1>5, ContextClosed
    <3>2. x = Shm!close_context(env, c)
      BY <1>2
    <3> QED BY <3>1, <3>2
  <2>4. Ended(obj, r, p, k, x.ctx)
    BY Zenon, <1>6, <2>1, EndedForm
  <2>5. Sound(r, Closed(env, c), abs) /\ r.ctx[k].fd = 0 /\ \A j \in Shm!Contexts : j # k => r.ctx[j] = obj.ctx[j]
    <3>1. PICK d : d = x.ctx
      OBVIOUS
    <3>2. Blanked(obj.ctx[k], d) /\ Ended(obj, r, p, k, d)
      BY Zenon, <1>2, <2>3, <2>4, <3>1 DEF Blanked
    <3>3. Sound(r, Closed(env, obj.ctx[k]), abs) /\ r.ctx[k].fd = 0 /\ \A j \in Shm!Contexts : j # k => r.ctx[j] = obj.ctx[j]
      <4>1. Shut(obj, env, abs, k, r)
        BY <1>3, <3>2, EndsBad
      <4> QED BY <4>1 DEF Shut
    <3> QED BY Zenon, <1>2, <3>3
  <2>6. obj' = r /\ env' = Closed(env, c) /\ ret' = "FAILED"
    BY <2>2, <2>3 DEF Shm!Done
  <2>7. "CREATE" \in c.mode => Shm!Unlinks(c)
    BY <1>5 DEF Shm!Unlinks
  <2>8. \A u \in Shm!Procs : ~Shm!Free(u) /\ obj'.pend[u] = Shm!Idle <=> u = p
    <3>1. r.pend = [obj.pend EXCEPT ![p] = Shm!Idle]
      BY <2>4 DEF Ended
    <3>2. obj.pend \in [Shm!Procs -> [obj : Shm!Objects \union {""}, mode : SUBSET Shm!Flags]]
      BY <1>3, SoundTypes, Zenon
    <3>3. \A u \in Shm!Procs : r.pend[u] = IF u = p THEN Shm!Idle ELSE obj.pend[u]
      BY <3>1, <3>2
    <3> QED BY Zenon, <1>1, <2>6, <3>3 DEF Shm!Free
  <2>9. EndUndone(p)
    <3>1. /\ env' = Closed(env, obj.ctx[k]) /\ ("CREATE" \in obj.ctx[k].mode => Shm!Unlinks(obj.ctx[k]))
          /\ obj'.ctx[k].fd = 0 /\ \A j \in Shm!Contexts : j # k => obj'.ctx[j].fd = obj.ctx[j].fd
      BY Zenon, <1>2, <2>5, <2>6, <2>7
    <3> QED BY <1>3, <1>5, <2>8, <3>1, Zenon DEF EndUndone
  <2> QED BY <2>2, <2>5, <2>6, <2>9 DEF ShmInv
<1>9. CASE ~bad
  <2>1. PICK f : f = IF "CREATE" \in q THEN [env EXCEPT !.size[c.fd] = Size] ELSE env
    OBVIOUS
  <2>2. PICK z, b : z = f.size[c.fd] /\ b = IF z # Size THEN [abs EXCEPT !.early = @ \union {k}] ELSE abs
    OBVIOUS
  <2>3. Shm!Done("OK", [obj EXCEPT !.ctx[k].mode = q, !.ctx[k].size = z, !.pend[p] = Shm!Idle], f) /\ abs' = b
    <3>1. f = IF "CREATE" \in q /\ ~bad THEN [env EXCEPT !.size[c.fd] = Size] ELSE env
      BY <1>9, <2>1
    <3>2. /\ Shm!Done("OK", [obj EXCEPT !.ctx[k].mode = q, !.ctx[k].size = f.size[c.fd], !.pend[p] = Shm!Idle], f)
          /\ abs' = IF f.size[c.fd] # Size THEN [abs EXCEPT !.early = @ \union {k}] ELSE abs
      BY <1>1, <1>2, <1>7, <1>9, <3>1, Zenon
    <3> QED BY <2>2, <3>2
  <2>4. PICK d, r : d = [c EXCEPT !.mode = q, !.size = z] /\ r = [obj EXCEPT !.ctx[k] = d, !.pend[p] = Shm!Idle]
    OBVIOUS
  <2>5. [obj EXCEPT !.ctx[k].mode = q, !.ctx[k].size = z, !.pend[p] = Shm!Idle] = r
    <3>1. obj.ctx \in [Shm!Contexts -> Ctx]
      BY <1>3, SoundTypes, Zenon
    <3>c. c = obj.ctx[k]
      BY <1>2
    <3>2. PICK u : u = [obj EXCEPT !.ctx[k].mode = q, !.ctx[k].size = z, !.pend[p] = Shm!Idle]
      OBVIOUS
    <3>3. /\ Fields(u) /\ u.h = obj.h /\ u.pend = [obj.pend EXCEPT ![p] = Shm!Idle]
          /\ u.ctx = [[obj.ctx EXCEPT ![k].mode = q] EXCEPT ![k].size = z]
      BY <1>6, <3>2 DEF Fields
    <3>4. u.ctx = [obj.ctx EXCEPT ![k] = d]
      <4>1. PICK y : y = [c EXCEPT !.mode = q]
        OBVIOUS
      <4>2. [obj.ctx EXCEPT ![k].mode = q] = [obj.ctx EXCEPT ![k] = y]
        BY <1>5, <3>1, <4>1, <3>c
      <4>3. u.ctx = [obj.ctx EXCEPT ![k] = [y EXCEPT !.size = z]]
        BY <1>5, <3>1, <3>3, <4>2
      <4>4. [y EXCEPT !.size = z] = d
        BY <1>5, <2>4, <4>1 DEF Ctx
      <4> QED BY <4>3, <4>4
    <3>5. r.ctx = [obj.ctx EXCEPT ![k] = d] /\ r.h = obj.h /\ r.pend = [obj.pend EXCEPT ![p] = Shm!Idle] /\ Fields(r)
      BY <1>6, <2>4 DEF Fields
    <3> QED BY <3>2, <3>3, <3>4, <3>5 DEF Fields
  <2>6. obj' = r /\ env' = f /\ ret' = "OK" /\ abs' = b
    <3>1. Shm!Done("OK", r, f)
      BY <2>3, <2>5
    <3> QED BY <2>3, <3>1 DEF Shm!Done
  <2>7. Given(obj, env, abs, p, k, q, z, f, d, b)
    BY <1>2, <1>3, <2>1, <2>2, <2>4, Zenon DEF Given
  <2>8. Ended(obj, r, p, k, d)
    BY Zenon, <1>6, <2>4, EndedForm
  <2>9. Sound(r, f, b)
    BY Zenon, <1>2, <1>3, <2>7, <2>8, EndsWell
  <2> QED BY <2>6, <2>9 DEF ShmInv, EndUndone
<1> QED BY <1>8, <1>9

LEMMA Stutters == ASSUME Shm!Sane, ShmInv, UNCHANGED Shm!vars PROVE ShmInv'
<1>1. obj' = obj /\ env' = env /\ abs' = abs /\ ret' = ret
  BY DEF Shm!vars
<1> QED BY <1>1 DEF ShmInv

LEMMA Keeps == ASSUME Shm!Sane, ShmInv, [Shm!Next]_Shm!vars PROVE ShmInv'
BY OpenKeeps, FinishKeeps, closeKeeps, mapKeeps, unmapKeeps, ShareKeeps, DropKeeps, DieKeeps, Stutters DEF Shm!Next

LEMMA ShmInvariant == ASSUME Shm!Sane PROVE Shm!Spec => []ShmInv
<1>1. Shm!Init => ShmInv
  BY InitSound
<1>2. ShmInv /\ [Shm!Next]_Shm!vars => ShmInv'
  BY Keeps
<1> QED BY <1>1, <1>2, PTL DEF Shm!Spec

\* The fields keep to their types; a segment, once there, is given one size.
THEOREM ShmTypeCorrect == ASSUME Shm!Sane PROVE Shm!Spec => []ShmTypes
<1>1. ShmInv => ShmTypes
  BY DEF ShmInv, Sound, Rest, ShmTypes
<1> QED BY <1>1, ShmInvariant, PTL

LEMMA CountsNow == ASSUME ShmInv PROVE Shm!ContextsCounted
<1> SUFFICES ASSUME NEW k \in Shm!Contexts
             PROVE  /\ obj.ctx[k].refs = Cardinality({h \in Shm!Objects : obj.h[h] = k})
                    /\ obj.ctx[k].refs = 0 => obj.ctx[k] = Shm!NoContext
                    /\ obj.ctx[k].map # <<>> => obj.ctx[k].fd # 0 /\ obj.ctx[k].map[1] = obj.ctx[k].fd
  BY Zenon, ShmFinite DEF Shm!ContextsCounted
<1>1. /\ obj.ctx[k].refs = Cardinality(Users(obj, k)) /\ (obj.ctx[k].refs = 0 => obj.ctx[k].fd = 0)
      /\ obj.ctx[k].fd = 0 => obj.ctx[k] = [Shm!NoContext EXCEPT !.refs = obj.ctx[k].refs]
      /\ obj.ctx[k].map # <<>> => obj.ctx[k].map[1] = obj.ctx[k].fd
  BY DEF ShmInv, Sound, Rest, Counted, Segments
<1>2. [Shm!NoContext EXCEPT !.refs = 0] = Shm!NoContext
  <2>1. Shm!NoContext.refs = 0 /\ [Shm!NoContext EXCEPT !.refs = Shm!NoContext.refs] = Shm!NoContext
    BY DEF Shm!NoContext
  <2> QED BY <2>1
<1>3. \A n : [Shm!NoContext EXCEPT !.refs = n].map = <<>>
  BY DEF Shm!NoContext
<1>4. obj.ctx[k].refs = 0 => obj.ctx[k] = Shm!NoContext
  BY <1>1, <1>2
<1>5. obj.ctx[k].fd = 0 => obj.ctx[k].map = <<>>
  <2>1. PICK n : n = obj.ctx[k].refs
    OBVIOUS
  <2> QED BY <1>1, <1>3, <2>1
<1> QED BY <1>1, <1>4, <1>5 DEF Users

\* A context counts exactly the objects that have it, and is blank when none
\* has (SharedMem.cpp:81-157).
THEOREM ContextsCountedHolds == ASSUME Shm!Sane PROVE Shm!Spec => []Shm!ContextsCounted
<1>1. ShmInv => Shm!ContextsCounted
  BY CountsNow
<1> QED BY <1>1, ShmInvariant, PTL

LEMMA NamesNow == ASSUME ShmInv PROVE Shm!NamesOwned
  BY DEF ShmInv, Sound, Rest, Owned, Shm!NamesOwned

\* A segment keeps the name its creator gave it for as long as the creator has
\* it open, and no name is left behind, but one that is to stay or whose
\* creator died (SharedMem.cpp:348-701).
THEOREM NamesOwnedHolds == ASSUME Shm!Sane PROVE Shm!Spec => []Shm!NamesOwned
<1>1. ShmInv => Shm!NamesOwned
  BY NamesNow
<1> QED BY <1>1, ShmInvariant, PTL

LEMMA SizesNow == ASSUME Shm!Sane, ShmInv PROVE Shm!SizesTrue
<1> SUFFICES ASSUME NEW x \in Shm!Objects, Shm!opened(obj, x), obj.pend[Home[x]] = Shm!Idle
             PROVE  Shm!size(obj, x) = (IF obj.h[x] \in abs.early THEN 0 ELSE env.size[obj.ctx[obj.h[x]].fd])
  BY Zenon DEF Shm!SizesTrue
<1>1. PICK k : k = obj.h[x] /\ k # 0 /\ obj.ctx[k].fd # 0
  BY DEF Shm!opened
<1>2. k \in Slots[Home[x]] /\ Home[x] \in Shm!Procs
  BY <1>1, OwnContexts DEF ShmInv, Sound, Counted
<1>3. ~Waits(obj, Home[x], k)
  BY DEF Waits
<1>4. Shm!size(obj, x) = obj.ctx[k].size
  BY <1>1 DEF Shm!size
<1> QED BY <1>1, <1>2, <1>3, <1>4 DEF ShmInv, Sound, Rest, Sizes

\* What an open object tells of its size is the size of its segment, or 0 when
\* it came before the creator had set the size (SharedMem.cpp:668).
THEOREM SizesTrueHolds == ASSUME Shm!Sane PROVE Shm!Spec => []Shm!SizesTrue
<1>1. ShmInv => Shm!SizesTrue
  BY SizesNow
<1> QED BY <1>1, ShmInvariant, PTL

LEMMA FailuresNow == ASSUME Shm!Sane, ShmInv, [Shm!Next]_Shm!vars PROVE [Shm!FailuresUndoneStep]_Shm!vars
<1> SUFFICES ASSUME Shm!Next, ret' = "FAILED" PROVE Shm!FailuresUndoneStep
  BY DEF Shm!FailuresUndoneStep
<1>1. PICK own : own = {obj.h[obj.pend[p].obj] : p \in {q \in Shm!Procs : ~Shm!Free(q) /\ obj'.pend[q] = Shm!Idle}}
  OBVIOUS
<1>2. SUFFICES /\ \A n \in Names : env'.names[n] # env.names[n] =>
                      env'.names[n] = 0 /\ \E k \in own : env.names[n] = obj.ctx[k].fd /\ "CREATE" \in obj.ctx[k].mode
               /\ \A k \in own : "CREATE" \in obj.ctx[k].mode => env'.names[obj.ctx[k].name] = 0
               /\ \A k \in Shm!Contexts : obj'.ctx[k].fd = IF k \in own THEN 0 ELSE obj.ctx[k].fd
  BY <1>1, Zenon DEF Shm!FailuresUndoneStep
<1>3. ASSUME Shm!Open \/ Shm!map \/ Shm!unmap PROVE env' = env /\ own = {} /\ \A k \in Shm!Contexts : obj'.ctx[k].fd = obj.ctx[k].fd
  <2>1. env' = env /\ Lets(obj, obj')
    BY <1>3, OpenKeeps, mapKeeps, unmapKeeps DEF Undone
  <2>2. own = {}
    BY <1>1, <2>1 DEF Shm!Free, Lets
  <2> QED BY <2>1, <2>2 DEF Lets
<1>4. ASSUME Shm!Finish
      PROVE  \E k \in Shm!Contexts :
                /\ own = {k} /\ env' = Closed(env, obj.ctx[k]) /\ ("CREATE" \in obj.ctx[k].mode => Shm!Unlinks(obj.ctx[k]))
                /\ obj'.ctx[k].fd = 0 /\ \A j \in Shm!Contexts : j # k => obj'.ctx[j].fd = obj.ctx[j].fd
  <2>1. PICK p \in Shm!Procs : EndUndone(p)
    BY <1>4, FinishKeeps
  <2>2. PICK k : k = obj.h[obj.pend[p].obj]
    OBVIOUS
  <2>3. /\ k \in Shm!Contexts /\ env' = Closed(env, obj.ctx[k]) /\ ("CREATE" \in obj.ctx[k].mode => Shm!Unlinks(obj.ctx[k]))
        /\ obj'.ctx[k].fd = 0 /\ \A j \in Shm!Contexts : j # k => obj'.ctx[j].fd = obj.ctx[j].fd
        /\ \A q \in Shm!Procs : ~Shm!Free(q) /\ obj'.pend[q] = Shm!Idle <=> q = p
    BY <2>1, <2>2, Zenon DEF EndUndone
  <2>4. own = {k}
    BY Zenon, <1>1, <2>2, <2>3
  <2> QED BY <2>3, <2>4
<1>5. CASE Shm!Open \/ Shm!map \/ Shm!unmap
  BY <1>3, <1>5
<1>6. CASE Shm!Finish
  <2>1. PICK k \in Shm!Contexts :
                /\ own = {k} /\ env' = Closed(env, obj.ctx[k]) /\ ("CREATE" \in obj.ctx[k].mode => Shm!Unlinks(obj.ctx[k]))
                /\ obj'.ctx[k].fd = 0 /\ \A j \in Shm!Contexts : j # k => obj'.ctx[j].fd = obj.ctx[j].fd
    BY <1>4, <1>6
  <2>2. PICK c : c = obj.ctx[k]
    OBVIOUS
  <2>3. \A n \in Names : env'.names[n] = IF Shm!Unlinks(c) /\ c.name = n THEN 0 ELSE env.names[n]
    BY <2>1, <2>2 DEF Closed, Shm!unlink_file, ShmInv, Sound, Rest, Types
  <2>4. Shm!Unlinks(c) => "CREATE" \in c.mode /\ c.name \in Names /\ env.names[c.name] = c.fd
    BY <2>2 DEF Shm!Unlinks, ShmInv, Sound, Rest, Segments, Owned
  <2>5. \A n \in Names : env'.names[n] # env.names[n] =>
            env'.names[n] = 0 /\ \E j \in own : env.names[n] = obj.ctx[j].fd /\ "CREATE" \in obj.ctx[j].mode
    BY <2>1, <2>2, <2>3, <2>4
  <2>6. \A j \in own : "CREATE" \in obj.ctx[j].mode => env'.names[obj.ctx[j].name] = 0
    BY <2>1, <2>2, <2>3, <2>4
  <2>7. \A j \in Shm!Contexts : obj'.ctx[j].fd = IF j \in own THEN 0 ELSE obj.ctx[j].fd
    BY <2>1
  <2> QED BY <2>5, <2>6, <2>7
<1>7. CASE Shm!close \/ Shm!Share \/ Shm!Drop \/ Shm!Die
  BY <1>7, closeKeeps, ShareKeeps, DropKeeps, DieKeeps
<1> QED BY <1>5, <1>6, <1>7 DEF Shm!Next

\* A call that fails leaves names and segments as it found them, and an open()
\* that fails half way takes back the name it made (SharedMem.cpp:455-701).
THEOREM FailuresUndoneHolds == ASSUME Shm!Sane PROVE Shm!Spec => Shm!FailuresUndone
<1>1. ShmInv /\ [Shm!Next]_Shm!vars => [Shm!FailuresUndoneStep]_Shm!vars
  BY FailuresNow
<1> QED BY <1>1, ShmInvariant, PTL DEF Shm!FailuresUndone, Shm!Spec

-----------------------------------------------------------------------------
(* InBufStream                                                             *)

\* A set of numbers has a least one: the numbers below an element are a finite
\* set, and among finite sets there is one that includes no other.  It carries
\* the inductions below.
LEMMA LeastNatural ==
    ASSUME NEW T \in SUBSET Nat, T # {}
    PROVE  \E n \in T : \A m \in T : n <= m
<1> DEFINE Down == {0..n : n \in T}
<1>1. \A n \in T : n \in Nat /\ 0..n \in FiniteSubsetsOf(Nat)
  <2> SUFFICES ASSUME NEW n \in T PROVE n \in Nat /\ 0..n \in FiniteSubsetsOf(Nat)
      OBVIOUS
  <2>1. n \in Nat /\ 0..n \in SUBSET Nat
      BY SMT
  <2>2. IsFiniteSet(0..n)
      BY <2>1, FS_Interval
  <2> QED BY <2>1, <2>2 DEF FiniteSubsetsOf
<1>2. Down \subseteq FiniteSubsetsOf(Nat) /\ Down # {}
    BY <1>1
<1> HIDE DEF Down
<1>3. PICK X \in Down : \A Y \in Down : <<Y, X>> \notin StrictSubsetOrdering(Nat)
    BY <1>2, FS_StrictSubsetOrderingWellFounded, WFMin, Zenon
<1>4. PICK n \in T : X = 0..n
    BY <1>3 DEF Down
<1>5. ASSUME NEW m \in T, ~(n <= m) PROVE FALSE
  <2>1. n \in Nat /\ m \in Nat
      BY <1>1
  <2>2. n \in 0..n /\ n \notin 0..m /\ 0..m \subseteq 0..n
      BY <1>5, <2>1
  <2>3. 0..m \in SUBSET Nat /\ 0..n \in SUBSET Nat
      BY <2>1
  <2>4. <<0..m, 0..n>> \in StrictSubsetOrdering(Nat)
      BY <2>2, <2>3 DEF StrictSubsetOrdering
  <2>5. 0..m \in Down
      BY DEF Down
  <2> QED BY <1>3, <1>4, <2>4, <2>5
<1> QED BY <1>5

\* Remainders: what a ring makes of an index.
LEMMA Remainder ==
    ASSUME NEW x \in Int, NEW C \in Nat \ {0}
    PROVE  x % C \in 0..C - 1 /\ \E q \in Int : x = C * q + (x % C)
<1>1. x = C * (x \div C) + (x % C) /\ x \div C \in Int /\ x % C \in 0..C - 1
  OBVIOUS
<1> QED BY <1>1

LEMMA RemainderIs ==
    ASSUME NEW C \in Nat \ {0}, NEW q \in Int, NEW r \in 0..C - 1
    PROVE  (C * q + r) % C = r
  OBVIOUS

LEMMA RemainderOfNear ==
    ASSUME NEW C \in Nat \ {0}, NEW r \in Int
    PROVE  /\ r \in 0..C - 1 => r % C = r
           /\ r + C \in 0..C - 1 => r % C = r + C
           /\ r - C \in 0..C - 1 => r % C = r - C
<1>1. ASSUME r \in 0..C - 1 PROVE r % C = r
  BY <1>1
<1>2. ASSUME r + C \in 0..C - 1 PROVE r % C = r + C
  <2>1. r = C * (-1) + (r + C)
    OBVIOUS
  <2> QED BY <1>2, <2>1, RemainderIs
<1>3. ASSUME r - C \in 0..C - 1 PROVE r % C = r - C
  <2>1. r = C * 1 + (r - C)
    OBVIOUS
  <2> QED BY <1>3, <2>1, RemainderIs
<1> QED BY <1>1, <1>2, <1>3

LEMMA RemainderShift ==
    ASSUME NEW C \in Nat \ {0}, NEW a \in Int, NEW b \in Int
    PROVE  ((a % C) + b) % C = (a + b) % C
<1>1. PICK q \in Int : a = C * q + (a % C)
  BY Remainder
<1>2. PICK x \in Int : x = (a % C) + b
  OBVIOUS
<1>3. PICK p \in Int : x = C * p + (x % C)
  BY Remainder
<1>4. PICK r \in 0..C - 1 : r = x % C
  BY Remainder
<1>5. C * (q + p) = C * q + C * p
  OBVIOUS
<1>6. a + b = C * (q + p) + r
  BY <1>1, <1>2, <1>3, <1>4, <1>5
<1>7. (C * (q + p) + r) % C = r
  BY RemainderIs
<1> QED BY <1>2, <1>4, <1>6, <1>7

-----------------------------------------------------------------------------
(* InBufStream                                                             *)

\* The fields of the object.
BufObject == [head : Nat, size : Nat, off : Nat, pos : Nat, buffering : BOOLEAN, seekbuf : BOOLEAN,
              cells : [0..Cap - 1 -> Int]]

\* The ring holds n bytes of the stream from pos on, the first one at head.
Holds(cells, head, n, pos) == \A i \in 0..n - 1 : cells[(head + i) % Cap] = pos + i

LEMMA BufConstants ==
    ASSUME InBuf!Sane
    PROVE  StreamLen \in Nat /\ Cap \in Nat \ {0} /\ Cap \in Nat /\ InBuf!U32 \in Nat /\ Cap < InBuf!U32 /\ MaxCount \in Nat
  BY SMTT(30) DEF InBuf!Sane, InBuf!U32

LEMMA HoldsModulo ==
    ASSUME InBuf!Sane, NEW cells, NEW head \in Nat, NEW n \in Nat, NEW pos, Holds(cells, head, n, pos)
    PROVE  Holds(cells, head % Cap, n, pos)
<1> SUFFICES ASSUME NEW i \in 0..n - 1 PROVE cells[((head % Cap) + i) % Cap] = pos + i
  BY DEF Holds
<1>1. ((head % Cap) + i) % Cap = (head + i) % Cap
  BY BufConstants, RemainderShift
<1> QED BY <1>1 DEF Holds

\* What Stored() leaves at an index of the ring: the byte stored there, or what
\* was there.
LEMMA StoredAt ==
    ASSUME InBuf!Sane, NEW o \in BufObject, NEW k \in Nat, NEW at \in Int, NEW n \in 0..Cap, NEW j \in Nat,
           k - Cap <= j, j < k + Cap
    PROVE  InBuf!Stored(o, k, at, n)[(o.head + j) % Cap] =
               IF j >= k /\ j < k + n THEN at + (j - k)
               ELSE IF j < k /\ j < k - Cap + n THEN at + (j - k + Cap)
               ELSE o.cells[(o.head + j) % Cap]
<1>1. Cap \in Nat \ {0} /\ o.head \in Nat
  BY BufConstants DEF BufObject
<1>2. PICK c \in 0..Cap - 1 : c = (o.head + j) % Cap
  BY <1>1, Remainder
<1>3. PICK d : d = (c - o.head - k) % Cap
  OBVIOUS
<1>4. InBuf!Stored(o, k, at, n)[c] = IF d < n THEN at + d ELSE o.cells[c]
  BY <1>2, <1>3 DEF InBuf!Stored
<1>5. d = (j - k) % Cap
  <2>1. PICK b \in Int : b = 0 - o.head - k
    BY <1>1
  <2>2. PICK a \in Int : a = o.head + j
    BY <1>1
  <2>3. ((a % Cap) + b) % Cap = (a + b) % Cap
    BY <1>1, RemainderShift
  <2>4. (a % Cap) + b = c - o.head - k
    BY <1>1, <1>2, <2>1, <2>2
  <2>5. a + b = j - k
    BY <1>1, <2>1, <2>2
  <2> QED BY <1>3, <2>3, <2>4, <2>5
<1>6. d = IF j >= k THEN j - k ELSE j - k + Cap
  <2>1. PICK r \in Int : r = j - k
    OBVIOUS
  <2>2. (r \in 0..Cap - 1 => r % Cap = r) /\ (r + Cap \in 0..Cap - 1 => r % Cap = r + Cap)
    BY <1>1, RemainderOfNear
  <2> QED BY <1>1, <1>5, <2>1, <2>2
<1> QED BY <1>1, <1>2, <1>4, <1>6

\* After n bytes more have been stored behind k, the ring holds whatever part of
\* the k + n bytes it has room for.
LEMMA StoredHolds ==
    ASSUME InBuf!Sane, NEW o \in BufObject, NEW k \in 0..Cap, NEW pos \in Int, Holds(o.cells, o.head, k, pos),
           NEW n \in 0..Cap, NEW d \in Nat, NEW m \in 0..Cap, d + m = k + n
    PROVE  Holds(InBuf!Stored(o, k, pos + k, n), o.head + d, m, pos + d)
<1> SUFFICES ASSUME NEW i \in 0..m - 1
             PROVE  InBuf!Stored(o, k, pos + k, n)[(o.head + d + i) % Cap] = pos + d + i
  BY DEF Holds
<1>1. Cap \in Nat \ {0} /\ o.head \in Nat
  BY BufConstants DEF BufObject
<1>2. PICK j \in Nat : j = d + i
  BY <1>1
<1>3. o.head + d + i = o.head + j
  BY <1>1, <1>2
<1>4. k - Cap <= j /\ j < k + Cap /\ (j < k => j >= k - Cap + n) /\ j < k + n
  BY <1>1, <1>2
<1>5. InBuf!Stored(o, k, pos + k, n)[(o.head + j) % Cap] =
          IF j >= k THEN pos + k + (j - k) ELSE o.cells[(o.head + j) % Cap]
  BY <1>1, <1>4, StoredAt
<1>6. j < k => o.cells[(o.head + j) % Cap] = pos + j
  BY <1>1 DEF Holds
<1> QED BY <1>1, <1>2, <1>3, <1>5, <1>6

\* The window is the part of the stream it claims to be, and the wrapped stream
\* stands right after it.
Buffered(o, e) ==
    /\ o \in BufObject
    /\ o.off <= o.size /\ o.size <= Cap
    /\ e = o.pos + o.size /\ e <= StreamLen
    /\ Holds(o.cells, o.head, o.size, o.pos)

\* The bytes are those of the stream from p on.
Consecutive(bytes, p) == bytes \in Seq(Int) /\ \A i \in DOMAIN bytes : bytes[i] = p + i - 1

LEMMA StoredType ==
    ASSUME InBuf!Sane, NEW o \in BufObject, NEW k \in Nat, NEW at \in Int, NEW n \in Nat
    PROVE  InBuf!Stored(o, k, at, n) \in [0..Cap - 1 -> Int]
<1> SUFFICES ASSUME NEW c \in 0..Cap - 1
             PROVE  (IF (c - o.head - k) % Cap < n THEN at + ((c - o.head - k) % Cap) ELSE o.cells[c]) \in Int
  BY DEF InBuf!Stored
<1>1. PICK d \in Int : d = c - o.head - k
  BY DEF BufObject
<1>2. PICK r \in 0..Cap - 1 : r = d % Cap
  BY BufConstants, Remainder
<1>3. o.cells[c] \in Int
  BY DEF BufObject
<1> QED BY <1>1, <1>2, <1>3

LEMMA OneByte == ASSUME NEW p \in Int PROVE Consecutive(<<p>>, p) /\ Len(<<p>>) = 1
  BY DEF Consecutive
LEMMA NoByte == ASSUME NEW p \in Int PROVE Consecutive(<<>>, p) /\ Len(<<>>) = 0
  BY DEF Consecutive

LEMMA CachedBytes ==
    ASSUME InBuf!Sane, NEW o, NEW e, Buffered(o, e), NEW n \in Nat, n <= o.size - o.off,
           NEW p, p = InBuf!position(o)
    PROVE  /\ Consecutive(InBuf!Cached(o, n), p)
           /\ Len(InBuf!Cached(o, n)) = n
<1>1. o.head \in Nat /\ o.off \in Nat /\ o.size \in Nat /\ o.pos \in Nat
  BY DEF Buffered, BufObject
<1>2. ASSUME NEW i \in 1..n PROVE o.cells[(o.head + o.off + i - 1) % Cap] = p + i - 1
  <2>1. PICK j \in 0..o.size - 1 : j = o.off + i - 1
    BY <1>1
  <2>2. o.cells[(o.head + j) % Cap] = o.pos + j
    BY DEF Buffered, Holds
  <2>3. o.head + o.off + i - 1 = o.head + j
    BY <1>1, <2>1
  <2> QED BY <1>1, <2>1, <2>2, <2>3 DEF InBuf!position
<1>3. InBuf!Cached(o, n) = [i \in 1..n |-> p + i - 1]
  BY <1>2 DEF InBuf!Cached
<1>4. p \in Int
  BY <1>1 DEF InBuf!position
<1> QED BY <1>3, <1>4 DEF Consecutive

\* What a transfer of a reader at offset p comes to, when it is not one of the
\* irregular ones.
Transfers(p, c) ==
    /\ Buffered(c.o, c.e)
    /\ Consecutive(c.bytes, p)
    /\ c.o.pos + c.o.off = p + Len(c.bytes)

LEMMA TransferIs ==
    ASSUME NEW c, NEW p, NEW n, Buffered(c.o, c.e), Consecutive(c.bytes, p), Len(c.bytes) = n, c.o.pos + c.o.off = p + n
    PROVE  Transfers(p, c) /\ c.bytes \in Seq(Int)
  BY Zenon DEF Transfers, Consecutive

LEMMA ReadByteTransfers ==
    ASSUME InBuf!Sane, NEW o, NEW e, Buffered(o, e), NEW c, c = InBuf!read_byte(o, e),
           NEW p, p = InBuf!position(o)
    PROVE  /\ c.o \in BufObject /\ c.e \in 0..StreamLen /\ c.bytes \in Seq(Int)
           /\ (o.buffering \/ c.o.off = 0 \/ c.e = e) /\ c.o.size <= Cap => Transfers(p, c)
<1>1. /\ o.head \in Nat /\ o.off \in Nat /\ o.size \in Nat /\ o.pos \in Nat /\ e \in Nat
      /\ o.off <= o.size /\ o.size <= Cap /\ e = o.pos + o.size /\ e <= StreamLen
      /\ StreamLen \in Nat /\ Cap \in Nat \ {0}
      /\ p = o.pos + o.off /\ p \in Int
  BY BufConstants DEF Buffered, BufObject, InBuf!position
<1>t. o \in BufObject
  BY DEF Buffered
<1>h. Holds(o.cells, o.head, o.size, o.pos)
  BY DEF Buffered
<1>e. c.e \in 0..StreamLen
  <2>1. c.e = IF o.off < o.size \/ e = StreamLen THEN e ELSE e + 1
    BY DEF InBuf!read_byte, InBuf!Done
  <2> QED BY <1>1, <2>1
<1> SUFFICES /\ c.o \in BufObject /\ c.bytes \in Seq(Int)
             /\ (o.buffering \/ c.o.off = 0 \/ c.e = e) /\ c.o.size <= Cap => Transfers(p, c)
  BY Zenon, <1>e
<1>2. CASE o.off < o.size
  <2>1. c = InBuf!Done([o EXCEPT !.off = @ + 1], e, 1, InBuf!Cached(o, 1))
    BY <1>2 DEF InBuf!read_byte
  <2>2. c.o = [o EXCEPT !.off = @ + 1] /\ c.e = e /\ c.bytes = InBuf!Cached(o, 1)
    BY <2>1 DEF InBuf!Done
  <2>3. Consecutive(c.bytes, p) /\ Len(c.bytes) = 1
    <3>1. 1 \in Nat /\ 1 <= o.size - o.off
      BY <1>1, <1>2
    <3>2. Consecutive(InBuf!Cached(o, 1), p) /\ Len(InBuf!Cached(o, 1)) = 1
      BY Zenon, <3>1, CachedBytes
    <3> QED BY Zenon, <2>2, <3>2
  <2>4. c.o \in BufObject /\ c.o.off = o.off + 1 /\ c.o.size = o.size /\ c.o.pos = o.pos /\ c.o.head = o.head /\ c.o.cells = o.cells
    BY <1>t, <2>2 DEF BufObject
  <2>5. Buffered(c.o, c.e)
    BY <1>1, <1>2, <1>h, <2>2, <2>4 DEF Buffered
  <2>6. c.o.pos + c.o.off = p + 1
    BY <1>1, <2>4
  <2> QED BY Zenon, <2>3, <2>4, <2>5, <2>6, TransferIs
<1>3. CASE ~(o.off < o.size) /\ e = StreamLen
  <2>1. c.o = o /\ c.e = e /\ c.bytes = <<>>
    BY <1>3 DEF InBuf!read_byte, InBuf!Done
  <2>2. Consecutive(c.bytes, p) /\ Len(c.bytes) = 0
    BY <1>1, <2>1, NoByte
  <2>3. Buffered(c.o, c.e)
    BY <2>1
  <2>4. c.o.pos + c.o.off = p + 0 /\ c.o \in BufObject
    BY <1>1, <1>t, <2>1
  <2> QED BY Zenon, <2>2, <2>3, <2>4, TransferIs
<1>4. CASE ~(o.off < o.size) /\ e # StreamLen /\ ~o.buffering
  <2>1. c.o = [o EXCEPT !.pos = @ + o.size + 1, !.size = 0] /\ c.e = e + 1 /\ c.bytes = <<e>>
    BY <1>4 DEF InBuf!read_byte, InBuf!Done
  <2>0. e = p
    BY <1>1, <1>4
  <2>2. c.o \in BufObject /\ c.o.off = o.off /\ c.o.size = 0 /\ c.o.pos = e + 1
    <3>1. PICK x \in Nat : x = e + 1 /\ x = o.pos + o.size + 1
      BY <1>1
    <3>2. PICK z \in Nat : z = 0
      OBVIOUS
    <3>4. c.o = [o EXCEPT !.pos = x, !.size = z]
      BY <2>1, <3>1, <3>2
    <3>3. c.o \in BufObject /\ c.o.off = o.off /\ c.o.size = z /\ c.o.pos = x
      BY <1>t, <3>4 DEF BufObject
    <3> QED BY <3>1, <3>2, <3>3
  <2>3. Consecutive(c.bytes, p) /\ Len(c.bytes) = 1
    BY <1>1, <2>0, <2>1, OneByte
  <2>4. ASSUME o.buffering \/ c.o.off = 0 \/ c.e = e PROVE Transfers(p, c)
    <3>1. o.off = 0 /\ o.size = 0
      BY <1>1, <1>4, <2>1, <2>2, <2>4
    <3>2. Holds(c.o.cells, c.o.head, c.o.size, c.o.pos)
      BY <2>2 DEF Holds
    <3>3. Buffered(c.o, c.e)
      BY <1>1, <1>4, <2>1, <2>2, <3>1, <3>2 DEF Buffered
    <3>4. c.o.pos + c.o.off = p + 1
      BY <1>1, <2>0, <2>2, <3>1
    <3> QED BY Zenon, <2>3, <3>3, <3>4, TransferIs
  <2> QED BY Zenon, <2>2, <2>3, <2>4 DEF Consecutive
<1>5. CASE ~(o.off < o.size) /\ e # StreamLen /\ o.buffering
  <2>0. PICK s : s = InBuf!Stored(o, o.off, e, 1)
    OBVIOUS
  <2>1. PICK d : d = [o EXCEPT !.cells = s]
    OBVIOUS
  <2>2. /\ c.o = IF o.off >= o.head THEN [d EXCEPT !.head = (@ + 1) % Cap, !.pos = @ + 1]
                 ELSE [d EXCEPT !.off = @ + 1, !.size = o.off + 1]
        /\ c.e = e + 1 /\ c.bytes = <<e>>
    BY <1>5, <2>0, <2>1 DEF InBuf!read_byte, InBuf!Done
  <2>3. s \in [0..Cap - 1 -> Int]
    BY <1>1, <1>t, <2>0, StoredType
  <2>4. d \in BufObject /\ d.head = o.head /\ d.size = o.size /\ d.off = o.off /\ d.pos = o.pos /\ d.cells = s
    BY <1>t, <2>1, <2>3 DEF BufObject
  <2>5. o.off = o.size /\ e = p /\ e = o.pos + o.off
    BY <1>1, <1>5
  <2>6. Consecutive(c.bytes, p) /\ Len(c.bytes) = 1
    BY <1>1, <2>2, <2>5, OneByte
  <2>7. CASE o.off >= o.head
    <3>1. PICK h \in 0..Cap - 1 : h = (o.head + 1) % Cap
      <4>1. o.head + 1 \in Int
        BY <1>1
      <4> QED BY <1>1, <4>1, Remainder
    <3>2. c.o = [d EXCEPT !.head = h, !.pos = o.pos + 1]
      BY <2>2, <2>4, <2>7, <3>1
    <3>3. c.o \in BufObject /\ c.o.head = h /\ c.o.off = o.off /\ c.o.size = o.size /\ c.o.pos = o.pos + 1 /\ c.o.cells = s
      <4>1. h \in Nat /\ o.pos + 1 \in Nat
        BY <1>1, <3>1
      <4> QED BY <2>4, <3>2, <4>1 DEF BufObject
    <3>4. Holds(s, o.head + 1, o.size, o.pos + 1)
      BY <1>1, <1>t, <1>h, <2>0, <2>5, StoredHolds
    <3>5. Holds(s, h, o.size, o.pos + 1)
      BY <1>1, <3>1, <3>4, HoldsModulo
    <3>6. Buffered(c.o, c.e)
      BY <1>1, <1>5, <2>2, <2>5, <3>3, <3>5 DEF Buffered
    <3>7. c.o.pos + c.o.off = p + 1
      BY <1>1, <2>5, <3>3
    <3> QED BY Zenon, <2>6, <3>3, <3>6, <3>7, TransferIs
  <2>8. CASE ~(o.off >= o.head)
    <3>1. c.o = [d EXCEPT !.off = o.off + 1, !.size = o.off + 1]
      BY <2>2, <2>4, <2>8
    <3>2. c.o \in BufObject /\ c.o.head = o.head /\ c.o.off = o.off + 1 /\ c.o.size = o.off + 1 /\ c.o.pos = o.pos /\ c.o.cells = s
      <4>1. o.off + 1 \in Nat
        BY <1>1
      <4> QED BY <2>4, <3>1, <4>1 DEF BufObject
    <3>3. ASSUME c.o.size <= Cap PROVE Transfers(p, c)
      <4>0. o.head + 0 = o.head /\ o.pos + 0 = o.pos /\ 1 \in 0..Cap /\ o.off + 1 \in 0..Cap
        BY <1>1, <3>2, <3>3
      <4>1. Holds(s, o.head + 0, o.off + 1, o.pos + 0)
        BY <1>1, <1>t, <1>h, <2>0, <2>5, <4>0, StoredHolds
      <4>2. Holds(s, o.head, o.off + 1, o.pos)
        BY <4>0, <4>1
      <4>3. Buffered(c.o, c.e)
        BY <1>1, <1>5, <2>2, <2>5, <3>2, <3>3, <4>2 DEF Buffered
      <4>4. c.o.pos + c.o.off = p + 1
        BY <1>1, <2>5, <3>2
      <4> QED BY Zenon, <2>6, <4>3, <4>4, TransferIs
    <3> QED BY Zenon, <2>6, <3>2, <3>3 DEF Consecutive
  <2> QED BY <2>7, <2>8
<1> QED BY <1>2, <1>3, <1>4, <1>5

\* The bytes of the window, and those fetched behind them, join.
LEMMA JoinedBytes ==
    ASSUME NEW b, NEW p \in Int, Consecutive(b, p), NEW n \in Nat, NEW at \in Int, at = p + Len(b)
    PROVE  Consecutive(b \o InBuf!Fetched(at, n), p) /\ Len(b \o InBuf!Fetched(at, n)) = Len(b) + n
<1>1. b \in Seq(Int) /\ \A i \in DOMAIN b : b[i] = p + i - 1
  BY DEF Consecutive
<1>2. PICK f : f = InBuf!Fetched(at, n)
  OBVIOUS
<1>3. f = [i \in 1..n |-> at + i - 1]
  BY <1>2 DEF InBuf!Fetched
<1>4. f \in Seq(Int) /\ Len(f) = n
  BY <1>3
<1>5. PICK k \in Nat : k = Len(b)
  BY <1>1
<1>6. /\ b \o f \in Seq(Int) /\ Len(b \o f) = k + n
      /\ \A i \in 1..(k + n) : (b \o f)[i] = IF i <= k THEN b[i] ELSE f[i - k]
  BY <1>1, <1>4, <1>5, ConcatProperties
<1>7. ASSUME NEW i \in 1..(k + n) PROVE (b \o f)[i] = p + i - 1
  <2>1. CASE i <= k
    <3>1. i \in DOMAIN b
      BY <1>1, <1>5, <2>1
    <3> QED BY <1>1, <1>6, <2>1, <3>1
  <2>2. CASE ~(i <= k)
    <3>1. PICK j \in 1..n : j = i - k
      BY <2>2
    <3>2. f[j] = at + j - 1
      BY <1>3
    <3> QED BY <1>5, <1>6, <2>2, <3>1, <3>2
  <2> QED BY <2>1, <2>2
<1>8. DOMAIN (b \o f) = 1..(k + n)
  BY <1>6
<1> QED BY Zenon, <1>2, <1>5, <1>6, <1>7, <1>8 DEF Consecutive

\* The end of read(): n bytes are remembered behind a window that has been read
\* to its end.
LEMMA RememberedHolds ==
    ASSUME InBuf!Sane, NEW o, NEW e, Buffered(o, e), o.off = o.size, NEW a \in Nat, NEW n \in Nat, n > 0,
           e + n <= StreamLen, NEW r, r = InBuf!Remembered(o, e, a, n)
    PROVE  /\ r \in BufObject
           /\ ~o.buffering => r.off = o.off
           /\ o.buffering \/ (o.off = 0 /\ a = 0) => Buffered(r, e + n) /\ r.pos + r.off = e + n
<1>1. /\ o.head \in Nat /\ o.off \in Nat /\ o.size \in Nat /\ o.pos \in Nat /\ e \in Nat
      /\ o.size <= Cap /\ e = o.pos + o.size /\ e = o.pos + o.off
      /\ StreamLen \in Nat /\ Cap \in Nat \ {0} /\ o.off \in 0..Cap
  BY BufConstants DEF Buffered, BufObject
<1>t. o \in BufObject
  BY DEF Buffered
<1>h. Holds(o.cells, o.head, o.off, o.pos)
  BY DEF Buffered
<1>2. PICK off \in Nat : off = o.off + n
  BY <1>1
<1>s. PICK s : s = InBuf!Stored(o, o.off, e, n)
  OBVIOUS
<1>st. s \in [0..Cap - 1 -> Int]
  BY <1>1, <1>t, <1>s, StoredType
<1>3. CASE ~o.buffering
  <2>1. r = [o EXCEPT !.pos = @ + o.size + a + n, !.size = 0]
    BY <1>3 DEF InBuf!Remembered
  <2>2. PICK x \in Nat : x = o.pos + o.size + a + n
    BY <1>1
  <2>3. PICK z \in Nat : z = 0
    OBVIOUS
  <2>4. r = [o EXCEPT !.pos = x, !.size = z]
    BY <2>1, <2>2, <2>3
  <2>5. r \in BufObject /\ r.off = o.off /\ r.size = z /\ r.pos = x /\ r.cells = o.cells /\ r.head = o.head
    BY <1>t, <2>4 DEF BufObject
  <2>6. ASSUME o.off = 0, a = 0 PROVE Buffered(r, e + n) /\ r.pos + r.off = e + n
    <3>1. Holds(r.cells, r.head, r.size, r.pos)
      BY <2>3, <2>5 DEF Holds
    <3>2. x = e + n /\ r.off = 0
      BY <1>1, <2>2, <2>5, <2>6
    <3> QED BY <1>1, <2>3, <2>5, <3>1, <3>2 DEF Buffered
  <2> QED BY Zenon, <1>3, <2>5, <2>6
<1>4. CASE o.buffering /\ n >= Cap
  <2>1. PICK x \in Nat : x = e + n - Cap
    BY <1>1, <1>4
  <2>2. PICK k : k = [c \in 0..Cap - 1 |-> e + n - Cap + c]
    OBVIOUS
  <2>3. k = [c \in 0..Cap - 1 |-> x + c] /\ k \in [0..Cap - 1 -> Int]
    BY <1>1, <2>1, <2>2
  <2>4. PICK z \in Nat : z = 0
    OBVIOUS
  <2>5. r = [o EXCEPT !.cells = k, !.pos = @ + o.size + n - Cap, !.size = Cap, !.head = z, !.off = Cap]
    <3>1. r = [o EXCEPT !.cells = [c \in 0..Cap - 1 |-> e + n - Cap + c],
                        !.pos = @ + o.size + n - Cap, !.size = Cap, !.head = 0, !.off = Cap]
      <4>1. ~(~o.buffering) /\ ~(n < Cap)
        BY <1>1, <1>4
      <4> QED BY <1>4, <4>1 DEF InBuf!Remembered
    <3> QED BY Zenon, <2>2, <2>4, <3>1
  <2>6. o.pos + o.size + n - Cap = x
    BY <1>1, <2>1
  <2>7. r = [o EXCEPT !.cells = k, !.pos = x, !.size = Cap, !.head = z, !.off = Cap]
    BY <2>5, <2>6
  <2>8. r \in BufObject /\ r.off = Cap /\ r.size = Cap /\ r.pos = x /\ r.cells = k /\ r.head = z
    BY <1>1, <1>t, <2>3, <2>7 DEF BufObject
  <2>9. Holds(k, z, Cap, x)
    <3> SUFFICES ASSUME NEW i \in 0..Cap - 1 PROVE k[(z + i) % Cap] = x + i
      BY DEF Holds
    <3>1. z + i = i /\ i \in Int
      BY <1>1, <2>4
    <3>2. i % Cap = i
      BY <1>1, <3>1, RemainderOfNear
    <3> QED BY <2>3, <3>1, <3>2
  <2>10. Buffered(r, e + n) /\ r.pos + r.off = e + n
    BY <1>1, <2>1, <2>8, <2>9 DEF Buffered
  <2> QED BY Zenon, <1>4, <2>8, <2>10
<1>5. CASE o.buffering /\ ~(n >= Cap) /\ off > Cap
  <2>1. PICK d \in Nat : d = off - Cap
    BY <1>1, <1>5
  <2>2. d = off % Cap /\ d + Cap = o.off + n
    <3>1. off - Cap \in 0..Cap - 1
      BY <1>1, <1>2, <1>5
    <3>2. off \in Int /\ Cap \in Nat \ {0}
      BY <1>1
    <3>3. off % Cap = off - Cap
      BY Zenon, <3>1, <3>2, RemainderOfNear
    <3> QED BY <1>1, <1>2, <2>1, <3>3
  <2>3. PICK h \in 0..Cap - 1 : h = (o.head + d) % Cap
    <3>1. o.head + d \in Int
      BY <1>1
    <3> QED BY <1>1, <3>1, Remainder
  <2>4. r = [o EXCEPT !.cells = s, !.head = (@ + (off % Cap)) % Cap, !.size = Cap, !.off = Cap, !.pos = @ + (off % Cap)]
    <3>1. n < Cap /\ ~(n >= Cap)
      BY <1>1, <1>5
    <3> QED BY <1>2, <1>5, <1>s, <3>1 DEF InBuf!Remembered
  <2>5. PICK x \in Nat : x = o.pos + d
    BY <1>1
  <2>6. r = [o EXCEPT !.cells = s, !.head = h, !.size = Cap, !.off = Cap, !.pos = x]
    BY <2>2, <2>3, <2>4, <2>5
  <2>7. r \in BufObject /\ r.off = Cap /\ r.size = Cap /\ r.pos = x /\ r.cells = s /\ r.head = h
    <3>1. h \in Nat /\ Cap \in Nat
      BY <1>1, <2>3
    <3> QED BY <1>t, <1>st, <2>6, <3>1 DEF BufObject
  <2>8. Holds(s, o.head + d, Cap, o.pos + d)
    <3>1. n \in 0..Cap /\ Cap \in 0..Cap
      BY <1>1, <1>5
    <3>2. s = InBuf!Stored(o, o.off, o.pos + o.off, n) /\ o.pos \in Int
      BY <1>1, <1>s
    <3> QED BY Zenon, <1>1, <1>t, <1>h, <2>2, <3>1, <3>2, StoredHolds
  <2>9. Holds(s, h, Cap, x)
    BY <1>1, <2>3, <2>5, <2>8, HoldsModulo
  <2>10. Buffered(r, e + n) /\ r.pos + r.off = e + n
    BY <1>1, <2>2, <2>5, <2>7, <2>9 DEF Buffered
  <2> QED BY Zenon, <1>5, <2>7, <2>10
<1>6. CASE o.buffering /\ ~(n >= Cap) /\ ~(off > Cap)
  <2>1. r = [o EXCEPT !.cells = s, !.off = off, !.size = off]
    BY <1>1, <1>2, <1>6, <1>s DEF InBuf!Remembered
  <2>2. r \in BufObject /\ r.off = off /\ r.size = off /\ r.pos = o.pos /\ r.cells = s /\ r.head = o.head
    BY <1>t, <1>st, <2>1 DEF BufObject
  <2>3. n \in 0..Cap /\ off \in 0..Cap /\ 0 + off = o.off + n /\ o.head + 0 = o.head /\ o.pos + 0 = o.pos
    BY <1>1, <1>2, <1>6
  <2>4. Holds(s, o.head + 0, off, o.pos + 0)
    BY <1>1, <1>t, <1>h, <1>s, <2>3, StoredHolds
  <2>5. Holds(s, o.head, off, o.pos)
    BY <2>3, <2>4
  <2>6. Buffered(r, e + n) /\ r.pos + r.off = e + n
    BY <1>1, <1>2, <2>2, <2>3, <2>5 DEF Buffered
  <2> QED BY Zenon, <1>6, <2>2, <2>6
<1> QED BY <1>3, <1>4, <1>5, <1>6

\* What the wrapped stream gives: no more than asked for, and no more than it has.
LEMMA WrappedReadIs ==
    ASSUME InBuf!Sane, NEW e \in 0..StreamLen, NEW want \in Nat, NEW short \in Nat
    PROVE  /\ InBuf!WrappedRead(e, want, short) \in Nat
           /\ InBuf!WrappedRead(e, want, short) <= want
           /\ e + InBuf!WrappedRead(e, want, short) <= StreamLen
           /\ want > 0 /\ short > 0 /\ e < StreamLen => InBuf!WrappedRead(e, want, short) > 0
  BY BufConstants DEF InBuf!WrappedRead, InBuf!Lesser

\* read(): from the window, then from the wrapped stream.
LEMMA ReadTransfers ==
    ASSUME InBuf!Sane, NEW o, NEW e, Buffered(o, e), NEW count \in Nat, NEW short \in Nat,
           NEW c, c = InBuf!read(o, e, count, short), NEW p, p = InBuf!position(o)
    PROVE  /\ c.o \in BufObject /\ c.e \in 0..StreamLen /\ c.bytes \in Seq(Int)
           /\ (o.buffering \/ c.o.off = 0 \/ c.e = e) => Transfers(p, c)
<1>1. /\ o.head \in Nat /\ o.off \in Nat /\ o.size \in Nat /\ o.pos \in Nat /\ e \in 0..StreamLen
      /\ o.off <= o.size /\ o.size <= Cap /\ e = o.pos + o.size
      /\ StreamLen \in Nat /\ Cap \in Nat \ {0}
      /\ p = o.pos + o.off /\ p \in Int
  BY BufConstants DEF Buffered, BufObject, InBuf!position
<1>t. o \in BufObject
  BY DEF Buffered
<1>h. Holds(o.cells, o.head, o.size, o.pos)
  BY DEF Buffered
<1>2. PICK a \in Nat : a = InBuf!Lesser(count, (o.size - o.off) % InBuf!U32) /\ a <= count /\ a <= o.size - o.off
                       /\ (a < count => a = o.size - o.off)
  <2>1. PICK w \in Nat : w = o.size - o.off
    BY <1>1
  <2>2. w % InBuf!U32 = w
    BY <1>1, <2>1, BufConstants, RemainderOfNear
  <2> QED BY <1>1, <2>1, <2>2 DEF InBuf!Lesser
<1>3. PICK x \in Nat : x = o.off + a
  BY <1>1
<1>4. PICK q : q = [o EXCEPT !.off = x]
  OBVIOUS
<1>5. q \in BufObject /\ q.off = x /\ q.size = o.size /\ q.pos = o.pos /\ q.head = o.head /\ q.cells = o.cells
      /\ q.buffering = o.buffering
  BY <1>t, <1>4 DEF BufObject
<1>6. Buffered(q, e)
  BY <1>1, <1>2, <1>3, <1>5, <1>h DEF Buffered
<1>7. PICK n \in Nat : n = InBuf!WrappedRead(e, count - a, short) /\ e + n <= StreamLen
  <2>1. count - a \in Nat
    BY <1>2
  <2> QED BY <1>1, <2>1, WrappedReadIs
<1>8. PICK b : b = InBuf!Cached(o, a)
  OBVIOUS
<1>9. Consecutive(b, p) /\ Len(b) = a
  BY <1>2, <1>8, CachedBytes
<1>10. CASE a = count \/ n = 0
  <2>1. c.o = q /\ c.e = e /\ c.bytes = b
    <3>1. [o EXCEPT !.off = @ + a] = q
      BY <1>3, <1>4
    <3> QED BY <1>2, <1>7, <1>8, <1>10, <3>1 DEF InBuf!read, InBuf!Done
  <2>2. c.o.pos + c.o.off = p + a
    BY <1>1, <1>3, <1>5, <2>1
  <2>3. Transfers(p, c) /\ c.bytes \in Seq(Int)
    BY Zenon, <1>6, <1>9, <2>1, <2>2, TransferIs
  <2> QED BY Zenon, <1>1, <1>5, <2>1, <2>3
<1>11. CASE ~(a = count \/ n = 0)
  <2>1. a < count /\ n > 0 /\ x = o.size
    BY <1>1, <1>2, <1>3, <1>7, <1>11
  <2>2. PICK r : r = InBuf!Remembered(q, e, a, n)
    OBVIOUS
  <2>3. c.o = r /\ c.e = e + n /\ c.bytes = b \o InBuf!Fetched(e, n)
    <3>1. [o EXCEPT !.off = @ + a] = q
      BY <1>3, <1>4
    <3>2. ~(a = count) /\ ~(a < count /\ n = 0)
      BY <1>11
    <3> QED BY <1>2, <1>7, <1>8, <2>2, <3>1, <3>2 DEF InBuf!read, InBuf!Done
  <2>4. q.off = q.size
    BY <1>5, <2>1
  <2>5. /\ r \in BufObject /\ (~q.buffering => r.off = q.off)
        /\ q.buffering \/ (q.off = 0 /\ a = 0) => Buffered(r, e + n) /\ r.pos + r.off = e + n
    <3>1. n > 0 /\ e + n <= StreamLen
      BY <1>7, <2>1
    <3> QED BY <1>6, <2>2, <2>4, <3>1, RememberedHolds
  <2>6. e = p + a /\ e + n = p + (a + n)
    BY <1>1, <1>3, <2>1
  <2>7. Consecutive(c.bytes, p) /\ Len(c.bytes) = a + n
    <3>1. e \in Int /\ p \in Int /\ e = p + Len(b)
      BY <1>1, <1>9, <2>6
    <3>2. Consecutive(b \o InBuf!Fetched(e, n), p) /\ Len(b \o InBuf!Fetched(e, n)) = Len(b) + n
      BY Zenon, <1>9, <3>1, JoinedBytes
    <3> QED BY Zenon, <1>9, <2>3, <3>2
  <2>8. ASSUME o.buffering \/ c.o.off = 0 \/ c.e = e PROVE Transfers(p, c)
    <3>1. c.e # e
      BY <1>1, <2>1, <2>3
    <3>0. x = 0 => a = 0
      BY <1>1, <1>3
    <3>2. q.buffering \/ (q.off = 0 /\ a = 0)
      BY Zenon, <1>5, <2>3, <2>5, <2>8, <3>0, <3>1
    <3>3. Buffered(c.o, c.e) /\ c.o.pos + c.o.off = p + (a + n)
      BY Zenon, <2>3, <2>5, <2>6, <3>2
    <3> QED BY Zenon, <2>7, <3>3, TransferIs
  <2>9. c.e \in 0..StreamLen
    <3>1. e + n \in 0..StreamLen
      BY <1>1, <1>7
    <3> QED BY Zenon, <2>3, <3>1
  <2> QED BY Zenon, <2>3, <2>5, <2>7, <2>8, <2>9 DEF Consecutive
<1> QED BY <1>10, <1>11

-----------------------------------------------------------------------------
\* A function can be applied again and again: the sequence of its iterates exists.
IteratesOf(S, F, x, n) == {g \in [0..n -> S] : g[0] = x /\ \A i \in 1..n : g[i] = F[g[i - 1]]}

LEMMA Iterates ==
    ASSUME NEW S, NEW F \in [S -> S], NEW x \in S, NEW n \in Nat
    PROVE  IteratesOf(S, F, x, n) # {}
<1> DEFINE Has(m) == \E g \in [0..m -> S] : g[0] = x /\ \A i \in 1..m : g[i] = F[g[i - 1]]
           T == {m \in Nat : ~Has(m)}
<1>1. Has(0)
  <2>1. PICK g : g = [i \in 0..0 |-> x]
    OBVIOUS
  <2>2. g \in [0..0 -> S] /\ g[0] = x /\ \A i \in 1..0 : g[i] = F[g[i - 1]]
    BY <2>1
  <2> QED BY Zenon, <2>2
<1>2. ASSUME NEW m \in Nat, Has(m) PROVE Has(m + 1)
  <2>1. PICK g \in [0..m -> S] : g[0] = x /\ \A i \in 1..m : g[i] = F[g[i - 1]]
    BY Zenon, <1>2
  <2>2. PICK y \in S : y = F[g[m]]
    OBVIOUS
  <2>3. PICK h : h = [i \in 0..(m + 1) |-> IF i = m + 1 THEN y ELSE g[i]]
    OBVIOUS
  <2>4. h \in [0..(m + 1) -> S]
    BY <2>3
  <2>5. h[0] = x
    BY <2>1, <2>3
  <2>6. ASSUME NEW i \in 1..(m + 1) PROVE h[i] = F[h[i - 1]]
    <3>1. CASE i = m + 1
      <4>1. h[i] = y /\ h[i - 1] = g[m]
        BY <2>3, <3>1
      <4> QED BY <2>2, <4>1
    <3>2. CASE i # m + 1
      <4>1. i \in 1..m /\ h[i] = g[i] /\ h[i - 1] = g[i - 1]
        BY <2>3, <3>2
      <4> QED BY <2>1, <4>1
    <3> QED BY <3>1, <3>2
  <2> QED BY Zenon, <2>4, <2>5, <2>6
<1> HIDE DEF Has
<1>3. CASE T = {}
  BY <1>3 DEF T, Has, IteratesOf
<1>4. CASE T # {}
  <2>1. PICK m \in T : \A k \in T : m <= k
    BY Zenon, <1>4, LeastNatural
  <2>2. m \in Nat /\ ~Has(m) /\ m # 0
    BY <1>1, <2>1
  <2>3. PICK k \in Nat : m = k + 1
    BY <2>2
  <2>4. Has(k)
    BY <2>1, <2>3
  <2> QED BY <1>2, <2>2, <2>3, <2>4
<1> QED BY <1>3, <1>4

\* The states of the loop of skip() on behalf of a reader at p: a whole window
\* has been read, and as many bytes skipped as the wrapped stream has advanced.
SkipStates(amount, p) ==
    {s \in [o : BufObject, e : Nat, res : Nat, bytes : {<<>>}] :
        Buffered(s.o, s.e) /\ s.o.off = s.o.size /\ s.res <= amount /\ s.e = p + s.res}

LEMMA SkipRoundHolds ==
    ASSUME InBuf!Sane, NEW amount \in Nat, NEW short \in Nat, NEW p \in Nat, NEW s \in SkipStates(amount, p),
           NEW t, t = InBuf!SkipRound(s, amount, short)
    PROVE  /\ t \in SkipStates(amount, p) /\ s.res <= t.res
           /\ short > 0 /\ s.res < amount /\ s.e < StreamLen => s.res + 1 <= t.res
<1>s. PICK o : o = s.o
  OBVIOUS
<1>e. PICK e : e = s.e
  OBVIOUS
<1>t. s \in [o : BufObject, e : Nat, res : Nat, bytes : {<<>>}]
  BY DEF SkipStates
<1>0. Buffered(o, e) /\ o.off = o.size
  BY <1>s, <1>e DEF SkipStates
<1>o. o \in BufObject
  BY <1>0 DEF Buffered
<1>k. PICK done \in 0..amount : done = s.res /\ e = p + done
  BY <1>e DEF SkipStates
<1>1. /\ o.head \in Nat /\ o.off \in 0..Cap /\ o.pos \in Nat /\ e \in 0..StreamLen
      /\ e = o.pos + o.off /\ StreamLen \in Nat /\ Cap \in Nat \ {0}
  BY <1>0, BufConstants DEF Buffered, BufObject
<1>h. Holds(o.cells, o.head, o.off, o.pos)
  BY <1>0 DEF Buffered
<1>2. PICK cut \in 0..Cap - 1 : cut = (o.head + o.off) % Cap
  <2>1. o.head + o.off \in Int
    BY <1>1
  <2> QED BY <1>1, <2>1, Remainder
<1>3. PICK want \in Nat : want = InBuf!Lesser(amount - s.res, Cap - cut) /\ want <= Cap /\ want <= amount - done
                          /\ (done < amount => want > 0)
  <2>1. InBuf!Lesser(amount - s.res, Cap - cut) = InBuf!Lesser(amount - done, Cap - cut)
    BY Zenon, <1>k
  <2> QED BY <1>1, <2>1 DEF InBuf!Lesser
<1>4. PICK n \in Nat : n = InBuf!WrappedRead(e, want, short) /\ n <= want /\ e + n <= StreamLen
                       /\ (want > 0 /\ short > 0 /\ e < StreamLen => n > 0)
  BY <1>1, WrappedReadIs
<1>5. PICK off \in Nat : off = o.off + n
  BY <1>1
<1>6. PICK b : b = InBuf!Stored(o, o.off, e, n)
  OBVIOUS
<1>7. b \in [0..Cap - 1 -> Int]
  BY <1>o, <1>1, <1>6, StoredType
<1>8. PICK q : q = [o EXCEPT !.cells = b]
  OBVIOUS
<1>9. q \in BufObject /\ q.head = o.head /\ q.pos = o.pos /\ q.cells = b
  BY <1>o, <1>7, <1>8 DEF BufObject
<1>10. PICK r : r = IF off > Cap THEN [q EXCEPT !.head = @ + off - Cap, !.size = Cap, !.off = Cap, !.pos = @ + off - Cap]
                    ELSE IF n = 0 THEN o ELSE [q EXCEPT !.off = off, !.size = off]
  OBVIOUS
<1>11. t = [s EXCEPT !.o = r, !.e = @ + n, !.res = @ + n]
  BY <1>s, <1>e, <1>2, <1>3, <1>4, <1>5, <1>6, <1>8, <1>10 DEF InBuf!SkipRound
<1>12. n \in 0..Cap /\ o.pos \in Int /\ b = InBuf!Stored(o, o.off, o.pos + o.off, n)
  BY <1>1, <1>3, <1>4, <1>6
<1>13. Buffered(r, e + n) /\ r.off = r.size /\ r \in BufObject
  <2>1. CASE off > Cap
    <3>1. PICK d \in Nat : d = off - Cap /\ d + Cap = o.off + n
      BY <1>1, <1>5, <2>1
    <3>2. PICK h \in Nat : h = o.head + d
      BY <1>1
    <3>3. PICK x \in Nat : x = o.pos + d
      BY <1>1
    <3>4. h = q.head + off - Cap /\ x = q.pos + off - Cap
      BY <1>1, <1>9, <3>1, <3>2, <3>3
    <3>5. r = [q EXCEPT !.head = h, !.size = Cap, !.off = Cap, !.pos = x]
      BY <1>10, <2>1, <3>4
    <3>6. Cap \in Nat
      BY <1>1
    <3>7. r \in BufObject /\ r.head = h /\ r.size = Cap /\ r.off = Cap /\ r.pos = x /\ r.cells = b
      BY <1>9, <3>5, <3>6 DEF BufObject
    <3>8. Cap \in 0..Cap
      BY <1>1
    <3>9. Holds(b, o.head + d, Cap, o.pos + d)
      BY Zenon, <1>o, <1>1, <1>h, <1>12, <3>1, <3>8, StoredHolds
    <3>10. Holds(r.cells, r.head, r.size, r.pos)
      BY Zenon, <3>2, <3>3, <3>7, <3>9
    <3> QED BY <1>1, <1>4, <3>1, <3>3, <3>7, <3>10 DEF Buffered
  <2>2. CASE ~(off > Cap) /\ n = 0
    <3>1. r = o /\ e + n = e
      BY <1>1, <1>10, <2>2
    <3> QED BY <1>0, <1>o, <3>1
  <2>3. CASE ~(off > Cap) /\ n # 0
    <3>1. r = [q EXCEPT !.off = off, !.size = off]
      BY <1>10, <2>3
    <3>2. r \in BufObject /\ r.head = o.head /\ r.size = off /\ r.off = off /\ r.pos = o.pos /\ r.cells = b
      BY <1>9, <3>1 DEF BufObject
    <3>3. off \in 0..Cap /\ 0 + off = o.off + n /\ o.head + 0 = o.head /\ o.pos + 0 = o.pos /\ 0 \in Nat
      BY <1>1, <1>5, <2>3
    <3>4. Holds(b, o.head + 0, off, o.pos + 0)
      BY Zenon, <1>o, <1>1, <1>h, <1>12, <3>3, StoredHolds
    <3>5. Holds(r.cells, r.head, r.size, r.pos)
      BY Zenon, <3>2, <3>3, <3>4
    <3> QED BY <1>1, <1>4, <1>5, <3>2, <3>3, <3>5 DEF Buffered
  <2> QED BY <2>1, <2>2, <2>3
<1>14. PICK f \in Nat : f = e + n
  BY <1>1
<1>15. PICK k \in Nat : k = done + n
  BY <1>k
<1>16. t = [s EXCEPT !.o = r, !.e = f, !.res = k]
  BY <1>e, <1>k, <1>11, <1>14, <1>15
<1>17. t \in [o : BufObject, e : Nat, res : Nat, bytes : {<<>>}] /\ t.o = r /\ t.e = f /\ t.res = k
  BY <1>t, <1>13, <1>16
<1>18. k <= amount /\ f = p + k /\ done <= k /\ (n > 0 => done + 1 <= k)
  BY <1>k, <1>3, <1>4, <1>14, <1>15
<1>19. t \in SkipStates(amount, p)
  BY Zenon, <1>13, <1>14, <1>17, <1>18 DEF SkipStates
<1>20. short > 0 /\ s.res < amount /\ s.e < StreamLen => n > 0
  BY Zenon, <1>e, <1>k, <1>3, <1>4
<1> QED BY Zenon, <1>k, <1>17, <1>18, <1>19, <1>20

\* The loop of skip(): it ends with the whole amount skipped or at the end of
\* the wrapped stream.
LEMMA SkipRoundsEnd ==
    ASSUME InBuf!Sane, NEW amount \in Nat, NEW short \in Nat, short > 0 \/ StreamLen = 0, NEW p \in Nat,
           NEW start \in SkipStates(amount, p), NEW t, t = InBuf!SkipRounds(start, amount, short)
    PROVE  t \in SkipStates(amount, p) /\ (t.res = amount \/ t.e = StreamLen)
<1> DEFINE Step(f) == [i \in 0..amount |-> IF i = 0 THEN start ELSE InBuf!SkipRound(f[i - 1], amount, short)]
<1>1. \E f : f = Step(f)
  <2>1. PICK S : S = SkipStates(amount, p)
    OBVIOUS
  <2>2. PICK F : F = [s \in S |-> InBuf!SkipRound(s, amount, short)]
    OBVIOUS
  <2>3. \A s \in S : InBuf!SkipRound(s, amount, short) \in S
    BY <2>1, SkipRoundHolds
  <2>4. F \in [S -> S]
    BY Zenon, <2>2, <2>3
  <2>5. PICK g \in [0..amount -> S] : g[0] = start /\ \A i \in 1..amount : g[i] = F[g[i - 1]]
    <3>1. start \in S
      BY <2>1
    <3>2. IteratesOf(S, F, start, amount) # {}
      BY Zenon, <2>4, <3>1, Iterates
    <3> QED BY Zenon, <3>2 DEF IteratesOf
  <2>6. ASSUME NEW i \in 0..amount, i # 0 PROVE g[i] = InBuf!SkipRound(g[i - 1], amount, short)
    <3>1. i \in 1..amount /\ i - 1 \in 0..amount
      BY <2>6
    <3> QED BY Zenon, <2>2, <2>5, <3>1
  <2>7. g = [i \in 0..amount |-> g[i]]
    OBVIOUS
  <2>8. g = Step(g)
    BY <2>5, <2>6, <2>7
  <2> QED BY Zenon, <2>8
<1>2. PICK run : run = Step(run) /\ t = run[amount]
  <2>1. PICK run : run = CHOOSE f : f = Step(f)
    OBVIOUS
  <2>2. run = Step(run)
    BY Zenon, <1>1, <2>1
  <2>3. t = run[amount]
    BY Zenon, <2>1 DEF InBuf!SkipRounds
  <2> QED BY Zenon, <2>2, <2>3
<1>3. run[0] = start
  BY <1>2
<1>4. ASSUME NEW i \in 1..amount PROVE run[i] = InBuf!SkipRound(run[i - 1], amount, short)
  BY <1>2
<1> HIDE DEF Step
<1> DEFINE Good(i) == /\ run[i] \in SkipStates(amount, p)
                      /\ run[i].res >= i \/ run[i].res = amount \/ run[i].e = StreamLen
           T == {i \in 0..amount : ~Good(i)}
<1>5. ASSUME NEW s \in SkipStates(amount, p) PROVE s.res \in 0..amount /\ s.e \in 0..StreamLen /\ s.e = p + s.res
  BY BufConstants DEF SkipStates, Buffered
<1>6. Good(0)
  BY <1>3, <1>5
<1>7. ASSUME NEW i \in 1..amount, Good(i - 1) PROVE Good(i)
  <2>1. PICK s \in SkipStates(amount, p) : s = run[i - 1]
    BY <1>7
  <2>2. PICK u : u = run[i]
    OBVIOUS
  <2>3. u = InBuf!SkipRound(s, amount, short)
    BY <1>4, <2>1, <2>2
  <2>4. /\ u \in SkipStates(amount, p) /\ s.res <= u.res
        /\ short > 0 /\ s.res < amount /\ s.e < StreamLen => s.res + 1 <= u.res
    BY Zenon, <2>3, SkipRoundHolds
  <2>5. s.res \in 0..amount /\ s.e \in 0..StreamLen /\ s.e = p + s.res /\ (s.res >= i - 1 \/ s.res = amount \/ s.e = StreamLen)
    BY <1>5, <1>7, <2>1
  <2>6. u.res \in 0..amount /\ u.e \in 0..StreamLen /\ u.e = p + u.res
    BY <1>5, <2>4
  <2>7. u.res >= i \/ u.res = amount \/ u.e = StreamLen
    <3>1. PICK a \in 0..amount : a = s.res
      BY <2>5
    <3>2. PICK b \in 0..amount : b = u.res
      BY <2>6
    <3>3. a <= b /\ (short > 0 /\ a < amount /\ s.e < StreamLen => a + 1 <= b)
      BY Zenon, <2>4, <3>1, <3>2
    <3>4. s.e \in 0..StreamLen /\ s.e = p + a /\ (a >= i - 1 \/ a = amount \/ s.e = StreamLen)
      BY Zenon, <2>5, <3>1
    <3>5. u.e \in 0..StreamLen /\ u.e = p + b
      BY Zenon, <2>6, <3>2
    <3>6. b >= i \/ b = amount \/ u.e = StreamLen
      BY <3>3, <3>4, <3>5, BufConstants
    <3> QED BY <3>2, <3>6
  <2> QED BY Zenon, <2>2, <2>4, <2>7
<1>8. Good(amount)
  <2> SUFFICES ASSUME ~Good(amount) PROVE FALSE
    OBVIOUS
  <2> HIDE DEF Good
  <2>1. amount \in T /\ T \in SUBSET Nat
    OBVIOUS
  <2>2. PICK n \in T : \A k \in T : n <= k
    BY Zenon, <2>1, LeastNatural
  <2>3. n \in 0..amount /\ ~Good(n)
    OBVIOUS
  <2>4. n # 0
    BY <1>6, <2>3
  <2>5. n \in 1..amount /\ n - 1 \in 0..amount /\ ~(n <= n - 1)
    BY <2>3, <2>4
  <2>6. Good(n - 1)
    BY <2>2, <2>5
  <2> QED BY <1>7, <2>3, <2>5, <2>6
<1>9. t \in SkipStates(amount, p) /\ (t.res >= amount \/ t.res = amount \/ t.e = StreamLen)
  BY <1>2, <1>8
<1> QED BY <1>5, <1>9

\* A skip moves a reader at p by the amount, or to the end of the wrapped stream,
\* and tells how far, unless it leaves a window behind without buffering.
Moves(o, p, amount, c) ==
    /\ Buffered(c.o, c.e) /\ c.bytes = <<>> /\ c.res \in Nat
    /\ InBuf!position(c.o) = InBuf!Lesser(p + amount, StreamLen)
    /\ InBuf!position(c.o) - p = c.res + InBuf!Untold(o, amount)

LEMMA SkipMoves ==
    ASSUME InBuf!Sane, NEW o, NEW e, Buffered(o, e), NEW amount \in Nat, amount > 0,
           NEW short \in Nat, short > 0 \/ StreamLen = 0,
           NEW c, c = InBuf!skip(o, e, amount, short), NEW p, p = InBuf!position(o)
    PROVE  Moves(o, p, amount, c)
<1> SUFFICES /\ Buffered(c.o, c.e) /\ c.bytes = <<>> /\ c.res \in Nat
             /\ InBuf!position(c.o) = InBuf!Lesser(p + amount, StreamLen)
             /\ InBuf!position(c.o) - p = c.res + InBuf!Untold(o, amount)
  BY Zenon DEF Moves
<1>1. /\ o.head \in Nat /\ o.off \in Nat /\ o.size \in Nat /\ o.pos \in Nat /\ e \in 0..StreamLen
      /\ o.off <= o.size /\ o.size <= Cap /\ e = o.pos + o.size
      /\ StreamLen \in Nat /\ Cap \in Nat \ {0} /\ p = o.pos + o.off /\ p \in Nat
  BY SMTT(30), BufConstants DEF Buffered, BufObject, InBuf!position
<1>t. o \in BufObject
  BY DEF Buffered
<1>h. Holds(o.cells, o.head, o.size, o.pos)
  BY DEF Buffered
<1>2. PICK quick \in Nat : /\ quick = IF o.off < o.size THEN InBuf!Lesser(amount, o.size - o.off) ELSE 0
                           /\ quick <= amount /\ quick <= o.size - o.off
                           /\ quick < amount => quick = o.size - o.off
                           /\ quick = 0 => quick < amount /\ ~(o.off < o.size)
  BY <1>1 DEF InBuf!Lesser
<1>b. quick <= amount /\ quick <= o.size - o.off /\ (quick < amount => quick = o.size - o.off)
  BY <1>2
<1>3. PICK x \in Nat : x = o.off + quick
  BY <1>1
<1>4. PICK q : q = [o EXCEPT !.off = x]
  OBVIOUS
<1>5. q \in BufObject /\ q.off = x /\ q.size = o.size /\ q.pos = o.pos /\ q.head = o.head /\ q.cells = o.cells
  BY <1>t, <1>4 DEF BufObject
<1>6. Buffered(q, e)
  BY <1>1, <1>2, <1>3, <1>5, <1>h DEF Buffered
<1>7. [o EXCEPT !.off = @ + quick] = q
  BY <1>3, <1>4
<1>8. CASE quick > 0 /\ quick = amount
  <2>1. c = InBuf!Done(q, e, quick, <<>>)
    BY <1>2, <1>7, <1>8 DEF InBuf!skip
  <2>2. c.o = q /\ c.e = e /\ c.res = quick /\ c.bytes = <<>>
    BY <2>1 DEF InBuf!Done
  <2>3. InBuf!position(c.o) = p + amount /\ p + amount <= StreamLen /\ quick = (p + amount) - p
    <3>1. InBuf!position(q) = o.pos + x
      BY Zenon, <1>5 DEF InBuf!position
    <3>2. o.pos + x = p + amount /\ p + amount <= StreamLen /\ quick = (p + amount) - p
      BY <1>1, <1>b, <1>3, <1>8
    <3> QED BY Zenon, <2>2, <3>1, <3>2
  <2>4. InBuf!Lesser(p + amount, StreamLen) = p + amount
    BY <1>1, <2>3 DEF InBuf!Lesser
  <2>5. InBuf!position(c.o) - p = c.res + InBuf!Untold(o, amount)
    <3>1. InBuf!Untold(o, amount) = 0
      BY <1>1, <1>b, <1>8 DEF InBuf!Untold
    <3>2. InBuf!position(c.o) - p = quick /\ quick = quick + 0
      BY <2>3
    <3> QED BY Zenon, <2>2, <3>1, <3>2
  <2> QED BY Zenon, <1>6, <2>2, <2>3, <2>4, <2>5
<1>9. CASE ~(quick > 0 /\ quick = amount)
  <2>1. quick < amount /\ x = o.size /\ e = p + quick
    BY <1>1, <1>b, <1>3, <1>9
  <2>2. CASE ~InBuf!FullBuffering(o)
    <3>d. PICK d \in Nat : d = amount - quick
      BY <2>1
    <3>0. PICK g \in Nat : g = StreamLen - e
      BY <1>1
    <3>1. PICK moved \in Nat : moved = InBuf!Lesser(amount - quick, StreamLen - e) /\ moved <= g
      BY <3>d, <3>0 DEF InBuf!Lesser
    <3>a. e + moved \in 0..StreamLen
      BY <1>1, <3>0, <3>1
    <3>2. c = InBuf!Done(InBuf!clear_buffer([q EXCEPT !.pos = @ + q.off + moved]), e + moved, moved, <<>>)
      BY <1>2, <1>7, <1>9, <2>2, <3>1 DEF InBuf!skip
    <3>3. PICK y \in Nat : y = q.pos + q.off + moved /\ y = e + moved
      BY <1>1, <1>5, <2>1, <3>1
    <3>4. PICK r : r = [q EXCEPT !.pos = y]
      OBVIOUS
    <3>5. r \in BufObject /\ r.pos = y
      BY <1>5, <3>4 DEF BufObject
    <3>6. PICK z \in Nat : z = 0
      OBVIOUS
    <3>b. [q EXCEPT !.pos = @ + q.off + moved] = r
      BY <3>3, <3>4
    <3>7. c.o = [r EXCEPT !.head = z, !.off = z, !.size = z] /\ c.e = e + moved /\ c.res = moved /\ c.bytes = <<>>
      <4>1. c = InBuf!Done(InBuf!clear_buffer(r), e + moved, moved, <<>>)
        BY Zenon, <3>2, <3>b
      <4>2. InBuf!clear_buffer(r) = [r EXCEPT !.head = z, !.off = z, !.size = z]
        BY Zenon, <3>6 DEF InBuf!clear_buffer
      <4> QED BY <4>1, <4>2 DEF InBuf!Done
    <3>8. c.o \in BufObject /\ c.o.head = z /\ c.o.off = z /\ c.o.size = z /\ c.o.pos = y
      BY <3>5, <3>7 DEF BufObject
    <3>9. Holds(c.o.cells, c.o.head, c.o.size, c.o.pos)
      BY <3>6, <3>8 DEF Holds
    <3>10. Buffered(c.o, c.e)
      <4>1. c.e = y /\ y <= StreamLen /\ y = y + z /\ z <= z /\ z <= Cap
        BY <1>1, <3>a, <3>3, <3>6, <3>7
      <4> QED BY Zenon, <3>8, <3>9, <4>1 DEF Buffered
    <3>11. InBuf!position(c.o) = e + moved
      BY <3>3, <3>6, <3>8 DEF InBuf!position
    <3>12. e + moved = InBuf!Lesser(p + amount, StreamLen)
      BY <1>1, <2>1, <3>1 DEF InBuf!Lesser
    <3>13. InBuf!Untold(o, amount) = quick
      <4>1. CASE o.off < o.size
        <5>1. quick = o.size - o.off /\ amount > o.size - o.off
          BY <1>b, <2>1
        <5> QED BY Zenon, <2>2, <4>1, <5>1 DEF InBuf!Untold
      <4>2. CASE ~(o.off < o.size)
        <5>1. quick = 0
          BY <1>2, <4>2
        <5> QED BY Zenon, <4>2, <5>1 DEF InBuf!Untold
      <4> QED BY <4>1, <4>2
    <3>14. (e + moved) - p = moved + quick
      BY <1>1, <2>1, <3>1
    <3> QED BY Zenon, <3>7, <3>10, <3>11, <3>12, <3>13, <3>14
  <2>3. CASE InBuf!FullBuffering(o)
    <3>1. PICK s : s = InBuf!Done(q, e, quick, <<>>)
      OBVIOUS
    <3>2. c = InBuf!SkipRounds(s, amount, short)
      BY <1>2, <1>7, <1>9, <2>3, <3>1 DEF InBuf!skip
    <3>3. s \in [o : BufObject, e : Nat, res : Nat, bytes : {<<>>}] /\ s.o = q /\ s.e = e /\ s.res = quick
      BY <1>1, <1>5, <3>1 DEF InBuf!Done
    <3>4. s \in SkipStates(amount, p)
      <4>1. q.off = q.size /\ quick <= amount
        BY <1>2, <1>5, <2>1
      <4> QED BY Zenon, <1>6, <2>1, <3>3, <4>1 DEF SkipStates
    <3>5. c \in SkipStates(amount, p) /\ (c.res = amount \/ c.e = StreamLen)
      <4>1. p \in Nat
        BY <1>1
      <4> QED BY <3>2, <3>4, <4>1, SkipRoundsEnd
    <3>6. Buffered(c.o, c.e) /\ c.o.off = c.o.size /\ c.bytes = <<>>
      BY <3>5 DEF SkipStates
    <3>7. PICK k \in 0..amount : k = c.res /\ c.e = p + k
      BY <3>5 DEF SkipStates
    <3>8. c.o.pos \in Nat /\ c.o.size \in Nat /\ c.e = c.o.pos + c.o.size /\ c.e <= StreamLen
      BY <3>6 DEF Buffered, BufObject
    <3>9. InBuf!position(c.o) = p + k /\ p + k <= StreamLen
      BY <3>6, <3>7, <3>8 DEF InBuf!position
    <3>10. p + k = InBuf!Lesser(p + amount, StreamLen)
      <4>1. k = amount \/ p + k = StreamLen
        BY Zenon, <3>5, <3>7
      <4> QED BY <1>1, <3>9, <4>1 DEF InBuf!Lesser
    <3>11. (p + k) - p = k + 0 /\ k \in Nat
      BY <1>1
    <3>12. InBuf!Untold(o, amount) = 0
      BY Zenon, <2>3 DEF InBuf!Untold
    <3> QED BY Zenon, <3>6, <3>7, <3>9, <3>10, <3>11, <3>12
  <2> QED BY Zenon, <2>2, <2>3
<1> QED BY Zenon, <1>8, <1>9

\* seek() that succeeds leaves the reader where it says it does.
LEMMA SeekMoves ==
    ASSUME InBuf!Sane, NEW o, NEW e, Buffered(o, e), NEW target \in 0..StreamLen,
           NEW short \in Nat, short > 0 \/ StreamLen = 0, NEW c, c = InBuf!seek(o, e, target, short)
    PROVE  /\ c.o \in BufObject /\ c.e \in 0..StreamLen /\ c.bytes = <<>>
           /\ c.res >= 0 \/ c.res < 0
           /\ c.res >= 0 => /\ Buffered(c.o, c.e) /\ InBuf!position(c.o) = c.res
                            /\ c.res = InBuf!Landing(o, target)
<1>1. /\ o.head \in Nat /\ o.off \in Nat /\ o.size \in Nat /\ o.pos \in Nat /\ e \in 0..StreamLen
      /\ o.off <= o.size /\ o.size <= Cap /\ e = o.pos + o.size
      /\ StreamLen \in Nat /\ Cap \in Nat \ {0} /\ target \in Nat
  BY BufConstants DEF Buffered, BufObject
<1>t. o \in BufObject
  BY DEF Buffered
<1>h. Holds(o.cells, o.head, o.size, o.pos)
  BY DEF Buffered
<1>z. PICK z \in Nat : z = 0
  OBVIOUS
<1>2. PICK start \in 0..target : start = (IF target > Cap THEN target - Cap ELSE 0)
  BY <1>1
<1>3. PICK n \in Nat : n = InBuf!WrappedRead(start, Cap, short) /\ n <= Cap /\ start + n <= StreamLen
  <2>1. start \in 0..StreamLen /\ Cap \in Nat
    BY <1>1
  <2> QED BY <2>1, WrappedReadIs
<1>4. PICK k : k = [i \in 0..Cap - 1 |-> IF i < n THEN start + i ELSE o.cells[i]]
  OBVIOUS
<1>5. k \in [0..Cap - 1 -> Int]
  <2>1. ASSUME NEW i \in 0..Cap - 1 PROVE (IF i < n THEN start + i ELSE o.cells[i]) \in Int
    <3>1. o.cells[i] \in Int
      BY <1>t DEF BufObject
    <3> QED BY <3>1
  <2> QED BY <1>4, <2>1
<1>6. CASE target \in o.pos..o.pos + o.size
  <2>1. PICK x \in Nat : x = target - o.pos
    BY <1>1, <1>6
  <2>2. c.o = [o EXCEPT !.off = x] /\ c.e = e /\ c.res = target /\ c.bytes = <<>>
    BY <1>6, <2>1 DEF InBuf!seek, InBuf!Done
  <2>3. c.o \in BufObject /\ c.o.off = x /\ c.o.size = o.size /\ c.o.pos = o.pos /\ c.o.head = o.head /\ c.o.cells = o.cells
    BY <1>t, <2>2 DEF BufObject
  <2>4. Buffered(c.o, c.e)
    BY SMTT(30), <1>1, <1>6, <1>h, <2>1, <2>2, <2>3 DEF Buffered
  <2>5. InBuf!position(c.o) = target /\ target >= 0
    BY <1>1, <2>1, <2>3 DEF InBuf!position
  <2>6. InBuf!Landing(o, target) = target
    <3>1. ~(target > o.pos + o.size) /\ InBuf!Lesser(target, StreamLen) = target
      BY <1>1, <1>6 DEF InBuf!Lesser
    <3> QED BY Zenon, <3>1 DEF InBuf!Landing
  <2> QED BY Zenon, <1>1, <2>2, <2>3, <2>4, <2>5, <2>6
<1>7. CASE target \notin o.pos..o.pos + o.size /\ ~InBuf!FullBuffering(o)
  <2>1. InBuf!Lesser(target, StreamLen) = target
    BY <1>1 DEF InBuf!Lesser
  <2>2. c = InBuf!Done([InBuf!clear_buffer(o) EXCEPT !.pos = target], target, target, <<>>)
    BY <1>7, <2>1 DEF InBuf!seek
  <2>3. PICK r : r = [o EXCEPT !.head = z, !.off = z, !.size = z]
    OBVIOUS
  <2>4. r \in BufObject /\ r.head = z /\ r.off = z /\ r.size = z
    BY <1>t, <2>3 DEF BufObject
  <2>5. c.o = [r EXCEPT !.pos = target] /\ c.e = target /\ c.res = target /\ c.bytes = <<>>
    BY <1>z, <2>2, <2>3 DEF InBuf!Done, InBuf!clear_buffer
  <2>6. c.o \in BufObject /\ c.o.head = z /\ c.o.off = z /\ c.o.size = z /\ c.o.pos = target
    BY <1>1, <2>4, <2>5 DEF BufObject
  <2>7. Holds(c.o.cells, c.o.head, c.o.size, c.o.pos)
    BY <1>z, <2>6 DEF Holds
  <2>8. Buffered(c.o, c.e)
    BY <1>1, <1>z, <2>5, <2>6, <2>7 DEF Buffered
  <2>9. InBuf!position(c.o) = target /\ target >= 0
    BY <1>1, <1>z, <2>6 DEF InBuf!position
  <2>10. InBuf!Landing(o, target) = target
    BY Zenon, <1>7, <2>1 DEF InBuf!Landing
  <2> QED BY Zenon, <2>5, <2>6, <2>8, <2>9, <2>10
<1>8. CASE target \notin o.pos..o.pos + o.size /\ InBuf!FullBuffering(o) /\ target >= o.pos
  <2>1. PICK amount \in Nat : amount = target - o.size + o.off /\ amount > 0 /\ target > o.pos + o.size
    BY <1>1, <1>8
  <2>2. PICK m : m = InBuf!skip(o, e, amount, short)
    OBVIOUS
  <2>3. c.o = m.o /\ c.e = m.e /\ c.res = InBuf!position(m.o) /\ c.bytes = <<>>
    BY <1>8, <2>1, <2>2 DEF InBuf!seek, InBuf!Done
  <2>p. PICK p : p = InBuf!position(o)
    OBVIOUS
  <2>4. Buffered(m.o, m.e) /\ InBuf!position(m.o) = InBuf!Lesser(p + amount, StreamLen)
    <3>1. Moves(o, p, amount, m)
      BY Zenon, <2>1, <2>2, <2>p, SkipMoves
    <3> QED BY Zenon, <3>1 DEF Moves
  <2>5. m.o \in BufObject /\ m.e \in 0..StreamLen /\ InBuf!position(m.o) >= 0
    <3>1. m.o \in BufObject /\ m.e = m.o.pos + m.o.size /\ m.e <= StreamLen
      BY <2>4 DEF Buffered
    <3>2. m.o.pos \in Nat /\ m.o.size \in Nat /\ m.o.off \in Nat
      BY <3>1 DEF BufObject
    <3> QED BY <1>1, <3>1, <3>2 DEF InBuf!position
  <2>6. InBuf!Landing(o, target) = InBuf!Lesser(p + amount, StreamLen)
    BY Zenon, <1>8, <2>1, <2>p DEF InBuf!Landing
  <2> QED BY Zenon, <1>8, <2>3, <2>4, <2>5, <2>6
<1>9. CASE target \notin o.pos..o.pos + o.size /\ InBuf!FullBuffering(o) /\ ~(target >= o.pos) /\ n = 0
  <2>1. c.o = o /\ c.e = start /\ c.res = -2 /\ c.bytes = <<>>
    BY <1>2, <1>3, <1>9 DEF InBuf!seek, InBuf!Done, InBuf!EOF
  <2>2. start \in 0..StreamLen /\ ~(c.res >= 0) /\ c.res < 0
    BY <1>1, <2>1
  <2> QED BY Zenon, <1>t, <2>1, <2>2
<1>10. CASE /\ target \notin o.pos..o.pos + o.size /\ InBuf!FullBuffering(o) /\ ~(target >= o.pos) /\ n # 0
            /\ start + n < target
  <2>1. c.o = [o EXCEPT !.cells = k] /\ c.e = start + n /\ c.res = -3 /\ c.bytes = <<>>
    BY <1>2, <1>3, <1>4, <1>10 DEF InBuf!seek, InBuf!Done, InBuf!Bad
  <2>2. c.o \in BufObject
    BY <1>t, <1>5, <2>1 DEF BufObject
  <2>3. start + n \in 0..StreamLen /\ ~(c.res >= 0) /\ c.res < 0
    BY <1>1, <1>3, <2>1
  <2> QED BY Zenon, <2>1, <2>2, <2>3
<1>11. CASE /\ target \notin o.pos..o.pos + o.size /\ InBuf!FullBuffering(o) /\ ~(target >= o.pos) /\ n # 0
            /\ ~(start + n < target)
  <2>1. PICK x \in Nat : x = target - start
    BY <1>1
  <2>2. PICK y \in Nat : y = start
    BY <1>1
  <2>3. /\ c.o = [o EXCEPT !.cells = k, !.head = z, !.off = x, !.size = n, !.pos = y]
        /\ c.e = start + n /\ c.res = target /\ c.bytes = <<>>
    BY <1>z, <1>2, <1>3, <1>4, <1>11, <2>1, <2>2 DEF InBuf!seek, InBuf!Done
  <2>4. c.o \in BufObject /\ c.o.cells = k /\ c.o.head = z /\ c.o.off = x /\ c.o.size = n /\ c.o.pos = y
    BY <1>t, <1>5, <2>3 DEF BufObject
  <2>5. Holds(k, z, n, y)
    <3> SUFFICES ASSUME NEW i \in 0..n - 1 PROVE k[(z + i) % Cap] = y + i
      BY DEF Holds
    <3>1. z + i = i /\ i \in Int /\ i \in 0..Cap - 1 /\ i < n
      BY <1>1, <1>3, <1>z
    <3>2. i % Cap = i
      BY <1>1, <3>1, RemainderOfNear
    <3> QED BY <1>4, <2>2, <3>1, <3>2
  <2>6. Buffered(c.o, c.e)
    BY SMTT(30), <1>1, <1>3, <1>11, <2>1, <2>2, <2>3, <2>4, <2>5 DEF Buffered
  <2>7. InBuf!position(c.o) = target /\ start + n \in 0..StreamLen /\ target >= 0
    BY <1>1, <1>3, <2>1, <2>2, <2>4 DEF InBuf!position
  <2>8. InBuf!Landing(o, target) = target
    <3>1. ~(target > o.pos + o.size) /\ InBuf!Lesser(target, StreamLen) = target
      BY <1>1, <1>11 DEF InBuf!Lesser
    <3> QED BY Zenon, <3>1 DEF InBuf!Landing
  <2> QED BY Zenon, <2>3, <2>4, <2>6, <2>7, <2>8
<1> QED BY Zenon, <1>6, <1>7, <1>8, <1>9, <1>10, <1>11

-----------------------------------------------------------------------------
\* The inductive invariant: while the calls are regular the window is what it
\* claims to be, the reader stands where a plain stream would stand, and what the
\* last call delivered is the stream from where the reader stood.
BufTypes ==
    /\ obj \in BufObject
    /\ env \in 0..StreamLen
    /\ ret.bytes \in Seq(Int)
    /\ abs \in [was : Int, at : Int, regular : BOOLEAN]

BufInv ==
    /\ BufTypes
    /\ abs.regular => /\ Buffered(obj, env)
                      /\ InBuf!position(obj) = abs.at
                      /\ Consecutive(ret.bytes, abs.was)

\* A buffer nothing is stored in, of a stream that stands at "at".
LEMMA EmptyBuffer ==
    ASSUME InBuf!Sane, NEW at \in 0..StreamLen, NEW o, o \in BufObject,
           o.head = 0, o.off = 0, o.size = 0, o.pos = at
    PROVE  Buffered(o, at) /\ InBuf!position(o) = at
<1>1. Holds(o.cells, o.head, o.size, o.pos)
  BY DEF Holds
<1>2. StreamLen \in Nat /\ Cap \in Nat /\ at \in Nat
  BY BufConstants
<1>3. 0 <= 0 /\ 0 <= Cap /\ at = at + 0 /\ at <= StreamLen
  BY <1>2
<1> QED BY Zenon, <1>1, <1>3 DEF Buffered, InBuf!position

LEMMA BufInitially == ASSUME InBuf!Sane, InBuf!Init PROVE BufInv
<1>1. obj = [head |-> 0, size |-> 0, off |-> 0, pos |-> 0, buffering |-> TRUE, seekbuf |-> FALSE,
             cells |-> [i \in 0..Cap - 1 |-> -1]]
  BY DEF InBuf!Init, InBuf!Stale
<1>2. [i \in 0..Cap - 1 |-> -1] \in [0..Cap - 1 -> Int]
  OBVIOUS
<1>3. obj \in BufObject /\ obj.head = 0 /\ obj.off = 0 /\ obj.size = 0 /\ obj.pos = 0
  BY <1>1, <1>2 DEF BufObject
<1>4. 0 \in 0..StreamLen
  BY BufConstants
<1>5. Buffered(obj, 0) /\ InBuf!position(obj) = 0
  BY Zenon, <1>3, <1>4, EmptyBuffer
<1>6. ret.bytes = <<>> /\ env = 0 /\ abs = [was |-> 0, at |-> 0, regular |-> TRUE]
  BY DEF InBuf!Init
<1>7. Consecutive(<<>>, 0) /\ <<>> \in Seq(Int)
  BY NoByte
<1>8. abs \in [was : Int, at : Int, regular : BOOLEAN] /\ abs.was = 0 /\ abs.at = 0
  BY <1>6
<1> QED BY Zenon, <1>3, <1>4, <1>5, <1>6, <1>7, <1>8 DEF BufInv, BufTypes

\* A call preserves the invariant when its outcome is typed and, if it is a
\* regular one, tells the stream from where the reader stood.
LEMMA TakesKeeps ==
    ASSUME BufTypes, NEW op, NEW amount, NEW c, InBuf!Takes(op, amount, c),
           c.o \in BufObject, c.e \in 0..StreamLen, c.bytes \in Seq(Int),
           NEW at \in Int, at = InBuf!PlainOffset(abs.at, op, amount, c),
           abs.regular /\ ~InBuf!Irregular(obj, env, c) =>
               Buffered(c.o, c.e) /\ InBuf!position(c.o) = at /\ Consecutive(c.bytes, abs.at)
    PROVE  BufInv'
<1>1. obj' = c.o /\ env' = c.e /\ ret'.bytes = c.bytes
  BY DEF InBuf!Takes
<1>2. PICK b \in BOOLEAN : b = (abs.regular /\ ~InBuf!Irregular(obj, env, c))
  BY Zenon
<1>3. abs' = [was |-> abs.at, at |-> at, regular |-> b]
  BY Zenon, <1>2 DEF InBuf!Takes
<1>4. abs.at \in Int
  BY DEF BufTypes
<1>5. abs' \in [was : Int, at : Int, regular : BOOLEAN] /\ abs'.was = abs.at /\ abs'.at = at /\ abs'.regular = b
  BY <1>3, <1>4
<1>6. BufTypes'
  BY Zenon, <1>1, <1>5 DEF BufTypes
<1>7. abs'.regular => Buffered(obj', env') /\ InBuf!position(obj') = abs'.at /\ Consecutive(ret'.bytes, abs'.was)
  BY Zenon, <1>1, <1>2, <1>5
<1> QED BY Zenon, <1>6, <1>7 DEF BufInv

LEMMA ShortIs ==
    ASSUME InBuf!Sane, NEW s \in InBuf!Shorts
    PROVE  s \in Nat /\ (s > 0 \/ StreamLen = 0)
  BY BufConstants DEF InBuf!Shorts

\* What a transfer of the reader at abs.at delivers is where it moves to.
LEMMA TransferKeeps ==
    ASSUME BufTypes, NEW op \in {"read", "read_byte"}, NEW amount, NEW c, InBuf!Takes(op, amount, c),
           c.o \in BufObject, c.e \in 0..StreamLen, c.bytes \in Seq(Int),
           ~InBuf!Irregular(obj, env, c) => Transfers(abs.at, c)
    PROVE  BufInv'
<1>1. PICK at : at = abs.at + Len(c.bytes)
  OBVIOUS
<1>2. abs.at \in Int /\ Len(c.bytes) \in Nat
  BY DEF BufTypes
<1>3. at \in Int
  BY <1>1, <1>2
<1>4. at = InBuf!PlainOffset(abs.at, op, amount, c)
  BY <1>1 DEF InBuf!PlainOffset
<1>5. Transfers(abs.at, c) => Buffered(c.o, c.e) /\ InBuf!position(c.o) = at /\ Consecutive(c.bytes, abs.at)
  BY Zenon, <1>1 DEF Transfers, InBuf!position
<1> QED BY Zenon, <1>3, <1>4, <1>5, TakesKeeps

LEMMA ReadByteKeeps == ASSUME InBuf!Sane, BufInv, InBuf!ReadByte PROVE BufInv'
<1>1. PICK c : c = InBuf!read_byte(obj, env)
  OBVIOUS
<1>2. abs.regular /\ InBuf!Takes("read_byte", 1, c)
  BY Zenon, <1>1 DEF InBuf!ReadByte
<1>3. BufTypes /\ Buffered(obj, env) /\ abs.at = InBuf!position(obj)
  BY Zenon, <1>2 DEF BufInv
<1>4. /\ c.o \in BufObject /\ c.e \in 0..StreamLen /\ c.bytes \in Seq(Int)
      /\ (obj.buffering \/ c.o.off = 0 \/ c.e = env) /\ c.o.size <= Cap => Transfers(abs.at, c)
  BY Zenon, <1>1, <1>3, ReadByteTransfers
<1>5. ~InBuf!Irregular(obj, env, c) => Transfers(abs.at, c)
  <2>1. ret'.op = "read_byte"
    BY <1>2 DEF InBuf!Takes
  <2>2. c.o.off > 0 \/ c.o.off = 0
    BY <1>4 DEF BufObject
  <2>3. c.o.size > Cap \/ c.o.size <= Cap
    BY <1>4, BufConstants DEF BufObject
  <2>4. ~InBuf!Irregular(obj, env, c) => (obj.buffering \/ c.o.off = 0 \/ c.e = env) /\ c.o.size <= Cap
    BY <2>1, <2>2, <2>3 DEF InBuf!Irregular
  <2> QED BY Zenon, <1>4, <2>4
<1> QED BY <1>2, <1>3, <1>4, <1>5, TransferKeeps

LEMMA ReadKeeps == ASSUME InBuf!Sane, BufInv, InBuf!Read PROVE BufInv'
<1>1. PICK n \in 1..MaxCount, s \in InBuf!Shorts : abs.regular /\ InBuf!Takes("read", n, InBuf!read(obj, env, n, s))
  BY Zenon DEF InBuf!Read
<1>2. PICK c : c = InBuf!read(obj, env, n, s)
  OBVIOUS
<1>3. BufTypes /\ Buffered(obj, env) /\ abs.at = InBuf!position(obj)
  BY Zenon, <1>1 DEF BufInv
<1>4. n \in Nat /\ s \in Nat
  BY ShortIs
<1>5. /\ c.o \in BufObject /\ c.e \in 0..StreamLen /\ c.bytes \in Seq(Int)
      /\ (obj.buffering \/ c.o.off = 0 \/ c.e = env) => Transfers(abs.at, c)
  BY Zenon, <1>2, <1>3, <1>4, ReadTransfers
<1>6. InBuf!Takes("read", n, c)
  BY Zenon, <1>1, <1>2
<1>7. ~InBuf!Irregular(obj, env, c) => Transfers(abs.at, c)
  <2>1. ret'.op = "read"
    BY <1>6 DEF InBuf!Takes
  <2>2. c.o.off > 0 \/ c.o.off = 0
    BY <1>5 DEF BufObject
  <2>3. ~InBuf!Irregular(obj, env, c) => obj.buffering \/ c.o.off = 0 \/ c.e = env
    BY <2>1, <2>2 DEF InBuf!Irregular
  <2> QED BY Zenon, <1>5, <2>3
<1> QED BY <1>3, <1>5, <1>6, <1>7, TransferKeeps

LEMMA SkipKeeps == ASSUME InBuf!Sane, BufInv, InBuf!Skip PROVE BufInv' /\ InBuf!ReportsMovementStep
<1>1. PICK n \in 1..MaxCount, s \in InBuf!Shorts : abs.regular /\ InBuf!Takes("skip", n, InBuf!skip(obj, env, n, s))
  BY Zenon DEF InBuf!Skip
<1>2. PICK c : c = InBuf!skip(obj, env, n, s)
  OBVIOUS
<1>3. BufTypes /\ Buffered(obj, env) /\ abs.at = InBuf!position(obj)
  BY Zenon, <1>1 DEF BufInv
<1>4. n \in Nat /\ n > 0 /\ s \in Nat /\ (s > 0 \/ StreamLen = 0)
  BY ShortIs
<1>5. /\ Buffered(c.o, c.e) /\ c.bytes = <<>> /\ c.res \in Nat
      /\ InBuf!position(c.o) = InBuf!Lesser(abs.at + n, StreamLen)
      /\ InBuf!position(c.o) - abs.at = c.res + InBuf!Untold(obj, n)
  <2>1. Moves(obj, abs.at, n, c)
    BY Zenon, <1>2, <1>3, <1>4, SkipMoves
  <2> QED BY Zenon, <2>1 DEF Moves
<1>6. InBuf!Takes("skip", n, c)
  BY Zenon, <1>1, <1>2
<1>7. PICK at : at = InBuf!Lesser(abs.at + n, StreamLen)
  OBVIOUS
<1>8. at = InBuf!PlainOffset(abs.at, "skip", n, c)
  BY <1>7 DEF InBuf!PlainOffset
<1>9. abs.at \in Int /\ StreamLen \in Nat
  BY <1>3, BufConstants DEF BufTypes
<1>10. at \in Int
  BY <1>4, <1>7, <1>9 DEF InBuf!Lesser
<1>11. c.o \in BufObject /\ c.e \in 0..StreamLen
  <2>1. c.o \in BufObject /\ c.e = c.o.pos + c.o.size /\ c.e <= StreamLen
    BY <1>5 DEF Buffered
  <2>2. c.o.pos \in Nat /\ c.o.size \in Nat
    BY <2>1 DEF BufObject
  <2> QED BY <1>9, <2>1, <2>2
<1>12. c.bytes \in Seq(Int) /\ Consecutive(c.bytes, abs.at)
  BY <1>5, <1>9, NoByte DEF Consecutive
<1>13. BufInv'
  BY Zenon, <1>3, <1>5, <1>6, <1>7, <1>8, <1>10, <1>11, <1>12, TakesKeeps
<1>14. InBuf!ReportsMovementStep
  <2>1. ret'.op = "skip" /\ ret'.op # "seek" /\ ret'.res = c.res /\ ret'.asked = n /\ obj' = c.o
    BY <1>6 DEF InBuf!Takes
  <2> QED BY Zenon, <1>3, <1>5, <2>1 DEF InBuf!ReportsMovementStep
<1> QED BY <1>13, <1>14

LEMMA SeekKeeps == ASSUME InBuf!Sane, BufInv, InBuf!Seek PROVE BufInv' /\ InBuf!ReportsMovementStep
<1>1. PICK n \in 0..StreamLen, s \in InBuf!Shorts : abs.regular /\ InBuf!Takes("seek", n, InBuf!seek(obj, env, n, s))
  BY Zenon DEF InBuf!Seek
<1>2. PICK c : c = InBuf!seek(obj, env, n, s)
  OBVIOUS
<1>3. BufTypes /\ Buffered(obj, env) /\ abs.at = InBuf!position(obj)
  BY Zenon, <1>1 DEF BufInv
<1>4. s \in Nat /\ (s > 0 \/ StreamLen = 0)
  BY ShortIs
<1>5. /\ c.o \in BufObject /\ c.e \in 0..StreamLen /\ c.bytes = <<>>
      /\ c.res >= 0 \/ c.res < 0
      /\ c.res >= 0 => /\ Buffered(c.o, c.e) /\ InBuf!position(c.o) = c.res
                       /\ c.res = InBuf!Landing(obj, n)
  BY <1>2, <1>3, <1>4, SeekMoves
<1>6. InBuf!Takes("seek", n, c)
  BY Zenon, <1>1, <1>2
<1>7. abs.at \in Int /\ StreamLen \in Nat
  BY <1>3, BufConstants DEF BufTypes
<1>8. c.bytes \in Seq(Int) /\ Consecutive(c.bytes, abs.at)
  BY <1>5, <1>7, NoByte DEF Consecutive
<1>9. ret'.op = "seek" /\ ret'.op # "skip" /\ ret'.res = c.res /\ ret'.asked = n /\ obj' = c.o
  BY <1>6 DEF InBuf!Takes
<1>10. CASE c.res >= 0
  <2>1. PICK at : at = c.res
    OBVIOUS
  <2>2. at = InBuf!PlainOffset(abs.at, "seek", n, c)
    BY <1>10, <2>1 DEF InBuf!PlainOffset
  <2>3. at \in Int
    <3>1. c.o.pos \in Nat /\ c.o.off \in Nat
      BY <1>5 DEF BufObject
    <3> QED BY <1>5, <1>10, <2>1, <3>1 DEF InBuf!position
  <2>4. BufInv'
    BY Zenon, <1>3, <1>5, <1>6, <1>8, <1>10, <2>1, <2>2, <2>3, TakesKeeps
  <2>5. InBuf!ReportsMovementStep
    BY Zenon, <1>5, <1>9, <1>10 DEF InBuf!ReportsMovementStep
  <2> QED BY <2>4, <2>5
<1>11. CASE ~(c.res >= 0)
  <2>1. PICK at : at = abs.at + Len(c.bytes)
    OBVIOUS
  <2>2. at = InBuf!PlainOffset(abs.at, "seek", n, c)
    BY <1>11, <2>1 DEF InBuf!PlainOffset
  <2>3. at \in Int
    <3>1. Len(c.bytes) \in Nat
      BY <1>8
    <3> QED BY <1>7, <2>1, <3>1
  <2>4. InBuf!Irregular(obj, env, c)
    <3>1. c.res < 0
      BY Zenon, <1>5, <1>11
    <3> QED BY <1>9, <3>1 DEF InBuf!Irregular
  <2>5. BufInv'
    BY Zenon, <1>3, <1>5, <1>6, <1>8, <2>2, <2>3, <2>4, TakesKeeps
  <2>6. InBuf!ReportsMovementStep
    BY <1>9, <1>11 DEF InBuf!ReportsMovementStep
  <2> QED BY <2>5, <2>6
<1> QED BY <1>10, <1>11

LEMMA SetBufferingKeeps == ASSUME InBuf!Sane, BufInv, InBuf!set_buffering PROVE BufInv'
<1>1. PICK b \in BOOLEAN, s \in BOOLEAN : obj' = [obj EXCEPT !.buffering = b, !.seekbuf = s]
  BY Zenon DEF InBuf!set_buffering
<1>2. abs.regular /\ ret' = [op |-> "set", asked |-> 0, res |-> 0, bytes |-> <<>>]
      /\ abs' = [abs EXCEPT !.was = abs.at] /\ env' = env
  BY Zenon DEF InBuf!set_buffering
<1>3. BufTypes /\ Buffered(obj, env) /\ InBuf!position(obj) = abs.at
  BY Zenon, <1>2 DEF BufInv
<1>4. obj \in BufObject /\ env \in 0..StreamLen /\ abs \in [was : Int, at : Int, regular : BOOLEAN]
  BY Zenon, <1>3 DEF BufTypes
<1>5. /\ obj' \in BufObject /\ obj'.off = obj.off /\ obj'.size = obj.size /\ obj'.pos = obj.pos
      /\ obj'.head = obj.head /\ obj'.cells = obj.cells
  BY <1>1, <1>4 DEF BufObject
<1>6. Buffered(obj', env') /\ InBuf!position(obj') = InBuf!position(obj)
  BY Zenon, <1>2, <1>3, <1>5 DEF Buffered, InBuf!position
<1>7. abs' \in [was : Int, at : Int, regular : BOOLEAN] /\ abs'.was = abs.at /\ abs'.at = abs.at
  BY <1>2, <1>4
<1>8. ret'.bytes = <<>> /\ <<>> \in Seq(Int) /\ Consecutive(<<>>, abs.at)
  BY <1>2, <1>4, NoByte
<1> QED BY Zenon, <1>2, <1>3, <1>4, <1>5, <1>6, <1>7, <1>8 DEF BufInv, BufTypes

LEMMA RewrapKeeps == ASSUME InBuf!Sane, BufInv, InBuf!Rewrap PROVE BufInv'
<1>1. PICK at \in 0..StreamLen :
          /\ obj' = InBuf!Wrapped(obj, at) /\ env' = at
          /\ ret' = [op |-> "wrap", asked |-> 0, res |-> 0, bytes |-> <<>>]
          /\ abs' = [was |-> at, at |-> at, regular |-> TRUE]
  BY Zenon DEF InBuf!Rewrap
<1>2. PICK k : k = [c \in 0..Cap - 1 |-> -1]
  OBVIOUS
<1>3. k \in [0..Cap - 1 -> Int]
  BY <1>2
<1>4. PICK z \in Nat : z = 0
  OBVIOUS
<1>5. PICK o : o = [obj EXCEPT !.head = z, !.off = z, !.size = z]
  OBVIOUS
<1>6. obj \in BufObject
  BY Zenon DEF BufInv, BufTypes
<1>7. o \in BufObject /\ o.head = z /\ o.off = z /\ o.size = z
  BY <1>5, <1>6 DEF BufObject
<1>8. PICK y \in Nat : y = at
  BY BufConstants
<1>9. obj' = [o EXCEPT !.pos = y, !.cells = k]
  <2>1. InBuf!clear_buffer(obj) = o
    BY Zenon, <1>4, <1>5 DEF InBuf!clear_buffer
  <2> QED BY Zenon, <1>1, <1>2, <1>8, <2>1 DEF InBuf!Wrapped, InBuf!Stale
<1>10. obj' \in BufObject /\ obj'.head = z /\ obj'.off = z /\ obj'.size = z /\ obj'.pos = y
  BY <1>3, <1>7, <1>9 DEF BufObject
<1>11. Buffered(obj', env') /\ InBuf!position(obj') = at
  <2>1. Buffered(obj', at) /\ InBuf!position(obj') = at
    BY Zenon, <1>4, <1>8, <1>10, EmptyBuffer
  <2> QED BY Zenon, <1>1, <2>1
<1>12. abs' \in [was : Int, at : Int, regular : BOOLEAN] /\ abs'.was = at /\ abs'.at = at
  BY <1>1, BufConstants
<1>13. ret'.bytes = <<>> /\ <<>> \in Seq(Int) /\ Consecutive(<<>>, at)
  BY <1>1, NoByte
<1> QED BY Zenon, <1>1, <1>10, <1>11, <1>12, <1>13 DEF BufInv, BufTypes

LEMMA BufStutter == ASSUME BufInv, UNCHANGED InBuf!vars PROVE BufInv'
<1>1. obj' = obj /\ env' = env /\ ret' = ret /\ abs' = abs
  BY DEF InBuf!vars
<1> QED BY Zenon, <1>1 DEF BufInv, BufTypes

LEMMA BufPreserved == ASSUME InBuf!Sane, BufInv, [InBuf!Next]_InBuf!vars PROVE BufInv'
  BY Zenon, ReadByteKeeps, ReadKeeps, SkipKeeps, SeekKeeps, SetBufferingKeeps, RewrapKeeps, BufStutter DEF InBuf!Next

LEMMA BufInvariant == ASSUME InBuf!Sane PROVE InBuf!Spec => []BufInv
<1>1. InBuf!Init => BufInv
  BY BufInitially
<1>2. BufInv /\ [InBuf!Next]_InBuf!vars => BufInv'
  BY BufPreserved
<1> QED BY <1>1, <1>2, PTL DEF InBuf!Spec

\* The fields of the object stay unsigned numbers, and the ring has a cell for
\* every index below its capacity.
THEOREM BufTypeCorrect == ASSUME InBuf!Sane PROVE InBuf!Spec => []BufTypes
<1>1. BufInv => BufTypes
  BY DEF BufInv
<1> QED BY <1>1, BufInvariant, PTL

LEMMA WindowNow == ASSUME BufInv PROVE InBuf!WindowIsStream
  BY Zenon DEF BufInv, Buffered, Holds, InBuf!WindowIsStream

\* After any sequence of calls that has run into none of the irregular cases, the
\* window of InBufStream is the part of the stream it claims to be, and the
\* wrapped stream stands right after it.
THEOREM WindowHolds == ASSUME InBuf!Sane PROVE InBuf!Spec => []InBuf!WindowIsStream
<1>1. BufInv => InBuf!WindowIsStream
  BY WindowNow
<1> QED BY <1>1, BufInvariant, PTL

LEMMA DeliveryNow == ASSUME BufInv PROVE InBuf!DeliversStream
  BY Zenon DEF BufInv, Consecutive, InBuf!DeliversStream

\* What a call of InBufStream delivers are the bytes of the wrapped stream from
\* where the reader stood, and position() is where a plain stream would stand.
THEOREM DeliveryHolds == ASSUME InBuf!Sane PROVE InBuf!Spec => []InBuf!DeliversStream
<1>1. BufInv => InBuf!DeliversStream
  BY DeliveryNow
<1> QED BY <1>1, BufInvariant, PTL

LEMMA MovementNow == ASSUME InBuf!Sane, BufInv, [InBuf!Next]_InBuf!vars PROVE [InBuf!ReportsMovementStep]_InBuf!vars
<1>1. ASSUME InBuf!ReadByte \/ InBuf!Read \/ InBuf!set_buffering \/ InBuf!Rewrap PROVE InBuf!ReportsMovementStep
  <2>1. \A op, n, c : InBuf!Takes(op, n, c) => ret'.op = op
    BY DEF InBuf!Takes
  <2>2. InBuf!ReadByte => ret'.op = "read_byte"
    BY Zenon, <2>1 DEF InBuf!ReadByte
  <2>3. InBuf!Read => ret'.op = "read"
    BY Zenon, <2>1 DEF InBuf!Read
  <2>4. InBuf!set_buffering => ret'.op = "set"
    BY DEF InBuf!set_buffering
  <2>5. InBuf!Rewrap => ret'.op = "wrap"
    BY DEF InBuf!Rewrap
  <2>6. ret'.op \in {"read_byte", "read", "set", "wrap"}
    BY <1>1, <2>2, <2>3, <2>4, <2>5
  <2> QED BY <2>6 DEF InBuf!ReportsMovementStep
<1> QED BY Zenon, <1>1, SkipKeeps, SeekKeeps DEF InBuf!Next

\* As long as no call has been irregular: skip() tells how far it has moved, without
\* the rest of the window when it falls through to the wrapped stream (line 545), and
\* seek() that succeeds tells where it has landed: on its target or on the end, and
\* forward beyond the window of a fully buffered stream as far on as line 392 counts.
THEOREM MovementHolds == ASSUME InBuf!Sane PROVE InBuf!Spec => InBuf!ReportsMovement
<1>1. BufInv /\ [InBuf!Next]_InBuf!vars => [InBuf!ReportsMovementStep]_InBuf!vars
  BY MovementNow
<1> QED BY <1>1, BufInvariant, PTL DEF InBuf!Spec, InBuf!ReportsMovement

-----------------------------------------------------------------------------
(* BitStreams                                                              *)

-----------------------------------------------------------------------------
(* Slices                                                                  *)

\* The sequence b is the part of q after its first x elements.
Slice(q, b, x) ==
    /\ b \in Seq(Int) /\ x \in Nat /\ x + Len(b) <= Len(q)
    /\ \A i \in 1..Len(b) : b[i] = q[x + i]

LEMMA SliceEmpty ==
    ASSUME NEW q \in Seq(Int), NEW x \in Nat, x <= Len(q)
    PROVE  Slice(q, <<>>, x) /\ Len(<<>>) = 0
  BY DEF Slice

LEMMA SliceEnds ==
    ASSUME NEW q \in Seq(Int), NEW b, NEW x, Slice(q, b, x), NEW l, l = Len(q)
    PROVE  \E e \in Nat : e = Len(b) /\ x + e <= l
<1>1. Len(b) \in Nat
  BY DEF Slice
<1>2. x + Len(b) <= Len(q)
  BY Zenon DEF Slice
<1>3. x + Len(b) <= l
  BY Zenon, <1>2
<1> QED BY Zenon, <1>1, <1>3

LEMMA SliceTail ==
    ASSUME NEW q \in Seq(Int), NEW b, NEW x, Slice(q, b, x), b # <<>>, NEW y, y = x + 1
    PROVE  Slice(q, Tail(b), y) /\ Len(Tail(b)) = Len(b) - 1 /\ Len(b) > 0 /\ Head(b) = q[y] /\ Head(b) \in Int
<1>1. b \in Seq(Int) /\ x \in Nat /\ x + Len(b) <= Len(q) /\ \A i \in 1..Len(b) : b[i] = q[x + i]
  BY DEF Slice
<1>2. PICK n \in Nat : n = Len(b) /\ n > 0
  BY <1>1, EmptySeq
<1>3. Head(b) = b[1] /\ Head(b) \in Int
  BY <1>1, <1>2
<1>4. PICK t : t = Tail(b)
  OBVIOUS
<1>5. t \in Seq(Int) /\ Len(t) = n - 1 /\ \A i \in 1..n - 1 : t[i] = b[i + 1]
  BY <1>1, <1>2, <1>4
<1>6. ASSUME NEW i \in 1..Len(t) PROVE t[i] = q[y + i]
  <2>1. i + 1 \in 1..n /\ i \in 1..n - 1 /\ x + (i + 1) = y + i
    BY <1>1, <1>2, <1>5
  <2> QED BY <1>1, <1>2, <1>5, <2>1
<1>7. y \in Nat /\ y + Len(t) <= Len(q)
  BY <1>1, <1>2, <1>5
<1>8. q[x + 1] = b[1]
  BY <1>1, <1>2
<1>9. Slice(q, t, y)
  BY Zenon, <1>5, <1>6, <1>7 DEF Slice
<1> QED BY <1>2, <1>3, <1>4, <1>5, <1>8, <1>9

LEMMA SliceAppend ==
    ASSUME NEW q \in Seq(Int), NEW b, NEW x, Slice(q, b, x), NEW y, y = x + Len(b) + 1, y <= Len(q),
           NEW v, v = q[y]
    PROVE  Slice(q, Append(b, v), x) /\ Len(Append(b, v)) = Len(b) + 1
<1>1. b \in Seq(Int) /\ x \in Nat /\ \A i \in 1..Len(b) : b[i] = q[x + i]
  BY DEF Slice
<1>2. PICK n \in Nat : n = Len(b)
  BY <1>1
<1>3. y \in 1..Len(q) /\ v \in Int /\ y = x + (n + 1)
  BY <1>1, <1>2
<1>4. PICK t : t = Append(b, v)
  OBVIOUS
<1>5. t \in Seq(Int) /\ Len(t) = n + 1 /\ t[n + 1] = v /\ \A i \in 1..n : t[i] = b[i]
  BY <1>1, <1>2, <1>3, <1>4
<1>6. ASSUME NEW i \in 1..Len(t) PROVE t[i] = q[x + i]
  <2>1. CASE i = n + 1
    <3>1. y = x + i
      BY <1>3, <2>1
    <3> QED BY <1>5, <2>1, <3>1
  <2>2. CASE i # n + 1
    <3>1. i \in 1..n
      BY <1>5, <2>2
    <3> QED BY <1>1, <1>2, <1>5, <3>1
  <2> QED BY <2>1, <2>2
<1>7. x + Len(t) <= Len(q)
  BY <1>1, <1>2, <1>5
<1>8. Slice(q, t, x)
  BY Zenon, <1>1, <1>5, <1>6, <1>7 DEF Slice
<1> QED BY <1>2, <1>4, <1>5, <1>8

LEMMA SliceConcat ==
    ASSUME NEW q \in Seq(Int), NEW a, NEW x, Slice(q, a, x), NEW b, NEW y, y = x + Len(a), Slice(q, b, y)
    PROVE  Slice(q, a \o b, x) /\ Len(a \o b) = Len(a) + Len(b)
<1>1. a \in Seq(Int) /\ x \in Nat /\ \A i \in 1..Len(a) : a[i] = q[x + i]
  BY DEF Slice
<1>2. b \in Seq(Int) /\ y \in Nat /\ y + Len(b) <= Len(q) /\ \A i \in 1..Len(b) : b[i] = q[y + i]
  BY DEF Slice
<1>3. PICK n \in Nat, m \in Nat : n = Len(a) /\ m = Len(b)
  BY <1>1, <1>2
<1>4. PICK t : t = a \o b
  OBVIOUS
<1>5. t \in Seq(Int) /\ Len(t) = n + m /\ \A i \in 1..(n + m) : t[i] = IF i <= n THEN a[i] ELSE b[i - n]
  BY <1>1, <1>2, <1>3, <1>4, ConcatProperties
<1>6. ASSUME NEW i \in 1..Len(t) PROVE t[i] = q[x + i]
  <2>1. CASE i <= n
    BY SMTT(30), <1>1, <1>3, <1>5, <2>1
  <2>2. CASE ~(i <= n)
    <3>1. PICK j \in 1..m : j = i - n
      BY <1>5, <2>2
    <3>2. y + j = x + i
      BY <1>1, <1>3, <3>1
    <3> QED BY <1>2, <1>3, <1>5, <2>2, <3>1, <3>2
  <2> QED BY <2>1, <2>2
<1>7. x + Len(t) <= Len(q)
  BY <1>1, <1>2, <1>3, <1>5
<1>8. Slice(q, t, x)
  BY Zenon, <1>1, <1>5, <1>6, <1>7 DEF Slice
<1> QED BY <1>3, <1>4, <1>5, <1>8

LEMMA SliceSub ==
    ASSUME NEW q \in Seq(Int), NEW b, NEW x, Slice(q, b, x), NEW k \in Nat, NEW m \in Nat, k <= m, m <= Len(b),
           NEW y, y = x + k
    PROVE  Slice(q, SubSeq(b, k + 1, m), y) /\ Len(SubSeq(b, k + 1, m)) = m - k
<1>1. b \in Seq(Int) /\ x \in Nat /\ x + Len(b) <= Len(q) /\ \A i \in 1..Len(b) : b[i] = q[x + i]
  BY DEF Slice
<1>2. PICK n \in Nat : n = Len(b)
  BY <1>1
<1>3. PICK t : t = SubSeq(b, k + 1, m)
  OBVIOUS
<1>4. PICK lo \in Nat : lo = k + 1
  OBVIOUS
<1>5. \A i \in 1..m - k : k + i \in 1..n /\ lo + i - 1 = k + i
  BY <1>2, <1>4
<1>6. t \in Seq(Int) /\ Len(t) = m - k /\ \A i \in 1..m - k : t[i] = b[k + i]
  <2>1. \A i \in lo..m : b[i] \in Int
    BY <1>1, <1>2, <1>4
  <2>2. /\ t \in Seq(Int) /\ Len(t) = IF lo <= m THEN m - lo + 1 ELSE 0
        /\ \A i \in 1..m - lo + 1 : t[i] = b[lo + i - 1]
    BY <1>3, <1>4, <2>1, SubSeqProperties
  <2>3. Len(t) = m - k /\ m - lo + 1 = m - k
    BY <1>4, <2>2
  <2> QED BY <1>5, <2>2, <2>3
<1>7. ASSUME NEW i \in 1..Len(t) PROVE t[i] = q[y + i]
  <2>1. i \in 1..m - k /\ k + i \in 1..n /\ x + (k + i) = y + i
    <3>1. i \in 1..m - k
      BY <1>6
    <3>2. k + i \in 1..n
      BY Zenon, <1>5, <3>1
    <3>3. x + (k + i) = y + i
      BY <1>1, <3>1
    <3> QED BY <3>1, <3>2, <3>3
  <2> QED BY <1>1, <1>2, <1>6, <2>1
<1>8. y \in Nat /\ y + Len(t) <= Len(q)
  BY <1>1, <1>2, <1>6
<1>9. Slice(q, t, y)
  BY Zenon, <1>6, <1>7, <1>8 DEF Slice
<1> QED BY <1>3, <1>6, <1>9

LEMMA SliceOf ==
    ASSUME NEW q \in Seq(Int), NEW x \in Nat, NEW m \in Nat, x <= m, m <= Len(q)
    PROVE  Slice(q, SubSeq(q, x + 1, m), x) /\ Len(SubSeq(q, x + 1, m)) = m - x
<1>1. PICK z \in Nat : z = 0
  OBVIOUS
<1>2. Slice(q, q, z)
  BY <1>1 DEF Slice
<1>3. x = z + x
  BY <1>1
<1> QED BY <1>2, <1>3, SliceSub

IsPart(b, q, lo, hi) == b = SubSeq(q, lo, hi)

LEMMA SliceIs ==
    ASSUME NEW q \in Seq(Int), NEW b, NEW x, Slice(q, b, x), NEW m, m = x + Len(b), NEW lo, lo = x + 1
    PROVE  IsPart(b, q, lo, m)
<1>1. b \in Seq(Int) /\ x \in Nat /\ m <= Len(q) /\ \A i \in 1..Len(b) : b[i] = q[x + i]
  BY DEF Slice
<1>2. PICK n \in Nat : n = Len(b)
  BY <1>1
<1>3. m \in Nat /\ x <= m /\ m - x = n
  BY <1>1, <1>2
<1>4. PICK t : t = SubSeq(q, x + 1, m)
  OBVIOUS
<1>5. Slice(q, t, x) /\ Len(t) = n
  BY <1>1, <1>3, <1>4, SliceOf
<1>6. t \in Seq(Int) /\ \A i \in 1..n : t[i] = q[x + i]
  BY <1>5 DEF Slice
<1>7. \A i \in 1..n : t[i] = b[i]
  BY <1>1, <1>2, <1>6
<1>8. t = b
  BY <1>1, <1>2, <1>5, <1>6, <1>7, SeqEqual
<1> QED BY <1>4, <1>8 DEF IsPart

-----------------------------------------------------------------------------
(* BitStreams                                                              *)

LEMMA BitConstants ==
    ASSUME Bits!Sane
    PROVE  ByteBits \in Nat /\ ByteBits > 0 /\ WordBytes \in Nat /\ WordBytes > 0 /\ MaxBits \in Nat /\ MaxStep \in Nat
  BY DEF Bits!Sane

LEMMA Product ==
    ASSUME NEW a \in Nat, NEW b \in Nat
    PROVE  a * b \in Nat /\ a * b = b * a /\ (a > 0 /\ b > 0 => a * b > 0)
  OBVIOUS

LEMMA ProductOrder ==
    ASSUME NEW a \in Nat, NEW b \in Nat, NEW c \in Nat, a <= b
    PROVE  a * c <= b * c
  OBVIOUS

LEMMA Quotient ==
    ASSUME NEW x \in Nat, NEW C \in Nat, C > 0
    PROVE  /\ x \div C \in Nat /\ x % C \in 0..C - 1
           /\ x = (x \div C) * C + (x % C)
<1>1. C \in Nat \ {0}
  OBVIOUS
<1>2. x = C * (x \div C) + (x % C) /\ x \div C \in Int /\ x % C \in 0..C - 1
  BY <1>1
<1>3. PICK q \in Int, r \in 0..C - 1 : q = x \div C /\ r = x % C /\ x = C * q + r
  BY <1>2
<1>4. q >= 0
  <2> SUFFICES ASSUME q <= -1 PROVE FALSE
    BY <1>3
  <2>1. C * q <= C * (-1)
    BY <1>3
  <2> QED BY <1>1, <1>3, <2>1
<1> QED BY <1>1, <1>3, <1>4

\* The states of a read that began at bit "base" of the sink: what it has got is
\* the sink from there, what the buffer holds follows, and then comes the point up
\* to which the sink has been taken.  A read that has failed has got everything.
ReadStates(base) ==
    {s \in [buf : Seq(Int), at : Nat, got : Seq(Int), bad : BOOLEAN] :
        /\ Slice(env.sink, s.got, base)
        /\ \E x \in Nat : x = base + Len(s.got) /\ Slice(env.sink, s.buf, x) /\ s.at = x + Len(s.buf)
        /\ s.bad => s.buf = <<>> /\ s.at = Len(env.sink)}

LEMMA ReadStateIs ==
    ASSUME NEW s \in [buf : Seq(Int), at : Nat, got : Seq(Int), bad : BOOLEAN], NEW base, NEW x \in Nat,
           Slice(env.sink, s.got, base), x = base + Len(s.got), Slice(env.sink, s.buf, x), s.at = x + Len(s.buf),
           s.bad => s.buf = <<>> /\ s.at = Len(env.sink)
    PROVE  s \in ReadStates(base)
  BY Zenon DEF ReadStates

LEMMA FillHolds ==
    ASSUME Bits!Sane, env.sink \in Seq(Int), NEW base, NEW s \in ReadStates(base), NEW short \in Nat, short > 0,
           NEW f, f = Bits!fill(s, short)
    PROVE  f \in ReadStates(base) /\ f.got = s.got /\ (s.bad => f.bad) /\ (f.bad \/ f.buf # <<>>)
<1>q. PICK q \in Seq(Int) : q = env.sink
  OBVIOUS
<1>l. PICK l \in Nat : l = Len(q)
  OBVIOUS
<1>t. s \in [buf : Seq(Int), at : Nat, got : Seq(Int), bad : BOOLEAN]
  BY DEF ReadStates
<1>1. PICK x \in Nat : x = base + Len(s.got) /\ Slice(q, s.buf, x) /\ s.at = x + Len(s.buf)
  BY Zenon, <1>q DEF ReadStates
<1>2. Slice(q, s.got, base) /\ (s.bad => s.buf = <<>> /\ s.at = l)
  BY Zenon, <1>q, <1>l DEF ReadStates
<1>3. PICK at \in 0..l : at = s.at
  <2>1. x + Len(s.buf) <= l /\ s.at \in Nat
    BY <1>t, <1>1, <1>l DEF Slice
  <2> QED BY <1>1, <2>1
<1>4. PICK room \in Nat : room = Bits!Lesser(WordBytes, short) * ByteBits /\ room > 0
  <2>1. Bits!Lesser(WordBytes, short) \in Nat /\ Bits!Lesser(WordBytes, short) > 0
    BY BitConstants DEF Bits!Lesser
  <2> QED BY <2>1, BitConstants, Product
<1>5. PICK n \in Nat : n = Bits!Lesser(room, l - at) /\ at + n <= l /\ (n = 0 => at = l)
  BY <1>3, <1>4 DEF Bits!Lesser
<1>n. n = Bits!Lesser(Bits!Lesser(WordBytes, short) * ByteBits, Len(env.sink) - s.at)
  BY Zenon, <1>q, <1>l, <1>3, <1>4, <1>5
<1>6. CASE s.buf # <<>>
  <2>1. f = s
    BY <1>6 DEF Bits!fill
  <2> QED BY <1>6, <2>1
<1>7. CASE s.buf = <<>> /\ n = 0
  <2>1. f = [s EXCEPT !.bad = TRUE]
    BY Zenon, <1>7, <1>n DEF Bits!fill
  <2>2. f \in [buf : Seq(Int), at : Nat, got : Seq(Int), bad : BOOLEAN] /\ f.buf = s.buf /\ f.at = s.at /\ f.got = s.got /\ f.bad
    BY <1>t, <2>1
  <2>3. f.at = l
    BY <1>3, <1>5, <1>7, <2>2
  <2>4. f \in ReadStates(base)
    BY Zenon, <1>q, <1>l, <1>1, <1>2, <1>7, <2>2, <2>3, ReadStateIs
  <2> QED BY Zenon, <2>2, <2>4
<1>8. CASE s.buf = <<>> /\ n # 0
  <2>1. PICK y \in Nat : y = at + n
    BY <1>3
  <2>2. PICK b : b = SubSeq(q, at + 1, y)
    OBVIOUS
  <2>3. f = [s EXCEPT !.buf = b, !.at = y]
    <3>1. f = [s EXCEPT !.buf = SubSeq(env.sink, s.at + 1, s.at + n), !.at = @ + n]
      BY <1>8, <1>n DEF Bits!fill
    <3> QED BY Zenon, <1>q, <1>3, <2>1, <2>2, <3>1
  <2>4. Slice(q, b, at) /\ Len(b) = n
    <3>1. at \in Nat /\ at <= y /\ y <= Len(q) /\ y - at = n
      BY <1>l, <1>3, <1>5, <2>1
    <3> QED BY <2>2, <3>1, SliceOf
  <2>5. b \in Seq(Int) /\ b # <<>>
    BY <1>8, <2>4 DEF Slice
  <2>6. f \in [buf : Seq(Int), at : Nat, got : Seq(Int), bad : BOOLEAN] /\ f.buf = b /\ f.at = y /\ f.got = s.got /\ f.bad = s.bad
    BY <1>t, <2>3, <2>5
  <2>7. ~s.bad
    BY <1>2, <1>3, <1>5, <1>8
  <2>8. at = x
    <3>1. Len(s.buf) = 0
      BY <1>8
    <3> QED BY <1>1, <1>3, <3>1
  <2>9. f.at = x + Len(f.buf) /\ Slice(q, f.buf, x)
    BY <2>1, <2>4, <2>6, <2>8
  <2>10. f \in ReadStates(base)
    BY Zenon, <1>q, <1>1, <1>2, <2>6, <2>7, <2>9, ReadStateIs
  <2> QED BY Zenon, <2>5, <2>6, <2>7, <2>10
<1> QED BY Zenon, <1>6, <1>7, <1>8

LEMMA GetBitHolds ==
    ASSUME Bits!Sane, env.sink \in Seq(Int), NEW base, NEW s \in ReadStates(base), NEW short \in Nat, short > 0,
           NEW t, t = Bits!GetBit(s, short)
    PROVE  /\ t \in ReadStates(base) /\ (s.bad => t.bad)
           /\ Len(t.got) = IF t.bad THEN Len(s.got) ELSE Len(s.got) + 1
<1>q. PICK q \in Seq(Int) : q = env.sink
  OBVIOUS
<1>1. PICK f : f = Bits!fill(s, short)
  OBVIOUS
<1>2. f \in ReadStates(base) /\ f.got = s.got /\ (s.bad => f.bad) /\ (f.bad \/ f.buf # <<>>)
  BY <1>1, FillHolds
<1>3. CASE f.bad
  <2>1. t = f
    BY <1>1, <1>3 DEF Bits!GetBit
  <2> QED BY Zenon, <1>2, <1>3, <2>1
<1>4. CASE ~f.bad
  <2>1. t = [f EXCEPT !.got = Append(@, Head(f.buf)), !.buf = Tail(@)]
    BY <1>1, <1>2, <1>4 DEF Bits!GetBit
  <2>t. f \in [buf : Seq(Int), at : Nat, got : Seq(Int), bad : BOOLEAN]
    BY <1>2 DEF ReadStates
  <2>2. PICK x \in Nat : x = base + Len(f.got) /\ Slice(q, f.buf, x) /\ f.at = x + Len(f.buf)
    BY Zenon, <1>2, <1>q DEF ReadStates
  <2>3. Slice(q, f.got, base)
    BY Zenon, <1>2, <1>q DEF ReadStates
  <2>4. PICK y \in Nat : y = x + 1
    OBVIOUS
  <2>5. PICK b : b = Tail(f.buf)
    OBVIOUS
  <2>6. PICK v : v = Head(f.buf)
    OBVIOUS
  <2>7. Slice(q, b, y) /\ Len(b) = Len(f.buf) - 1 /\ Len(f.buf) > 0 /\ v = q[y] /\ v \in Int
    <3>1. f.buf # <<>> /\ Slice(q, f.buf, x)
      BY Zenon, <1>2, <1>4, <2>2
    <3>2. PICK a : a = f.buf
      OBVIOUS
    <3>0. Slice(q, a, x) /\ a # <<>>
      BY Zenon, <3>1, <3>2
    <3>3. Slice(q, Tail(a), y) /\ Head(a) = q[y] /\ Head(a) \in Int
      BY <2>4, <3>0, SliceTail
    <3>4. a \in Seq(Int) /\ a # <<>>
      BY Zenon, <3>1, <3>2 DEF Slice
    <3>5. Len(Tail(a)) = Len(a) - 1 /\ Len(a) > 0
      BY <3>4, HeadTailProperties, EmptySeq
    <3> QED BY Zenon, <2>5, <2>6, <3>2, <3>3, <3>5
  <2>8. PICK g : g = Append(f.got, v)
    OBVIOUS
  <2>9. Slice(q, g, base) /\ Len(g) = Len(f.got) + 1
    <3>1. y = base + Len(f.got) + 1
      BY <2>2, <2>4
    <3>2. PICK e \in Nat : e = Len(b) /\ y + e <= Len(q)
      BY Zenon, <2>7, SliceEnds
    <3>3. y <= Len(q)
      BY <3>2
    <3> QED BY <2>3, <2>7, <2>8, <3>1, <3>3, SliceAppend
  <2>10. t = [f EXCEPT !.got = g, !.buf = b]
    BY Zenon, <2>1, <2>5, <2>6, <2>8
  <2>11. b \in Seq(Int) /\ g \in Seq(Int)
    BY Zenon, <2>7, <2>9 DEF Slice
  <2>12. t \in [buf : Seq(Int), at : Nat, got : Seq(Int), bad : BOOLEAN] /\ t.buf = b /\ t.got = g /\ t.at = f.at /\ t.bad = f.bad
    BY <2>t, <2>10, <2>11
  <2>13. y = base + Len(t.got)
    <3>1. PICK k \in Nat : k = Len(f.got)
      BY <2>3 DEF Slice
    <3>2. base \in Nat /\ x = base + k
      BY <2>2, <2>3, <3>1 DEF Slice
    <3>3. Len(t.got) = k + 1
      BY Zenon, <2>9, <2>12, <3>1
    <3> QED BY <2>4, <3>2, <3>3
  <2>14. t.at = y + Len(t.buf)
    <3>1. PICK k \in Nat : k = Len(f.buf)
      BY <2>2 DEF Slice
    <3>2. f.at = x + k /\ Len(b) = k - 1
      BY Zenon, <2>2, <2>7, <3>1
    <3>3. t.at = f.at /\ t.buf = b
      BY Zenon, <2>12
    <3> QED BY SMTT(30), <2>4, <3>2, <3>3
  <2>15. t \in ReadStates(base)
    BY Zenon, <1>q, <1>4, <2>7, <2>9, <2>12, <2>13, <2>14, ReadStateIs
  <2> QED BY Zenon, <1>2, <1>4, <2>9, <2>12, <2>15
<1> QED BY <1>3, <1>4

\* readv(): everything asked for, or everything there is.
LEMMA ReadvHolds ==
    ASSUME Bits!Sane, env.sink \in Seq(Int), NEW base, NEW start \in ReadStates(base), start.got = <<>>, ~start.bad,
           NEW n \in Nat, NEW short \in Nat, short > 0, NEW t, t = Bits!readv(start, n, short)
    PROVE  /\ t \in ReadStates(base) /\ Len(t.got) \in 0..n
           /\ Len(t.got) = n \/ t.bad
<1> DEFINE Step(f) == [i \in 0..n |-> IF i = 0 THEN start ELSE Bits!GetBit(f[i - 1], short)]
<1>1. \E f : f = Step(f)
  <2>1. PICK S : S = ReadStates(base)
    OBVIOUS
  <2>2. PICK F : F = [s \in S |-> Bits!GetBit(s, short)]
    OBVIOUS
  <2>3. \A s \in S : Bits!GetBit(s, short) \in S
    BY <2>1, GetBitHolds
  <2>4. F \in [S -> S]
    BY Zenon, <2>2, <2>3
  <2>5. PICK g \in [0..n -> S] : g[0] = start /\ \A i \in 1..n : g[i] = F[g[i - 1]]
    <3>1. start \in S
      BY <2>1
    <3>2. IteratesOf(S, F, start, n) # {}
      BY Zenon, <2>4, <3>1, Iterates
    <3> QED BY Zenon, <3>2 DEF IteratesOf
  <2>6. ASSUME NEW i \in 0..n, i # 0 PROVE g[i] = Bits!GetBit(g[i - 1], short)
    <3>1. i \in 1..n /\ i - 1 \in 0..n
      BY <2>6
    <3> QED BY Zenon, <2>2, <2>5, <3>1
  <2>7. g = [i \in 0..n |-> g[i]]
    OBVIOUS
  <2>8. g = Step(g)
    BY <2>5, <2>6, <2>7
  <2> QED BY Zenon, <2>8
<1>2. PICK run : run = Step(run) /\ t = run[n]
  <2>1. PICK run : run = CHOOSE f : f = Step(f)
    OBVIOUS
  <2>2. run = Step(run)
    BY Zenon, <1>1, <2>1
  <2>3. t = run[n]
    BY Zenon, <2>1 DEF Bits!readv
  <2> QED BY Zenon, <2>2, <2>3
<1>3. run[0] = start
  BY <1>2
<1>4. ASSUME NEW i \in 1..n PROVE run[i] = Bits!GetBit(run[i - 1], short)
  BY <1>2
<1> HIDE DEF Step
<1> DEFINE Good(i) == /\ run[i] \in ReadStates(base)
                      /\ Len(run[i].got) <= i /\ (run[i].bad \/ Len(run[i].got) = i)
           T == {i \in 0..n : ~Good(i)}
<1>5. ASSUME NEW s \in ReadStates(base) PROVE Len(s.got) \in Nat
  BY DEF ReadStates
<1>6. Good(0)
  <2>1. Len(start.got) = 0
    OBVIOUS
  <2> QED BY <1>3, <2>1
<1>7. ASSUME NEW i \in 1..n, Good(i - 1) PROVE Good(i)
  <2>1. PICK s \in ReadStates(base) : s = run[i - 1]
    BY <1>7
  <2>2. PICK u : u = run[i]
    OBVIOUS
  <2>3. u = Bits!GetBit(s, short)
    BY <1>4, <2>1, <2>2
  <2>4. u \in ReadStates(base) /\ (s.bad => u.bad) /\ Len(u.got) = IF u.bad THEN Len(s.got) ELSE Len(s.got) + 1
    BY <2>3, GetBitHolds
  <2>5. PICK a \in Nat : a = Len(s.got)
    BY <1>5
  <2>6. a <= i - 1 /\ (s.bad \/ a = i - 1)
    BY Zenon, <1>7, <2>1, <2>5
  <2>7. Len(u.got) <= i /\ (u.bad \/ Len(u.got) = i)
    BY <2>4, <2>5, <2>6
  <2> QED BY Zenon, <2>2, <2>4, <2>7
<1>8. Good(n)
  <2> SUFFICES ASSUME ~Good(n) PROVE FALSE
    OBVIOUS
  <2> HIDE DEF Good
  <2>1. n \in T /\ T \in SUBSET Nat
    OBVIOUS
  <2>2. PICK m \in T : \A k \in T : m <= k
    BY Zenon, <2>1, LeastNatural
  <2>3. m \in 0..n /\ ~Good(m)
    OBVIOUS
  <2>4. m # 0
    BY <1>6, <2>3
  <2>5. m \in 1..n /\ m - 1 \in 0..n /\ ~(m <= m - 1)
    BY <2>3, <2>4
  <2>6. Good(m - 1)
    BY <2>2, <2>5
  <2> QED BY <1>7, <2>3, <2>5, <2>6
<1> HIDE DEF T
<1>9. t \in ReadStates(base) /\ Len(t.got) <= n /\ (t.bad \/ Len(t.got) = n)
  BY Zenon, <1>2, <1>8
<1> QED BY <1>5, <1>9

\* A read that has ended, the bits of an incomplete byte put back or not.
InStep(s, base) ==
    /\ s \in [buf : Seq(Int), at : Nat, got : Seq(Int), bad : BOOLEAN]
    /\ Slice(env.sink, s.got, base)
    /\ \E x \in Nat : x = base + Len(s.got) /\ Slice(env.sink, s.buf, x) /\ s.at = x + Len(s.buf)

LEMMA ReadInStep == ASSUME NEW base, NEW s \in ReadStates(base) PROVE InStep(s, base)
  BY Zenon DEF ReadStates, InStep

LEMMA UnreadInStep ==
    ASSUME env.sink \in Seq(Int), NEW base, NEW s, InStep(s, base), NEW k \in 0..Len(s.got),
           NEW u, u = Bits!unread(s, k)
    PROVE  InStep(u, base)
<1>q. PICK q \in Seq(Int) : q = env.sink
  OBVIOUS
<1>t. s \in [buf : Seq(Int), at : Nat, got : Seq(Int), bad : BOOLEAN]
  BY Zenon DEF InStep
<1>1. PICK x \in Nat : x = base + Len(s.got) /\ Slice(q, s.buf, x) /\ s.at = x + Len(s.buf)
  BY Zenon, <1>q DEF InStep
<1>g. PICK g : g = s.got
  OBVIOUS
<1>b. PICK b : b = s.buf
  OBVIOUS
<1>2. Slice(q, g, base) /\ Slice(q, b, x)
  BY Zenon, <1>q, <1>g, <1>b, <1>1 DEF InStep
<1>n. PICK n \in Nat, m \in Nat : n = Len(g) /\ m = Len(b)
  BY <1>2 DEF Slice
<1>4. base \in Nat /\ x = base + n /\ k \in Nat /\ k <= n
  BY <1>1, <1>2, <1>n, <1>g DEF Slice
<1>3. PICK l \in Nat : l = n - k
  <2>1. n - k \in Nat
    BY <1>4
  <2> QED BY <2>1
<1>5. PICK a : a = SubSeq(g, l + 1, n)
  OBVIOUS
<1>6. PICK h : h = SubSeq(g, 1, l)
  OBVIOUS
<1>7. PICK y \in Nat : y = base + l
  BY <1>4
<1>8. Slice(q, a, y) /\ Len(a) = k
  <2>1. l <= n /\ n <= Len(g) /\ n - l = k
    BY <1>3, <1>4, <1>n
  <2>2. Slice(q, a, y) /\ Len(a) = n - l
    BY <1>2, <1>5, <1>7, <2>1, SliceSub
  <2> QED BY <2>1, <2>2
<1>9. Slice(q, h, base) /\ Len(h) = l
  <2>1. PICK z \in Nat : z = 0
    OBVIOUS
  <2>2. z <= l /\ l <= Len(g) /\ base = base + z /\ l - z = l /\ z + 1 = 1
    BY <1>3, <1>4, <1>n, <2>1
  <2>3. h = SubSeq(g, z + 1, l)
    BY <1>6, <2>2
  <2>4. Slice(q, h, base) /\ Len(h) = l - z
    BY <1>2, <2>2, <2>3, SliceSub
  <2> QED BY <2>2, <2>4
<1>10. PICK c : c = a \o b
  OBVIOUS
<1>11. Slice(q, c, y) /\ Len(c) = k + m
  <2>1. x = y + Len(a)
    BY <1>3, <1>4, <1>7, <1>8
  <2>2. Slice(q, b, x) /\ Slice(q, a, y)
    BY Zenon, <1>2, <1>8
  <2>3. Slice(q, a \o b, y) /\ Len(a \o b) = Len(a) + Len(b)
    BY <2>1, <2>2, SliceConcat
  <2> QED BY Zenon, <1>8, <1>10, <1>n, <2>3
<1>12. u = [s EXCEPT !.buf = c, !.got = h]
  <2>1. Len(s.got) - k = l
    BY <1>3, <1>g, <1>n
  <2>2. u = [s EXCEPT !.buf = SubSeq(s.got, Len(s.got) - k + 1, Len(s.got)) \o @, !.got = SubSeq(@, 1, Len(@) - k)]
    BY Zenon DEF Bits!unread
  <2>3. SubSeq(s.got, Len(s.got) - k + 1, Len(s.got)) = a
    <3>1. Len(s.got) - k + 1 = l + 1
      BY <2>1
    <3> QED BY Zenon, <1>5, <1>g, <1>n, <3>1
  <2>4. SubSeq(s.got, 1, Len(s.got) - k) = h
    BY Zenon, <1>6, <1>g, <2>1
  <2> QED BY Zenon, <1>b, <1>10, <2>2, <2>3, <2>4
<1>13. c \in Seq(Int) /\ h \in Seq(Int)
  BY Zenon, <1>9, <1>11 DEF Slice
<1>14. u \in [buf : Seq(Int), at : Nat, got : Seq(Int), bad : BOOLEAN] /\ u.buf = c /\ u.got = h /\ u.at = s.at
  BY <1>t, <1>12, <1>13
<1>15. y = base + Len(u.got)
  BY Zenon, <1>7, <1>9, <1>14
<1>16. u.at = y + Len(u.buf)
  <2>1. s.at = x + m
    BY Zenon, <1>1, <1>b, <1>n
  <2>2. x + m = y + (k + m)
    BY <1>3, <1>4, <1>7
  <2> QED BY Zenon, <1>11, <1>14, <2>1, <2>2
<1> QED BY Zenon, <1>q, <1>9, <1>11, <1>14, <1>15, <1>16 DEF InStep

-----------------------------------------------------------------------------
\* What the reader holds and what it has delivered are the parts of the sink
\* before the point the sink has been taken to.
ReaderHolds(inp, bits, seen) ==
    /\ Slice(env.sink, inp, seen) /\ env.at = seen + Len(inp)
    /\ \E y \in Nat : seen = y + Len(bits) /\ Slice(env.sink, bits, y)

BitTypes ==
    /\ obj \in [out : Seq(Int), inp : Seq(Int), open : {"out", "in"}]
    /\ env \in [sink : Seq(Int), at : Nat]
    /\ ret.bits \in Seq(Int)
    /\ abs \in [sent : Nat, seen : Nat, torn : BOOLEAN]

ReaderInv == obj.open = "in" => ReaderHolds(obj.inp, ret.bits, abs.seen)

LEMMA InStateIs ==
    ASSUME BitTypes, ReaderInv, obj.open = "in"
    PROVE  Bits!InState \in ReadStates(abs.seen) /\ Bits!InState.got = <<>> /\ ~Bits!InState.bad /\ env.sink \in Seq(Int)
<1>1. obj.inp \in Seq(Int) /\ env.at \in Nat /\ env.sink \in Seq(Int) /\ abs.seen \in Nat
  BY DEF BitTypes
<1>2. PICK s : s = Bits!InState
  OBVIOUS
<1>3. s = [buf |-> obj.inp, at |-> env.at, got |-> <<>>, bad |-> FALSE]
  BY <1>2 DEF Bits!InState
<1>4. s \in [buf : Seq(Int), at : Nat, got : Seq(Int), bad : BOOLEAN] /\ s.buf = obj.inp /\ s.at = env.at /\ s.got = <<>> /\ ~s.bad
  BY <1>1, <1>3
<1>5. Slice(env.sink, obj.inp, abs.seen) /\ env.at = abs.seen + Len(obj.inp)
  BY Zenon DEF ReaderInv, ReaderHolds
<1>6. abs.seen <= Len(env.sink)
  BY <1>1, <1>5 DEF Slice
<1>7. Slice(env.sink, <<>>, abs.seen) /\ abs.seen = abs.seen + Len(<<>>)
  BY <1>1, <1>6, SliceEmpty
<1>8. s \in ReadStates(abs.seen)
  BY Zenon, <1>1, <1>4, <1>5, <1>7, ReadStateIs
<1> QED BY Zenon, <1>1, <1>2, <1>4, <1>8

LEMMA InDoneKeeps ==
    ASSUME BitTypes, obj.open = "in", NEW s, InStep(s, abs.seen), NEW op, NEW res, Bits!InDone(op, s, res)
    PROVE  /\ BitTypes' /\ ReaderInv' /\ env'.sink = env.sink
           /\ obj'.out = obj.out /\ obj'.open = "in" /\ abs'.sent = abs.sent /\ abs'.torn = abs.torn
<1>1. s \in [buf : Seq(Int), at : Nat, got : Seq(Int), bad : BOOLEAN]
  BY Zenon DEF InStep
<1>2. PICK x \in Nat : x = abs.seen + Len(s.got) /\ Slice(env.sink, s.buf, x) /\ s.at = x + Len(s.buf)
  BY Zenon DEF InStep
<1>3. Slice(env.sink, s.got, abs.seen)
  BY Zenon DEF InStep
<1>4. obj' = [obj EXCEPT !.inp = s.buf] /\ env' = [env EXCEPT !.at = s.at] /\ ret'.bits = s.got
      /\ abs' = [abs EXCEPT !.seen = x]
  BY <1>2 DEF Bits!InDone
<1>5. obj' \in [out : Seq(Int), inp : Seq(Int), open : {"out", "in"}] /\ obj'.inp = s.buf /\ obj'.out = obj.out /\ obj'.open = "in"
  BY <1>1, <1>4 DEF BitTypes
<1>6. env' \in [sink : Seq(Int), at : Nat] /\ env'.sink = env.sink /\ env'.at = s.at
  BY <1>1, <1>4 DEF BitTypes
<1>7. abs' \in [sent : Nat, seen : Nat, torn : BOOLEAN] /\ abs'.seen = x /\ abs'.sent = abs.sent /\ abs'.torn = abs.torn
  BY <1>4 DEF BitTypes
<1>8. s.got \in Seq(Int) /\ abs.seen \in Nat
  BY <1>1 DEF BitTypes
<1>9. BitTypes'
  BY Zenon, <1>4, <1>5, <1>6, <1>7, <1>8 DEF BitTypes
<1>10. ReaderHolds(obj.inp, ret.bits, abs.seen)'
  BY Zenon, <1>2, <1>3, <1>4, <1>5, <1>6, <1>7, <1>8 DEF ReaderHolds
<1> QED BY Zenon, <1>5, <1>6, <1>7, <1>9, <1>10 DEF ReaderInv

LEMMA ShortsIs == ASSUME Bits!Sane, NEW s \in Bits!Shorts PROVE s \in Nat /\ s > 0
  BY BitConstants DEF Bits!Shorts

\* What a call of the reader leaves alone and keeps.
ReaderKeeps ==
    /\ BitTypes' /\ ReaderInv' /\ env'.sink = env.sink
    /\ obj'.out = obj.out /\ obj'.open = "in" /\ abs'.sent = abs.sent /\ abs'.torn = abs.torn

LEMMA BreadKeeps == ASSUME Bits!Sane, BitTypes, ReaderInv, Bits!bread PROVE ReaderKeeps
<1>1. PICK n \in 1..MaxStep, short \in Bits!Shorts :
          Bits!InDone("bread", Bits!readv(Bits!InState, n, short), Len(Bits!readv(Bits!InState, n, short).got))
  BY Zenon DEF Bits!bread
<1>2. obj.open = "in"
  BY Zenon DEF Bits!bread, Bits!Reading
<1>3. PICK s : s = Bits!readv(Bits!InState, n, short)
  OBVIOUS
<1>4. n \in Nat /\ short \in Nat /\ short > 0
  BY ShortsIs
<1>5. PICK start : start = Bits!InState
  OBVIOUS
<1>6. start \in ReadStates(abs.seen) /\ start.got = <<>> /\ ~start.bad /\ env.sink \in Seq(Int)
  BY Zenon, <1>2, <1>5, InStateIs
<1>7. s \in ReadStates(abs.seen)
  BY Zenon, <1>3, <1>4, <1>5, <1>6, ReadvHolds
<1>8. InStep(s, abs.seen)
  BY Zenon, <1>7, ReadInStep
<1>9. Bits!InDone("bread", s, Len(s.got))
  BY Zenon, <1>1, <1>3
<1> QED BY Zenon, <1>2, <1>8, <1>9, InDoneKeeps DEF ReaderKeeps

LEMMA ReadKeepsBits == ASSUME Bits!Sane, BitTypes, ReaderInv, Bits!read PROVE ReaderKeeps
<1>1. PICK n \in 1..MaxStep \div ByteBits, short \in Bits!Shorts :
          LET s == Bits!readv(Bits!InState, n * ByteBits, short)
          IN  Bits!InDone("read", Bits!unread(s, Len(s.got) % ByteBits), Len(s.got) \div ByteBits)
  BY Zenon DEF Bits!read
<1>2. obj.open = "in"
  BY Zenon DEF Bits!read, Bits!Reading
<1>3. PICK c : c = n * ByteBits
  OBVIOUS
<1>4. PICK s : s = Bits!readv(Bits!InState, c, short)
  OBVIOUS
<1>5. c \in Nat /\ short \in Nat /\ short > 0
  <2>1. n \in Nat
    BY BitConstants, Quotient
  <2> QED BY <1>3, <2>1, BitConstants, Product, ShortsIs
<1>6. PICK start : start = Bits!InState
  OBVIOUS
<1>7. start \in ReadStates(abs.seen) /\ start.got = <<>> /\ ~start.bad /\ env.sink \in Seq(Int)
  BY Zenon, <1>2, <1>6, InStateIs
<1>8. s \in ReadStates(abs.seen)
  BY Zenon, <1>4, <1>5, <1>6, <1>7, ReadvHolds
<1>9. InStep(s, abs.seen)
  BY Zenon, <1>8, ReadInStep
<1>10. PICK k \in 0..Len(s.got) : k = Len(s.got) % ByteBits
  <2>1. PICK l \in Nat : l = Len(s.got)
    BY <1>8 DEF ReadStates
  <2>2. l % ByteBits \in 0..l
    <3>1. /\ l \div ByteBits \in Nat /\ l % ByteBits \in 0..ByteBits - 1
          /\ l = (l \div ByteBits) * ByteBits + (l % ByteBits)
      BY BitConstants, Quotient
    <3>2. (l \div ByteBits) * ByteBits \in Nat
      BY <3>1, BitConstants, Product
    <3> QED BY <3>1, <3>2, BitConstants
  <2> QED BY <2>1, <2>2
<1>11. PICK u : u = Bits!unread(s, k)
  OBVIOUS
<1>12. InStep(u, abs.seen)
  BY Zenon, <1>7, <1>9, <1>11, UnreadInStep
<1>13. Bits!InDone("read", u, Len(s.got) \div ByteBits)
  BY Zenon, <1>1, <1>3, <1>4, <1>10, <1>11
<1> QED BY Zenon, <1>2, <1>12, <1>13, InDoneKeeps DEF ReaderKeeps

\* What SkipLandsStep asks of a bskip() that has moved and returned.
LEMMA LandsOn ==
    ASSUME ret'.res \notin {Bits!Hung, Bits!Fail, Bits!EOF},
           abs'.seen - abs.seen = Bits!Lesser(ret'.asked, Len(env.sink) - abs.seen),
           ret'.res <= abs'.seen - abs.seen, ret'.op = "bskip" => ret'.asked - ret'.res < ByteBits
    PROVE  Bits!SkipLandsStep
<1>1. ret'.res # Bits!Hung /\ ret'.res # Bits!Fail /\ ret'.res # Bits!EOF
  BY Zenon
<1> QED BY <1>1 DEF Bits!SkipLandsStep

\* The results that are no counts differ.
LEMMA NoCounts ==
    Bits!Hung # Bits!Fail /\ Bits!Hung # Bits!EOF /\ Bits!Fail # Bits!EOF
  BY DEF Bits!Hung, Bits!Fail, Bits!EOF

\* ... of one that does not return, and of one that fails.
LEMMA LandsNever ==
    (ret'.res = Bits!Hung /\ ret'.asked > Len(env.sink) - abs.seen) => Bits!SkipLandsStep
  BY NoCounts, Zenon DEF Bits!SkipLandsStep
LEMMA LandsNowhere ==
    (ret'.res = Bits!Fail /\ ret'.op = "bskip after error" /\ abs'.seen - abs.seen = 0) => Bits!SkipLandsStep
  BY NoCounts, Zenon DEF Bits!SkipLandsStep

\* bskip() within the buffer.
LEMMA BskipHeld ==
    ASSUME Bits!Sane, BitTypes, ReaderInv, obj.open = "in", NEW n \in Nat, Bits!SkipWithin(n)
    PROVE  ReaderKeeps /\ Bits!SkipLandsStep
<1>1. obj.inp \in Seq(Int) /\ env.at \in Nat /\ env.sink \in Seq(Int) /\ abs.seen \in Nat
  BY DEF BitTypes
<1>2. Slice(env.sink, obj.inp, abs.seen) /\ env.at = abs.seen + Len(obj.inp)
  BY Zenon DEF ReaderInv, ReaderHolds
<1>q. PICK q \in Seq(Int) : q = env.sink
  BY <1>1
<1>a. PICK a : a = obj.inp
  OBVIOUS
<1>s. PICK seen \in Nat : seen = abs.seen
  BY <1>1
<1>h. PICK held \in Nat : held = Len(a)
  BY <1>1, <1>a
<1>l. PICK l \in Nat : l = Len(q)
  OBVIOUS
<1>3. PICK b : b = SubSeq(a, n + 1, held)
  OBVIOUS
<1>4. PICK y \in Nat : y = seen + n
  OBVIOUS
<1>w. n <= Len(obj.inp)
  BY Zenon DEF Bits!SkipWithin
<1>5. Slice(q, a, seen) /\ n <= held /\ env.at = seen + held /\ seen + held <= l
  <2>1. Slice(q, a, seen) /\ n <= held /\ env.at = seen + held
    BY Zenon, <1>2, <1>w, <1>q, <1>a, <1>s, <1>h
  <2> QED BY <2>1, <1>h, <1>l DEF Slice
<1>6. Slice(q, b, y) /\ Len(b) = held - n
  <2>1. held <= Len(a)
    BY <1>h
  <2> QED BY <1>3, <1>4, <1>5, <2>1, SliceSub
<1>7. b \in Seq(Int)
  BY Zenon, <1>6 DEF Slice
<1>8. obj' = [obj EXCEPT !.inp = b] /\ abs' = [abs EXCEPT !.seen = y]
  <2>1. obj' = [obj EXCEPT !.inp = b]
    BY Zenon, <1>3, <1>a, <1>h DEF Bits!SkipWithin
  <2>2. abs' = [abs EXCEPT !.seen = y]
    BY <1>4, <1>s DEF Bits!SkipWithin
  <2> QED BY <2>1, <2>2
<1>9. obj' \in [out : Seq(Int), inp : Seq(Int), open : {"out", "in"}] /\ obj'.inp = b /\ obj'.out = obj.out /\ obj'.open = "in"
  BY <1>7, <1>8 DEF BitTypes
<1>10. abs' \in [sent : Nat, seen : Nat, torn : BOOLEAN] /\ abs'.seen = y /\ abs'.sent = abs.sent /\ abs'.torn = abs.torn
  BY <1>8 DEF BitTypes
<1>11. env' \in [sink : Seq(Int), at : Nat] /\ env'.sink = q /\ env'.at = env.at
  BY <1>q DEF BitTypes, Bits!SkipWithin
<1>12. ret'.bits = <<>> /\ ret'.op = "bskip" /\ ret'.res = n /\ ret'.asked = n
  BY DEF Bits!SkipWithin
<1>13. Slice(q, <<>>, y) /\ y = y + Len(<<>>)
  <2>1. y <= Len(q)
    BY <1>4, <1>5, <1>l
  <2> QED BY <2>1, SliceEmpty
<1>14. env.at = y + Len(b)
  BY <1>4, <1>5, <1>6
<1>15. BitTypes'
  BY <1>9, <1>10, <1>11, <1>12 DEF BitTypes
<1>16. ReaderHolds(obj.inp, ret.bits, abs.seen)'
  BY Zenon, <1>4, <1>6, <1>9, <1>10, <1>11, <1>12, <1>13, <1>14 DEF ReaderHolds
<1>17. Bits!SkipLandsStep
  <2>1. n \notin {Bits!Hung, Bits!Fail, Bits!EOF}
    BY DEF Bits!Hung, Bits!Fail, Bits!EOF
  <2>2. y - seen = Bits!Lesser(n, l - seen)
    BY <1>4, <1>5 DEF Bits!Lesser
  <2>3. abs'.seen - abs.seen = y - seen /\ Len(env.sink) - abs.seen = l - seen
    BY Zenon, <1>q, <1>s, <1>l, <1>10
  <2>4. n <= y - seen
    BY <1>4
  <2>5. n - n < ByteBits
    BY BitConstants
  <2> QED BY Zenon, <1>12, <2>1, <2>2, <2>3, <2>4, <2>5, LandsOn
<1> QED BY Zenon, <1>9, <1>10, <1>11, <1>15, <1>16, <1>17, <1>q DEF ReaderKeeps, ReaderInv

\* Numbers of a bskip() beyond the buffer: d bits to skip, R bits in the sink.
SkipBytes(d, R, bytes, left) ==
    /\ bytes \in Nat /\ left \in Nat
    /\ bytes > left => d > R
    /\ \A k \in Nat : k <= bytes /\ k <= left =>
           \E m \in Nat : m = k * ByteBits /\ m <= R /\ m <= d /\ (k = bytes => d - m < ByteBits)
LEMMA SkipNumbers ==
    ASSUME Bits!Sane, NEW d \in Nat, NEW R \in Nat, NEW bytes, bytes = d \div ByteBits, NEW left, left = R \div ByteBits
    PROVE  SkipBytes(d, R, bytes, left)
<1>c. PICK C \in Nat : C = ByteBits /\ C > 0
  BY BitConstants
<1>1. bytes \in Nat /\ d % C \in 0..C - 1 /\ d = bytes * C + (d % C)
  BY <1>c, Quotient
<1>2. left \in Nat /\ R % C \in 0..C - 1 /\ R = left * C + (R % C)
  BY <1>c, Quotient
<1>3. PICK A \in Nat : A = bytes * C
  BY <1>1, Product
<1>4. PICK B \in Nat : B = left * C
  BY <1>2, Product
<1>5. PICK r \in 0..C - 1 : r = d % C
  BY <1>1
<1>6. PICK u \in 0..C - 1 : u = R % C
  BY <1>2
<1>7. d = A + r /\ R = B + u
  BY <1>1, <1>2, <1>3, <1>4, <1>5, <1>6
<1>r. d - A < C
  BY <1>7
<1>8. ASSUME bytes > left PROVE d > R
  <2>1. PICK e \in Nat : e = left + 1
    BY <1>2
  <2>2. e * C <= bytes * C
    <3>1. e <= bytes
      BY <1>1, <1>2, <1>8, <2>1
    <3> QED BY <1>1, <3>1, ProductOrder
  <2>3. e * C = B + C
    BY <1>2, <1>4, <2>1
  <2>4. B + C <= A
    BY <1>3, <2>2, <2>3
  <2> QED BY <1>5, <1>6, <1>7, <2>4
<1>9. ASSUME NEW k \in Nat, k <= bytes, k <= left
      PROVE  \E m \in Nat : m = k * ByteBits /\ m <= R /\ m <= d /\ (k = bytes => d - m < ByteBits)
  <2>1. PICK m \in Nat : m = k * C
    BY Product
  <2>2. m <= A
    BY <1>1, <1>3, <1>9, <2>1, ProductOrder
  <2>3. m <= B
    BY <1>2, <1>4, <1>9, <2>1, ProductOrder
  <2>4. m <= R /\ m <= d
    BY <1>5, <1>6, <1>7, <2>2, <2>3
  <2>5. k = bytes => m = A
    BY Zenon, <1>3, <2>1
  <2>6. k = bytes => d - m < C
    BY Zenon, <1>r, <2>5
  <2> QED BY Zenon, <1>c, <2>1, <2>4, <2>6
<1> QED BY Zenon, <1>1, <1>2, <1>8, <1>9 DEF SkipBytes

\* The start of the tail, k bytes behind the buffer.
LEMMA BelowIs ==
    ASSUME BitTypes, NEW k, NEW m \in Nat, m = k * ByteBits, NEW base \in Nat, base = env.at + m,
           base <= Len(env.sink), NEW below, below = Bits!Below(k)
    PROVE  below \in ReadStates(base) /\ below.got = <<>> /\ ~below.bad
<1>1. obj.inp \in Seq(Int) /\ env.at \in Nat /\ env.sink \in Seq(Int)
  BY DEF BitTypes
<1>q. PICK q \in Seq(Int) : q = env.sink
  BY <1>1
<1>2. PICK s : s = Bits!InState
  OBVIOUS
<1>3. PICK a \in Seq(Int), at \in Nat : a = obj.inp /\ at = env.at
  BY <1>1
<1>4. s = [buf |-> a, at |-> at, got |-> <<>>, bad |-> FALSE]
  BY <1>2, <1>3 DEF Bits!InState
<1>5. below = [s EXCEPT !.buf = <<>>, !.at = base]
  <2>1. s.at + m = base
    BY <1>3, <1>4
  <2>2. below = [s EXCEPT !.buf = <<>>, !.at = s.at + m]
    BY <1>2 DEF Bits!Below
  <2> QED BY Zenon, <2>1, <2>2
<1>6. below = [buf |-> <<>>, at |-> base, got |-> <<>>, bad |-> FALSE]
  BY <1>4, <1>5
<1>7. below \in [buf : Seq(Int), at : Nat, got : Seq(Int), bad : BOOLEAN]
      /\ below.buf = <<>> /\ below.at = base /\ below.got = <<>> /\ ~below.bad
  BY <1>6
<1>8. Slice(q, <<>>, base) /\ base = base + Len(<<>>)
  BY <1>q, SliceEmpty
<1>9. below \in ReadStates(base)
  BY Zenon, <1>q, <1>7, <1>8, ReadStateIs
<1> QED BY Zenon, <1>7, <1>9

\* How far a bskip() has come that had moved bits gone and read a tail of at most t.
WentOn(t, moved, tail) ==
    \E g \in 0..t : /\ g = Len(tail.got) /\ abs'.seen = abs.seen + moved + g
                    /\ abs'.seen <= Len(env.sink) /\ (g = t \/ tail.bad)
                    /\ (tail.bad => abs'.seen = Len(env.sink))

LEMMA SkipDoneKeeps ==
    ASSUME Bits!Sane, BitTypes, ReaderInv, obj.open = "in", NEW op, NEW n, NEW res, NEW m \in Nat,
           NEW moved, moved = Len(obj.inp) + m, NEW base \in Nat, base = env.at + m,
           NEW tail \in ReadStates(base), NEW t \in Nat, Len(tail.got) \in 0..t, Len(tail.got) = t \/ tail.bad,
           Bits!SkipDone(op, n, moved, tail, res)
    PROVE  ReaderKeeps /\ WentOn(t, moved, tail) /\ ret'.op = op /\ ret'.res = res /\ ret'.asked = n
<1>1. obj.inp \in Seq(Int) /\ env.at \in Nat /\ env.sink \in Seq(Int) /\ abs.seen \in Nat
  BY DEF BitTypes
<1>2. Slice(env.sink, obj.inp, abs.seen) /\ env.at = abs.seen + Len(obj.inp)
  BY Zenon DEF ReaderInv, ReaderHolds
<1>q. PICK q \in Seq(Int) : q = env.sink
  BY <1>1
<1>s. PICK seen \in Nat : seen = abs.seen
  BY <1>1
<1>h. PICK held \in Nat : held = Len(obj.inp)
  BY <1>1
<1>l. PICK l \in Nat : l = Len(q)
  OBVIOUS
<1>t. tail \in [buf : Seq(Int), at : Nat, got : Seq(Int), bad : BOOLEAN]
  BY DEF ReadStates
<1>10. PICK x \in Nat : x = base + Len(tail.got) /\ Slice(q, tail.buf, x) /\ tail.at = x + Len(tail.buf)
  BY Zenon, <1>q DEF ReadStates
<1>11. tail.bad => tail.buf = <<>> /\ tail.at = l
  BY Zenon, <1>q, <1>l DEF ReadStates
<1>g. PICK g \in 0..t : g = Len(tail.got)
  OBVIOUS
<1>v. PICK v \in Nat : v = moved
  BY <1>h
<1>12. x = seen + v + g
  <2>1. base = seen + held + m
    BY <1>2, <1>s, <1>h
  <2>2. x = base + g
    BY Zenon, <1>10, <1>g
  <2> QED BY <1>h, <1>v, <2>1, <2>2
<1>13. x <= l
  <2>1. PICK e \in Nat : e = Len(tail.buf) /\ x + e <= l
    BY Zenon, <1>10, <1>l, SliceEnds
  <2>2. x + e <= l
    BY <2>1
  <2> QED BY <2>2
<1>14. tail.bad => x = l
  <2> SUFFICES ASSUME tail.bad PROVE x = l
      OBVIOUS
  <2>1. Len(tail.buf) = 0
    BY <1>11
  <2> QED BY <1>10, <1>11, <2>1
<1>15. abs' = [abs EXCEPT !.seen = x]
  <2>1. seen + v + g = x
    BY <1>12
  <2>2. abs' = [abs EXCEPT !.seen = abs.seen + moved + Len(tail.got)]
    BY DEF Bits!SkipDone
  <2> QED BY Zenon, <1>s, <1>v, <1>g, <2>1, <2>2
<1>16. obj' \in [out : Seq(Int), inp : Seq(Int), open : {"out", "in"}] /\ obj'.inp = tail.buf /\ obj'.out = obj.out /\ obj'.open = "in"
  BY <1>t DEF BitTypes, Bits!SkipDone
<1>17. abs' \in [sent : Nat, seen : Nat, torn : BOOLEAN] /\ abs'.seen = x /\ abs'.sent = abs.sent /\ abs'.torn = abs.torn
  BY <1>15 DEF BitTypes
<1>18. env' \in [sink : Seq(Int), at : Nat] /\ env'.sink = env.sink /\ env'.at = tail.at
  BY <1>t DEF BitTypes, Bits!SkipDone
<1>r. ret'.op = op /\ ret'.bits = <<>> /\ ret'.asked = n /\ ret'.res = res
  BY DEF Bits!SkipDone
<1>19. Slice(q, <<>>, x) /\ x = x + Len(<<>>)
  BY <1>13, <1>l, SliceEmpty
<1>20. BitTypes'
  BY <1>16, <1>17, <1>18, <1>r DEF BitTypes
<1>21. ReaderHolds(obj.inp, ret.bits, abs.seen)'
  BY Zenon, <1>r, <1>10, <1>16, <1>17, <1>18, <1>19, <1>q DEF ReaderHolds
<1>22. WentOn(t, moved, tail)
  BY Zenon, <1>g, <1>s, <1>v, <1>q, <1>l, <1>12, <1>13, <1>14, <1>17 DEF WentOn
<1> QED BY Zenon, <1>r, <1>16, <1>17, <1>18, <1>20, <1>21, <1>22 DEF ReaderKeeps, ReaderInv

\* Where it stands after n = moved + t bits were to be passed over and moved + g were.
SkipSums(n, moved, t, seen, l, g, x) ==
    /\ {n, moved, t, seen, l, g, x} \subseteq Nat
    /\ n = moved + t /\ g <= t /\ x = seen + moved + g /\ x <= l /\ (g = t \/ x = l)

LEMMA SkipSum ==
    ASSUME NEW n, NEW moved, NEW t, NEW seen, NEW l, NEW g, NEW x, SkipSums(n, moved, t, seen, l, g, x)
    PROVE  x - seen = Bits!Lesser(n, l - seen) /\ moved <= x - seen
<1>0. /\ n \in Nat /\ moved \in Nat /\ t \in Nat /\ seen \in Nat /\ l \in Nat /\ g \in Nat /\ x \in Nat
      /\ n = moved + t /\ g <= t /\ x = seen + moved + g /\ x <= l /\ (g = t \/ x = l)
  BY Zenon DEF SkipSums
<1>1. PICK z \in Nat : z = x - seen /\ z = moved + g
  BY <1>0
<1>2. PICK y \in Int : y = l - seen
  BY <1>0
<1>3. z <= n /\ z <= y /\ (z = n \/ z = y) /\ moved <= z
  BY <1>0, <1>1, <1>2
<1>n. n \in Nat
  BY <1>0
<1>4. z = Bits!Lesser(n, y)
  BY <1>3, <1>n DEF Bits!Lesser
<1> QED BY Zenon, <1>1, <1>2, <1>3, <1>4

\* bskip() beyond the buffer: k bytes are gone below, and t bits were to be read.
LEMMA SkipComesTo ==
    ASSUME NEW n \in Nat, NEW moved \in Nat, NEW t \in Nat, n = moved + t, NEW tail, NEW seen \in Nat, seen = abs.seen,
           NEW l \in Nat, l = Len(env.sink), WentOn(t, moved, tail)
    PROVE  /\ abs'.seen - abs.seen = Bits!Lesser(n, Len(env.sink) - abs.seen) /\ moved <= abs'.seen - abs.seen
           /\ tail.bad /\ tail.got = <<>> /\ moved = 0 => abs'.seen - abs.seen = 0 /\ Len(env.sink) - abs.seen = 0
<1>1. PICK g \in 0..t : /\ g = Len(tail.got) /\ abs'.seen = seen + moved + g
                        /\ abs'.seen <= l /\ (g = t \/ tail.bad) /\ (tail.bad => abs'.seen = l)
  BY Zenon DEF WentOn
<1>2. PICK x \in Nat : x = abs'.seen
  BY <1>1
<1>3. x = seen + moved + g /\ x <= l /\ (g = t \/ x = l)
  BY <1>1, <1>2
<1>4. x - seen = Bits!Lesser(n, l - seen) /\ moved <= x - seen
  <2>1. g \in Nat /\ g <= t
    BY <1>1
  <2>2. {n, moved, t, seen, l, g, x} \subseteq Nat
    BY <2>1
  <2>3. SkipSums(n, moved, t, seen, l, g, x)
    BY Zenon, <1>3, <2>1, <2>2 DEF SkipSums
  <2> QED BY <2>3, SkipSum
<1>5. ASSUME tail.bad, tail.got = <<>>, moved = 0 PROVE x - seen = 0 /\ l - seen = 0
  <2>1. g = 0
    BY <1>1, <1>5
  <2>2. x = l
    BY Zenon, <1>1, <1>2, <1>5
  <2> QED BY <1>3, <1>5, <2>1, <2>2
<1> QED BY Zenon, <1>2, <1>4, <1>5

\* The numbers of a bskip() of n bits beyond the buffer, which are moved by k bytes.
SkipParts(n, k, held, m, base, t) ==
    /\ held \in Nat /\ held = Len(obj.inp) /\ m \in Nat /\ m = k * ByteBits
    /\ base \in Nat /\ base = env.at + m /\ base <= Len(env.sink)
    /\ t \in Nat /\ n = held + m + t /\ t = Bits!TailBits(n, Bits!Moved(k)) /\ Bits!Moved(k) = held + m

LEMMA SkipPartsAre ==
    ASSUME Bits!Sane, BitTypes, ReaderInv, obj.open = "in", NEW n \in Nat, n > Len(obj.inp)
    PROVE  /\ Bits!Bytes(n) \in Nat /\ Bits!Left \in Nat
           /\ Bits!Bytes(n) > Bits!Left => n > Len(env.sink) - abs.seen
           /\ \A k \in Nat : k <= Bits!Bytes(n) /\ k <= Bits!Left =>
                  \E held, m, base, t : SkipParts(n, k, held, m, base, t) /\ (k = Bits!Bytes(n) => t < ByteBits)
<1>1. obj.inp \in Seq(Int) /\ env.at \in Nat /\ env.sink \in Seq(Int) /\ abs.seen \in Nat
  BY DEF BitTypes
<1>2. Slice(env.sink, obj.inp, abs.seen) /\ env.at = abs.seen + Len(obj.inp)
  BY Zenon DEF ReaderInv, ReaderHolds
<1>s. PICK seen \in Nat : seen = abs.seen
  BY <1>1
<1>h. PICK held \in Nat : held = Len(obj.inp)
  BY <1>1
<1>l. PICK l \in Nat : l = Len(env.sink)
  BY <1>1
<1>a. PICK at \in Nat : at = env.at
  BY <1>1
<1>3. at = seen + held /\ at <= l
  <2>1. at = seen + held
    BY <1>2, <1>s, <1>h, <1>a
  <2>2. seen + held <= l
    BY <1>2, <1>s, <1>h, <1>l DEF Slice
  <2> QED BY <2>1, <2>2
<1>R. PICK R \in Nat : R = l - at
  <2>1. l - at \in Nat
    BY <1>3
  <2> QED BY <2>1
<1>d. PICK d \in Nat : d = n - held
  <2>1. n - held \in Nat
    BY <1>h
  <2> QED BY <2>1
<1>4. Bits!Left = R \div ByteBits /\ Bits!Bytes(n) = d \div ByteBits
  BY Zenon, <1>R, <1>d, <1>h, <1>l, <1>a DEF Bits!Left, Bits!Bytes
<1>5. PICK bytes, left : bytes = Bits!Bytes(n) /\ left = Bits!Left
  OBVIOUS
<1>6. /\ bytes \in Nat /\ left \in Nat
      /\ bytes > left => d > R
      /\ \A k \in Nat : k <= bytes /\ k <= left =>
             \E m \in Nat : m = k * ByteBits /\ m <= R /\ m <= d /\ (k = bytes => d - m < ByteBits)
  <2>1. bytes = d \div ByteBits /\ left = R \div ByteBits
    BY Zenon, <1>4, <1>5
  <2>2. SkipBytes(d, R, bytes, left)
    BY <2>1, SkipNumbers
  <2> QED BY Zenon, <2>2 DEF SkipBytes
<1>7. d > R => n > Len(env.sink) - abs.seen
  <2>1. d > R => n > l - seen
    BY <1>3, <1>R, <1>d
  <2> QED BY Zenon, <1>l, <1>s, <2>1
<1>8. ASSUME NEW k \in Nat, k <= bytes, k <= left
      PROVE  \E m, base, t : SkipParts(n, k, held, m, base, t) /\ (k = bytes => t < ByteBits)
  <2>1. PICK m \in Nat : m = k * ByteBits /\ m <= R /\ m <= d /\ (k = bytes => d - m < ByteBits)
    BY Zenon, <1>6, <1>8
  <2>m. m <= R /\ m <= d
    BY <2>1
  <2>2. PICK base \in Nat : base = at + m
    OBVIOUS
  <2>3. PICK t \in Nat : t = d - m
    <3>1. d - m \in Nat
      BY <2>m
    <3> QED BY <3>1
  <2>4. base <= l
    BY <1>3, <1>R, <2>m, <2>2
  <2>5. n = held + m + t
    BY <1>d, <2>m, <2>3
  <2>6. Bits!Moved(k) = held + m
    BY Zenon, <1>h, <2>1 DEF Bits!Moved
  <2>7. t = n - (held + m)
    BY <2>5
  <2>8. t = Bits!TailBits(n, Bits!Moved(k))
    BY Zenon, <2>6, <2>7 DEF Bits!TailBits
  <2>9. SkipParts(n, k, held, m, base, t)
    BY Zenon, <1>h, <1>a, <1>l, <2>1, <2>2, <2>3, <2>4, <2>5, <2>6, <2>8 DEF SkipParts
  <2>10. k = bytes => t < ByteBits
    BY Zenon, <2>1, <2>3
  <2> QED BY Zenon, <2>9, <2>10
<1> QED BY Zenon, <1>5, <1>6, <1>7, <1>8

\* All the bytes are skipped, and the tail is read.
LEMMA SkipAllKeeps ==
    ASSUME Bits!Sane, BitTypes, ReaderInv, obj.open = "in", NEW n \in Nat, n > Len(obj.inp),
           NEW short \in Nat, short > 0, Bits!SkipAll(n, short)
    PROVE  ReaderKeeps /\ Bits!SkipLandsStep
<1>0. env.sink \in Seq(Int) /\ abs.seen \in Nat
  BY DEF BitTypes
<1>1. PICK k \in Nat : k = Bits!Bytes(n) /\ k <= Bits!Left
  BY Zenon, SkipPartsAre DEF Bits!SkipAll
<1>2. k <= Bits!Bytes(n)
  BY <1>1
<1>3. PICK held, m, base, t : SkipParts(n, k, held, m, base, t) /\ (k = Bits!Bytes(n) => t < ByteBits)
  BY Zenon, <1>1, <1>2, SkipPartsAre
<1>4. held \in Nat /\ m \in Nat /\ base \in Nat /\ t \in Nat /\ n = held + m + t /\ t < ByteBits
  BY Zenon, <1>1, <1>3 DEF SkipParts
<1>5. PICK moved \in Nat : moved = Bits!Moved(k) /\ moved = held + m
  BY <1>3, <1>4 DEF SkipParts
<1>6. PICK below : below = Bits!Below(k)
  OBVIOUS
<1>7. below \in ReadStates(base) /\ below.got = <<>> /\ ~below.bad
  BY Zenon, <1>3, <1>6, BelowIs DEF SkipParts
<1>8. PICK tail : tail = Bits!readv(below, t, short)
  OBVIOUS
<1>9. tail \in ReadStates(base) /\ Len(tail.got) \in 0..t /\ (Len(tail.got) = t \/ tail.bad)
  BY Zenon, <1>0, <1>4, <1>7, <1>8, ReadvHolds
<1>10. PICK res : res = IF tail.bad /\ tail.got = <<>> /\ moved = 0 THEN Bits!EOF ELSE moved
  OBVIOUS
<1>11. Bits!SkipDone("bskip", n, moved, tail, res)
  BY Zenon, <1>1, <1>3, <1>5, <1>6, <1>8, <1>10 DEF Bits!SkipAll, SkipParts
<1>12. ReaderKeeps /\ WentOn(t, moved, tail) /\ ret'.op = "bskip" /\ ret'.res = res /\ ret'.asked = n
  BY Zenon, <1>3, <1>4, <1>5, <1>9, <1>11, SkipDoneKeeps DEF SkipParts
<1>13. /\ abs'.seen - abs.seen = Bits!Lesser(n, Len(env.sink) - abs.seen) /\ moved <= abs'.seen - abs.seen
       /\ tail.bad /\ tail.got = <<>> /\ moved = 0 => abs'.seen - abs.seen = 0 /\ Len(env.sink) - abs.seen = 0
  <2>1. n = moved + t
    BY <1>4, <1>5
  <2>2. PICK l \in Nat : l = Len(env.sink)
    BY <1>0
  <2> QED BY Zenon, <1>0, <1>4, <1>12, <2>1, <2>2, SkipComesTo
<1>14. CASE tail.bad /\ tail.got = <<>> /\ moved = 0
  <2>1. ret'.res = Bits!EOF
    BY Zenon, <1>10, <1>12, <1>14
  <2>2. Bits!EOF # Bits!Hung /\ Bits!EOF # Bits!Fail
    BY DEF Bits!EOF, Bits!Hung, Bits!Fail
  <2>3. abs'.seen - abs.seen = 0 /\ Len(env.sink) - abs.seen = 0
    BY Zenon, <1>13, <1>14
  <2>4. Bits!SkipLandsStep
    BY <2>1, <2>2, <2>3 DEF Bits!SkipLandsStep
  <2> QED BY Zenon, <1>12, <2>4
<1>15. CASE ~(tail.bad /\ tail.got = <<>> /\ moved = 0)
  <2>1. ret'.res = moved
    BY Zenon, <1>10, <1>12, <1>15
  <2>2. moved \notin {Bits!Hung, Bits!Fail, Bits!EOF}
    BY DEF Bits!EOF, Bits!Hung, Bits!Fail
  <2>3. n - moved < ByteBits
    <3>1. n - moved = t
      BY <1>4, <1>5
    <3> QED BY Zenon, <1>4, <3>1
  <2>4. Bits!SkipLandsStep
    BY Zenon, <1>12, <1>13, <2>1, <2>2, <2>3, LandsOn
  <2> QED BY Zenon, <1>12, <2>4
<1> QED BY <1>14, <1>15

\* skip() below gives 0 for ever.
LEMMA SkipStuckKeeps ==
    ASSUME Bits!Sane, BitTypes, ReaderInv, obj.open = "in", NEW n \in Nat, n > Len(obj.inp), Bits!SkipStuck(n)
    PROVE  ReaderKeeps /\ Bits!SkipLandsStep
<1>1. PICK k \in Nat : k = Bits!Left
  BY Zenon, SkipPartsAre
<1>2. Bits!Bytes(n) \in Nat /\ Bits!Bytes(n) > k /\ n > Len(env.sink) - abs.seen
  BY Zenon, <1>1, SkipPartsAre DEF Bits!SkipStuck
<1>3. k <= Bits!Bytes(n) /\ k <= Bits!Left
  BY <1>1, <1>2
<1>4. PICK held, m, base, t : SkipParts(n, k, held, m, base, t)
  BY Zenon, <1>3, SkipPartsAre
<1>5. PICK below : below = Bits!Below(k)
  OBVIOUS
<1>6. below \in ReadStates(base) /\ below.got = <<>> /\ ~below.bad
  BY Zenon, <1>4, <1>5, BelowIs DEF SkipParts
<1>7. PICK o \in Nat : o = 0 /\ Len(below.got) \in 0..o /\ Len(below.got) = o
  BY <1>6
<1>8. Bits!SkipDone("bskip", n, held + m, below, Bits!Hung)
  BY Zenon, <1>1, <1>4, <1>5 DEF Bits!SkipStuck, SkipParts
<1>9. ReaderKeeps /\ ret'.op = "bskip" /\ ret'.res = Bits!Hung /\ ret'.asked = n
  <2>1. PICK moved : moved = held + m
    OBVIOUS
  <2>2. moved = Len(obj.inp) + m /\ Bits!SkipDone("bskip", n, moved, below, Bits!Hung)
    BY Zenon, <1>4, <1>8, <2>1 DEF SkipParts
  <2> QED BY Zenon, <1>4, <1>6, <1>7, <2>2, SkipDoneKeeps DEF SkipParts
<1>10. Bits!SkipLandsStep
  BY Zenon, <1>2, <1>9, LandsNever
<1> QED BY Zenon, <1>9, <1>10

\* skip() below fails.
LEMMA SkipErrorKeeps ==
    ASSUME Bits!Sane, BitTypes, ReaderInv, obj.open = "in", NEW n \in Nat, n > Len(obj.inp),
           NEW k \in Nat, NEW short \in Nat, short > 0, Bits!SkipError(n, k, short)
    PROVE  ReaderKeeps /\ Bits!SkipLandsStep
<1>0. env.sink \in Seq(Int) /\ abs.seen \in Nat /\ Bits!Bytes(n) \in Nat
  BY SkipPartsAre DEF BitTypes
<1>1. k < Bits!Bytes(n) /\ k <= Bits!Left
  BY Zenon DEF Bits!SkipError
<1>2. k <= Bits!Bytes(n)
  BY <1>0, <1>1
<1>3. PICK held, m, base, t : SkipParts(n, k, held, m, base, t)
  BY Zenon, <1>1, <1>2, SkipPartsAre
<1>4. held \in Nat /\ m \in Nat /\ base \in Nat /\ t \in Nat /\ n = held + m + t
  BY Zenon, <1>3 DEF SkipParts
<1>5. PICK moved \in Nat : moved = Bits!Moved(k) /\ moved = held + m
  BY <1>3, <1>4 DEF SkipParts
<1>6. CASE moved = 0
  <2>1. ret' = [op |-> "bskip after error", res |-> Bits!Fail, bits |-> <<>>, asked |-> n] /\ UNCHANGED <<obj, env, abs>>
    BY Zenon, <1>5, <1>6 DEF Bits!SkipError
  <2>2. ret'.bits = <<>> /\ ret'.res = Bits!Fail /\ ret'.op = "bskip after error" /\ obj' = obj /\ env' = env /\ abs' = abs
    BY <2>1
  <2>3. BitTypes'
    <3>1. <<>> \in Seq(Int)
      OBVIOUS
    <3> QED BY Zenon, <2>2, <3>1 DEF BitTypes
  <2>4. Slice(env.sink, obj.inp, abs.seen) /\ env.at = abs.seen + Len(obj.inp)
    BY Zenon DEF ReaderInv, ReaderHolds
  <2>5. PICK q \in Seq(Int), x \in Nat : q = env.sink /\ x = abs.seen /\ x <= Len(q)
    <3>1. PICK q \in Seq(Int), x \in Nat : q = env.sink /\ x = abs.seen
      BY <1>0
    <3>2. PICK l \in Nat : l = Len(q)
      OBVIOUS
    <3>3. PICK e \in Nat : e = Len(obj.inp) /\ x + e <= l
      BY Zenon, <2>4, <3>1, <3>2, SliceEnds
    <3>4. x + e <= l
      BY <3>3
    <3>5. x <= l
      BY <3>4
    <3> QED BY Zenon, <3>1, <3>2, <3>5
  <2>6. Slice(q, <<>>, x) /\ x = x + Len(<<>>)
    BY <2>5, SliceEmpty
  <2>7. ReaderHolds(obj.inp, ret.bits, abs.seen)'
    BY Zenon, <1>0, <2>2, <2>4, <2>5, <2>6 DEF ReaderHolds
  <2>8. Bits!SkipLandsStep
    <3>1. x - x = 0
      OBVIOUS
    <3>2. abs'.seen = x
      BY Zenon, <2>2, <2>5
    <3>3. abs'.seen - abs.seen = 0
      BY Zenon, <2>5, <3>1, <3>2
    <3> QED BY Zenon, <2>2, <3>3, LandsNowhere
  <2>9. obj'.out = obj.out /\ obj'.open = "in" /\ env'.sink = env.sink /\ abs'.sent = abs.sent /\ abs'.torn = abs.torn
    BY Zenon, <2>2
  <2> QED BY Zenon, <2>3, <2>7, <2>8, <2>9 DEF ReaderKeeps, ReaderInv
<1>7. CASE moved # 0
  <2>1. PICK below : below = Bits!Below(k)
    OBVIOUS
  <2>2. below \in ReadStates(base) /\ below.got = <<>> /\ ~below.bad
    BY Zenon, <1>3, <2>1, BelowIs DEF SkipParts
  <2>3. PICK tail : tail = Bits!readv(below, t, short)
    OBVIOUS
  <2>4. tail \in ReadStates(base) /\ Len(tail.got) \in 0..t /\ (Len(tail.got) = t \/ tail.bad)
    BY Zenon, <1>0, <1>4, <2>2, <2>3, ReadvHolds
  <2>5. Bits!SkipDone("bskip after error", n, moved, tail, moved)
    BY Zenon, <1>3, <1>5, <1>7, <2>1, <2>3 DEF Bits!SkipError, SkipParts
  <2>6. ReaderKeeps /\ WentOn(t, moved, tail) /\ ret'.op = "bskip after error" /\ ret'.res = moved /\ ret'.asked = n
    BY Zenon, <1>3, <1>4, <1>5, <2>4, <2>5, SkipDoneKeeps DEF SkipParts
  <2>7. abs'.seen - abs.seen = Bits!Lesser(n, Len(env.sink) - abs.seen) /\ moved <= abs'.seen - abs.seen
    <3>1. n = moved + t
      BY <1>4, <1>5
    <3>2. PICK l \in Nat : l = Len(env.sink)
      BY <1>0
    <3> QED BY Zenon, <1>0, <1>4, <2>6, <3>1, <3>2, SkipComesTo
  <2>8. moved \notin {Bits!Hung, Bits!Fail, Bits!EOF}
    BY DEF Bits!EOF, Bits!Hung, Bits!Fail
  <2>9. ret'.op # "bskip"
    BY <2>6
  <2>10. Bits!SkipLandsStep
    BY Zenon, <2>6, <2>7, <2>8, <2>9, LandsOn
  <2> QED BY Zenon, <2>6, <2>10
<1> QED BY <1>6, <1>7

LEMMA BskipKeeps == ASSUME Bits!Sane, BitTypes, ReaderInv, Bits!bskip PROVE ReaderKeeps /\ Bits!SkipLandsStep
<1>0. obj.open = "in"
  BY Zenon DEF Bits!bskip, Bits!Reading
<1>1. PICK n \in 1..MaxStep : \/ Bits!SkipWithin(n)
                              \/ /\ n > Len(obj.inp)
                                 /\ \E short \in Bits!Shorts : \/ Bits!SkipAll(n, short)
                                                               \/ Bits!SkipStuck(n)
                                                               \/ \E k \in 0..MaxStep : Bits!SkipError(n, k, short)
  BY Zenon DEF Bits!bskip
<1>2. n \in Nat
  OBVIOUS
<1>3. CASE Bits!SkipWithin(n)
  BY Zenon, <1>0, <1>2, <1>3, BskipHeld
<1>4. CASE n > Len(obj.inp) /\ \E short \in Bits!Shorts : \/ Bits!SkipAll(n, short)
                                                          \/ Bits!SkipStuck(n)
                                                          \/ \E k \in 0..MaxStep : Bits!SkipError(n, k, short)
  <2>1. PICK short \in Bits!Shorts : \/ Bits!SkipAll(n, short)
                                     \/ Bits!SkipStuck(n)
                                     \/ \E k \in 0..MaxStep : Bits!SkipError(n, k, short)
    BY Zenon, <1>4
  <2>2. short \in Nat /\ short > 0
    BY ShortsIs
  <2>3. CASE Bits!SkipAll(n, short)
    BY Zenon, <1>0, <1>2, <1>4, <2>2, <2>3, SkipAllKeeps
  <2>4. CASE Bits!SkipStuck(n)
    BY Zenon, <1>0, <1>2, <1>4, <2>4, SkipStuckKeeps
  <2>5. CASE \E k \in 0..MaxStep : Bits!SkipError(n, k, short)
    <3>1. PICK k \in 0..MaxStep : Bits!SkipError(n, k, short)
      BY Zenon, <2>5
    <3>2. k \in Nat
      OBVIOUS
    <3> QED BY Zenon, <1>0, <1>2, <1>4, <2>2, <3>1, <3>2, SkipErrorKeeps
  <2> QED BY Zenon, <2>1, <2>3, <2>4, <2>5
<1> QED BY Zenon, <1>1, <1>3, <1>4

-----------------------------------------------------------------------------
(* What a sequence of bits holds beside padding                            *)

\* The runs of Written: its value for each prefix of u.
WrittenRuns(u) ==
    {r \in [0..Len(u) -> Seq(Int)] :
        /\ r[0] = <<>>
        /\ \A i \in 1..Len(u) : r[i] = IF u[i] = Bits!Pad THEN r[i - 1] ELSE Append(r[i - 1], u[i])}

LEMMA WrittenRunExists == ASSUME NEW u \in Seq(Int) PROVE WrittenRuns(u) # {}
<1>l. PICK l \in Nat : l = Len(u)
  OBVIOUS
<1> DEFINE Has(m) == \E r \in [0..m -> Seq(Int)] :
               /\ r[0] = <<>>
               /\ \A i \in 1..m : r[i] = IF u[i] = Bits!Pad THEN r[i - 1] ELSE Append(r[i - 1], u[i])
           T == {m \in 0..l : ~Has(m)}
<1>1. Has(0)
  <2>1. PICK r : r = [i \in 0..0 |-> <<>>]
    OBVIOUS
  <2>2. r \in [0..0 -> Seq(Int)] /\ r[0] = <<>>
    BY <2>1
  <2>3. \A i \in 1..0 : r[i] = IF u[i] = Bits!Pad THEN r[i - 1] ELSE Append(r[i - 1], u[i])
    BY SMT
  <2> QED BY Zenon, <2>2, <2>3
<1>2. ASSUME NEW m \in Nat, m + 1 <= l, Has(m) PROVE Has(m + 1)
  <2>1. PICK r \in [0..m -> Seq(Int)] :
            /\ r[0] = <<>>
            /\ \A i \in 1..m : r[i] = IF u[i] = Bits!Pad THEN r[i - 1] ELSE Append(r[i - 1], u[i])
    BY Zenon, <1>2
  <2>2. PICK k \in Nat : k = m + 1
    OBVIOUS
  <2>3. PICK y \in Seq(Int) : y = IF u[k] = Bits!Pad THEN r[m] ELSE Append(r[m], u[k])
    <3>1. r[m] \in Seq(Int)
      BY <2>1
    <3>2. u[k] \in Int
      <4>1. k \in 1..l
        BY <1>2, <2>2
      <4> QED BY <1>l, <4>1
    <3>3. Append(r[m], u[k]) \in Seq(Int)
      BY <3>1, <3>2, AppendProperties
    <3> QED BY <3>1, <3>3
  <2>4. PICK h : h = [i \in 0..k |-> IF i = k THEN y ELSE r[i]]
    OBVIOUS
  <2>5. h \in [0..k -> Seq(Int)]
    <3>1. ASSUME NEW i \in 0..k, i # k PROVE r[i] \in Seq(Int)
      <4>1. i \in 0..m
        BY <2>2, <3>1
      <4> QED BY <2>1, <4>1
    <3> QED BY Zenon, <2>4, <3>1
  <2>6. h[0] = <<>> /\ h[k] = y
    <3>1. 0 \in 0..k /\ k \in 0..k /\ 0 # k
      BY <2>2
    <3> QED BY Zenon, <2>1, <2>4, <3>1
  <2>7. ASSUME NEW i \in 1..k PROVE h[i] = IF u[i] = Bits!Pad THEN h[i - 1] ELSE Append(h[i - 1], u[i])
    <3>1. CASE i = k
      <4>1. i - 1 = m /\ m \in 0..k /\ m # k
        BY <2>2, <3>1
      <4>2. h[i - 1] = r[m]
        BY Zenon, <2>4, <4>1
      <4> QED BY Zenon, <2>3, <2>6, <3>1, <4>2
    <3>2. CASE i # k
      <4>1. i \in 1..m /\ i \in 0..k /\ i - 1 \in 0..k /\ i - 1 # k
        BY <2>2, <3>2
      <4>2. h[i] = r[i] /\ h[i - 1] = r[i - 1]
        BY Zenon, <2>4, <3>2, <4>1
      <4> QED BY Zenon, <2>1, <4>1, <4>2
    <3> QED BY <3>1, <3>2
  <2>8. Has(k)
    BY Zenon, <2>5, <2>6, <2>7
  <2> QED BY Zenon, <2>2, <2>8
<1> HIDE DEF Has
<1>3. Has(l)
  <2> SUFFICES ASSUME ~Has(l) PROVE FALSE
      OBVIOUS
  <2>1. l \in T /\ T \in SUBSET Nat
    OBVIOUS
  <2>2. PICK m \in T : \A k \in T : m <= k
    BY Zenon, <2>1, LeastNatural
  <2>3. m \in 0..l /\ ~Has(m) /\ m # 0
    BY <1>1, <2>2
  <2>4. PICK k \in Nat : m = k + 1
    BY <2>3
  <2>5. k \in 0..l /\ ~(m <= k) /\ k + 1 <= l
    BY <2>3, <2>4
  <2>6. Has(k)
    BY <2>2, <2>5
  <2> QED BY <1>2, <2>3, <2>4, <2>5, <2>6
<1> QED BY Zenon, <1>3, <1>l DEF Has, WrittenRuns

LEMMA WrittenIs == ASSUME NEW u \in Seq(Int) PROVE \E r \in WrittenRuns(u) : Bits!Written(u) = r[Len(u)]
<1> DEFINE Step(f) == [i \in 0..Len(u) |-> IF i = 0 THEN <<>>
                                         ELSE IF u[i] = Bits!Pad THEN f[i - 1] ELSE Append(f[i - 1], u[i])]
<1>l. PICK l \in Nat : l = Len(u)
  OBVIOUS
<1>1. PICK g \in [0..l -> Seq(Int)] :
          /\ g[0] = <<>>
          /\ \A i \in 1..l : g[i] = IF u[i] = Bits!Pad THEN g[i - 1] ELSE Append(g[i - 1], u[i])
  BY Zenon, <1>l, WrittenRunExists DEF WrittenRuns
<1>2. g = Step(g)
  <2>1. ASSUME NEW i \in 0..l, i # 0 PROVE i \in 1..l
    BY <2>1
  <2>2. g = [i \in 0..l |-> g[i]]
    BY Zenon, <1>1
  <2>3. \A i \in 0..l : g[i] = IF i = 0 THEN <<>>
                                ELSE IF u[i] = Bits!Pad THEN g[i - 1] ELSE Append(g[i - 1], u[i])
    BY Zenon, <1>1, <2>1
  <2>4. g = [i \in 0..l |-> IF i = 0 THEN <<>>
                             ELSE IF u[i] = Bits!Pad THEN g[i - 1] ELSE Append(g[i - 1], u[i])]
    BY Zenon, <2>2, <2>3
  <2> QED BY Zenon, <1>l, <2>4
<1>3. PICK run : run = CHOOSE f : f = Step(f)
  OBVIOUS
<1>4. run = Step(run)
  BY Zenon, <1>2, <1>3
<1>5. Bits!Written(u) = run[Len(u)]
  BY Zenon, <1>3 DEF Bits!Written
<1>6. run = [i \in 0..l |-> IF i = 0 THEN <<>>
                             ELSE IF u[i] = Bits!Pad THEN run[i - 1] ELSE Append(run[i - 1], u[i])]
  BY Zenon, <1>4, <1>l
<1> HIDE DEF Step
<1>7. run[0] = <<>>
  <2>1. 0 \in 0..l
    OBVIOUS
  <2> QED BY Zenon, <1>6, <2>1
<1>8. ASSUME NEW i \in 1..l PROVE run[i] = IF u[i] = Bits!Pad THEN run[i - 1] ELSE Append(run[i - 1], u[i])
  <2>1. i \in 0..l /\ i # 0
    OBVIOUS
  <2> QED BY Zenon, <1>6, <2>1
<1> DEFINE T == {i \in 0..l : ~(run[i] \in Seq(Int))}
<1>9. ASSUME NEW i \in 0..l PROVE run[i] \in Seq(Int)
  <2> SUFFICES ASSUME ~(run[i] \in Seq(Int)) PROVE FALSE
      OBVIOUS
  <2>1. i \in T /\ T \in SUBSET Nat
    OBVIOUS
  <2>2. PICK m \in T : \A k \in T : m <= k
    BY Zenon, <2>1, LeastNatural
  <2>3. m \in 0..l /\ ~(run[m] \in Seq(Int)) /\ m # 0
    <3>1. <<>> \in Seq(Int)
      OBVIOUS
    <3> QED BY <1>7, <2>2, <3>1
  <2>4. m \in 1..l /\ m - 1 \in 0..l /\ ~(m <= m - 1)
    BY <2>3
  <2>5. run[m - 1] \in Seq(Int)
    BY <2>2, <2>4
  <2>6. u[m] \in Int
    BY <1>l, <2>4
  <2>7. PICK w \in Seq(Int) : w = run[m - 1]
    BY <2>5
  <2>8. Append(w, u[m]) \in Seq(Int)
    BY <2>6, AppendProperties
  <2> QED BY Zenon, <1>8, <2>3, <2>4, <2>7, <2>8
<1>10. run \in [0..l -> Seq(Int)]
  BY Zenon, <1>6, <1>9
<1>11. run \in WrittenRuns(u)
  BY Zenon, <1>7, <1>8, <1>10, <1>l DEF WrittenRuns
<1> QED BY Zenon, <1>5, <1>11

\* Two sequences that begin alike have runs that begin alike.
LEMMA RunsAgree ==
    ASSUME NEW u \in Seq(Int), NEW v \in Seq(Int), NEW r \in WrittenRuns(u), NEW t \in WrittenRuns(v),
           NEW n \in Nat, n <= Len(u), n <= Len(v), \A i \in 1..n : u[i] = v[i]
    PROVE  r[n] = t[n]
<1> DEFINE T == {i \in 0..n : r[i] # t[i]}
<1>1. r[0] = t[0]
  BY DEF WrittenRuns
<1>2. ASSUME NEW i \in 1..n, r[i - 1] = t[i - 1] PROVE r[i] = t[i]
  <2>1. i \in 1..Len(u) /\ i \in 1..Len(v)
    OBVIOUS
  <2>2. r[i] = (IF u[i] = Bits!Pad THEN r[i - 1] ELSE Append(r[i - 1], u[i]))
    BY Zenon, <2>1 DEF WrittenRuns
  <2>3. t[i] = (IF v[i] = Bits!Pad THEN t[i - 1] ELSE Append(t[i - 1], v[i]))
    BY Zenon, <2>1 DEF WrittenRuns
  <2> QED BY Zenon, <1>2, <2>2, <2>3
<1> SUFFICES ASSUME r[n] # t[n] PROVE FALSE
    OBVIOUS
<1>3. n \in T /\ T \in SUBSET Nat
  OBVIOUS
<1>4. PICK m \in T : \A k \in T : m <= k
  BY Zenon, <1>3, LeastNatural
<1>5. m \in 0..n /\ r[m] # t[m] /\ m # 0
  BY <1>1, <1>4
<1>6. m \in 1..n /\ m - 1 \in 0..n /\ ~(m <= m - 1)
  BY <1>5
<1>7. r[m - 1] = t[m - 1]
  BY <1>4, <1>6
<1> QED BY <1>2, <1>5, <1>6, <1>7

\* A bit more.
LEMMA WrittenAppend ==
    ASSUME NEW u \in Seq(Int), NEW b \in Int, b # Bits!Pad, NEW v, v = Append(u, b)
    PROVE  Bits!Written(v) = Append(Bits!Written(u), b)
<1>1. PICK n \in Nat : n = Len(u)
  OBVIOUS
<1>2. PICK k \in Nat : k = n + 1
  OBVIOUS
<1>3. v \in Seq(Int) /\ Len(v) = k /\ v[k] = b /\ \A i \in 1..n : u[i] = v[i]
  BY <1>1, <1>2, AppendProperties
<1>4. PICK r \in WrittenRuns(u) : Bits!Written(u) = r[n]
  BY Zenon, <1>1, WrittenIs
<1>5. PICK t \in WrittenRuns(v) : Bits!Written(v) = t[k]
  BY Zenon, <1>3, WrittenIs
<1>6. r[n] = t[n]
  <2>1. n <= Len(u) /\ n <= Len(v)
    BY <1>1, <1>2, <1>3
  <2> QED BY <1>3, <2>1, RunsAgree
<1>7. k \in 1..k /\ k - 1 = n
  BY <1>2
<1>8. t[k] = IF v[k] = Bits!Pad THEN t[k - 1] ELSE Append(t[k - 1], v[k])
  BY Zenon, <1>3, <1>7 DEF WrittenRuns
<1> QED BY Zenon, <1>3, <1>4, <1>5, <1>6, <1>7, <1>8

\* Padding more.
LEMMA WrittenPads ==
    ASSUME NEW u \in Seq(Int), NEW v \in Seq(Int), Len(u) <= Len(v), \A i \in 1..Len(u) : u[i] = v[i],
           \A i \in 1..Len(v) : i > Len(u) => v[i] = Bits!Pad
    PROVE  Bits!Written(v) = Bits!Written(u)
<1>1. PICK n \in Nat, m \in Nat : n = Len(u) /\ m = Len(v) /\ n <= m
  OBVIOUS
<1>2. PICK r \in WrittenRuns(u) : Bits!Written(u) = r[n]
  BY Zenon, <1>1, WrittenIs
<1>3. PICK t \in WrittenRuns(v) : Bits!Written(v) = t[m]
  BY Zenon, <1>1, WrittenIs
<1>4. r[n] = t[n]
  <2>1. n <= Len(u) /\ n <= Len(v) /\ \A i \in 1..n : u[i] = v[i]
    BY <1>1
  <2> QED BY <2>1, RunsAgree
<1> DEFINE T == {i \in n..m : t[i] # t[n]}
<1>5. ASSUME NEW i \in n..m, i # n, t[i - 1] = t[n] PROVE t[i] = t[n]
  <2>1. i \in 1..m /\ i > n
    BY <1>5
  <2>2. v[i] = Bits!Pad
    BY Zenon, <1>1, <2>1
  <2>3. t[i] = IF v[i] = Bits!Pad THEN t[i - 1] ELSE Append(t[i - 1], v[i])
    BY Zenon, <1>1, <2>1 DEF WrittenRuns
  <2> QED BY Zenon, <1>5, <2>2, <2>3
<1>6. t[m] = t[n]
  <2> SUFFICES ASSUME t[m] # t[n] PROVE FALSE
      OBVIOUS
  <2>1. m \in T /\ T \in SUBSET Nat
    BY <1>1
  <2>2. PICK e \in T : \A k \in T : e <= k
    BY Zenon, <2>1, LeastNatural
  <2>3. e \in n..m /\ t[e] # t[n] /\ e # n
    BY <2>2
  <2>4. e - 1 \in n..m /\ ~(e <= e - 1)
    BY <2>3
  <2>5. t[e - 1] = t[n]
    BY <2>2, <2>4
  <2> QED BY <1>5, <2>3, <2>5
<1> QED BY Zenon, <1>2, <1>3, <1>4, <1>6

-----------------------------------------------------------------------------
(* The writer                                                              *)

CountTo(n) == [i \in 1..n |-> i]

\* Whole bytes.
Whole(w) == \E k \in Nat : w = k * ByteBits
\* A buffer padded to w bits.
PaddedTo(buf, w) == [i \in 1..w |-> IF i <= Len(buf) THEN buf[i] ELSE Bits!Pad]
\* Padding in the sink only completes a byte.
PadsWhole(sink) ==
    \A i \in 1..Len(sink) - 1 : (sink[i] = Bits!Pad /\ sink[i + 1] # Bits!Pad) => i % ByteBits = 0

\* The sink and the buffer of a writer that has taken "sent" bits.
Ordered(sink, buf, sent) ==
    /\ sink \in Seq(Int) /\ buf \in Seq(Int) /\ sent \in Nat
    /\ Bits!Written(sink \o buf) = CountTo(sent)
    /\ Whole(Len(sink))
    /\ PadsWhole(sink)
    /\ \A i \in 1..Len(buf) : buf[i] # Bits!Pad

\* t is the m elements of a and the n elements of b.
JoinedIs(a, b, m, n, k, t) ==
    /\ t \in Seq(Int) /\ Len(t) = k
    /\ \A i \in 1..m : t[i] = a[i]
    /\ \A i \in 1..k : ~(i <= m) => \E j \in 1..n : i = m + j /\ t[i] = b[j]

LEMMA Joined ==
    ASSUME NEW a \in Seq(Int), NEW b \in Seq(Int), NEW m \in Nat, m = Len(a), NEW n \in Nat, n = Len(b),
           NEW k \in Nat, k = m + n, NEW t, t = a \o b
    PROVE  JoinedIs(a, b, m, n, k, t)
<1>1. t \in Seq(Int) /\ Len(t) = m + n /\ \A i \in 1..(m + n) : t[i] = IF i <= m THEN a[i] ELSE b[i - m]
  BY ConcatProperties
<1>2. ASSUME NEW i \in 1..m PROVE t[i] = a[i]
  <2>1. i \in 1..(m + n) /\ i <= m
    OBVIOUS
  <2> QED BY Zenon, <1>1, <2>1
<1>3. ASSUME NEW i \in 1..k, ~(i <= m) PROVE \E j \in 1..n : i = m + j /\ t[i] = b[j]
  <2>1. i - m \in 1..n /\ i = m + (i - m) /\ i \in 1..(m + n)
    BY <1>3
  <2>2. t[i] = b[i - m]
    BY Zenon, <1>1, <1>3, <2>1
  <2> QED BY Zenon, <2>1, <2>2
<1> QED BY <1>1, <1>2, <1>3 DEF JoinedIs

LEMMA CountOn == ASSUME NEW n \in Nat PROVE Append(CountTo(n), n + 1) = CountTo(n + 1)
<1>1. PICK u : u = CountTo(n)
  OBVIOUS
<1>2. u \in Seq(Int) /\ Len(u) = n /\ \A i \in 1..n : u[i] = i
  BY <1>1 DEF CountTo
<1>3. PICK k \in Nat : k = n + 1
  OBVIOUS
<1>4. PICK v : v = Append(u, k)
  OBVIOUS
<1>5. v \in Seq(Int) /\ Len(v) = k /\ v[k] = k /\ \A i \in 1..n : v[i] = i
  BY <1>2, <1>3, <1>4, AppendProperties
<1>6. PICK w : w = CountTo(k)
  OBVIOUS
<1>7. w \in Seq(Int) /\ Len(w) = k /\ \A i \in 1..k : w[i] = i
  BY <1>6 DEF CountTo
<1>8. \A i \in 1..k : v[i] = w[i]
  <2>1. \A i \in 1..k : i = k \/ i \in 1..n
    BY <1>3
  <2> QED BY <1>5, <1>7, <2>1
<1>9. v = w
  BY <1>5, <1>7, <1>8, SeqEqual
<1> QED BY Zenon, <1>1, <1>3, <1>4, <1>6, <1>9

LEMMA NothingOrdered == ASSUME Bits!Sane PROVE Ordered(<<>>, <<>>, 0)
<1>1. PICK e : e = <<>>
  OBVIOUS
<1>2. e \in Seq(Int) /\ Len(e) = 0 /\ e \o e = e
  BY <1>1
<1>3. PICK r \in WrittenRuns(e) : Bits!Written(e) = r[Len(e)]
  BY Zenon, <1>2, WrittenIs
<1>4. Bits!Written(e) = e
  BY Zenon, <1>1, <1>2, <1>3 DEF WrittenRuns
<1>5. CountTo(0) = e
  BY <1>1 DEF CountTo
<1>6. PadsWhole(e) /\ \A i \in 1..Len(e) : e[i] # Bits!Pad
  <2>1. \A i \in 1..Len(e) - 1 : FALSE
    BY <1>2
  <2>2. \A i \in 1..Len(e) : FALSE
    BY <1>2
  <2> QED BY Zenon, <2>1, <2>2 DEF PadsWhole
<1>7. Whole(Len(e))
  <2>1. PICK C \in Nat, z \in Nat : C = ByteBits /\ z = 0
    BY BitConstants
  <2>2. 0 = z * C
    BY <2>1
  <2> QED BY <1>2, <2>1, <2>2 DEF Whole
<1> QED BY Zenon, <1>1, <1>2, <1>4, <1>5, <1>6, <1>7 DEF Ordered

\* A bit that enters the buffer.
LEMMA OneMore ==
    ASSUME NEW sink, NEW buf, NEW sent, Ordered(sink, buf, sent), NEW b, b = sent + 1, NEW t, t = Append(buf, b)
    PROVE  Ordered(sink, t, b) /\ t \in Seq(Int) /\ b \in Nat
<1>1. sink \in Seq(Int) /\ buf \in Seq(Int) /\ sent \in Nat
  BY Zenon DEF Ordered
<1>2. b \in Int /\ b \in Nat /\ b # Bits!Pad
  BY <1>1 DEF Bits!Pad
<1>3. PICK n \in Nat : n = Len(buf)
  BY <1>1
<1>4. t \in Seq(Int) /\ Len(t) = n + 1 /\ t[n + 1] = b /\ \A i \in 1..n : t[i] = buf[i]
  BY <1>1, <1>2, <1>3, AppendProperties
<1>5. PICK u : u = sink \o buf
  OBVIOUS
<1>6. PICK v : v = Append(u, b)
  OBVIOUS
<1>7. u \in Seq(Int)
  BY <1>1, <1>5, ConcatProperties
<1>8. v = sink \o t
  <2>1. PICK m \in Nat, k \in Nat, e \in Nat, o \in Nat : m = Len(sink) /\ k = m + n /\ e = k + 1 /\ o = n + 1
    BY <1>1
  <2>2. /\ Len(u) = k
        /\ \A i \in 1..m : u[i] = sink[i]
        /\ \A i \in 1..k : ~(i <= m) => \E j \in 1..n : i = m + j /\ u[i] = buf[j]
    <3>1. JoinedIs(sink, buf, m, n, k, u)
      BY Zenon, <1>1, <1>3, <1>5, <2>1, Joined
    <3> QED BY Zenon, <3>1 DEF JoinedIs
  <2>3. v \in Seq(Int) /\ Len(v) = e /\ v[e] = b /\ \A i \in 1..k : v[i] = u[i]
    BY <1>2, <1>6, <1>7, <2>1, <2>2, AppendProperties
  <2>4. PICK w : w = sink \o t
    OBVIOUS
  <2>5. /\ w \in Seq(Int) /\ Len(w) = e
        /\ \A i \in 1..m : w[i] = sink[i]
        /\ \A i \in 1..e : ~(i <= m) => \E j \in 1..o : i = m + j /\ w[i] = t[j]
    <3>1. e = m + o /\ o = Len(t)
      BY <1>4, <2>1
    <3>2. JoinedIs(sink, t, m, o, e, w)
      BY Zenon, <1>1, <1>4, <2>1, <2>4, <3>1, Joined
    <3> QED BY Zenon, <3>2 DEF JoinedIs
  <2>6. ASSUME NEW i \in 1..e PROVE v[i] = w[i]
    <3>1. CASE i <= m
      <4>1. i \in 1..m /\ i \in 1..k
        BY <2>1, <3>1
      <4> QED BY Zenon, <2>2, <2>3, <2>5, <4>1
    <3>2. CASE ~(i <= m)
      <4>1. PICK j \in 1..o : i = m + j /\ w[i] = t[j]
        BY Zenon, <2>5, <3>2
      <4>2. CASE j = o
        <5>1. i = e /\ j = n + 1
          BY <2>1, <4>1, <4>2
        <5> QED BY Zenon, <1>4, <2>3, <4>1, <5>1
      <4>3. CASE j # o
        <5>1. j \in 1..n /\ i \in 1..k
          BY <2>1, <4>1, <4>3
        <5>2. PICK h \in 1..n : i = m + h /\ u[i] = buf[h]
          BY Zenon, <2>2, <3>2, <5>1
        <5>3. h = j
          BY <4>1, <5>2
        <5> QED BY Zenon, <1>4, <2>3, <4>1, <5>1, <5>2, <5>3
      <4> QED BY <4>2, <4>3
    <3> QED BY <3>1, <3>2
  <2>7. v = w
    BY <2>3, <2>5, <2>6, SeqEqual
  <2> QED BY <2>4, <2>7
<1>9. Bits!Written(v) = CountTo(b)
  <2>1. Bits!Written(v) = Append(Bits!Written(u), b)
    BY Zenon, <1>2, <1>6, <1>7, WrittenAppend
  <2>2. Bits!Written(u) = CountTo(sent)
    BY Zenon, <1>5 DEF Ordered
  <2>3. Append(CountTo(sent), sent + 1) = CountTo(sent + 1)
    BY <1>1, CountOn
  <2> QED BY Zenon, <2>1, <2>2, <2>3
<1>10. \A i \in 1..Len(t) : t[i] # Bits!Pad
  <2>1. \A i \in 1..(n + 1) : i = n + 1 \/ i \in 1..n
    OBVIOUS
  <2>2. \A i \in 1..n : buf[i] # Bits!Pad
    BY Zenon, <1>3 DEF Ordered
  <2> QED BY <1>2, <1>4, <2>1, <2>2
<1> QED BY Zenon, <1>1, <1>2, <1>4, <1>8, <1>9, <1>10 DEF Ordered

\* A buffer that is written: whole bytes, the last one padded.
LEMMA WholeFlush ==
    ASSUME Bits!Sane, NEW sink, NEW buf, NEW sent, Ordered(sink, buf, sent), NEW w \in Nat, Whole(w), Len(buf) <= w,
           NEW p, p = PaddedTo(buf, w), NEW t, t = sink \o p
    PROVE  Ordered(t, <<>>, sent) /\ t \in Seq(Int)
<1>1. sink \in Seq(Int) /\ buf \in Seq(Int) /\ sent \in Nat /\ \A i \in 1..Len(buf) : buf[i] # Bits!Pad
  BY Zenon DEF Ordered
<1>2. PICK n \in Nat, m \in Nat : n = Len(buf) /\ m = Len(sink) /\ n <= w
  BY <1>1
<1>3. PICK a \in Nat, b \in Nat : a = m + n /\ b = m + w /\ a <= b
  <2>1. m + n \in Nat /\ m + w \in Nat /\ m + n <= m + w
    BY <1>2
  <2> QED BY <2>1
<1>4. p = [i \in 1..w |-> IF i <= n THEN buf[i] ELSE Bits!Pad]
  BY Zenon, <1>2 DEF PaddedTo
<1>5. p \in Seq(Int) /\ Len(p) = w
  <2>1. ASSUME NEW i \in 1..w PROVE (IF i <= n THEN buf[i] ELSE Bits!Pad) \in Int
    <3>1. CASE i <= n
      BY <1>1, <1>2, <3>1
    <3>2. CASE ~(i <= n)
      BY <3>2 DEF Bits!Pad
    <3> QED BY <3>1, <3>2
  <2>2. p \in [1..w -> Int]
    BY Zenon, <1>4, <2>1
  <2>3. PICK f : f = p
    OBVIOUS
  <2>4. f \in [1..w -> Int]
    BY Zenon, <2>2, <2>3
  <2>5. f \in Seq(Int) /\ Len(f) = w
    <3> HIDE <1>4
    <3> QED BY <2>4
  <2> QED BY Zenon, <2>3, <2>5
<1>6. /\ \A i \in 1..n : p[i] = buf[i]
      /\ \A i \in 1..w : i > n => p[i] = Bits!Pad
  <2>1. \A i \in 1..n : i \in 1..w /\ i <= n
    BY <1>2
  <2>2. \A i \in 1..w : i > n => ~(i <= n)
    BY <1>2
  <2> QED BY Zenon, <1>4, <2>1, <2>2
<1>7. /\ t \in Seq(Int) /\ Len(t) = b
      /\ \A i \in 1..m : t[i] = sink[i]
      /\ \A i \in 1..b : ~(i <= m) => \E j \in 1..w : i = m + j /\ t[i] = p[j]
  <2>1. JoinedIs(sink, p, m, w, b, t)
    BY Zenon, <1>1, <1>2, <1>3, <1>5, Joined
  <2> QED BY Zenon, <2>1 DEF JoinedIs
<1>8. PICK u : u = sink \o buf
  OBVIOUS
<1>9. /\ u \in Seq(Int) /\ Len(u) = a
      /\ \A i \in 1..m : u[i] = sink[i]
      /\ \A i \in 1..a : ~(i <= m) => \E j \in 1..n : i = m + j /\ u[i] = buf[j]
  <2>1. JoinedIs(sink, buf, m, n, a, u)
    BY Zenon, <1>1, <1>2, <1>3, <1>8, Joined
  <2> QED BY Zenon, <2>1 DEF JoinedIs
<1>10. Bits!Written(t) = CountTo(sent)
  <2>1. ASSUME NEW i \in 1..a PROVE u[i] = t[i]
    <3>1. CASE i <= m
      <4>1. i \in 1..m
        BY <3>1
      <4> QED BY Zenon, <1>7, <1>9, <4>1
    <3>2. CASE ~(i <= m)
      <4>1. PICK j \in 1..n : i = m + j /\ u[i] = buf[j]
        BY Zenon, <1>9, <3>2
      <4>2. i \in 1..b
        BY <1>3
      <4>3. PICK h \in 1..w : i = m + h /\ t[i] = p[h]
        BY Zenon, <1>7, <3>2, <4>2
      <4>4. h = j
        BY <4>1, <4>3
      <4> QED BY Zenon, <1>6, <4>1, <4>3, <4>4
    <3> QED BY <3>1, <3>2
  <2>2. ASSUME NEW i \in 1..b, i > a PROVE t[i] = Bits!Pad
    <3>1. ~(i <= m)
      BY <1>3, <2>2
    <3>2. PICK h \in 1..w : i = m + h /\ t[i] = p[h]
      BY Zenon, <1>7, <3>1
    <3>3. h > n
      BY <1>3, <2>2, <3>2
    <3> QED BY Zenon, <1>6, <3>2, <3>3
  <2>3. Len(u) <= Len(t) /\ \A i \in 1..Len(u) : u[i] = t[i]
    BY <1>3, <1>7, <1>9, <2>1
  <2>4. \A i \in 1..Len(t) : i > Len(u) => t[i] = Bits!Pad
    BY Zenon, <1>7, <1>9, <2>2
  <2>5. Bits!Written(t) = Bits!Written(u)
    BY Zenon, <1>7, <1>9, <2>3, <2>4, WrittenPads
  <2> QED BY Zenon, <1>8, <2>5 DEF Ordered
<1>11. Whole(b)
  <2>1. PICK k \in Nat : m = k * ByteBits
    BY Zenon, <1>2 DEF Ordered, Whole
  <2>2. PICK c \in Nat : w = c * ByteBits
    BY Zenon DEF Whole
  <2>3. PICK C \in Nat : C = ByteBits
    BY BitConstants
  <2>4. PICK e \in Nat : e = k + c
    OBVIOUS
  <2>5. e * C = k * C + c * C
    BY <2>4
  <2>6. k * C = m /\ c * C = w
    BY Zenon, <2>1, <2>2, <2>3
  <2>7. b = e * C
    BY <1>3, <2>5, <2>6
  <2> QED BY Zenon, <2>3, <2>7 DEF Whole
<1>12. PadsWhole(t)
  <2> SUFFICES ASSUME NEW i \in 1..b - 1, t[i] = Bits!Pad, t[i + 1] # Bits!Pad PROVE i % ByteBits = 0
    <3>1. PadsWhole(t) <=> \A i \in 1..b - 1 : (t[i] = Bits!Pad /\ t[i + 1] # Bits!Pad) => i % ByteBits = 0
      BY Zenon, <1>7 DEF PadsWhole
    <3> QED BY Zenon, <3>1
  <2>0. PICK s \in 1..b : s = i + 1
    <3>1. i + 1 \in 1..b
      OBVIOUS
    <3> QED BY <3>1
  <2>1. CASE i < m
    <3>1. i \in 1..m - 1 /\ i \in 1..m /\ s \in 1..m
      BY <2>0, <2>1
    <3>2. t[i] = sink[i] /\ t[s] = sink[s]
      BY Zenon, <1>7, <3>1
    <3> QED BY Zenon, <1>2, <2>0, <3>1, <3>2 DEF Ordered, PadsWhole
  <2>2. CASE i = m
    <3>1. PICK k \in Nat : m = k * ByteBits
      BY Zenon, <1>2 DEF Ordered, Whole
    <3>2. PICK C \in Nat \ {0} : C = ByteBits
      BY BitConstants
    <3>3. PICK z \in 0..C - 1 : z = 0
      BY <3>2
    <3>4. PICK x \in Int : x = k
      OBVIOUS
    <3>5. (C * x + z) % C = z
      BY RemainderIs
    <3>6. i = C * x + z
      <4>1. i = k * C
        BY Zenon, <2>2, <3>1, <3>2
      <4>2. k * C = C * x
        BY <3>4
      <4> QED BY <3>3, <4>1, <4>2
    <3>7. i % C = 0
      BY Zenon, <3>3, <3>5, <3>6
    <3> QED BY Zenon, <3>2, <3>7
  <2>3. CASE i > m
    <3>1. i \in 1..b /\ ~(i <= m) /\ ~(s <= m)
      BY <2>0, <2>3
    <3>2. PICK j \in 1..w : i = m + j /\ t[i] = p[j]
      BY Zenon, <1>7, <3>1
    <3>3. PICK h \in 1..w : s = m + h /\ t[s] = p[h]
      BY Zenon, <1>7, <3>1
    <3>4. h = j + 1
      BY <2>0, <3>2, <3>3
    <3>5. j > n
      <4> SUFFICES ASSUME ~(j > n) PROVE FALSE
          OBVIOUS
      <4>1. j \in 1..n
        BY <1>2
      <4> QED BY Zenon, <1>1, <1>2, <1>6, <3>2, <4>1
    <3>6. h > n
      BY <3>4, <3>5
    <3> QED BY Zenon, <1>6, <2>0, <3>3, <3>6
  <2> QED BY <2>1, <2>2, <2>3
<1>13. PICK e : e = <<>>
  OBVIOUS
<1>14. e \in Seq(Int) /\ t \o e = t /\ \A i \in 1..Len(e) : e[i] # Bits!Pad
  <2>1. Len(e) = 0 /\ e \in Seq(Int)
    BY <1>13
  <2>2. \A i \in 1..Len(e) : FALSE
    BY <2>1
  <2>3. t \o e = t
    BY <1>7, <1>13
  <2> QED BY Zenon, <2>1, <2>2, <2>3
<1> QED BY Zenon, <1>1, <1>7, <1>10, <1>11, <1>12, <1>13, <1>14 DEF Ordered

WriteTypes == [buf : Seq(Int), sink : Seq(Int), sent : Nat, bad : BOOLEAN, torn : BOOLEAN]

\* The states of a write: while the buffer is not torn, the sink and the buffer hold
\* what has been taken.
WriteStates == {s \in WriteTypes : ~s.torn => Ordered(s.sink, s.buf, s.sent)}

\* The bytes of a buffer of n bits.
LEMMA BytesOf ==
    ASSUME Bits!Sane, NEW n \in Nat, NEW c, c = (n + ByteBits - 1) \div ByteBits
    PROVE  c \in Nat /\ \E w \in Nat : w = c * ByteBits /\ Whole(w) /\ n <= w
<1>1. PICK C \in Nat : C = ByteBits /\ C > 0
  BY BitConstants
<1>2. PICK x \in Nat : x = n + C - 1
  <2>1. n + C - 1 \in Nat
    BY <1>1
  <2> QED BY <2>1
<1>3. x \div C \in Nat /\ x % C \in 0..C - 1 /\ x = (x \div C) * C + (x % C)
  BY <1>1, Quotient
<1>4. c = x \div C
  BY <1>1, <1>2
<1>5. PICK w \in Nat : w = c * C
  BY <1>1, <1>3, <1>4, Product
<1>6. PICK r \in 0..C - 1 : r = x % C
  BY <1>3
<1>7. x = w + r
  BY Zenon, <1>3, <1>4, <1>5, <1>6
<1>8. n <= w
  BY <1>1, <1>2, <1>6, <1>7
<1>9. c \in Nat /\ w = c * ByteBits
  BY Zenon, <1>1, <1>3, <1>4, <1>5
<1>10. Whole(w)
  BY Zenon, <1>9 DEF Whole
<1> QED BY Zenon, <1>8, <1>9, <1>10

LEMMA PaddedIsSeq == ASSUME NEW buf \in Seq(Int), NEW w \in Nat PROVE PaddedTo(buf, w) \in Seq(Int) /\ Len(PaddedTo(buf, w)) = w
<1>1. PICK n \in Nat : n = Len(buf)
  OBVIOUS
<1>2. ASSUME NEW i \in 1..w PROVE (IF i <= n THEN buf[i] ELSE Bits!Pad) \in Int
  <2>1. CASE i <= n
    BY <1>1, <2>1
  <2>2. CASE ~(i <= n)
    BY <2>2 DEF Bits!Pad
  <2> QED BY <2>1, <2>2
<1>3. PICK f : f = PaddedTo(buf, w)
  OBVIOUS
<1>4. f \in [1..w -> Int]
  BY Zenon, <1>1, <1>2, <1>3 DEF PaddedTo
<1>5. f \in Seq(Int) /\ Len(f) = w
  BY <1>4
<1> QED BY Zenon, <1>3, <1>5

\* do_flush_buffer(): all of the buffer, padded, or nothing, or a part.
Flushed(s, f) ==
    \/ \E w \in Nat, t \in Seq(Int) : /\ Whole(w) /\ Len(s.buf) <= w /\ t = s.sink \o PaddedTo(s.buf, w)
                                      /\ f = [s EXCEPT !.sink = t, !.buf = <<>>]
    \/ f = s
    \/ f = [s EXCEPT !.bad = TRUE]
    \/ \E t \in Seq(Int) : f = [s EXCEPT !.sink = t, !.bad = TRUE, !.torn = TRUE]
LEMMA FlushIs ==
    ASSUME Bits!Sane, NEW s \in WriteTypes, NEW takes \in Bits!Answers, NEW f, f = Bits!do_flush_buffer(s, takes)
    PROVE  Flushed(s, f)
<1>0. takes \in Int /\ takes >= -1
  BY DEF Bits!Answers
<1>1. s.buf \in Seq(Int) /\ s.sink \in Seq(Int)
  BY DEF WriteTypes
<1>2. PICK n \in Nat : n = Len(s.buf)
  BY <1>1
<1>3. PICK c : c = (n + ByteBits - 1) \div ByteBits
  OBVIOUS
<1>4. c \in Nat /\ \E w \in Nat : w = c * ByteBits /\ Whole(w) /\ n <= w
  BY Zenon, <1>3, BytesOf
<1>5. PICK w \in Nat : w = c * ByteBits /\ Whole(w) /\ n <= w
  BY Zenon, <1>4
<1>6. PICK p : p = PaddedTo(s.buf, w)
  OBVIOUS
<1>7. p \in Seq(Int) /\ Len(p) = w
  BY Zenon, <1>1, <1>6, PaddedIsSeq
<1>8. f = CASE c = 0 \/ c <= takes -> [s EXCEPT !.sink = @ \o p, !.buf = <<>>]
            [] c > takes /\ takes = 0 -> s
            [] c > takes /\ takes > 0 -> [s EXCEPT !.sink = @ \o SubSeq(p, 1, takes * ByteBits), !.bad = TRUE, !.torn = TRUE]
            [] OTHER -> [s EXCEPT !.bad = TRUE]
  BY Zenon, <1>2, <1>3, <1>5, <1>6 DEF Bits!do_flush_buffer, PaddedTo
<1>9. CASE c = 0 \/ c <= takes
  <2>0. ~(c > takes /\ takes > 0) /\ ((c > takes /\ takes = 0) => c = 0)
    BY <1>0, <1>4, <1>9
  <2>1. f = [s EXCEPT !.sink = @ \o p, !.buf = <<>>] \/ f = s
    <3>1. CASE c > takes /\ takes = 0
      BY <1>8, <1>9, <2>0, <3>1
    <3>2. CASE ~(c > takes /\ takes = 0)
      BY <1>8, <1>9, <2>0, <3>2
    <3> QED BY <3>1, <3>2
  <2>2. s.sink \o p \in Seq(Int)
    BY <1>1, <1>7, ConcatProperties
  <2> QED BY Zenon, <1>2, <1>5, <1>6, <2>1, <2>2 DEF Flushed
<1>10. CASE ~(c = 0 \/ c <= takes) /\ takes = 0
  <2>1. c > takes /\ takes = 0 /\ ~(takes > 0)
    BY <1>0, <1>4, <1>10
  <2>2. f = s
    BY Zenon, <1>8, <1>10, <2>1
  <2> QED BY Zenon, <2>2 DEF Flushed
<1>11. CASE ~(c = 0 \/ c <= takes) /\ takes < 0
  <2>1. ~(c > takes /\ takes = 0) /\ ~(c > takes /\ takes > 0)
    BY <1>0, <1>11
  <2>2. f = [s EXCEPT !.bad = TRUE]
    BY Zenon, <1>8, <1>11, <2>1
  <2> QED BY Zenon, <2>2 DEF Flushed
<1>12. CASE ~(c = 0 \/ c <= takes) /\ takes > 0
  <2>1. f = [s EXCEPT !.sink = @ \o SubSeq(p, 1, takes * ByteBits), !.bad = TRUE, !.torn = TRUE]
    <3>1. ~(c > takes /\ takes = 0) /\ c > takes /\ takes > 0
      BY <1>0, <1>4, <1>12
    <3> QED BY Zenon, <1>8, <1>12, <3>1
  <2>n. takes \in Nat
    BY <1>0, <1>12
  <2>2. PICK v \in Nat : v = takes * ByteBits
    BY <2>n, BitConstants, Product
  <2>3. v <= w
    <3>1. takes <= c
      BY <1>0, <1>4, <1>12
    <3>2. PICK C \in Nat : C = ByteBits
      BY BitConstants
    <3>3. takes * C <= c * C
      BY <1>4, <2>n, <3>1, ProductOrder
    <3> QED BY Zenon, <1>5, <2>2, <3>2, <3>3
  <2>4. SubSeq(p, 1, v) \in Seq(Int)
    <3>1. \A i \in 1..v : p[i] \in Int
      BY <1>7, <2>3
    <3> QED BY <3>1, SubSeqProperties
  <2>5. PICK t \in Seq(Int) : t = s.sink \o SubSeq(p, 1, v)
    BY <1>1, <2>4, ConcatProperties
  <2>6. f = [s EXCEPT !.sink = t, !.bad = TRUE, !.torn = TRUE]
    BY Zenon, <2>1, <2>2, <2>5
  <2> QED BY Zenon, <2>6 DEF Flushed
<1>13. takes = 0 \/ takes < 0 \/ takes > 0
  BY <1>0
<1> QED BY Zenon, <1>9, <1>10, <1>11, <1>12, <1>13

LEMMA FlushTypes ==
    ASSUME NEW s \in WriteTypes, NEW f, Flushed(s, f)
    PROVE  f \in WriteTypes /\ f.sent = s.sent
<1>1. CASE \E w \in Nat, t \in Seq(Int) : /\ Whole(w) /\ Len(s.buf) <= w /\ t = s.sink \o PaddedTo(s.buf, w)
                                          /\ f = [s EXCEPT !.sink = t, !.buf = <<>>]
  <2>1. PICK t \in Seq(Int), e \in Seq(Int) : f = [s EXCEPT !.sink = t, !.buf = e]
    <3>1. <<>> \in Seq(Int)
      OBVIOUS
    <3> QED BY Zenon, <1>1, <3>1
  <2> QED BY <2>1 DEF WriteTypes
<1>2. CASE f = [s EXCEPT !.bad = TRUE]
  BY <1>2 DEF WriteTypes
<1>3. CASE \E t \in Seq(Int) : f = [s EXCEPT !.sink = t, !.bad = TRUE, !.torn = TRUE]
  <2>1. PICK t \in Seq(Int) : f = [s EXCEPT !.sink = t, !.bad = TRUE, !.torn = TRUE]
    BY Zenon, <1>3
  <2> QED BY <2>1 DEF WriteTypes
<1> QED BY Zenon, <1>1, <1>2, <1>3 DEF Flushed

LEMMA FlushKeepsOrder ==
    ASSUME Bits!Sane, NEW s \in WriteStates, ~s.torn, NEW takes \in Bits!Answers, NEW f, f = Bits!do_flush_buffer(s, takes)
    PROVE  f \in WriteStates /\ f.sent = s.sent
<1>1. s \in WriteTypes /\ Ordered(s.sink, s.buf, s.sent)
  BY Zenon DEF WriteStates
<1>2. Flushed(s, f)
  BY Zenon, <1>1, FlushIs
<1>3. f \in WriteTypes /\ f.sent = s.sent
  BY Zenon, <1>1, <1>2, FlushTypes
<1>4. CASE \E w \in Nat, t \in Seq(Int) : /\ Whole(w) /\ Len(s.buf) <= w /\ t = s.sink \o PaddedTo(s.buf, w)
                                          /\ f = [s EXCEPT !.sink = t, !.buf = <<>>]
  <2>1. PICK w \in Nat, t \in Seq(Int) : /\ Whole(w) /\ Len(s.buf) <= w /\ t = s.sink \o PaddedTo(s.buf, w)
                                         /\ f = [s EXCEPT !.sink = t, !.buf = <<>>]
    BY Zenon, <1>4
  <2>2. Ordered(t, <<>>, s.sent)
    BY Zenon, <1>1, <2>1, WholeFlush
  <2>e. PICK e \in Seq(Int) : e = <<>>
    <3>1. <<>> \in Seq(Int)
      OBVIOUS
    <3> QED BY Zenon, <3>1
  <2>f. f = [s EXCEPT !.sink = t, !.buf = e]
    BY Zenon, <2>1, <2>e
  <2>3. f.sink = t /\ f.buf = e
    BY <1>1, <2>f DEF WriteTypes
  <2> QED BY Zenon, <1>1, <1>3, <2>2, <2>e, <2>3 DEF WriteStates
<1>5. CASE f = s
  BY Zenon, <1>5
<1>6. CASE f = [s EXCEPT !.bad = TRUE]
  <2>1. f.sink = s.sink /\ f.buf = s.buf
    BY <1>1, <1>6 DEF WriteTypes
  <2> QED BY Zenon, <1>1, <1>3, <2>1 DEF WriteStates
<1>7. CASE \E t \in Seq(Int) : f = [s EXCEPT !.sink = t, !.bad = TRUE, !.torn = TRUE]
  <2>1. PICK t \in Seq(Int) : f = [s EXCEPT !.sink = t, !.bad = TRUE, !.torn = TRUE]
    BY Zenon, <1>7
  <2>2. f.torn
    BY <1>1, <2>1 DEF WriteTypes
  <2> QED BY Zenon, <1>3, <2>2 DEF WriteStates
<1> QED BY Zenon, <1>2, <1>4, <1>5, <1>6, <1>7 DEF Flushed

\* writev(), a bit.
LEMMA PutBitHolds ==
    ASSUME Bits!Sane, NEW s \in WriteStates, NEW takes \in Bits!Answers, NEW u, u = Bits!PutBit(s, takes)
    PROVE  u \in WriteStates
<1>1. PICK f : f = IF ~Bits!Stopped(s) /\ Len(s.buf) >= Bits!WordBits THEN Bits!do_flush_buffer(s, takes) ELSE s
  OBVIOUS
<1>2. u = CASE Bits!Stopped(f) -> f
            [] ~Bits!Stopped(f) /\ Len(f.buf) >= Bits!WordBits -> [f EXCEPT !.torn = TRUE]
            [] OTHER -> [f EXCEPT !.buf = Append(@, s.sent + 1), !.sent = @ + 1]
  BY Zenon, <1>1 DEF Bits!PutBit
<1>3. f \in WriteStates /\ f.sent = s.sent
  <2>1. CASE ~Bits!Stopped(s) /\ Len(s.buf) >= Bits!WordBits
    <3>1. f = Bits!do_flush_buffer(s, takes) /\ ~s.torn
      BY Zenon, <1>1, <2>1 DEF Bits!Stopped
    <3> QED BY Zenon, <3>1, FlushKeepsOrder
  <2>2. CASE ~(~Bits!Stopped(s) /\ Len(s.buf) >= Bits!WordBits)
    BY Zenon, <1>1, <2>2
  <2> QED BY <2>1, <2>2
<1>4. CASE Bits!Stopped(f)
  BY Zenon, <1>2, <1>3, <1>4
<1>5. CASE ~Bits!Stopped(f) /\ Len(f.buf) >= Bits!WordBits
  <2>1. u = [f EXCEPT !.torn = TRUE]
    BY Zenon, <1>2, <1>5
  <2>2. f \in WriteTypes
    BY Zenon, <1>3 DEF WriteStates
  <2>3. u \in WriteTypes /\ u.torn
    BY <2>1, <2>2 DEF WriteTypes
  <2> QED BY Zenon, <2>3 DEF WriteStates
<1>6. CASE ~Bits!Stopped(f) /\ ~(Len(f.buf) >= Bits!WordBits)
  <2>1. f \in WriteTypes /\ ~f.torn /\ Ordered(f.sink, f.buf, f.sent)
    BY Zenon, <1>3, <1>6 DEF WriteStates, Bits!Stopped
  <2>2. PICK b : b = f.sent + 1
    OBVIOUS
  <2>3. PICK t : t = Append(f.buf, b)
    OBVIOUS
  <2>4. Ordered(f.sink, t, b) /\ t \in Seq(Int) /\ b \in Nat
    BY Zenon, <2>1, <2>2, <2>3, OneMore
  <2>5. u = [f EXCEPT !.buf = t, !.sent = b]
    BY Zenon, <1>2, <1>3, <1>6, <2>2, <2>3
  <2>6. u \in WriteTypes /\ u.buf = t /\ u.sent = b /\ u.sink = f.sink /\ u.torn = f.torn
    BY <2>1, <2>4, <2>5 DEF WriteTypes
  <2> QED BY Zenon, <2>1, <2>4, <2>6 DEF WriteStates
<1> QED BY Zenon, <1>4, <1>5, <1>6

LEMMA WritevHolds ==
    ASSUME Bits!Sane, NEW start, start = Bits!OutState, start \in WriteStates,
           NEW n \in Nat, NEW takes \in Bits!Answers, NEW t, t = Bits!writev(n, takes)
    PROVE  t \in WriteStates
<1> DEFINE Step(f) == [i \in 0..n |-> IF i = 0 THEN start ELSE Bits!PutBit(f[i - 1], takes)]
<1>1. \E f : f = Step(f)
  <2>1. PICK S : S = WriteStates
    OBVIOUS
  <2>2. PICK F : F = [s \in S |-> Bits!PutBit(s, takes)]
    OBVIOUS
  <2>3. \A s \in S : Bits!PutBit(s, takes) \in S
    BY <2>1, PutBitHolds
  <2>4. F \in [S -> S]
    BY Zenon, <2>2, <2>3
  <2>5. PICK g \in [0..n -> S] : g[0] = start /\ \A i \in 1..n : g[i] = F[g[i - 1]]
    <3>1. start \in S
      BY <2>1
    <3>2. IteratesOf(S, F, start, n) # {}
      BY Zenon, <2>4, <3>1, Iterates
    <3> QED BY Zenon, <3>2 DEF IteratesOf
  <2>6. ASSUME NEW i \in 0..n, i # 0 PROVE g[i] = Bits!PutBit(g[i - 1], takes)
    <3>1. i \in 1..n /\ i - 1 \in 0..n
      BY <2>6
    <3> QED BY Zenon, <2>2, <2>5, <3>1
  <2>7. g = [i \in 0..n |-> g[i]]
    OBVIOUS
  <2>8. g = Step(g)
    BY <2>5, <2>6, <2>7
  <2> QED BY Zenon, <2>8
<1>2. PICK run : run = Step(run) /\ t = run[n]
  <2>1. PICK run : run = CHOOSE f : f = Step(f)
    OBVIOUS
  <2>2. run = Step(run)
    BY Zenon, <1>1, <2>1
  <2>3. t = run[n]
    BY Zenon, <2>1 DEF Bits!writev
  <2> QED BY Zenon, <2>2, <2>3
<1>3. run[0] = start
  BY <1>2
<1>4. ASSUME NEW i \in 1..n PROVE run[i] = Bits!PutBit(run[i - 1], takes)
  BY <1>2
<1> HIDE DEF Step
<1> DEFINE T == {i \in 0..n : run[i] \notin WriteStates}
<1>5. run[n] \in WriteStates
  <2> SUFFICES ASSUME run[n] \notin WriteStates PROVE FALSE
    OBVIOUS
  <2>1. n \in T /\ T \in SUBSET Nat
    OBVIOUS
  <2>2. PICK m \in T : \A k \in T : m <= k
    BY Zenon, <2>1, LeastNatural
  <2>3. m \in 0..n /\ run[m] \notin WriteStates
    OBVIOUS
  <2>4. m # 0
    BY <1>3, <2>3
  <2>5. m \in 1..n /\ m - 1 \in 0..n /\ ~(m <= m - 1)
    BY <2>3, <2>4
  <2>6. run[m - 1] \in WriteStates
    BY <2>2, <2>5
  <2>7. run[m] = Bits!PutBit(run[m - 1], takes)
    BY <1>4, <2>5
  <2> QED BY Zenon, <2>3, <2>6, <2>7, PutBitHolds
<1> QED BY Zenon, <1>2, <1>5

-----------------------------------------------------------------------------
\* Both sides.
WriterInv ==
    /\ ~abs.torn => Ordered(env.sink, obj.out, abs.sent)
    /\ obj.open = "in" => obj.out = <<>>
    /\ obj.open = "out" => env.at = 0 /\ abs.seen = 0
BitInv == BitTypes /\ WriterInv /\ ReaderInv

LEMMA OutStateIs ==
    ASSUME BitTypes
    PROVE  /\ Bits!OutState \in WriteTypes /\ ~Bits!OutState.torn /\ Bits!OutState.sent = abs.sent
           /\ (WriterInv /\ ~abs.torn => Bits!OutState \in WriteStates)
<1>1. obj.out \in Seq(Int) /\ env.sink \in Seq(Int) /\ abs.sent \in Nat
  BY DEF BitTypes
<1>2. PICK s : s = Bits!OutState
  OBVIOUS
<1>3. s = [buf |-> obj.out, sink |-> env.sink, sent |-> abs.sent, bad |-> FALSE, torn |-> FALSE]
  BY <1>2 DEF Bits!OutState
<1>4. PICK b \in Seq(Int), k \in Seq(Int), n \in Nat : b = obj.out /\ k = env.sink /\ n = abs.sent
  BY <1>1
<1>5. s = [buf |-> b, sink |-> k, sent |-> n, bad |-> FALSE, torn |-> FALSE]
  BY Zenon, <1>3, <1>4
<1>6. s \in WriteTypes /\ ~s.bad /\ ~s.torn /\ s.buf = b /\ s.sink = k /\ s.sent = n
  BY <1>5 DEF WriteTypes
<1>7. WriterInv /\ ~abs.torn => s \in WriteStates
  BY Zenon, <1>4, <1>6 DEF WriterInv, WriteStates
<1> QED BY Zenon, <1>2, <1>4, <1>6, <1>7

\* What a call of the writer leaves behind.
LEMMA OutDoneKeeps ==
    ASSUME BitInv, obj.open = "out", ~abs.torn, NEW s \in WriteTypes, ~s.torn => Ordered(s.sink, s.buf, s.sent),
           NEW op, NEW res, Bits!OutDone(op, s, res)
    PROVE  BitInv'
<1>1. s.buf \in Seq(Int) /\ s.sink \in Seq(Int) /\ s.sent \in Nat /\ s.torn \in BOOLEAN
  BY DEF WriteTypes
<1>2. PICK b \in Seq(Int), k \in Seq(Int), n \in Nat : b = s.buf /\ k = s.sink /\ n = s.sent
  BY <1>1
<1>3. PICK z \in BOOLEAN : z = (abs.torn \/ s.torn)
  OBVIOUS
<1>4. obj' = [obj EXCEPT !.out = b] /\ env' = [env EXCEPT !.sink = k] /\ ret'.bits = <<>>
      /\ abs' = [abs EXCEPT !.sent = n, !.torn = z]
  <2>1. obj' = [obj EXCEPT !.out = b] /\ env' = [env EXCEPT !.sink = k]
        /\ abs' = [abs EXCEPT !.sent = n, !.torn = z]
    BY Zenon, <1>2, <1>3 DEF Bits!OutDone
  <2>2. ret'.bits = <<>>
    BY DEF Bits!OutDone
  <2> QED BY <2>1, <2>2
<1>5. obj' \in [out : Seq(Int), inp : Seq(Int), open : {"out", "in"}] /\ obj'.out = b /\ obj'.open = obj.open
  BY <1>4 DEF BitInv, BitTypes
<1>6. env' \in [sink : Seq(Int), at : Nat] /\ env'.sink = k /\ env'.at = env.at
  BY <1>4 DEF BitInv, BitTypes
<1>7. abs' \in [sent : Nat, seen : Nat, torn : BOOLEAN] /\ abs'.sent = n /\ abs'.seen = abs.seen /\ abs'.torn = z
  BY <1>4 DEF BitInv, BitTypes
<1>8. ret'.bits \in Seq(Int)
  BY <1>4
<1>9. obj'.open # "in"
  BY <1>5
<1>10. WriterInv'
  BY Zenon, <1>2, <1>3, <1>5, <1>6, <1>7, <1>9 DEF BitInv, WriterInv
<1>11. ReaderInv'
  BY Zenon, <1>9 DEF ReaderInv
<1>12. BitTypes'
  BY Zenon, <1>5, <1>6, <1>7, <1>8 DEF BitTypes
<1> QED BY Zenon, <1>10, <1>11, <1>12 DEF BitInv

LEMMA BwriteKeeps == ASSUME Bits!Sane, BitInv, Bits!bwrite PROVE BitInv'
<1>1. PICK n \in 1..MaxStep, takes \in Bits!Answers :
          LET s    == Bits!writev(n, takes)
              full == ((s.sent - abs.sent) \div ByteBits) * ByteBits
          IN  Bits!OutDone("bwrite", [s EXCEPT !.bad = @ /\ full = 0], IF s.bad THEN full ELSE n)
  BY Zenon DEF Bits!bwrite
<1>2. obj.open = "out" /\ ~abs.torn
  BY Zenon DEF Bits!bwrite
<1>3. PICK s : s = Bits!writev(n, takes)
  OBVIOUS
<1>4. PICK full : full = ((s.sent - abs.sent) \div ByteBits) * ByteBits
  OBVIOUS
<1>5. n \in Nat
  OBVIOUS
<1>6. PICK start : start = Bits!OutState
  OBVIOUS
<1>7. start \in WriteStates
  BY Zenon, <1>2, <1>6, OutStateIs DEF BitInv
<1>8. s \in WriteStates
  BY Zenon, <1>3, <1>5, <1>6, <1>7, WritevHolds
<1>9. PICK z \in BOOLEAN : z = (s.bad /\ full = 0)
  OBVIOUS
<1>10. PICK u : u = [s EXCEPT !.bad = z]
  OBVIOUS
<1>11. Bits!OutDone("bwrite", u, IF s.bad THEN full ELSE n)
  BY Zenon, <1>1, <1>3, <1>4, <1>9, <1>10
<1>12. s \in WriteTypes /\ (~s.torn => Ordered(s.sink, s.buf, s.sent))
  BY Zenon, <1>8 DEF WriteStates
<1>13. u \in WriteTypes /\ u.buf = s.buf /\ u.sink = s.sink /\ u.sent = s.sent /\ u.torn = s.torn
  BY <1>10, <1>12 DEF WriteTypes
<1>14. ~u.torn => Ordered(u.sink, u.buf, u.sent)
  BY Zenon, <1>12, <1>13
<1> QED BY Zenon, <1>2, <1>11, <1>13, <1>14, OutDoneKeeps

LEMMA FlushKeepsBits == ASSUME Bits!Sane, BitInv, Bits!flush PROVE BitInv'
<1>1. PICK takes \in Bits!Answers : Bits!OutDone("flush", Bits!do_flush_buffer(Bits!OutState, takes), 0)
  BY Zenon DEF Bits!flush
<1>2. obj.open = "out" /\ ~abs.torn
  BY Zenon DEF Bits!flush
<1>3. PICK start : start = Bits!OutState
  OBVIOUS
<1>4. PICK s : s = Bits!do_flush_buffer(start, takes)
  OBVIOUS
<1>5. start \in WriteStates /\ ~start.torn
  BY Zenon, <1>2, <1>3, OutStateIs DEF BitInv
<1>7. s \in WriteStates
  BY Zenon, <1>4, <1>5, FlushKeepsOrder
<1>8. s \in WriteTypes /\ (~s.torn => Ordered(s.sink, s.buf, s.sent))
  BY Zenon, <1>7 DEF WriteStates
<1>9. Bits!OutDone("flush", s, 0)
  BY Zenon, <1>1, <1>3, <1>4
<1> QED BY Zenon, <1>2, <1>8, <1>9, OutDoneKeeps

LEMMA CloseKeeps == ASSUME Bits!Sane, BitInv, Bits!OutClose PROVE BitInv'
<1>1. PICK takes \in Bits!Answers :
          LET s == Bits!do_flush_buffer(Bits!OutState, takes)
          IN  /\ obj' = [out |-> <<>>, inp |-> <<>>, open |-> "in"]
              /\ env' = [env EXCEPT !.sink = s.sink]
              /\ ret' = [op |-> "close", res |-> IF s.bad THEN Bits!Fail ELSE 0, bits |-> <<>>, asked |-> 0]
              /\ abs' = [abs EXCEPT !.torn = @ \/ s.torn \/ s.buf # <<>>]
  BY Zenon DEF Bits!OutClose
<1>2. obj.open = "out"
  BY Zenon DEF Bits!OutClose
<1>3. PICK start : start = Bits!OutState
  OBVIOUS
<1>4. PICK s : s = Bits!do_flush_buffer(start, takes)
  OBVIOUS
<1>5. start \in WriteTypes /\ ~start.torn /\ start.sent = abs.sent /\ (~abs.torn => start \in WriteStates)
  BY Zenon, <1>3, OutStateIs DEF BitInv
<1>7. s \in WriteTypes /\ s.sent = abs.sent
  <2>1. Flushed(start, s)
    BY Zenon, <1>4, <1>5, FlushIs
  <2> QED BY Zenon, <1>5, <2>1, FlushTypes
<1>8. ~abs.torn /\ ~s.torn /\ s.buf = <<>> => Ordered(s.sink, <<>>, abs.sent)
  <2> SUFFICES ASSUME ~abs.torn, ~s.torn, s.buf = <<>> PROVE Ordered(s.sink, <<>>, abs.sent)
      OBVIOUS
  <2>1. s \in WriteStates
    BY Zenon, <1>4, <1>5, FlushKeepsOrder
  <2> QED BY Zenon, <1>7, <2>1 DEF WriteStates
<1>9. PICK k \in Seq(Int) : k = s.sink
  <2>1. s.sink \in Seq(Int)
    BY <1>7 DEF WriteTypes
  <2> QED BY Zenon, <2>1
<1>10. PICK z \in BOOLEAN : z = (abs.torn \/ s.torn \/ s.buf # <<>>)
  OBVIOUS
<1>11. obj' = [out |-> <<>>, inp |-> <<>>, open |-> "in"] /\ env' = [env EXCEPT !.sink = k]
       /\ abs' = [abs EXCEPT !.torn = z]
  BY Zenon, <1>1, <1>3, <1>4, <1>9, <1>10
<1>r. ret'.bits = <<>>
  BY <1>1
<1>12. obj' \in [out : Seq(Int), inp : Seq(Int), open : {"out", "in"}] /\ obj'.out = <<>> /\ obj'.inp = <<>> /\ obj'.open = "in"
  BY <1>11
<1>13. env' \in [sink : Seq(Int), at : Nat] /\ env'.sink = k /\ env'.at = env.at
  BY <1>11 DEF BitInv, BitTypes
<1>14. abs' \in [sent : Nat, seen : Nat, torn : BOOLEAN] /\ abs'.sent = abs.sent /\ abs'.seen = abs.seen /\ abs'.torn = z
  BY <1>11 DEF BitInv, BitTypes
<1>15. env.at = 0 /\ abs.seen = 0
  BY Zenon, <1>2 DEF BitInv, WriterInv
<1>16. obj'.open # "out"
  BY <1>12
<1>17. WriterInv'
  BY Zenon, <1>8, <1>9, <1>10, <1>12, <1>13, <1>14, <1>16 DEF WriterInv
<1>18. ReaderInv'
  <2>1. PICK e \in Seq(Int), o \in Nat : e = <<>> /\ o = 0 /\ Len(e) = 0
    <3>1. <<>> \in Seq(Int) /\ 0 \in Nat /\ Len(<<>>) = 0
      OBVIOUS
    <3> QED BY Zenon, <3>1
  <2>2. Slice(k, e, o) /\ o = o + Len(e)
    <3>1. o <= Len(k)
      BY <2>1
    <3> QED BY <2>1, <3>1, SliceEmpty
  <2>3. Slice(env'.sink, obj'.inp, abs'.seen) /\ env'.at = abs'.seen + Len(obj'.inp)
    BY Zenon, <1>12, <1>13, <1>14, <1>15, <2>1, <2>2
  <2>4. o \in Nat /\ abs'.seen = o + Len(ret'.bits) /\ Slice(env'.sink, ret'.bits, o)
    BY Zenon, <1>r, <1>13, <1>14, <1>15, <2>1, <2>2
  <2> QED BY Zenon, <2>3, <2>4 DEF ReaderInv, ReaderHolds
<1>19. BitTypes'
  <2>1. ret'.bits \in Seq(Int)
    BY <1>r
  <2> QED BY Zenon, <1>12, <1>13, <1>14, <2>1 DEF BitTypes
<1> QED BY Zenon, <1>17, <1>18, <1>19 DEF BitInv

\* The calls of the reader.
LEMMA ReaderKeepsAll == ASSUME BitInv, obj.open = "in", ReaderKeeps PROVE BitInv'
<1>1. obj'.open # "out"
  BY DEF ReaderKeeps
<1>2. WriterInv'
  BY Zenon, <1>1 DEF BitInv, WriterInv, ReaderKeeps
<1> QED BY Zenon, <1>2 DEF BitInv, ReaderKeeps

Fresh ==
    /\ obj = [out |-> <<>>, inp |-> <<>>, open |-> "out"] /\ env = [sink |-> <<>>, at |-> 0]
    /\ ret = [op |-> "wrap", res |-> 0, bits |-> <<>>, asked |-> 0]
    /\ abs = [sent |-> 0, seen |-> 0, torn |-> FALSE]

LEMMA FreshHolds == ASSUME Bits!Sane, Fresh PROVE BitInv
<1>1. BitTypes
  BY DEF Fresh, BitTypes
<1>2. obj.open = "out" /\ obj.open # "in" /\ env.at = 0 /\ abs.seen = 0 /\ env.sink = <<>> /\ obj.out = <<>> /\ abs.sent = 0
  BY DEF Fresh
<1>3. WriterInv
  BY Zenon, <1>2, NothingOrdered DEF WriterInv
<1> QED BY Zenon, <1>1, <1>2, <1>3 DEF BitInv, ReaderInv

LEMMA BitStep == ASSUME Bits!Sane, BitInv, Bits!Next PROVE BitInv'
<1>1. CASE Bits!bwrite
  BY Zenon, <1>1, BwriteKeeps
<1>2. CASE Bits!flush
  BY Zenon, <1>2, FlushKeepsBits
<1>3. CASE Bits!OutClose
  BY Zenon, <1>3, CloseKeeps
<1>4. CASE Bits!bread
  <2>1. obj.open = "in"
    BY Zenon, <1>4 DEF Bits!bread, Bits!Reading
  <2> QED BY Zenon, <1>4, <2>1, BreadKeeps, ReaderKeepsAll DEF BitInv
<1>5. CASE Bits!read
  <2>1. obj.open = "in"
    BY Zenon, <1>5 DEF Bits!read, Bits!Reading
  <2> QED BY Zenon, <1>5, <2>1, ReadKeepsBits, ReaderKeepsAll DEF BitInv
<1>6. CASE Bits!bskip
  <2>1. obj.open = "in"
    BY Zenon, <1>6 DEF Bits!bskip, Bits!Reading
  <2> QED BY Zenon, <1>6, <2>1, BskipKeeps, ReaderKeepsAll DEF BitInv
<1>7. CASE Bits!Reset
  <2>1. Fresh'
    BY Zenon, <1>7 DEF Bits!Reset, Fresh
  <2>2. Bits!Sane /\ Fresh => BitInv
    BY Zenon, FreshHolds
  <2>3. (Bits!Sane /\ Fresh => BitInv)'
    BY FreshHolds, PTL
  <2> QED BY Zenon, <2>1, <2>3 DEF Bits!Sane
<1> QED BY Zenon, <1>1, <1>2, <1>3, <1>4, <1>5, <1>6, <1>7 DEF Bits!Next

LEMMA BitStutter == ASSUME BitInv, UNCHANGED Bits!vars PROVE BitInv'
<1>1. obj' = obj /\ env' = env /\ ret' = ret /\ abs' = abs
  BY DEF Bits!vars
<1>2. BitTypes'
  BY Zenon, <1>1 DEF BitInv, BitTypes
<1>3. WriterInv'
  BY Zenon, <1>1 DEF BitInv, WriterInv
<1>4. ReaderInv'
  BY Zenon, <1>1 DEF BitInv, ReaderInv, ReaderHolds
<1> QED BY Zenon, <1>2, <1>3, <1>4 DEF BitInv

LEMMA BitInitially == ASSUME Bits!Sane, Bits!Init PROVE BitInv
  BY Zenon, FreshHolds DEF Bits!Init, Fresh

LEMMA BitPreserved == ASSUME Bits!Sane, BitInv, [Bits!Next]_(Bits!vars) PROVE BitInv'
  BY Zenon, BitStep, BitStutter

LEMMA BitInvariant == ASSUME Bits!Sane PROVE Bits!Spec => []BitInv
<1>1. Bits!Init => BitInv
  BY BitInitially
<1>2. BitInv /\ [Bits!Next]_(Bits!vars) => BitInv'
  BY BitPreserved
<1> QED BY <1>1, <1>2, PTL DEF Bits!Spec

\* The streams' variables keep their types.
THEOREM BitTypeCorrect == ASSUME Bits!Sane PROVE Bits!Spec => []BitTypes
<1>1. BitInv => BitTypes
  BY DEF BitInv
<1> QED BY <1>1, BitInvariant, PTL

LEMMA BitsNow == ASSUME Bits!Sane, BitInv PROVE Bits!BitsOnceInOrder
<1> SUFFICES ASSUME ~abs.torn
             PROVE  /\ Bits!Written(env.sink \o obj.out) = [i \in 1..IF obj.open = "out" THEN abs.sent
                                                                       ELSE Len(Bits!Written(env.sink)) |-> i]
                    /\ Len(env.sink) % ByteBits = 0
                    /\ \A i \in 1..Len(env.sink) - 1 :
                           (env.sink[i] = Bits!Pad /\ env.sink[i + 1] # Bits!Pad) => i % ByteBits = 0
    BY Zenon DEF Bits!BitsOnceInOrder
<1>1. Ordered(env.sink, obj.out, abs.sent)
  BY Zenon DEF BitInv, WriterInv
<1>2. Bits!Written(env.sink \o obj.out) = CountTo(abs.sent) /\ abs.sent \in Nat /\ env.sink \in Seq(Int)
  BY Zenon, <1>1 DEF Ordered
<1>3. obj.open # "out" => Len(Bits!Written(env.sink)) = abs.sent
  <2> SUFFICES ASSUME obj.open # "out" PROVE Len(Bits!Written(env.sink)) = abs.sent
      OBVIOUS
  <2>1. obj.open = "in"
    BY DEF BitInv, BitTypes
  <2>2. obj.out = <<>>
    BY Zenon, <2>1 DEF BitInv, WriterInv
  <2>3. PICK k \in Seq(Int) : k = env.sink
    BY <1>2
  <2>4. k \o <<>> = k
    OBVIOUS
  <2>5. Bits!Written(env.sink) = CountTo(abs.sent)
    BY Zenon, <1>2, <2>2, <2>3, <2>4
  <2>6. PICK n \in Nat : n = abs.sent
    BY <1>2
  <2>7. PICK c : c = CountTo(n)
    OBVIOUS
  <2>8. Len(c) = n
    BY <2>7 DEF CountTo
  <2> QED BY Zenon, <2>5, <2>6, <2>7, <2>8
<1>4. Len(env.sink) % ByteBits = 0
  <2>1. PICK k \in Nat : Len(env.sink) = k * ByteBits
    BY Zenon, <1>1 DEF Ordered, Whole
  <2>2. PICK C \in Nat \ {0} : C = ByteBits
    BY BitConstants
  <2>3. PICK z \in 0..C - 1 : z = 0
    BY <2>2
  <2>4. PICK x \in Int : x = k
    OBVIOUS
  <2>5. (C * x + z) % C = z
    BY RemainderIs
  <2>6. k * C = C * x + z
    BY <2>3, <2>4
  <2> QED BY Zenon, <2>1, <2>2, <2>3, <2>5, <2>6
<1>5. PadsWhole(env.sink)
  BY Zenon, <1>1 DEF Ordered
<1>6. CASE obj.open = "out"
  BY Zenon, <1>2, <1>4, <1>5, <1>6 DEF CountTo, PadsWhole
<1>7. CASE obj.open # "out"
  BY Zenon, <1>2, <1>3, <1>4, <1>5, <1>7 DEF CountTo, PadsWhole
<1> QED BY <1>6, <1>7

\* Every bit that OutBitStream has taken is in the sink or in its buffer, once and in
\* order, whatever the words, the flushes' padding and the writes that fail: for every
\* size of byte, word and call.
THEOREM BitsOnceHolds == ASSUME Bits!Sane PROVE Bits!Spec => []Bits!BitsOnceInOrder
<1>1. BitInv => Bits!BitsOnceInOrder
  BY BitsNow
<1> QED BY <1>1, BitInvariant, PTL

LEMMA ReaderNow == ASSUME BitInv PROVE Bits!ReaderInStep
<1> SUFFICES ASSUME obj.open = "in"
             PROVE  /\ obj.inp = SubSeq(env.sink, env.at - Len(obj.inp) + 1, env.at)
                    /\ abs.seen = env.at - Len(obj.inp)
                    /\ ret.bits = SubSeq(env.sink, abs.seen - Len(ret.bits) + 1, abs.seen)
    BY Zenon DEF Bits!ReaderInStep
<1>1. Slice(env.sink, obj.inp, abs.seen) /\ env.at = abs.seen + Len(obj.inp)
  BY Zenon DEF BitInv, ReaderInv, ReaderHolds
<1>2. PICK y \in Nat : abs.seen = y + Len(ret.bits) /\ Slice(env.sink, ret.bits, y)
  BY Zenon DEF BitInv, ReaderInv, ReaderHolds
<1>3. PICK q \in Seq(Int), seen \in Nat, at \in Nat : q = env.sink /\ seen = abs.seen /\ at = env.at
  BY DEF BitInv, BitTypes
<1>4. PICK b, g : b = obj.inp /\ g = ret.bits
  OBVIOUS
<1>5. PICK n \in Nat, m \in Nat : n = Len(b) /\ m = Len(g)
  <2>1. b \in Seq(Int) /\ g \in Seq(Int)
    BY Zenon, <1>1, <1>2, <1>4 DEF Slice
  <2> QED BY <2>1
<1>6. at = seen + n /\ seen = y + m
  BY Zenon, <1>1, <1>2, <1>3, <1>4, <1>5
<1>7. Slice(q, b, seen) /\ Slice(q, g, y) /\ at = seen + Len(b) /\ seen = y + Len(g)
  BY Zenon, <1>1, <1>2, <1>3, <1>4
<1>a. PICK lo \in Nat, hi \in Nat : lo = y + 1 /\ hi = seen + 1
  OBVIOUS
<1>8. b = SubSeq(q, hi, at)
  <2>1. Slice(q, b, seen) /\ at = seen + Len(b) /\ hi = seen + 1
    BY Zenon, <1>7, <1>a
  <2>2. IsPart(b, q, hi, at)
    BY Zenon, <2>1, SliceIs
  <2> QED BY Zenon, <2>2 DEF IsPart
<1>9. g = SubSeq(q, lo, seen)
  <2>1. Slice(q, g, y) /\ seen = y + Len(g) /\ lo = y + 1
    BY Zenon, <1>7, <1>a
  <2>2. IsPart(g, q, lo, seen)
    BY Zenon, <2>1, SliceIs
  <2> QED BY Zenon, <2>2 DEF IsPart
<1>10. at - n = seen /\ at - n + 1 = hi /\ seen - m + 1 = lo
  BY <1>6, <1>a
<1>11. /\ b = SubSeq(q, at - n + 1, at) /\ seen = at - n
       /\ g = SubSeq(q, seen - m + 1, seen)
  BY Zenon, <1>8, <1>9, <1>10
<1> QED BY Zenon, <1>3, <1>4, <1>5, <1>11

\* The bits in InBitStream's buffer are those of the sink right after what it has
\* delivered and right before the point to which it has read, whatever is read or
\* skipped, in bits or in bytes.
THEOREM ReaderStepHolds == ASSUME Bits!Sane PROVE Bits!Spec => []Bits!ReaderInStep
<1>1. BitInv => Bits!ReaderInStep
  BY ReaderNow
<1> QED BY <1>1, BitInvariant, PTL

LEMMA SkipNow == ASSUME Bits!Sane, BitInv, [Bits!Next]_(Bits!vars) PROVE [Bits!SkipLandsStep]_(Bits!vars)
<1>1. ASSUME BitInv, Bits!Next PROVE Bits!SkipLandsStep \/ UNCHANGED Bits!vars
  <2>1. CASE Bits!bskip
    <3>1. obj.open = "in"
      BY Zenon, <2>1 DEF Bits!bskip, Bits!Reading
    <3> QED BY Zenon, <1>1, <2>1, BskipKeeps DEF BitInv
  <2>2. ASSUME ret'.op \notin {"bskip", "bskip after error"} PROVE Bits!SkipLandsStep
    BY Zenon, <2>2 DEF Bits!SkipLandsStep
  <2>3. CASE Bits!bwrite \/ Bits!flush
    <3>1. PICK op \in {"bwrite", "flush"} : \E s, res : Bits!OutDone(op, s, res)
      BY Zenon, <2>3 DEF Bits!bwrite, Bits!flush
    <3>2. ret'.op = op
      BY <3>1 DEF Bits!OutDone
    <3> QED BY <2>2, <3>1, <3>2
  <2>4. CASE Bits!bread \/ Bits!read
    <3>1. PICK op \in {"bread", "read"} : \E s, res : Bits!InDone(op, s, res)
      BY Zenon, <2>4 DEF Bits!bread, Bits!read
    <3>2. ret'.op = op
      BY <3>1 DEF Bits!InDone
    <3> QED BY <2>2, <3>1, <3>2
  <2>5. CASE Bits!OutClose
    <3>1. ret'.op = "close"
      BY <2>5 DEF Bits!OutClose
    <3> QED BY <2>2, <3>1
  <2>6. CASE Bits!Reset
    <3>1. ret'.op = "wrap"
      BY <2>6 DEF Bits!Reset
    <3> QED BY <2>2, <3>1
  <2> QED BY Zenon, <1>1, <2>1, <2>3, <2>4, <2>5, <2>6 DEF Bits!Next
<1> QED BY Zenon, <1>1

\* A bskip() that returns leaves the reader as many bits further as it was asked for, or
\* at the end of the sink, also after an error of skip() below; it tells that error only
\* when nothing has moved, and otherwise a number that is never too large and, unless
\* skip() has failed, less than a byte too small.  One that does not return was asked
\* for more than there is.
THEOREM SkipHolds == ASSUME Bits!Sane PROVE Bits!Spec => Bits!SkipLands
<1>1. BitInv /\ [Bits!Next]_(Bits!vars) => [Bits!SkipLandsStep]_(Bits!vars)
  BY SkipNow
<1> QED BY <1>1, BitInvariant, PTL DEF Bits!Spec, Bits!SkipLands

-----------------------------------------------------------------------------
(* LSPString                                                               *)

StrObjects == [data : Seq(Int), cap : Nat, hash : Seq(Int), temp : [size : Nat, used : Nat], bare : BOOLEAN]

\* A string whose text fits its buffer, whose hash is that of the text, unless
\* set_native() of no bytes has emptied it, and whose encoded copy is whole.
Kept(s) ==
    /\ s \in StrObjects
    /\ Len(s.data) <= s.cap
    /\ s.hash \in {Str!None, s.data} \/ s.bare
    /\ s.bare => s.data = <<>>
    /\ s.temp.used <= s.temp.size

\* What a call on s returns: such a string, with the text of s when it is refused.
Outcome(s, r) ==
    /\ r \in [s : StrObjects, ok : BOOLEAN]
    /\ Kept(r.s)
    /\ r.ok \/ r.s.data = s.data

LEMMA NoneIs == Str!None \in Seq(Int) /\ Str!NoTemp \in [size : Nat, used : Nat] /\ Str!NoTemp.used = 0 /\ Str!NoTemp.size = 0
  BY DEF Str!None, Str!NoTemp

LEMMA OutcomeIs ==
    ASSUME NEW s, NEW t, Kept(t), NEW ok \in BOOLEAN, ok \/ t.data = s.data
    PROVE  Outcome(s, [s |-> t, ok |-> ok])
<1>1. t \in StrObjects
  BY Zenon DEF Kept
<1>2. PICK r : r = [s |-> t, ok |-> ok]
  OBVIOUS
<1>3. r.s = t /\ r.ok = ok
  BY Zenon, <1>2
<1>4. r \in [s : StrObjects, ok : BOOLEAN]
  BY Zenon, <1>1, <1>2
<1> QED BY Zenon, <1>2, <1>3, <1>4 DEF Outcome

LEMMA SameHolds == ASSUME NEW s, NEW t, Kept(t) PROVE Outcome(s, Str!Same(t))
  BY Zenon, OutcomeIs DEF Str!Same

LEMMA RefusedHolds == ASSUME NEW s, Kept(s) PROVE Outcome(s, Str!Refused(s))
  BY Zenon, OutcomeIs DEF Str!Refused

\* A new text in a buffer it fits, without a hash.
LEMMA NewTextIs ==
    ASSUME NEW s, Kept(s), NEW d \in Seq(Int), NEW c \in Nat, Len(d) <= c
    PROVE  Kept(Str!NewText(s, d, c))
<1>1. PICK t : t = Str!NewText(s, d, c)
  OBVIOUS
<1>2. s \in StrObjects /\ s.temp.used <= s.temp.size
  BY Zenon DEF Kept
<1>3. PICK h \in Seq(Int) : h = Str!None
  BY Zenon, NoneIs
<1>4. t = [s EXCEPT !.data = d, !.cap = c, !.hash = h, !.bare = FALSE]
  BY Zenon, <1>1, <1>3 DEF Str!NewText
<1>5. t \in StrObjects /\ t.data = d /\ t.cap = c /\ t.hash = h /\ t.temp = s.temp /\ ~t.bare
  BY <1>2, <1>4 DEF StrObjects
<1>6. Kept(t)
  BY Zenon, <1>2, <1>3, <1>5 DEF Kept
<1> QED BY Zenon, <1>1, <1>6

LEMMA PutHolds ==
    ASSUME NEW s, Kept(s), NEW d \in Seq(Int), NEW c \in Nat, Len(d) <= c, NEW mem \in BOOLEAN
    PROVE  Outcome(s, Str!Put(s, d, c, mem))
<1>1. CASE c > s.cap /\ ~mem
  BY Zenon, <1>1, RefusedHolds DEF Str!Put
<1>2. CASE ~(c > s.cap /\ ~mem)
  <2>1. PICK t : t = Str!NewText(s, d, c)
    OBVIOUS
  <2>2. Kept(t)
    BY Zenon, <2>1, NewTextIs
  <2>3. Outcome(s, Str!Same(t))
    BY Zenon, <2>2, SameHolds
  <2> QED BY Zenon, <1>2, <2>1, <2>3 DEF Str!Put
<1> QED BY <1>1, <1>2

LEMMA TempDropped == ASSUME NEW s, NEW r, Outcome(s, r) PROVE Outcome(s, Str!drop_temp(r))
<1>1. PICK n \in [size : Nat, used : Nat] : n = Str!NoTemp /\ n.used <= n.size
  BY NoneIs
<1>2. PICK q : q = [r EXCEPT !.s.temp = n]
  OBVIOUS
<1>3. r \in [s : StrObjects, ok : BOOLEAN]
  BY Zenon DEF Outcome
<1>4. PICK t : t = [r.s EXCEPT !.temp = n]
  OBVIOUS
<1>5. r.s \in StrObjects
  BY <1>3
<1>6. t \in StrObjects /\ t.data = r.s.data /\ t.cap = r.s.cap /\ t.hash = r.s.hash /\ t.temp = n /\ t.bare = r.s.bare
  BY <1>4, <1>5 DEF StrObjects
<1>7. q.s = t /\ q.ok = r.ok
  BY <1>2, <1>3, <1>4
<1>8. q \in [s : StrObjects, ok : BOOLEAN]
  BY <1>2, <1>3, <1>4, <1>6
<1>9. Kept(t)
  BY Zenon, <1>1, <1>6 DEF Kept, Outcome
<1>10. q.ok \/ q.s.data = s.data
  BY Zenon, <1>6, <1>7 DEF Outcome
<1>11. q = Str!drop_temp(r)
  BY Zenon, <1>1, <1>2 DEF Str!drop_temp
<1> QED BY Zenon, <1>7, <1>8, <1>9, <1>10, <1>11 DEF Outcome

-----------------------------------------------------------------------------
\* Indexes, parts and capacities.
LEMMA TransIs ==
    ASSUME NEW x \in Int, NEW n \in Nat
    PROVE  /\ Str!XSAFE_TRANS(x, n) = Str!Bad \/ Str!XSAFE_TRANS(x, n) \in 0..n
           /\ Str!XSAFE_ITRANS(x, n) = Str!Bad \/ Str!XSAFE_ITRANS(x, n) \in 0..n - 1
  BY DEF Str!XSAFE_TRANS, Str!XSAFE_ITRANS, Str!Bad, Str!Greater

LEMMA CutIs ==
    ASSUME NEW d \in Seq(Int), NEW i \in Nat, NEW j \in 0..Len(d), NEW c, c = Str!Cut(d, i, j)
    PROVE  c \in Seq(Int) /\ Len(c) = IF i < j THEN j - i ELSE 0
<1>1. PICK a \in Int : a = i + 1
  OBVIOUS
<1>2. c = SubSeq(d, a, j)
  BY Zenon, <1>1 DEF Str!Cut
<1>3. c \in Seq(Int)
  BY <1>1, <1>2, SubSeqProperties
<1>4. Len(c) = IF a <= j THEN j - a + 1 ELSE 0
  BY <1>1, <1>2, SubSeqProperties
<1> QED BY <1>1, <1>3, <1>4

LEMMA RoundUpIs == ASSUME Str!Sane, NEW n \in Nat PROVE Str!RoundUp(n) \in Nat /\ n <= Str!RoundUp(n)
<1>1. PICK g \in Nat \ {0} : g = Granularity
  BY DEF Str!Sane
<1>2. PICK x \in Nat : x = n + g - 1
  BY <1>1
<1>3. PICK q \in Nat : q = x \div g
  BY <1>1
<1>4. x < g * (q + 1) /\ g * (q + 1) = g * q + g /\ g * q \in Nat /\ q * g = g * q
  BY <1>3
<1>5. Str!RoundUp(n) = q * g
  BY Zenon, <1>1, <1>2, <1>3 DEF Str!RoundUp
<1> QED BY <1>2, <1>4, <1>5

LEMMA ReservedIs ==
    ASSUME Str!Sane, NEW s, Kept(s), NEW n \in Nat
    PROVE  Str!cap_reserve(s, n) \in Nat /\ n <= Str!cap_reserve(s, n) /\ s.cap <= Str!cap_reserve(s, n) /\ s.cap \in Nat
<1>1. PICK c \in Nat : c = s.cap
  BY DEF Kept, StrObjects
<1>2. PICK u \in Nat : u = Str!RoundUp(n) /\ n <= u
  BY Zenon, RoundUpIs
<1>3. Str!cap_reserve(s, n) = Str!Greater(c, u)
  BY Zenon, <1>1, <1>2 DEF Str!cap_reserve
<1> QED BY <1>1, <1>2, <1>3 DEF Str!Greater

LEMMA GrownIs ==
    ASSUME Str!Sane, NEW s, Kept(s), NEW n \in Nat
    PROVE  Str!cap_grow(s, n) \in Nat /\ Len(s.data) + n <= Str!cap_grow(s, n)
<1>1. PICK c \in Nat : c = s.cap
  BY DEF Kept, StrObjects
<1>2. PICK l \in Nat : l = Len(s.data) /\ l <= c
  BY <1>1 DEF Kept, StrObjects
<1>3. PICK m \in Nat : m = Str!Greater(c \div 2, n) /\ n <= m
  BY DEF Str!Greater
<1>4. PICK u \in Nat : u = Str!RoundUp(m) /\ m <= u
  BY Zenon, <1>3, RoundUpIs
<1>5. Str!cap_grow(s, n) = IF n <= c - l THEN c ELSE c + u
  BY Zenon, <1>1, <1>2, <1>3, <1>4 DEF Str!cap_grow
<1> QED BY <1>2, <1>3, <1>4, <1>5

LEMMA EmptyIs == <<>> \in Seq(Int) /\ Len(<<>>) = 0
  OBVIOUS

\* What is known of a string.
LEMMA KeptParts ==
    ASSUME NEW s, Kept(s)
    PROVE  s \in StrObjects /\ s.data \in Seq(Int) /\ Len(s.data) \in Nat /\ s.cap \in Nat /\ Len(s.data) <= s.cap
  BY DEF Kept, StrObjects

-----------------------------------------------------------------------------
\* Calls that replace the text.
LEMMA SetTextKeeps ==
    ASSUME Str!Sane, NEW s, Kept(s), NEW t \in Seq(Int), NEW mem \in BOOLEAN
    PROVE  Outcome(s, Str!set_text(s, t, mem))
<1>1. PICK n \in Nat : n = Len(t)
  OBVIOUS
<1>2. PICK c \in Nat : c = Str!cap_reserve(s, n) /\ n <= c
  BY Zenon, ReservedIs
<1>3. Outcome(s, Str!Put(s, t, c, mem))
  BY Zenon, <1>1, <1>2, PutHolds
<1> QED BY Zenon, <1>1, <1>2, <1>3, TempDropped DEF Str!set_text

LEMMA SetCharKeeps ==
    ASSUME Str!Sane, NEW s, Kept(s), NEW ch \in Int, NEW mem \in BOOLEAN
    PROVE  Outcome(s, Str!set_char(s, ch, mem))
<1>1. PICK d \in Seq(Int) : d = <<ch>> /\ Len(d) = 1
  <2>1. <<ch>> \in Seq(Int) /\ Len(<<ch>>) = 1
    OBVIOUS
  <2> QED BY Zenon, <2>1
<1>2. PICK c \in Nat : c = (IF s.cap = 0 THEN Granularity ELSE s.cap) /\ 1 <= c
  BY KeptParts DEF Str!Sane
<1>3. Len(d) <= c
  BY Zenon, <1>1, <1>2
<1>4. Outcome(s, Str!Put(s, d, c, mem))
  BY Zenon, <1>3, PutHolds
<1> QED BY Zenon, <1>1, <1>2, <1>4, TempDropped DEF Str!set_char

LEMMA SetRangeKeeps ==
    ASSUME Str!Sane, NEW s, Kept(s), NEW t \in Seq(Int), NEW first \in Int, NEW last \in Int, NEW mem \in BOOLEAN
    PROVE  Outcome(s, Str!set_range(s, t, first, last, mem))
<1>n. PICK n \in Nat : n = Len(t)
  OBVIOUS
<1>i. PICK i : i = Str!XSAFE_TRANS(first, n)
  OBVIOUS
<1>j. PICK j : j = Str!XSAFE_TRANS(last, n)
  OBVIOUS
<1>1. CASE i = Str!Bad \/ j = Str!Bad
  BY Zenon, <1>1, <1>n, <1>i, <1>j, RefusedHolds, TempDropped DEF Str!set_range
<1>2. CASE ~(i = Str!Bad \/ j = Str!Bad)
  <2>1. i \in 0..n /\ j \in 0..n
    BY Zenon, <1>2, <1>i, <1>j, TransIs
  <2>2. i \in Nat /\ j \in Nat
    BY <2>1
  <2>3. PICK d : d = Str!Cut(t, i, j)
    OBVIOUS
  <2>4. d \in Seq(Int) /\ Len(d) = IF i < j THEN j - i ELSE 0
    BY Zenon, <1>n, <2>1, <2>2, <2>3, CutIs
  <2>5. PICK c \in Nat : c = (IF i < j THEN Str!cap_reserve(s, j - i) ELSE s.cap) /\ Len(d) <= c
    <3>1. CASE i < j
      <4>1. PICK k \in Nat : k = j - i
        BY <2>2, <3>1
      <4> QED BY Zenon, <2>4, <3>1, <4>1, ReservedIs
    <3>2. CASE ~(i < j)
      BY <2>4, <3>2, KeptParts
    <3> QED BY <3>1, <3>2
  <2>6. Outcome(s, Str!Put(s, d, c, mem))
    BY Zenon, <2>4, <2>5, PutHolds
  <2> QED BY Zenon, <1>2, <1>n, <1>i, <1>j, <2>3, <2>5, <2>6, TempDropped DEF Str!set_range
<1> QED BY <1>1, <1>2

\* A character in the place of another.
LEMMA OneChanged ==
    ASSUME NEW d \in Seq(Int), NEW i \in 1..Len(d), NEW ch \in Int, NEW e, e = [d EXCEPT ![i] = ch]
    PROVE  e \in Seq(Int) /\ Len(e) = Len(d)
  BY ExceptSeq

LEMMA SetAtKeeps ==
    ASSUME Str!Sane, NEW s, Kept(s), NEW pos \in Int, NEW ch \in Int
    PROVE  Outcome(s, Str!set_at(s, pos, ch))
<1>n. PICK n \in Nat : n = Len(s.data)
  BY Zenon, KeptParts
<1>i. PICK i : i = Str!XSAFE_ITRANS(pos, n)
  OBVIOUS
<1>1. CASE i = Str!Bad
  BY Zenon, <1>1, <1>n, <1>i, RefusedHolds DEF Str!set_at
<1>2. CASE ~(i = Str!Bad)
  <2>1. i \in 0..n - 1
    BY Zenon, <1>2, <1>i, TransIs
  <2>2. PICK k \in 1..n : k = i + 1
    BY <2>1
  <2>3. PICK e : e = [s.data EXCEPT ![k] = ch]
    OBVIOUS
  <2>4. e \in Seq(Int) /\ Len(e) = n
    <3>1. PICK d \in Seq(Int) : d = s.data /\ n = Len(d)
      BY Zenon, <1>n, KeptParts
    <3> QED BY <2>2, <2>3, <3>1, OneChanged
  <2>5. Outcome(s, Str!Put(s, e, s.cap, TRUE))
    BY Zenon, <1>n, <2>4, PutHolds, KeptParts
  <2> QED BY Zenon, <1>2, <1>n, <1>i, <2>2, <2>3, <2>5 DEF Str!set_at
<1> QED BY <1>1, <1>2

LEMMA SwapKeeps ==
    ASSUME Str!Sane, NEW s, Kept(s), NEW t \in Seq(Int), NEW hashed \in BOOLEAN
    PROVE  Outcome(s, Str!swap(s, t, hashed)) /\ Outcome(s, Str!take(s, t, hashed))
<1>1. PICK n \in Nat : n = Len(t)
  OBVIOUS
<1>2. PICK h \in Seq(Int) : h = (IF hashed THEN t ELSE Str!None) /\ h \in {Str!None, t}
  BY Zenon, NoneIs
<1>3. PICK u : u = [s EXCEPT !.data = t, !.cap = n, !.hash = h, !.bare = FALSE]
  OBVIOUS
<1>4. u \in StrObjects /\ u.data = t /\ u.cap = n /\ u.hash = h /\ u.temp = s.temp /\ ~u.bare
  <2>1. s \in StrObjects
    BY Zenon, KeptParts
  <2> QED BY <1>3, <2>1 DEF StrObjects
<1>5. Kept(u)
  <2>1. Len(u.data) <= u.cap
    BY <1>1, <1>4
  <2> QED BY Zenon, <1>2, <1>4, <2>1 DEF Kept
<1>6. Outcome(s, Str!Same(u))
  BY Zenon, <1>5, SameHolds
<1>7. Str!swap(s, t, hashed) = Str!Same(u)
  BY Zenon, <1>1, <1>2, <1>3 DEF Str!swap
<1> QED BY Zenon, <1>6, <1>7, TempDropped DEF Str!take

LEMMA SetDecodedKeeps ==
    ASSUME Str!Sane, NEW s, Kept(s), NEW t \in Seq(Int), NEW whole \in BOOLEAN, NEW mem \in BOOLEAN
    PROVE  Outcome(s, Str!set_decoded(s, t, whole, mem))
<1>1. CASE ~(whole /\ mem)
  BY Zenon, <1>1, RefusedHolds DEF Str!set_decoded
<1>2. CASE whole /\ mem
  <2>1. PICK n \in Nat : n = Len(t)
    OBVIOUS
  <2>2. PICK c \in Nat : c = Str!RoundUp(n) /\ n <= c
    BY Zenon, RoundUpIs
  <2>3. Kept(Str!NewText(s, t, c))
    BY Zenon, <2>1, <2>2, NewTextIs
  <2>4. Outcome(s, Str!Same(Str!NewText(s, t, c)))
    BY Zenon, <2>3, SameHolds
  <2> QED BY Zenon, <1>2, <2>1, <2>2, <2>4 DEF Str!set_decoded
<1> QED BY <1>1, <1>2

\* set_native() of no bytes keeps the hash of what is no longer there.
LEMMA SetNativeKeeps ==
    ASSUME Str!Sane, NEW s, Kept(s), NEW t \in Seq(Int), NEW whole \in BOOLEAN, NEW mem \in BOOLEAN
    PROVE  Outcome(s, Str!set_native(s, t, whole, mem))
<1>1. CASE t = <<>>
  <2>0. PICK e \in Seq(Int) : e = <<>> /\ Len(e) = 0
    BY Zenon, EmptyIs
  <2>1. PICK u : u = [s EXCEPT !.data = e, !.bare = TRUE]
    OBVIOUS
  <2>2. u \in StrObjects /\ u.data = e /\ u.cap = s.cap /\ u.temp = s.temp /\ u.bare
    <3>1. s \in StrObjects
      BY Zenon, KeptParts
    <3> QED BY <2>1, <3>1 DEF StrObjects
  <2>3. Len(u.data) <= u.cap
    BY <2>0, <2>2, KeptParts
  <2>4. Kept(u)
    BY Zenon, <2>0, <2>2, <2>3 DEF Kept
  <2> QED BY Zenon, <1>1, <2>0, <2>1, <2>4, SameHolds DEF Str!set_native
<1>2. CASE t # <<>>
  BY Zenon, <1>2, SetDecodedKeeps, TempDropped DEF Str!set_native
<1> QED BY <1>1, <1>2

-----------------------------------------------------------------------------
\* Calls that lengthen the text.
LEMMA JoinIs ==
    ASSUME NEW a \in Seq(Int), NEW b \in Seq(Int), NEW c, c = a \o b
    PROVE  c \in Seq(Int) /\ Len(c) = Len(a) + Len(b)
  BY ConcatProperties

\* A text no longer than that of s and n more fits when the buffer has grown by n.
LEMMA GrowHolds ==
    ASSUME Str!Sane, NEW s, Kept(s), NEW n \in Nat, NEW d \in Seq(Int), Len(d) <= Len(s.data) + n, NEW mem \in BOOLEAN
    PROVE  Outcome(s, Str!Put(s, d, Str!cap_grow(s, n), mem))
<1>1. PICK c \in Nat : c = Str!cap_grow(s, n) /\ Len(s.data) + n <= c
  BY Zenon, GrownIs
<1>2. Len(d) <= c
  BY <1>1, KeptParts
<1> QED BY Zenon, <1>1, <1>2, PutHolds

LEMMA InsertKeeps ==
    ASSUME Str!Sane, NEW s, Kept(s), NEW pos \in Int, NEW t \in Seq(Int), NEW mem \in BOOLEAN
    PROVE  Outcome(s, Str!insert(s, pos, t, mem))
<1>d. PICK d \in Seq(Int) : d = s.data
  BY Zenon, KeptParts
<1>n. PICK n \in Nat : n = Len(d)
  OBVIOUS
<1>i. PICK i : i = Str!XSAFE_TRANS(pos, n)
  OBVIOUS
<1>1. CASE t = <<>>
  BY Zenon, <1>1, SameHolds DEF Str!insert
<1>2. CASE t # <<>> /\ i = Str!Bad
  BY Zenon, <1>2, <1>d, <1>n, <1>i, RefusedHolds DEF Str!insert
<1>3. CASE t # <<>> /\ i # Str!Bad
  <2>1. i \in 0..n
    BY Zenon, <1>3, <1>i, TransIs
  <2>2. i \in Nat /\ 0 \in Nat /\ n \in 0..n
    BY <2>1
  <2>3. PICK a : a = Str!Cut(d, 0, i)
    OBVIOUS
  <2>4. PICK b : b = Str!Cut(d, i, n)
    OBVIOUS
  <2>5. a \in Seq(Int) /\ Len(a) = IF 0 < i THEN i - 0 ELSE 0
    BY Zenon, <1>n, <2>1, <2>2, <2>3, CutIs
  <2>6. b \in Seq(Int) /\ Len(b) = IF i < n THEN n - i ELSE 0
    BY Zenon, <1>n, <2>1, <2>2, <2>4, CutIs
  <2>7. PICK e : e = a \o t
    OBVIOUS
  <2>8. PICK f : f = e \o b
    OBVIOUS
  <2>9. e \in Seq(Int) /\ Len(e) = Len(a) + Len(t)
    BY <2>5, <2>7, JoinIs
  <2>10. f \in Seq(Int) /\ Len(f) = Len(e) + Len(b)
    BY <2>6, <2>8, <2>9, JoinIs
  <2>11. PICK m \in Nat : m = Len(t)
    OBVIOUS
  <2>12. Len(f) <= n + m
    <3>1. PICK la \in Nat : la = Len(a) /\ la = i
      BY <2>1, <2>5
    <3>2. PICK lb \in Nat : lb = Len(b) /\ lb = n - i
      BY <2>1, <2>6
    <3>3. PICK le \in Nat : le = Len(e) /\ le = la + m
      BY <2>9, <2>11, <3>1
    <3>4. Len(f) = le + lb
      BY <2>10, <3>2, <3>3
    <3> QED BY <2>1, <3>1, <3>2, <3>3, <3>4
  <2>13. Outcome(s, Str!Put(s, f, Str!cap_grow(s, m), mem))
    BY Zenon, <1>d, <1>n, <2>10, <2>12, GrowHolds
  <2> QED BY Zenon, <1>3, <1>d, <1>n, <1>i, <2>3, <2>4, <2>7, <2>8, <2>11, <2>13 DEF Str!insert
<1> QED BY <1>1, <1>2, <1>3

LEMMA AppendKeeps ==
    ASSUME Str!Sane, NEW s, Kept(s), NEW t \in Seq(Int), NEW mem \in BOOLEAN
    PROVE  Outcome(s, Str!append(s, t, mem)) /\ Outcome(s, Str!prepend(s, t, mem))
<1>d. PICK d \in Seq(Int) : d = s.data
  BY Zenon, KeptParts
<1>1. PICK m \in Nat : m = Len(t)
  OBVIOUS
<1>2. PICK a : a = d \o t
  OBVIOUS
<1>3. PICK b : b = t \o d
  OBVIOUS
<1>4. a \in Seq(Int) /\ Len(a) <= Len(d) + m
  <2>1. a \in Seq(Int) /\ Len(a) = Len(d) + Len(t)
    BY <1>2, JoinIs
  <2> QED BY <1>1, <2>1
<1>5. b \in Seq(Int) /\ Len(b) <= Len(d) + m
  <2>1. b \in Seq(Int) /\ Len(b) = Len(t) + Len(d)
    BY <1>3, JoinIs
  <2> QED BY <1>1, <2>1
<1>6. Outcome(s, Str!Put(s, a, Str!cap_grow(s, m), mem))
  BY Zenon, <1>d, <1>4, GrowHolds
<1>7. Outcome(s, Str!Put(s, b, Str!cap_grow(s, m), mem))
  BY Zenon, <1>d, <1>5, GrowHolds
<1>8. Outcome(s, Str!Same(s))
  BY Zenon, SameHolds
<1>9. Outcome(s, Str!append(s, t, mem))
  BY Zenon, <1>d, <1>1, <1>2, <1>6, <1>8 DEF Str!append
<1>10. Outcome(s, Str!prepend(s, t, mem))
  BY Zenon, <1>d, <1>1, <1>3, <1>7, <1>8 DEF Str!prepend
<1> QED BY <1>9, <1>10

LEMMA FormatKeeps ==
    ASSUME Str!Sane, NEW s, Kept(s), NEW t \in Seq(Int), NEW mem \in BOOLEAN
    PROVE  /\ Outcome(s, Str!vfmt(s, t, mem))
           /\ Outcome(s, Str!vfmt_append(s, t, mem)) /\ Outcome(s, Str!vfmt_prepend(s, t, mem))
  BY Zenon, SetDecodedKeeps, AppendKeeps, RefusedHolds DEF Str!vfmt, Str!vfmt_append, Str!vfmt_prepend

-----------------------------------------------------------------------------
\* Calls that shorten the text.

\* A text no longer than that of s fits its buffer.
LEMMA FitsHolds ==
    ASSUME NEW s, Kept(s), NEW d \in Seq(Int), Len(d) <= Len(s.data)
    PROVE  Outcome(s, Str!Put(s, d, s.cap, TRUE))
<1>1. Len(d) <= s.cap /\ s.cap \in Nat
  BY KeptParts
<1> QED BY Zenon, <1>1, PutHolds

LEMMA RemoveKeeps ==
    ASSUME Str!Sane, NEW s, Kept(s), NEW first \in Int, NEW last \in Int
    PROVE  Outcome(s, Str!remove(s, first, last))
<1>d. PICK d \in Seq(Int) : d = s.data
  BY Zenon, KeptParts
<1>n. PICK n \in Nat : n = Len(d)
  OBVIOUS
<1>i. PICK i : i = Str!XSAFE_TRANS(first, n)
  OBVIOUS
<1>j. PICK j : j = Str!XSAFE_TRANS(last, n)
  OBVIOUS
<1>1. CASE i = Str!Bad \/ j = Str!Bad
  BY Zenon, <1>1, <1>d, <1>n, <1>i, <1>j, RefusedHolds DEF Str!remove
<1>2. CASE i # Str!Bad /\ j # Str!Bad /\ j <= i
  <2>1. Outcome(s, Str!Same(s))
    BY Zenon, SameHolds
  <2>2. Str!remove(s, first, last) = Str!Same(s)
    BY Zenon, <1>2, <1>d, <1>n, <1>i, <1>j DEF Str!remove
  <2> QED BY Zenon, <2>1, <2>2
<1>3. CASE i # Str!Bad /\ j # Str!Bad /\ ~(j <= i)
  <2>1. i \in 0..n /\ j \in 0..n
    BY Zenon, <1>3, <1>i, <1>j, TransIs
  <2>2. i \in Nat /\ 0 \in Nat /\ n \in 0..n /\ j \in Nat /\ i < j
    BY <1>3, <2>1
  <2>3. PICK a : a = Str!Cut(d, 0, i)
    OBVIOUS
  <2>4. PICK b : b = Str!Cut(d, j, n)
    OBVIOUS
  <2>5. a \in Seq(Int) /\ Len(a) = IF 0 < i THEN i - 0 ELSE 0
    BY Zenon, <1>n, <2>1, <2>2, <2>3, CutIs
  <2>6. b \in Seq(Int) /\ Len(b) = IF j < n THEN n - j ELSE 0
    <3>1. n \in 0..Len(d)
      BY <1>n
    <3> QED BY Zenon, <2>2, <2>4, <3>1, CutIs
  <2>7. PICK e : e = a \o b
    OBVIOUS
  <2>8. e \in Seq(Int) /\ Len(e) = Len(a) + Len(b)
    BY <2>5, <2>6, <2>7, JoinIs
  <2>9. Len(e) <= n
    BY <2>1, <2>2, <2>5, <2>6, <2>8
  <2>10. Outcome(s, Str!Put(s, e, s.cap, TRUE))
    BY Zenon, <1>d, <1>n, <2>8, <2>9, FitsHolds
  <2>11. Str!remove(s, first, last) = Str!Put(s, e, s.cap, TRUE)
    BY Zenon, <1>3, <1>d, <1>n, <1>i, <1>j, <2>3, <2>4, <2>7 DEF Str!remove
  <2> QED BY Zenon, <2>10, <2>11
<1> QED BY <1>1, <1>2, <1>3

LEMMA RemoveLastKeeps == ASSUME Str!Sane, NEW s, Kept(s) PROVE Outcome(s, Str!remove_last(s))
<1>d. PICK d \in Seq(Int) : d = s.data
  BY Zenon, KeptParts
<1>1. CASE d = <<>>
  BY Zenon, <1>1, <1>d, RefusedHolds DEF Str!remove_last
<1>2. CASE d # <<>>
  <2>1. PICK e : e = SubSeq(d, 1, Len(d) - 1)
    OBVIOUS
  <2>2. e \in Seq(Int) /\ Len(e) <= Len(d)
    <3>1. PICK m \in Int : m = Len(d) - 1
      OBVIOUS
    <3>2. e = SubSeq(d, 1, m)
      BY Zenon, <2>1, <3>1
    <3>3. Len(d) > 0
      BY <1>2, EmptySeq
    <3>4. e \in Seq(Int) /\ Len(e) = IF 1 <= m THEN m - 1 + 1 ELSE 0
      BY <3>1, <3>2, <3>3, SubSeqProperties
    <3> QED BY <3>1, <3>3, <3>4
  <2>3. Outcome(s, Str!Put(s, e, s.cap, TRUE))
    BY Zenon, <1>d, <2>2, FitsHolds
  <2> QED BY Zenon, <1>2, <1>d, <2>1, <2>3 DEF Str!remove_last
<1> QED BY <1>1, <1>2

LEMMA BuiltIs ==
    ASSUME NEW n \in Nat, NEW e, e \in [1..n -> Int]
    PROVE  e \in Seq(Int) /\ Len(e) = n
  OBVIOUS

\* The text of s, changed character by character.
LEMMA ChangedHolds ==
    ASSUME NEW s, Kept(s), NEW e \in Seq(Int), Len(e) = Len(s.data)
    PROVE  Outcome(s, Str!Put(s, e, s.cap, TRUE))
<1>1. Len(e) <= Len(s.data)
  OBVIOUS
<1> QED BY Zenon, <1>1, FitsHolds

LEMMA SwapCharsKeeps ==
    ASSUME Str!Sane, NEW s, Kept(s), NEW idx1 \in Int, NEW idx2 \in Int
    PROVE  Outcome(s, Str!swap_chars(s, idx1, idx2))
<1>d. PICK d \in Seq(Int) : d = s.data
  BY Zenon, KeptParts
<1>n. PICK n \in Nat : n = Len(d)
  OBVIOUS
<1>i. PICK i : i = Str!XSAFE_ITRANS(idx1, n)
  OBVIOUS
<1>j. PICK j : j = Str!XSAFE_ITRANS(idx2, n)
  OBVIOUS
<1>1. CASE i = Str!Bad \/ j = Str!Bad
  BY Zenon, <1>1, <1>d, <1>n, <1>i, <1>j, RefusedHolds DEF Str!swap_chars
<1>2. CASE i # Str!Bad /\ j # Str!Bad /\ i = j
  <2>1. Outcome(s, Str!Same(s))
    BY Zenon, SameHolds
  <2>2. Str!swap_chars(s, idx1, idx2) = Str!Same(s)
    BY Zenon, <1>2, <1>d, <1>n, <1>i, <1>j DEF Str!swap_chars
  <2> QED BY Zenon, <2>1, <2>2
<1>3. CASE i # Str!Bad /\ j # Str!Bad /\ ~(i = j)
  <2>1. i \in 0..n - 1 /\ j \in 0..n - 1
    BY Zenon, <1>3, <1>i, <1>j, TransIs
  <2>2. PICK a \in 1..n : a = i + 1
    BY <2>1
  <2>3. PICK b \in 1..n : b = j + 1
    BY <2>1
  <2>4. PICK x \in Int : x = d[b]
    BY <1>n, <2>3
  <2>5. PICK y \in Int : y = d[a]
    BY <1>n, <2>2
  <2>6. PICK e : e = [d EXCEPT ![a] = x]
    OBVIOUS
  <2>7. PICK f : f = [e EXCEPT ![b] = y]
    OBVIOUS
  <2>8. e \in Seq(Int) /\ Len(e) = n
    BY <1>n, <2>2, <2>4, <2>6, OneChanged
  <2>9. f \in Seq(Int) /\ Len(f) = n
    BY <2>3, <2>5, <2>7, <2>8, OneChanged
  <2>10. Outcome(s, Str!Put(s, f, s.cap, TRUE))
    BY Zenon, <1>d, <1>n, <2>9, ChangedHolds
  <2>11. f = [d EXCEPT ![i + 1] = Str!At(d, j), ![j + 1] = Str!At(d, i)]
    BY Zenon, <2>2, <2>3, <2>4, <2>5, <2>6, <2>7 DEF Str!At
  <2>12. Str!swap_chars(s, idx1, idx2) = Str!Put(s, f, s.cap, TRUE)
    BY Zenon, <1>3, <1>d, <1>n, <1>i, <1>j, <2>11 DEF Str!swap_chars
  <2> QED BY Zenon, <2>10, <2>12
<1> QED BY <1>1, <1>2, <1>3

LEMMA ReverseKeeps == ASSUME Str!Sane, NEW s, Kept(s) PROVE Outcome(s, Str!reverse(s))
<1>d. PICK d \in Seq(Int) : d = s.data
  BY Zenon, KeptParts
<1>n. PICK n \in Nat : n = Len(d)
  OBVIOUS
<1>1. PICK e : e = [i \in 1..Len(d) |-> d[Len(d) - i + 1]]
  OBVIOUS
<1>2. e = [i \in 1..n |-> d[(n - i) + 1]]
  BY Zenon, <1>1, <1>n
<1>3. e \in [1..n -> Int]
  BY <1>2, <1>n
<1>4. e \in Seq(Int) /\ Len(e) = n
  BY Zenon, <1>3, BuiltIs
<1>5. Outcome(s, Str!Put(s, e, s.cap, TRUE))
  BY Zenon, <1>d, <1>n, <1>4, ChangedHolds
<1> QED BY Zenon, <1>d, <1>1, <1>5, TempDropped DEF Str!reverse

LEMMA SubstringKeeps ==
    ASSUME Str!Sane, NEW s, Kept(s), NEW first \in Int, NEW last \in Int, NEW mem \in BOOLEAN
    PROVE  Outcome(s, Str!substring(s, first, last, mem))
<1>d. PICK d \in Seq(Int) : d = s.data
  BY Zenon, KeptParts
<1>n. PICK n \in Nat : n = Len(d)
  OBVIOUS
<1>i. PICK i : i = Str!XSAFE_TRANS(first, n)
  OBVIOUS
<1>j. PICK j : j = Str!XSAFE_TRANS(last, n)
  OBVIOUS
<1>c. PICK c : c = Str!Cut(d, i, j)
  OBVIOUS
<1>1. CASE i = Str!Bad \/ j = Str!Bad \/ (~mem /\ i < j)
  <2>1. Str!substring(s, first, last, mem) = Str!Refused(s)
    BY Zenon, <1>1, <1>d, <1>n, <1>i, <1>j DEF Str!substring
  <2> QED BY Zenon, <2>1, RefusedHolds
<1>2. CASE ~(i = Str!Bad \/ j = Str!Bad \/ (~mem /\ i < j))
  <2>1. i \in 0..n /\ j \in 0..n
    BY Zenon, <1>2, <1>i, <1>j, TransIs
  <2>2. i \in Nat /\ j \in 0..Len(d)
    BY <1>n, <2>1
  <2>3. c \in Seq(Int)
    BY Zenon, <2>2, <1>c, CutIs
  <2>4. PICK m \in Nat : m = Len(c)
    BY <2>3
  <2>5. PICK tmp \in [size : Nat, used : Nat] : tmp = Str!NoTemp /\ tmp.used <= tmp.size
    BY NoneIs
  <2>6. PICK h \in Seq(Int) : h = Str!None
    BY Zenon, NoneIs
  <2>7. PICK u : u = [data |-> c, cap |-> m, hash |-> h, temp |-> tmp, bare |-> FALSE]
    OBVIOUS
  <2>8. u \in StrObjects /\ u.data = c /\ u.cap = m /\ u.hash = h /\ u.temp = tmp /\ ~u.bare
    BY <2>3, <2>7 DEF StrObjects
  <2>9. Len(u.data) <= u.cap
    BY <2>4, <2>8
  <2>10. Kept(u)
    BY Zenon, <2>5, <2>6, <2>8, <2>9 DEF Kept
  <2>11. Str!substring(s, first, last, mem) = Str!Same(u)
    BY Zenon, <1>2, <1>d, <1>n, <1>i, <1>j, <1>c, <2>4, <2>5, <2>6, <2>7 DEF Str!substring
  <2> QED BY Zenon, <2>10, <2>11, SameHolds
<1> QED BY <1>1, <1>2

\* A set of numbers bounded below, or bounded above, has a least, or a greatest.
LEMMA MinIs ==
    ASSUME NEW n \in Nat, NEW S \in SUBSET (0..n), S # {}
    PROVE  Str!Min(S) \in S /\ \A y \in S : Str!Min(S) <= y
<1>1. S \subseteq Nat
  OBVIOUS
<1>2. \E m \in S : \A y \in S : m <= y
  BY Zenon, <1>1, LeastNatural
<1> QED BY Zenon, <1>2 DEF Str!Min

LEMMA MaxIs ==
    ASSUME NEW n \in Nat, NEW S \in SUBSET (0..n), S # {}
    PROVE  Str!Max(S) \in S /\ \A y \in S : Str!Max(S) >= y
<1>1. PICK T : T = {n - x : x \in S}
  OBVIOUS
<1>2. T \subseteq Nat /\ T # {}
  <2>1. \A x \in S : n - x \in Nat
    OBVIOUS
  <2>2. T \subseteq Nat
    BY Zenon, <1>1, <2>1
  <2> QED BY Zenon, <1>1, <2>2
<1>3. PICK m \in T : \A y \in T : m <= y
  BY Zenon, <1>2, LeastNatural
<1>4. PICK x \in S : m = n - x
  BY <1>1, <1>3
<1>5. \A y \in S : x >= y
  BY <1>1, <1>3, <1>4
<1> QED BY Zenon, <1>5 DEF Str!Max

LEMMA TrimKeeps == ASSUME Str!Sane, NEW s, Kept(s) PROVE Outcome(s, Str!trim(s))
<1>d. PICK d \in Seq(Int) : d = s.data
  BY Zenon, KeptParts
<1>n. PICK n \in Nat : n = Len(d)
  OBVIOUS
<1>s. Outcome(s, Str!Same(s))
  BY Zenon, SameHolds
<1>u. PICK used : used = {i \in 1..n : ~Str!is_space(d[i])}
  OBVIOUS
<1>1. CASE d = <<>> \/ (d # <<>> /\ used = 1..n /\ used # {})
  <2>1. Str!trim(s) = Str!Same(s)
    BY Zenon, <1>1, <1>d, <1>n, <1>u DEF Str!trim
  <2> QED BY Zenon, <1>s, <2>1
<1>2. CASE d # <<>> /\ used = {}
  <2>1. PICK e \in Seq(Int) : e = <<>> /\ Len(e) = 0
    BY Zenon, EmptyIs
  <2>2. Len(e) <= Len(s.data)
    BY <1>d, <1>n, <2>1
  <2>3. Outcome(s, Str!Put(s, e, s.cap, TRUE))
    BY Zenon, <2>2, FitsHolds
  <2>4. used # 1..n
    <3>1. n # 0
      BY <1>2, <1>n, EmptySeq
    <3>2. 1 \in 1..n
      BY <3>1
    <3> QED BY Zenon, <1>2, <3>2
  <2>5. Str!trim(s) = Str!Put(s, e, s.cap, TRUE)
    BY Zenon, <1>2, <1>d, <1>n, <1>u, <2>1, <2>4 DEF Str!trim
  <2> QED BY Zenon, <2>3, <2>5
<1>3. CASE d # <<>> /\ used # {} /\ used # 1..n
  <2>1. used \in SUBSET (0..n)
    BY <1>u
  <2>2. PICK a \in 1..n : a = Str!Min(used)
    BY <1>3, <1>u, <2>1, MinIs
  <2>3. PICK b \in 1..n : b = Str!Max(used)
    BY <1>3, <1>u, <2>1, MaxIs
  <2>4. PICK e : e = SubSeq(d, a, b)
    OBVIOUS
  <2>5. e \in Seq(Int) /\ Len(e) <= n /\ (n = b - a + 1 => e = d)
    <3>1. e \in Seq(Int) /\ Len(e) = IF a <= b THEN b - a + 1 ELSE 0
      BY <1>n, <2>2, <2>3, <2>4, SubSeqProperties
    <3>2. ASSUME n = b - a + 1 PROVE e = d
      <4>1. a = 1 /\ b = Len(d)
        BY <1>n, <2>2, <2>3, <3>2
      <4> QED BY <2>4, <4>1
    <3> QED BY <2>2, <2>3, <3>1, <3>2
  <2>6. PICK h : h = (IF n = b - a + 1 THEN s.hash ELSE Str!None)
    OBVIOUS
  <2>7. s \in StrObjects /\ s.hash \in {Str!None, d} /\ ~s.bare
    BY Zenon, <1>3, <1>d DEF Kept
  <2>8. h \in Seq(Int) /\ h \in {Str!None, e}
    BY Zenon, <2>5, <2>6, <2>7, NoneIs
  <2>9. PICK v : v = [s EXCEPT !.data = e, !.hash = h]
    OBVIOUS
  <2>10. v \in StrObjects /\ v.data = e /\ v.cap = s.cap /\ v.hash = h /\ v.temp = s.temp /\ v.bare = s.bare
    <3>1. s \in StrObjects
      BY Zenon, KeptParts
    <3> QED BY <2>5, <2>8, <2>9, <3>1 DEF StrObjects
  <2>11. Len(v.data) <= v.cap
    BY <1>d, <1>n, <2>5, <2>10, KeptParts
  <2>12. Kept(v)
    BY Zenon, <2>7, <2>8, <2>10, <2>11 DEF Kept
  <2>13. v = [s EXCEPT !.data = SubSeq(@, a, b), !.hash = IF n = b - a + 1 THEN @ ELSE Str!None]
    BY Zenon, <1>d, <2>4, <2>6, <2>9
  <2>14. Str!trim(s) = [s |-> v, ok |-> TRUE]
    BY Zenon, <1>3, <1>d, <1>n, <1>u, <2>2, <2>3, <2>13 DEF Str!trim
  <2> QED BY Zenon, <2>12, <2>14, OutcomeIs
<1> QED BY <1>1, <1>2, <1>3

LEMMA SetLengthKeeps == ASSUME Str!Sane, NEW s, Kept(s), NEW n \in Nat PROVE Outcome(s, Str!set_length(s, n))
<1>d. PICK d \in Seq(Int) : d = s.data
  BY Zenon, KeptParts
<1>1. CASE Len(d) <= n
  BY Zenon, <1>1, <1>d, SameHolds DEF Str!set_length
<1>2. CASE ~(Len(d) <= n)
  <2>1. PICK e : e = Str!Cut(d, 0, n)
    OBVIOUS
  <2>2. 0 \in Nat /\ n \in 0..Len(d)
    BY <1>2
  <2>3. e \in Seq(Int) /\ Len(e) = IF 0 < n THEN n - 0 ELSE 0
    BY Zenon, <2>1, <2>2, CutIs
  <2>4. Len(e) <= Len(d)
    BY <2>2, <2>3
  <2>5. Outcome(s, Str!Put(s, e, s.cap, TRUE))
    BY Zenon, <1>d, <2>3, <2>4, FitsHolds
  <2> QED BY Zenon, <1>2, <1>d, <2>1, <2>5, TempDropped DEF Str!set_length
<1> QED BY <1>1, <1>2

LEMMA TruncateKeeps == ASSUME Str!Sane, NEW s, Kept(s) PROVE Outcome(s, Str!truncate(s))
<1>1. PICK e \in Seq(Int) : e = <<>> /\ Len(e) = 0
  BY Zenon, EmptyIs
<1>2. PICK c \in Nat : c = 0 /\ Len(e) <= c
  BY <1>1
<1>3. Kept(Str!NewText(s, e, c))
  BY Zenon, <1>2, NewTextIs
<1>4. Outcome(s, Str!Same(Str!NewText(s, e, c)))
  BY Zenon, <1>3, SameHolds
<1> QED BY Zenon, <1>1, <1>2, <1>4, TempDropped DEF Str!truncate

\* Another capacity, in which the text fits.
LEMMA Recapped ==
    ASSUME NEW s, Kept(s), NEW c \in Nat, Len(s.data) <= c
    PROVE  Kept([s EXCEPT !.cap = c])
<1>1. PICK u : u = [s EXCEPT !.cap = c]
  OBVIOUS
<1>2. s \in StrObjects
  BY Zenon, KeptParts
<1>3. u \in StrObjects /\ u.data = s.data /\ u.cap = c /\ u.hash = s.hash /\ u.temp = s.temp /\ u.bare = s.bare
  BY <1>1, <1>2 DEF StrObjects
<1>4. Kept(u)
  BY Zenon, <1>3 DEF Kept
<1> QED BY Zenon, <1>1, <1>4

LEMMA ReduceKeeps == ASSUME Str!Sane, NEW s, Kept(s), NEW mem \in BOOLEAN PROVE Outcome(s, Str!reduce(s, mem))
<1>1. PICK n \in Nat : n = Len(s.data)
  BY Zenon, KeptParts
<1>2. n <= n
  OBVIOUS
<1>3. Kept([s EXCEPT !.cap = n])
  BY Zenon, <1>1, <1>2, Recapped
<1>4. Outcome(s, Str!Same([s EXCEPT !.cap = n])) /\ Outcome(s, Str!Same(s))
  BY Zenon, <1>3, SameHolds
<1> QED BY Zenon, <1>1, <1>4, TempDropped DEF Str!reduce

\* truncate(size) may fail after it has cut the text, and says so.
LEMMA TruncateToKeeps ==
    ASSUME Str!Sane, NEW s, Kept(s), NEW n \in Nat, NEW mem \in BOOLEAN
    PROVE  Kept(Str!truncate_to(s, n, mem).s) /\ Str!truncate_to(s, n, mem).ok \in BOOLEAN
<1>d. PICK d \in Seq(Int) : d = s.data
  BY Zenon, KeptParts
<1>l. PICK l \in Nat : l = Len(d)
  OBVIOUS
<1>m. PICK m \in Nat : m = Str!Lesser(n, l) /\ m <= n /\ m <= l /\ (l <= n => m = l)
  BY DEF Str!Lesser
<1>e. PICK e : e = Str!Cut(d, 0, m)
  OBVIOUS
<1>h. PICK h : h = (IF l > n THEN Str!None ELSE s.hash)
  OBVIOUS
<1>1. e \in Seq(Int) /\ Len(e) = m /\ (l <= n => e = d)
  <2>1. 0 \in Nat /\ m \in 0..Len(d)
    BY <1>l, <1>m
  <2>2. e \in Seq(Int) /\ Len(e) = IF 0 < m THEN m - 0 ELSE 0
    BY Zenon, <1>e, <2>1, CutIs
  <2>3. ASSUME l <= n PROVE e = d
    <3>1. e = SubSeq(d, 1, Len(d))
      BY <1>l, <1>m, <1>e, <2>3 DEF Str!Cut
    <3> QED BY <3>1
  <2> QED BY <1>m, <2>2, <2>3
<1>2. s \in StrObjects /\ (s.hash \in {Str!None, d} \/ s.bare) /\ (s.bare => d = <<>>)
  BY Zenon, <1>d DEF Kept
<1>3. h \in Seq(Int) /\ (h \in {Str!None, e} \/ s.bare)
  <2>1. CASE l > n
    BY Zenon, <1>h, <2>1, NoneIs
  <2>2. CASE ~(l > n)
    <3>1. e = d
      BY <1>1, <2>2, <1>m
    <3>2. s.hash \in Seq(Int)
      BY <1>2 DEF StrObjects
    <3> QED BY Zenon, <1>h, <1>2, <2>2, <3>1, <3>2
  <2> QED BY <2>1, <2>2
<1>4. PICK u : u = [s EXCEPT !.data = e, !.hash = h]
  OBVIOUS
<1>5. u \in StrObjects /\ u.data = e /\ u.cap = s.cap /\ u.hash = h /\ u.temp = s.temp /\ u.bare = s.bare
  <2>1. s \in StrObjects
    BY Zenon, KeptParts
  <2> QED BY <1>1, <1>3, <1>4, <2>1 DEF StrObjects
<1>b. s.bare => e = <<>>
  <2>1. ASSUME d = <<>> PROVE e = <<>>
    BY <1>l, <1>m, <1>1, <2>1
  <2> QED BY Zenon, <1>2, <2>1
<1>6. Len(u.data) <= u.cap /\ Len(u.data) <= n
  BY <1>d, <1>l, <1>m, <1>1, <1>5, KeptParts
<1>7. Kept(u)
  BY Zenon, <1>2, <1>3, <1>5, <1>6, <1>b DEF Kept
<1>8. Kept([u EXCEPT !.cap = n])
  BY Zenon, <1>6, <1>7, Recapped
<1>9. u = [s EXCEPT !.data = Str!Cut(@, 0, Str!Lesser(n, Len(@))), !.hash = IF Len(s.data) > n THEN Str!None ELSE @]
  BY Zenon, <1>d, <1>l, <1>m, <1>e, <1>h, <1>4
<1>10. PICK r : r = (IF n > s.cap THEN Str!Same(s) ELSE IF ~mem /\ n > 0 THEN Str!Refused(u) ELSE Str!Same([u EXCEPT !.cap = n]))
  OBVIOUS
<1>11. Outcome(s, r) \/ Outcome(u, r)
  <2>1. Outcome(s, Str!Same(s))
    BY Zenon, SameHolds
  <2>2. Outcome(u, Str!Refused(u))
    BY Zenon, <1>7, RefusedHolds
  <2>3. Outcome(s, Str!Same([u EXCEPT !.cap = n]))
    BY Zenon, <1>8, SameHolds
  <2> QED BY Zenon, <1>10, <2>1, <2>2, <2>3
<1>12. PICK q : q = Str!drop_temp(r)
  OBVIOUS
<1>13. Outcome(s, q) \/ Outcome(u, q)
  BY Zenon, <1>11, <1>12, TempDropped
<1>14. Str!truncate_to(s, n, mem) = q
  BY Zenon, <1>9, <1>10, <1>12 DEF Str!truncate_to
<1>15. q \in [s : StrObjects, ok : BOOLEAN] /\ Kept(q.s)
  BY Zenon, <1>13 DEF Outcome
<1>16. q.ok \in BOOLEAN
  BY <1>15
<1> QED BY Zenon, <1>14, <1>15, <1>16

\* A text in a buffer that was made to hold it.
LEMMA ReserveHolds ==
    ASSUME Str!Sane, NEW s, Kept(s), NEW d \in Seq(Int), NEW n \in Nat, Len(d) <= n, NEW mem \in BOOLEAN
    PROVE  Outcome(s, Str!Put(s, d, Str!cap_reserve(s, n), mem))
<1>1. PICK c \in Nat : c = Str!cap_reserve(s, n) /\ n <= c
  BY Zenon, ReservedIs
<1>2. Len(d) <= c
  BY <1>1
<1> QED BY Zenon, <1>1, <1>2, PutHolds

LEMMA ReplaceTailKeeps ==
    ASSUME Str!Sane, NEW s, Kept(s), NEW pos \in Int, NEW t \in Seq(Int), NEW mem \in BOOLEAN
    PROVE  Outcome(s, Str!replace_tail(s, pos, t, mem))
<1>d. PICK d \in Seq(Int) : d = s.data
  BY Zenon, KeptParts
<1>n. PICK n \in Nat : n = Len(d)
  OBVIOUS
<1>i. PICK i : i = Str!XSAFE_TRANS(pos, n)
  OBVIOUS
<1>1. CASE i = Str!Bad
  BY Zenon, <1>1, <1>d, <1>n, <1>i, RefusedHolds DEF Str!replace_tail
<1>2. CASE i # Str!Bad
  <2>1. i \in 0..n
    BY Zenon, <1>2, <1>i, TransIs
  <2>2. i \in 0..Len(d) /\ 0 \in Nat /\ i \in Nat
    BY <1>n, <2>1
  <2>3. PICK a : a = Str!Cut(d, 0, i)
    OBVIOUS
  <2>4. a \in Seq(Int) /\ Len(a) = IF 0 < i THEN i - 0 ELSE 0
    BY Zenon, <2>2, <2>3, CutIs
  <2>5. PICK e : e = a \o t
    OBVIOUS
  <2>6. e \in Seq(Int) /\ Len(e) = Len(a) + Len(t)
    BY <2>4, <2>5, JoinIs
  <2>7. PICK m \in Nat : m = i + Len(t) /\ Len(e) <= m
    BY <2>2, <2>4, <2>6
  <2>8. Outcome(s, Str!Put(s, e, Str!cap_reserve(s, m), mem))
    BY Zenon, <2>6, <2>7, ReserveHolds
  <2>9. Str!replace_tail(s, pos, t, mem) = Str!Put(s, e, Str!cap_reserve(s, m), mem)
    BY Zenon, <1>2, <1>d, <1>n, <1>i, <2>3, <2>5, <2>7 DEF Str!replace_tail
  <2> QED BY Zenon, <2>8, <2>9
<1> QED BY <1>1, <1>2

LEMMA ReplaceTailCharKeeps ==
    ASSUME Str!Sane, NEW s, Kept(s), NEW pos \in Int, NEW ch \in Int, NEW mem \in BOOLEAN
    PROVE  Outcome(s, Str!replace_tail_char(s, pos, ch, mem))
<1>d. PICK d \in Seq(Int) : d = s.data
  BY Zenon, KeptParts
<1>n. PICK n \in Nat : n = Len(d)
  OBVIOUS
<1>i. PICK i : i = Str!XSAFE_TRANS(pos, n)
  OBVIOUS
<1>1. CASE i = Str!Bad
  BY Zenon, <1>1, <1>d, <1>n, <1>i, RefusedHolds DEF Str!replace_tail_char
<1>2. CASE i # Str!Bad /\ i < n
  <2>1. i \in 0..n
    BY Zenon, <1>2, <1>i, TransIs
  <2>2. i \in 0..Len(d) /\ 0 \in Nat
    BY <1>n, <2>1
  <2>3. PICK a : a = Str!Cut(d, 0, i)
    OBVIOUS
  <2>4. a \in Seq(Int) /\ Len(a) = IF 0 < i THEN i - 0 ELSE 0
    BY Zenon, <2>2, <2>3, CutIs
  <2>5. Len(a) <= Len(d)
    BY <2>2, <2>4
  <2>6. Outcome(s, Str!Put(s, a, s.cap, TRUE))
    BY Zenon, <1>d, <2>4, <2>5, FitsHolds
  <2>7. Str!replace_tail_char(s, pos, ch, mem) = Str!Put(s, a, s.cap, TRUE)
    BY Zenon, <1>2, <1>d, <1>n, <1>i, <2>3 DEF Str!replace_tail_char
  <2> QED BY Zenon, <2>6, <2>7
<1>3. CASE i # Str!Bad /\ ~(i < n)
  <2>1. PICK t \in Seq(Int) : t = <<ch>>
    <3>1. <<ch>> \in Seq(Int)
      OBVIOUS
    <3> QED BY Zenon, <3>1
  <2>2. Str!replace_tail_char(s, pos, ch, mem) = Str!append(s, t, mem)
    BY Zenon, <1>3, <1>d, <1>n, <1>i, <2>1 DEF Str!replace_tail_char
  <2> QED BY Zenon, <2>2, AppendKeeps
<1> QED BY <1>1, <1>2, <1>3

LEMMA ReplaceAllKeeps ==
    ASSUME Str!Sane, NEW s, Kept(s), NEW ch \in Int, NEW rep \in Int
    PROVE  Outcome(s, Str!replace_all(s, ch, rep))
<1>d. PICK d \in Seq(Int) : d = s.data
  BY Zenon, KeptParts
<1>n. PICK n \in Nat : n = Len(d) /\ DOMAIN d = 1..n
  OBVIOUS
<1>e. PICK e : e = [i \in DOMAIN d |-> IF d[i] = ch THEN rep ELSE d[i]]
  OBVIOUS
<1>1. e \in [1..n -> Int]
  BY <1>n, <1>e
<1>2. e \in Seq(Int) /\ Len(e) = n
  BY Zenon, <1>1, BuiltIs
<1>3. Outcome(s, Str!Put(s, e, s.cap, TRUE)) /\ Outcome(s, Str!Same(s))
  BY Zenon, <1>d, <1>n, <1>2, ChangedHolds, SameHolds
<1> QED BY Zenon, <1>d, <1>e, <1>3 DEF Str!replace_all

LEMMA CaseIs == ASSUME NEW c \in Int PROVE Str!to_lower(c) \in Int /\ Str!to_upper(c) \in Int
  BY DEF Str!to_lower, Str!to_upper, Str!UpperA, Str!LowerA

LEMMA ToLowerKeeps ==
    ASSUME Str!Sane, NEW s, Kept(s), NEW first \in Int, NEW last \in Int
    PROVE  Outcome(s, Str!tolower(s, first, last))
<1>d. PICK d \in Seq(Int) : d = s.data
  BY Zenon, KeptParts
<1>n. PICK n \in Nat : n = Len(d) /\ DOMAIN d = 1..n
  OBVIOUS
<1>i. PICK i : i = Str!XSAFE_TRANS(first, n)
  OBVIOUS
<1>j. PICK j : j = Str!XSAFE_TRANS(last, n)
  OBVIOUS
<1>1. CASE i = Str!Bad \/ j = Str!Bad
  BY Zenon, <1>1, <1>d, <1>n, <1>i, <1>j, RefusedHolds DEF Str!tolower
<1>2. CASE ~(i = Str!Bad \/ j = Str!Bad)
  <2>1. PICK I : I = 2 * Str!Lesser(i, j)..Str!Lesser(i, j) + Str!Greater(i, j) - 1
    OBVIOUS
  <2>2. PICK e : e = [k \in DOMAIN d |-> IF k - 1 \in I THEN Str!to_lower(d[k]) ELSE d[k]]
    OBVIOUS
  <2>3. \A k \in DOMAIN d : d[k] \in Int /\ Str!to_lower(d[k]) \in Int
    <3>1. \A k \in DOMAIN d : d[k] \in Int
      OBVIOUS
    <3> QED BY Zenon, <3>1, CaseIs
  <2>4. e \in [1..n -> Int]
    BY Zenon, <1>n, <2>2, <2>3
  <2>5. e \in Seq(Int) /\ Len(e) = n
    BY Zenon, <2>4, BuiltIs
  <2>6. Outcome(s, Str!Put(s, e, s.cap, TRUE))
    BY Zenon, <1>d, <1>n, <2>5, ChangedHolds
  <2>7. Str!tolower(s, first, last) = Str!Put(s, e, s.cap, TRUE)
    BY Zenon, <1>2, <1>d, <1>n, <1>i, <1>j, <2>1, <2>2 DEF Str!tolower
  <2> QED BY Zenon, <2>6, <2>7
<1> QED BY <1>1, <1>2

LEMMA ToUpperKeeps == ASSUME Str!Sane, NEW s, Kept(s) PROVE Outcome(s, Str!toupper(s))
<1>d. PICK d \in Seq(Int) : d = s.data
  BY Zenon, KeptParts
<1>n. PICK n \in Nat : n = Len(d) /\ DOMAIN d = 1..n
  OBVIOUS
<1>1. PICK e : e = [k \in DOMAIN d |-> Str!to_upper(d[k])]
  OBVIOUS
<1>2. \A k \in DOMAIN d : Str!to_upper(d[k]) \in Int
  <2>1. \A k \in DOMAIN d : d[k] \in Int
    OBVIOUS
  <2> QED BY Zenon, <2>1, CaseIs
<1>3. e \in [1..n -> Int]
  BY Zenon, <1>n, <1>1, <1>2
<1>4. e \in Seq(Int) /\ Len(e) = n
  BY Zenon, <1>3, BuiltIs
<1>5. Outcome(s, Str!Put(s, e, s.cap, TRUE))
  BY Zenon, <1>d, <1>n, <1>4, ChangedHolds
<1> QED BY Zenon, <1>d, <1>1, <1>5 DEF Str!toupper

LEMMA HashKeeps == ASSUME Str!Sane, NEW s, Kept(s) PROVE Outcome(s, Str!hash(s))
<1>d. PICK d \in Seq(Int) : d = s.data
  BY Zenon, KeptParts
<1>1. PICK u : u = [s EXCEPT !.hash = d]
  OBVIOUS
<1>2. u \in StrObjects /\ u.data = d /\ u.cap = s.cap /\ u.hash = d /\ u.temp = s.temp /\ u.bare = s.bare
  <2>1. s \in StrObjects
    BY Zenon, KeptParts
  <2> QED BY <1>d, <1>1, <2>1 DEF StrObjects
<1>3. Kept(u)
  BY Zenon, <1>d, <1>2 DEF Kept
<1>4. Outcome(s, Str!Same(u)) /\ Outcome(s, Str!Same(s))
  BY Zenon, <1>3, SameHolds
<1> QED BY Zenon, <1>d, <1>1, <1>4 DEF Str!hash

\* Another buffer of an encoded copy, which holds it.
LEMMA TempReplaced ==
    ASSUME NEW s, Kept(s), NEW tmp \in [size : Nat, used : Nat], tmp.used <= tmp.size
    PROVE  Outcome(s, Str!Same([s EXCEPT !.temp = tmp]))
<1>1. PICK u : u = [s EXCEPT !.temp = tmp]
  OBVIOUS
<1>2. u \in StrObjects /\ u.data = s.data /\ u.cap = s.cap /\ u.hash = s.hash /\ u.temp = tmp /\ u.bare = s.bare
  <2>1. s \in StrObjects
    BY Zenon, KeptParts
  <2> QED BY <1>1, <2>1 DEF StrObjects
<1>3. Kept(u)
  BY Zenon, <1>2 DEF Kept
<1> QED BY Zenon, <1>1, <1>3, SameHolds

LEMMA GetAsciiKeeps ==
    ASSUME Str!Sane, NEW s, Kept(s), NEW first \in Int, NEW last \in Int
    PROVE  Outcome(s, Str!get_ascii(s, first, last))
<1>n. PICK n \in Nat : n = Len(s.data)
  BY Zenon, KeptParts
<1>i. PICK i : i = Str!XSAFE_TRANS(first, n)
  OBVIOUS
<1>j. PICK j : j = Str!XSAFE_TRANS(last, n)
  OBVIOUS
<1>1. CASE i = Str!Bad \/ j = Str!Bad \/ i > j
  BY Zenon, <1>1, <1>n, <1>i, <1>j, RefusedHolds DEF Str!get_ascii
<1>2. CASE ~(i = Str!Bad \/ j = Str!Bad \/ i > j)
  <2>1. i \in 0..n /\ j \in 0..n
    BY Zenon, <1>2, <1>i, <1>j, TransIs
  <2>2. PICK m \in Nat : m = j - i + 1
    BY <1>2, <2>1
  <2>3. PICK tmp : tmp = [size |-> m, used |-> m]
    OBVIOUS
  <2>4. tmp \in [size : Nat, used : Nat] /\ tmp.used <= tmp.size
    BY <2>3
  <2>5. Outcome(s, Str!Same([s EXCEPT !.temp = tmp]))
    BY Zenon, <2>4, TempReplaced
  <2> QED BY Zenon, <1>2, <1>n, <1>i, <1>j, <2>2, <2>3, <2>5 DEF Str!get_ascii
<1> QED BY <1>1, <1>2

LEMMA ReplaceRangeKeeps ==
    ASSUME Str!Sane, NEW s, Kept(s), NEW first \in Int, NEW last \in Int, NEW t \in Seq(Int), NEW mem \in BOOLEAN
    PROVE  Outcome(s, Str!replace_range(s, first, last, t, mem))
<1>d. PICK d \in Seq(Int) : d = s.data
  BY Zenon, KeptParts
<1>n. PICK n \in Nat : n = Len(d)
  OBVIOUS
<1>i. PICK i : i = Str!XSAFE_TRANS(first, n)
  OBVIOUS
<1>j. PICK j : j = Str!XSAFE_TRANS(last, n)
  OBVIOUS
<1>1. CASE i = Str!Bad \/ j = Str!Bad
  BY Zenon, <1>1, <1>d, <1>n, <1>i, <1>j, RefusedHolds DEF Str!replace_range
<1>2. CASE ~(i = Str!Bad \/ j = Str!Bad)
  <2>1. i \in 0..n /\ j \in 0..n
    BY Zenon, <1>2, <1>i, <1>j, TransIs
  <2>2. PICK count \in Nat : count = Str!Greater(j - i, 0) /\ count <= n - i
    <3>1. PICK k \in Int : k = j - i /\ k <= n - i /\ 0 <= n - i
      BY <2>1
    <3>2. Str!Greater(k, 0) \in Nat /\ Str!Greater(k, 0) <= n - i
      BY <2>1, <3>1 DEF Str!Greater
    <3> QED BY Zenon, <3>1, <3>2
  <2>3. PICK tail \in Nat : tail = n - i - count
    BY <2>1, <2>2
  <2>4. PICK l \in Nat : l = Len(t)
    OBVIOUS
  <2>5. PICK m \in Nat : m = n - count + l
    BY <2>1, <2>2, <2>4
  <2>6. PICK cell : cell = [k \in Nat |-> IF k < n THEN Str!At(d, k) ELSE Str!Junk]
    OBVIOUS
  <2>7. PICK new : new = [k \in Nat |->
                             IF k \in i..i + l - 1 THEN Str!At(t, k - i)
                             ELSE IF tail > 0 /\ k - i - l \in 0..n - tail - 1 THEN cell[tail + k - i - l]
                             ELSE cell[k]]
    OBVIOUS
  <2>8. ASSUME NEW k \in Nat PROVE cell[k] \in Int
    BY <1>n, <2>6 DEF Str!At, Str!Junk
  <2>9. ASSUME NEW k \in Nat PROVE new[k] \in Int
    <3>1. CASE k \in i..i + l - 1
      <4>1. new[k] = t[k - i + 1]
        BY Zenon, <2>7, <3>1 DEF Str!At
      <4>2. k - i + 1 \in 1..l
        BY <2>1, <3>1
      <4> QED BY <2>4, <4>1, <4>2
    <3>2. CASE ~(k \in i..i + l - 1) /\ tail > 0 /\ k - i - l \in 0..n - tail - 1
      <4>1. PICK x \in Nat : x = tail + k - i - l
        BY <2>1, <3>2
      <4>2. new[k] = cell[x]
        BY Zenon, <2>7, <3>2, <4>1
      <4> QED BY <2>8, <4>2
    <3>3. CASE ~(k \in i..i + l - 1) /\ ~(tail > 0 /\ k - i - l \in 0..n - tail - 1)
      BY Zenon, <2>7, <2>8, <3>3
    <3> QED BY <3>1, <3>2, <3>3
  <2>10. PICK e : e = [k \in 1..m |-> new[k - 1]]
    OBVIOUS
  <2>11. e \in [1..m -> Int]
    <3>1. ASSUME NEW k \in 1..m PROVE new[k - 1] \in Int
      <4>1. k - 1 \in Nat
        OBVIOUS
      <4> QED BY Zenon, <2>9, <4>1
    <3> QED BY Zenon, <2>10, <3>1
  <2>12. e \in Seq(Int) /\ Len(e) = m
    BY Zenon, <2>11, BuiltIs
  <2>13. Len(e) <= m
    BY <2>12
  <2>14. Outcome(s, Str!Put(s, e, Str!cap_reserve(s, m), mem))
    BY Zenon, <2>12, <2>13, ReserveHolds
  <2>15. Str!replace_range(s, first, last, t, mem) = Str!Put(s, e, Str!cap_reserve(s, m), mem)
    <3> DEFINE c(k) == IF k < n THEN Str!At(d, k) ELSE Str!Junk
               nw(k) == IF k \in i..i + l - 1 THEN Str!At(t, k - i)
                        ELSE IF tail > 0 /\ k - i - l \in 0..n - tail - 1 THEN c(tail + k - i - l)
                        ELSE c(k)
    <3>1. Str!replace_range(s, first, last, t, mem) = Str!Put(s, [k \in 1..m |-> nw(k - 1)], Str!cap_reserve(s, m), mem)
      BY Zenon, <1>2, <1>d, <1>n, <1>i, <1>j, <2>2, <2>3, <2>4, <2>5 DEF Str!replace_range
    <3>2. ASSUME NEW k \in Nat PROVE new[k] = nw(k)
      <4>1. \A x \in Nat : cell[x] = c(x)
        BY Zenon, <2>6
      <4>2. CASE tail > 0 /\ k - i - l \in 0..n - tail - 1
        <5>1. PICK x \in Nat : x = tail + k - i - l
          BY <2>1, <4>2
        <5>2. cell[x] = c(x)
          BY Zenon, <4>1
        <5> QED BY Zenon, <2>7, <4>2, <5>1, <5>2
      <4>3. CASE ~(tail > 0 /\ k - i - l \in 0..n - tail - 1)
        <5>1. cell[k] = c(k)
          BY Zenon, <4>1
        <5> QED BY Zenon, <2>7, <4>3, <5>1
      <4> QED BY <4>2, <4>3
    <3> HIDE DEF nw
    <3>3. ASSUME NEW k \in 1..m PROVE new[k - 1] = nw(k - 1)
      <4>1. k - 1 \in Nat
        OBVIOUS
      <4> QED BY Zenon, <3>2, <4>1
    <3>4. e = [k \in 1..m |-> nw(k - 1)]
      BY Zenon, <2>10, <3>3
    <3> QED BY Zenon, <3>1, <3>4
  <2> QED BY Zenon, <2>14, <2>15
<1> QED BY <1>1, <1>2

\* What a loop that goes round n times leaves: its body maps S to itself.
LEMMA LoopStays ==
    ASSUME NEW S, NEW F \in [S -> S], NEW x \in S, NEW n \in Nat, NEW g, g[0] = x,
           \A i \in 1..n : g[i - 1] \in S => g[i] = F[g[i - 1]]
    PROVE  \A i \in 0..n : g[i] \in S
<1> DEFINE T == {i \in 0..n : g[i] \notin S}
<1>1. T \subseteq Nat
  OBVIOUS
<1>2. CASE T = {}
  BY Zenon, <1>2
<1>3. CASE T # {}
  <2>1. PICK m \in T : \A k \in T : m <= k
    BY Zenon, <1>1, <1>3, LeastNatural
  <2>2. m \in 1..n /\ g[m] \notin S
    BY <2>1
  <2>3. PICK k \in 0..n : k = m - 1
    BY <2>2
  <2>4. g[k] \in S
    BY <2>1, <2>2, <2>3
  <2>5. g[m] = F[g[k]]
    BY Zenon, <2>2, <2>3, <2>4
  <2> QED BY <2>2, <2>4, <2>5
<1> QED BY <1>2, <1>3

Temps == {t \in [size : Nat, used : Nat] : t.used <= t.size}

LEMMA AppendTempIs ==
    ASSUME NEW t \in Temps, NEW n \in Nat
    PROVE  Str!append_temp(t, n) \in Temps
<1>1. PICK a \in Nat : a = t.size
  BY DEF Temps
<1>2. PICK b \in Nat : b = t.used /\ b <= a
  BY <1>1 DEF Temps
<1>3. PICK c \in Nat : c = (IF a - b < n THEN a + n + n \div 2 ELSE a) /\ b + n <= c
  BY <1>2
<1>4. PICK e \in Nat : e = b + n /\ e <= c
  BY <1>3
<1>5. Str!append_temp(t, n) = [size |-> c, used |-> e]
  BY Zenon, <1>1, <1>2, <1>3, <1>4 DEF Str!append_temp
<1> QED BY <1>4, <1>5 DEF Temps

LEMMA PiecesIs ==
    ASSUME Str!Sane, NEW t \in Temps, NEW n \in Nat
    PROVE  Str!Pieces(t, n) \in Temps
<1>x. PICK x : x = [t EXCEPT !.used = 0]
  OBVIOUS
<1>1. x \in Temps
  BY <1>x DEF Temps
<1> DEFINE Step(f) == [k \in 0..n |-> IF k = 0 THEN x ELSE Str!append_temp(f[k - 1], Granularity)]
<1>F. PICK F : F = [u \in Temps |-> Str!append_temp(u, Granularity)]
  OBVIOUS
<1>2. F \in [Temps -> Temps]
  <2>1. Granularity \in Nat
    BY DEF Str!Sane
  <2> QED BY Zenon, <1>F, <2>1, AppendTempIs
<1>3. \E f : f = Step(f)
  <2>1. PICK g \in [0..n -> Temps] : g[0] = x /\ \A i \in 1..n : g[i] = F[g[i - 1]]
    <3>1. IteratesOf(Temps, F, x, n) # {}
      BY Zenon, <1>1, <1>2, Iterates
    <3> QED BY Zenon, <3>1 DEF IteratesOf
  <2>2. ASSUME NEW i \in 0..n, i # 0 PROVE g[i] = Str!append_temp(g[i - 1], Granularity)
    <3>1. i \in 1..n /\ i - 1 \in 0..n
      BY <2>2
    <3> QED BY Zenon, <1>F, <2>1, <3>1
  <2>3. g = [i \in 0..n |-> g[i]]
    OBVIOUS
  <2>4. g = Step(g)
    BY <2>1, <2>2, <2>3
  <2> QED BY Zenon, <2>4
<1>4. PICK run : run = Step(run) /\ Str!Pieces(t, n) = run[n]
  <2>1. PICK run : run = CHOOSE f : f = Step(f)
    OBVIOUS
  <2>2. run = Step(run)
    BY Zenon, <1>3, <2>1
  <2>3. Str!Pieces(t, n) = run[n]
    BY Zenon, <1>x, <2>1 DEF Str!Pieces
  <2> QED BY Zenon, <2>2, <2>3
<1>5. run[0] = x
  BY <1>4
<1>6. ASSUME NEW i \in 1..n, run[i - 1] \in Temps PROVE run[i] = F[run[i - 1]]
  <2>1. run[i] = Str!append_temp(run[i - 1], Granularity)
    BY <1>4
  <2> QED BY Zenon, <1>F, <1>6, <2>1
<1>7. \A i \in 0..n : run[i] \in Temps
  BY Zenon, <1>1, <1>2, <1>5, <1>6, LoopStays
<1>8. n \in 0..n
  OBVIOUS
<1> QED BY Zenon, <1>4, <1>7, <1>8

LEMMA GetEncodedKeeps ==
    ASSUME Str!Sane, NEW s, Kept(s), NEW first \in Int, NEW last \in Int
    PROVE  Outcome(s, Str!get_encoded(s, first, last))
<1>n. PICK n \in Nat : n = Len(s.data)
  BY Zenon, KeptParts
<1>i. PICK i : i = Str!XSAFE_TRANS(first, n)
  OBVIOUS
<1>j. PICK j : j = Str!XSAFE_TRANS(last, n)
  OBVIOUS
<1>1. CASE i = Str!Bad \/ j = Str!Bad \/ i > j
  BY Zenon, <1>1, <1>n, <1>i, <1>j, RefusedHolds DEF Str!get_encoded
<1>2. CASE ~(i = Str!Bad \/ j = Str!Bad \/ i > j)
  <2>1. i \in 0..n /\ j \in 0..n
    BY Zenon, <1>2, <1>i, <1>j, TransIs
  <2>2. PICK m \in Nat : m = j - i
    BY <1>2, <2>1
  <2>3. PICK q \in Nat : q = m \div Granularity
    BY <2>2 DEF Str!Sane
  <2>4. PICK r \in Nat : r = (m % Granularity) + 1
    BY <2>2 DEF Str!Sane
  <2>5. PICK t \in Temps : t = s.temp
    BY DEF Kept, StrObjects, Temps
  <2>6. PICK tmp \in Temps : tmp = Str!append_temp(Str!Pieces(t, q), r)
    BY Zenon, PiecesIs, AppendTempIs
  <2>7. tmp \in [size : Nat, used : Nat] /\ tmp.used <= tmp.size
    BY DEF Temps
  <2>8. Outcome(s, Str!Same([s EXCEPT !.temp = tmp]))
    BY Zenon, <2>7, TempReplaced
  <2> QED BY Zenon, <1>2, <1>n, <1>i, <1>j, <2>2, <2>3, <2>4, <2>5, <2>6, <2>8 DEF Str!get_encoded
<1> QED BY <1>1, <1>2

\* What is left of a text of n characters in a round of to_dos(): the part that
\* was not moved yet, and the part that was.
DosStates(n) == [src : 0..n, out : Seq(Int)]

LEMMA DosRoundIs ==
    ASSUME NEW d \in Seq(Int), NEW n \in Nat, n = Len(d), NEW b \in DosStates(n), NEW r, r = Str!DosRound(d, b)
    PROVE  r \in DosStates(n) /\ r.src + Len(r.out) = b.src + Len(b.out) + 1
<1>s. PICK src \in 0..n : src = b.src
  BY DEF DosStates
<1>o. PICK out \in Seq(Int) : out = b.out
  BY DEF DosStates
<1>h. PICK hit : hit = {i \in 1..src - 1 : Str!At(d, i) = Str!LF /\ Str!At(d, i - 1) # Str!CR}
  OBVIOUS
<1>1. PICK blk \in 0..src : blk = (IF hit = {} THEN 0 ELSE Str!Max(hit))
  <2>1. CASE hit = {}
    BY <2>1
  <2>2. CASE hit # {}
    <3>1. hit \in SUBSET (0..src)
      BY <1>h
    <3>2. src \in Nat
      OBVIOUS
    <3>3. Str!Max(hit) \in hit
      BY Zenon, <2>2, <3>1, <3>2, MaxIs
    <3> QED BY Zenon, <2>2, <3>1, <3>3
  <2> QED BY <2>1, <2>2
<1>2. PICK e : e = Str!Cut(d, blk, src)
  OBVIOUS
<1>3. blk \in Nat /\ src \in 0..Len(d)
  OBVIOUS
<1>4. e \in Seq(Int) /\ Len(e) = IF blk < src THEN src - blk ELSE 0
  BY Zenon, <1>2, <1>3, CutIs
<1>5. PICK c \in Seq(Int) : c = <<Str!CR>> /\ Len(c) = 1
  <2>1. Str!CR \in Int
    BY DEF Str!CR
  <2>2. PICK x \in Int : x = Str!CR
    BY Zenon, <2>1
  <2>3. <<x>> \in Seq(Int) /\ Len(<<x>>) = 1
    OBVIOUS
  <2> QED BY Zenon, <2>2, <2>3
<1>6. PICK f : f = c \o e
  OBVIOUS
<1>7. PICK g : g = f \o out
  OBVIOUS
<1>8. f \in Seq(Int) /\ Len(f) = Len(c) + Len(e)
  BY <1>4, <1>6, JoinIs
<1>9. g \in Seq(Int) /\ Len(g) = Len(f) + Len(out)
  BY <1>7, <1>8, JoinIs
<1>10. r = [src |-> blk, out |-> g]
  BY Zenon, <1>s, <1>o, <1>h, <1>1, <1>2, <1>5, <1>6, <1>7 DEF Str!DosRound
<1>11. r \in DosStates(n) /\ r.src = blk /\ r.out = g
  <2>1. blk \in 0..n
    OBVIOUS
  <2> QED BY <1>9, <1>10, <2>1 DEF DosStates
<1>12. PICK lo \in Nat : lo = Len(out)
  OBVIOUS
<1>13. PICK le \in Nat : le = Len(e) /\ le = src - blk
  BY <1>4
<1>14. PICK lf \in Nat : lf = Len(f) /\ lf = 1 + le
  BY <1>5, <1>8, <1>13
<1>15. Len(g) = lf + lo
  BY <1>9, <1>12, <1>14
<1>16. blk + Len(g) = src + lo + 1
  BY <1>12, <1>13, <1>14, <1>15
<1> QED BY Zenon, <1>s, <1>o, <1>11, <1>12, <1>16

\* A number that every round of n raises by one.
LEMMA CardinalityOf ==
    ASSUME NEW n \in Nat, NEW h \in [0..n -> Int], \A i \in 1..n : h[i] = h[i - 1] + 1
    PROVE  h[n] = h[0] + n
<1> DEFINE T == {i \in 0..n : h[i] # h[0] + i}
<1>1. T \subseteq Nat
  OBVIOUS
<1>2. CASE T = {}
  <2>1. n \in 0..n
    OBVIOUS
  <2> QED BY Zenon, <1>2, <2>1
<1>3. CASE T # {}
  <2>1. PICK m \in T : \A k \in T : m <= k
    BY Zenon, <1>1, <1>3, LeastNatural
  <2>2. m \in 1..n /\ h[m] # h[0] + m
    BY <2>1
  <2>3. PICK k \in 0..n : k = m - 1
    BY <2>2
  <2>4. h[k] = h[0] + k
    BY <2>1, <2>2, <2>3
  <2>5. h[m] = h[k] + 1
    BY <2>2, <2>3
  <2> QED BY <2>2, <2>3, <2>4, <2>5
<1> QED BY <1>2, <1>3

LEMMA DosRoundsIs ==
    ASSUME NEW d \in Seq(Int), NEW l \in Nat, l = Len(d), NEW n \in Nat, NEW r, r = Str!DosRounds(d, n)
    PROVE  r \in DosStates(l) /\ r.src + Len(r.out) = l + n
<1>S. PICK S : S = DosStates(l)
  OBVIOUS
<1>x. PICK x : x = [src |-> l, out |-> <<>>]
  OBVIOUS
<1>1. x \in S /\ x.src = l /\ Len(x.out) = 0
  BY <1>S, <1>x DEF DosStates
<1> DEFINE Step(f) == [k \in 0..n |-> IF k = 0 THEN x ELSE Str!DosRound(d, f[k - 1])]
<1>F. PICK F : F = [b \in S |-> Str!DosRound(d, b)]
  OBVIOUS
<1>2. F \in [S -> S]
  BY Zenon, <1>S, <1>F, DosRoundIs
<1>3. \E f : f = Step(f)
  <2>1. PICK g \in [0..n -> S] : g[0] = x /\ \A i \in 1..n : g[i] = F[g[i - 1]]
    <3>1. IteratesOf(S, F, x, n) # {}
      BY Zenon, <1>1, <1>2, Iterates
    <3> QED BY Zenon, <3>1 DEF IteratesOf
  <2>2. ASSUME NEW i \in 0..n, i # 0 PROVE g[i] = Str!DosRound(d, g[i - 1])
    <3>1. i \in 1..n /\ i - 1 \in 0..n
      BY <2>2
    <3> QED BY Zenon, <1>F, <2>1, <3>1
  <2>3. g = [i \in 0..n |-> g[i]]
    OBVIOUS
  <2>4. g = Step(g)
    BY <2>1, <2>2, <2>3
  <2> QED BY Zenon, <2>4
<1>4. PICK run : run = Step(run) /\ r = run[n]
  <2>1. PICK run : run = CHOOSE f : f = Step(f)
    OBVIOUS
  <2>2. run = Step(run)
    BY Zenon, <1>3, <2>1
  <2>3. r = run[n]
    BY Zenon, <1>x, <2>1 DEF Str!DosRounds
  <2> QED BY Zenon, <2>2, <2>3
<1>5. run[0] = x
  BY <1>4
<1>6. ASSUME NEW i \in 1..n PROVE run[i] = Str!DosRound(d, run[i - 1])
  BY <1>4
<1>7. ASSUME NEW i \in 1..n, run[i - 1] \in S PROVE run[i] = F[run[i - 1]]
  BY Zenon, <1>F, <1>6, <1>7
<1>8. \A i \in 0..n : run[i] \in S
  BY Zenon, <1>1, <1>2, <1>5, <1>7, LoopStays
<1>9. n \in 0..n /\ 0 \in 0..n
  OBVIOUS
<1>10. PICK h : h = [i \in 0..n |-> run[i].src + Len(run[i].out)]
  OBVIOUS
<1>11. h \in [0..n -> Int]
  <2>1. ASSUME NEW b \in S PROVE b.src + Len(b.out) \in Int
    <3>1. b.src \in Nat /\ b.out \in Seq(Int)
      BY <1>S DEF DosStates
    <3> QED BY <3>1
  <2> QED BY Zenon, <1>8, <1>10, <2>1
<1>12. ASSUME NEW i \in 1..n PROVE h[i] = h[i - 1] + 1
  <2>1. PICK k \in 0..n : k = i - 1
    OBVIOUS
  <2>2. i \in 0..n
    OBVIOUS
  <2>3. PICK b \in DosStates(l) : b = run[k]
    BY Zenon, <1>S, <1>8
  <2>4. PICK c : c = run[i]
    OBVIOUS
  <2>5. c = Str!DosRound(d, b)
    BY Zenon, <1>6, <2>1, <2>3, <2>4
  <2>6. c.src + Len(c.out) = b.src + Len(b.out) + 1
    BY <2>5, DosRoundIs
  <2> QED BY Zenon, <1>10, <2>1, <2>2, <2>3, <2>4, <2>6
<1>13. h[n] = h[0] + n
  BY <1>11, <1>12, CardinalityOf
<1>14. h[0] = l
  <2>1. h[0] = x.src + Len(x.out)
    BY Zenon, <1>5, <1>9, <1>10
  <2> QED BY <1>1, <2>1
<1>15. h[n] = r.src + Len(r.out)
  BY Zenon, <1>4, <1>9, <1>10
<1> QED BY Zenon, <1>S, <1>4, <1>8, <1>9, <1>13, <1>14, <1>15

LEMMA CountIs == ASSUME NEW S PROVE Str!Cardinality(S) = Cardinality(S)
  BY Zenon DEF Str!Cardinality, Cardinality

\* How many characters of a text there are in a set.
LEMMA CountOf ==
    ASSUME NEW n \in Nat, NEW S \in SUBSET (0..n)
    PROVE  Str!Cardinality(S) \in Nat
<1>1. IsFiniteSet(0..n)
  BY FS_Interval
<1>2. Cardinality(S) \in Nat
  BY <1>1, FS_Subset, FS_CardinalityType
<1> QED BY Zenon, <1>2, CountIs

LEMMA ToDosKeeps ==
    ASSUME Str!Sane, NEW s, Kept(s), NEW mem \in BOOLEAN
    PROVE  Outcome(s, Str!to_dos(s, mem))
<1>d. PICK d \in Seq(Int) : d = s.data
  BY Zenon, KeptParts
<1>l. PICK l \in Nat : l = Len(d)
  OBVIOUS
<1>b. PICK bare : bare = {i \in 0..l - 1 : Str!At(d, i) = Str!LF /\ (i = 0 \/ Str!At(d, i - 1) # Str!CR)}
  OBVIOUS
<1>1. CASE bare = {}
  BY Zenon, <1>1, <1>d, <1>l, <1>b, SameHolds DEF Str!to_dos
<1>2. CASE bare # {}
  <2>1. PICK n \in Nat : n = Str!Cardinality(bare)
    <3>1. bare \in SUBSET (0..l)
      BY <1>b
    <3> QED BY Zenon, <3>1, CountOf
  <2>2. PICK r : r = Str!DosRounds(d, n)
    OBVIOUS
  <2>3. r \in DosStates(l) /\ r.src + Len(r.out) = l + n
    BY Zenon, <1>l, <2>2, DosRoundsIs
  <2>4. PICK src \in 0..l : src = r.src
    BY <2>3 DEF DosStates
  <2>5. PICK out \in Seq(Int) : out = r.out
    BY <2>3 DEF DosStates
  <2>6. PICK a : a = Str!Cut(d, 0, src)
    OBVIOUS
  <2>7. 0 \in Nat /\ src \in 0..Len(d) /\ src \in Nat
    BY <1>l
  <2>8. a \in Seq(Int) /\ Len(a) = IF 0 < src THEN src - 0 ELSE 0
    BY Zenon, <2>6, <2>7, CutIs
  <2>9. PICK e : e = a \o out
    OBVIOUS
  <2>10. e \in Seq(Int) /\ Len(e) = Len(a) + Len(out)
    BY <2>8, <2>9, JoinIs
  <2>11. PICK lo \in Nat : lo = Len(out) /\ src + lo = l + n
    BY <2>3, <2>4, <2>5
  <2>12. Len(e) <= Len(d) + n
    BY <1>l, <2>7, <2>8, <2>10, <2>11
  <2>13. PICK q : q = Str!Put(s, e, Str!cap_grow(s, n), mem)
    OBVIOUS
  <2>14. Outcome(s, q)
    BY Zenon, <1>d, <2>10, <2>12, <2>13, GrowHolds
  <2>15. Outcome(s, IF q.ok THEN Str!drop_temp(q) ELSE q)
    BY Zenon, <2>14, TempDropped
  <2>16. Str!to_dos(s, mem) = IF q.ok THEN Str!drop_temp(q) ELSE q
    BY Zenon, <1>2, <1>d, <1>l, <1>b, <2>1, <2>2, <2>4, <2>5, <2>6, <2>9, <2>13 DEF Str!to_dos
  <2> QED BY Zenon, <2>15, <2>16
<1> QED BY <1>1, <1>2

\* A round of to_unix(): as much of the text as was read, with less written.
UnixStates(n) == {b \in [src : 0..n, out : Seq(Int)] : Len(b.out) <= b.src}

LEMMA UnixRoundIs ==
    ASSUME NEW d \in Seq(Int), NEW n \in Nat, n = Len(d), NEW pairs \in SUBSET (1..n), NEW b \in UnixStates(n),
           NEW r, r = Str!UnixRound(d, pairs, b)
    PROVE  r \in UnixStates(n)
<1>s. PICK src \in 0..n : src = b.src
  BY DEF UnixStates
<1>o. PICK out \in Seq(Int) : out = b.out
  BY DEF UnixStates
<1>l. PICK lo \in Nat : lo = Len(out) /\ lo <= src
  BY <1>s, <1>o DEF UnixStates
<1>h. PICK hit : hit = {i \in pairs : i > src}
  OBVIOUS
<1>1. PICK blk \in 0..n : blk = (IF hit = {} THEN n ELSE Str!Min(hit)) /\ src <= blk
  <2>1. CASE hit = {}
    BY <2>1
  <2>2. CASE hit # {}
    <3>1. hit \in SUBSET (0..n)
      <4>1. hit \subseteq pairs
        BY Zenon, <1>h
      <4>2. 1..n \subseteq 0..n
        OBVIOUS
      <4> QED BY Zenon, <4>1, <4>2
    <3>2. Str!Min(hit) \in hit
      BY Zenon, <2>2, <3>1, MinIs
    <3>3. PICK m \in hit : m = Str!Min(hit)
      BY Zenon, <3>2
    <3>4. m \in 0..n /\ src <= m
      BY <1>h
    <3> QED BY Zenon, <2>2, <3>3, <3>4
  <2> QED BY <2>1, <2>2
<1>2. PICK e : e = Str!Cut(d, src, blk - 1)
  OBVIOUS
<1>3. e \in Seq(Int) /\ Len(e) <= blk - src
  <2>1. CASE blk = 0
    <3>1. src = 0
      BY <1>1, <2>1
    <3>2. e = SubSeq(d, 0 + 1, 0 - 1)
      BY Zenon, <1>2, <2>1, <3>1 DEF Str!Cut
    <3>3. e = <<>>
      BY <3>2
    <3>4. PICK z \in Seq(Int) : z = <<>> /\ Len(z) = 0
      BY Zenon, EmptyIs
    <3> QED BY <2>1, <3>1, <3>3, <3>4
  <2>2. CASE blk # 0
    <3>1. PICK k \in 0..Len(d) : k = blk - 1
      BY <1>1, <2>2
    <3>2. src \in Nat
      OBVIOUS
    <3>3. e = Str!Cut(d, src, k)
      BY Zenon, <1>2, <3>1
    <3>4. e \in Seq(Int) /\ Len(e) = IF src < k THEN k - src ELSE 0
      BY Zenon, <3>2, <3>3, CutIs
    <3> QED BY <1>1, <3>1, <3>4
  <2> QED BY <2>1, <2>2
<1>4. PICK g : g = out \o e
  OBVIOUS
<1>5. g \in Seq(Int) /\ Len(g) = Len(out) + Len(e)
  BY <1>3, <1>4, JoinIs
<1>6. PICK le \in Nat : le = Len(e) /\ le <= blk - src
  BY <1>3
<1>7. Len(g) <= blk
  <2>1. Len(g) = lo + le
    BY <1>5, <1>6, <1>l
  <2> QED BY <1>6, <1>l, <2>1
<1>8. r = [src |-> blk, out |-> g]
  BY Zenon, <1>s, <1>o, <1>h, <1>1, <1>2, <1>4 DEF Str!UnixRound
<1> QED BY <1>5, <1>7, <1>8 DEF UnixStates

LEMMA UnixRoundsIs ==
    ASSUME NEW d \in Seq(Int), NEW l \in Nat, l = Len(d), NEW pairs \in SUBSET (1..l), NEW n \in Nat,
           NEW r, r = Str!UnixRounds(d, pairs, n)
    PROVE  r \in UnixStates(l)
<1>S. PICK S : S = UnixStates(l)
  OBVIOUS
<1>x. PICK x : x = [src |-> 0, out |-> <<>>]
  OBVIOUS
<1>1. x \in S
  BY <1>S, <1>x DEF UnixStates
<1> DEFINE Step(f) == [k \in 0..n |-> IF k = 0 THEN x ELSE Str!UnixRound(d, pairs, f[k - 1])]
<1>F. PICK F : F = [b \in S |-> Str!UnixRound(d, pairs, b)]
  OBVIOUS
<1>2. F \in [S -> S]
  BY Zenon, <1>S, <1>F, UnixRoundIs
<1>3. \E f : f = Step(f)
  <2>1. PICK g \in [0..n -> S] : g[0] = x /\ \A i \in 1..n : g[i] = F[g[i - 1]]
    <3>1. IteratesOf(S, F, x, n) # {}
      BY Zenon, <1>1, <1>2, Iterates
    <3> QED BY Zenon, <3>1 DEF IteratesOf
  <2>2. ASSUME NEW i \in 0..n, i # 0 PROVE g[i] = Str!UnixRound(d, pairs, g[i - 1])
    <3>1. i \in 1..n /\ i - 1 \in 0..n
      BY <2>2
    <3> QED BY Zenon, <1>F, <2>1, <3>1
  <2>3. g = [i \in 0..n |-> g[i]]
    OBVIOUS
  <2>4. g = Step(g)
    BY <2>1, <2>2, <2>3
  <2> QED BY Zenon, <2>4
<1>4. PICK run : run = Step(run) /\ r = run[n]
  <2>1. PICK run : run = CHOOSE f : f = Step(f)
    OBVIOUS
  <2>2. run = Step(run)
    BY Zenon, <1>3, <2>1
  <2>3. r = run[n]
    BY Zenon, <1>x, <2>1 DEF Str!UnixRounds
  <2> QED BY Zenon, <2>2, <2>3
<1>5. run[0] = x
  BY <1>4
<1>6. ASSUME NEW i \in 1..n, run[i - 1] \in S PROVE run[i] = F[run[i - 1]]
  <2>1. run[i] = Str!UnixRound(d, pairs, run[i - 1])
    BY <1>4
  <2> QED BY Zenon, <1>F, <1>6, <2>1
<1>7. \A i \in 0..n : run[i] \in S
  BY Zenon, <1>1, <1>2, <1>5, <1>6, LoopStays
<1>8. n \in 0..n
  OBVIOUS
<1> QED BY Zenon, <1>S, <1>4, <1>7, <1>8

LEMMA ToUnixKeeps == ASSUME Str!Sane, NEW s, Kept(s) PROVE Outcome(s, Str!to_unix(s))
<1>d. PICK d \in Seq(Int) : d = s.data
  BY Zenon, KeptParts
<1>l. PICK l \in Nat : l = Len(d)
  OBVIOUS
<1>p. PICK pairs : pairs = {i \in 1..l - 1 : Str!At(d, i) = Str!LF /\ Str!At(d, i - 1) = Str!CR}
  OBVIOUS
<1>1. CASE pairs = {}
  BY Zenon, <1>1, <1>d, <1>l, <1>p, SameHolds DEF Str!to_unix
<1>2. CASE pairs # {}
  <2>0. pairs \in SUBSET (1..l) /\ pairs \in SUBSET (0..l)
    BY <1>p
  <2>1. PICK n \in Nat : n = Str!Cardinality(pairs)
    BY Zenon, <2>0, CountOf
  <2>2. PICK r : r = Str!UnixRounds(d, pairs, n)
    OBVIOUS
  <2>3. r \in UnixStates(l)
    BY Zenon, <1>l, <2>0, <2>2, UnixRoundsIs
  <2>4. PICK src \in 0..l : src = r.src
    BY <2>3 DEF UnixStates
  <2>5. PICK out \in Seq(Int) : out = r.out /\ Len(out) <= src
    BY <2>3, <2>4 DEF UnixStates
  <2>6. PICK a : a = Str!Cut(d, src, l)
    OBVIOUS
  <2>7. l \in 0..Len(d) /\ src \in Nat
    BY <1>l
  <2>8. a \in Seq(Int) /\ Len(a) = IF src < l THEN l - src ELSE 0
    BY Zenon, <2>6, <2>7, CutIs
  <2>9. PICK e : e = out \o a
    OBVIOUS
  <2>10. e \in Seq(Int) /\ Len(e) = Len(out) + Len(a)
    BY <2>8, <2>9, JoinIs
  <2>11. PICK lo \in Nat : lo = Len(out) /\ lo <= src
    BY <2>5
  <2>12. PICK la \in Nat : la = Len(a) /\ la = l - src
    BY <2>7, <2>8
  <2>13. Len(e) <= Len(d)
    BY <1>l, <2>10, <2>11, <2>12
  <2>14. Outcome(s, Str!Put(s, e, s.cap, TRUE))
    BY Zenon, <1>d, <2>10, <2>13, FitsHolds
  <2>15. Str!to_unix(s) = Str!drop_temp(Str!Put(s, e, s.cap, TRUE))
    BY Zenon, <1>2, <1>d, <1>l, <1>p, <2>1, <2>2, <2>4, <2>5, <2>6, <2>9 DEF Str!to_unix
  <2> QED BY Zenon, <2>14, <2>15, TempDropped
<1> QED BY <1>1, <1>2

-----------------------------------------------------------------------------
StrInv == Kept(obj) /\ ret \in {"done", "refused", "truncate"}

LEMMA StrInitially == ASSUME Str!Init PROVE StrInv
<1>1. PICK n \in [size : Nat, used : Nat] : n = Str!NoTemp /\ n.used <= n.size
  BY NoneIs
<1>2. PICK h \in Seq(Int) : h = Str!None
  BY Zenon, NoneIs
<1>3. PICK s : s = [data |-> <<>>, cap |-> 0, hash |-> h, temp |-> n, bare |-> FALSE]
  OBVIOUS
<1>4. s \in StrObjects /\ s.data = <<>> /\ Len(s.data) <= s.cap /\ s.hash = h /\ s.temp = n /\ ~s.bare
  BY <1>3 DEF StrObjects
<1>5. Kept(s)
  BY Zenon, <1>1, <1>2, <1>4 DEF Kept
<1>6. obj = s /\ ret = "done"
  BY Zenon, <1>1, <1>2, <1>3 DEF Str!Init
<1> QED BY Zenon, <1>5, <1>6 DEF StrInv

\* A call leaves what it returns; one that says "refused" leaves the text alone.
LEMMA CallKeeps ==
    ASSUME NEW op, NEW r, Outcome(obj, r), Str!Call(op, r)
    PROVE  StrInv' /\ Str!FailedCallKeepsTextStep
<1>1. Kept(r.s) /\ (r.ok \/ r.s.data = obj.data)
  BY Zenon DEF Outcome
<1>2. obj' = r.s
  BY Zenon DEF Str!Call
<1>3. ret' = IF r.ok THEN "done" ELSE IF op = "truncate" THEN op ELSE "refused"
  BY Zenon DEF Str!Call
<1>4. ret' \in {"done", "refused", "truncate"}
  BY Zenon, <1>3
<1>5. Kept(obj')
  BY Zenon, <1>1, <1>2
<1>6. StrInv'
  BY Zenon, <1>4, <1>5 DEF StrInv
<1>7. ret' = "refused" => ~r.ok
  BY <1>3
<1>8. obj'.data = r.s.data
  BY Zenon, <1>2
<1>9. Str!FailedCallKeepsTextStep
  BY Zenon, <1>1, <1>7, <1>8 DEF Str!FailedCallKeepsTextStep
<1> QED BY Zenon, <1>6, <1>9

LEMMA TextIs == ASSUME Str!Sane, NEW t \in Texts PROVE t \in Seq(Int)
  BY Zenon DEF Str!Sane

LEMMA IndexIs == ASSUME NEW i \in Str!Indices PROVE i \in Int
  BY DEF Str!Indices

LEMMA CharIs == ASSUME NEW c \in Str!Chars PROVE c \in Int
  BY DEF Str!Chars, Str!LF, Str!UpperA

LEMMA AssignKeeps ==
    ASSUME Str!Sane, StrInv, Str!Assign
    PROVE  StrInv' /\ Str!FailedCallKeepsTextStep
<1>k. Kept(obj)
  BY Zenon DEF StrInv
<1>1. ASSUME NEW t \in Texts, NEW mem \in BOOLEAN, Str!Call("set", Str!set_text(obj, t, mem))
      PROVE  StrInv' /\ Str!FailedCallKeepsTextStep
  BY Zenon, <1>1, <1>k, TextIs, SetTextKeeps, CallKeeps
<1>2. ASSUME NEW t \in Texts, NEW mem \in BOOLEAN, Str!Call("fmt", Str!vfmt(obj, t, mem))
      PROVE  StrInv' /\ Str!FailedCallKeepsTextStep
  BY Zenon, <1>2, <1>k, TextIs, FormatKeeps, CallKeeps
<1>3. ASSUME NEW t \in Texts, NEW mem \in BOOLEAN, Str!Call("swap", Str!swap(obj, t, mem))
      PROVE  StrInv' /\ Str!FailedCallKeepsTextStep
  BY Zenon, <1>3, <1>k, TextIs, SwapKeeps, CallKeeps
<1>4. ASSUME NEW t \in Texts, NEW mem \in BOOLEAN, Str!Call("take", Str!take(obj, t, mem))
      PROVE  StrInv' /\ Str!FailedCallKeepsTextStep
  BY Zenon, <1>4, <1>k, TextIs, SwapKeeps, CallKeeps
<1>5. ASSUME NEW t \in Texts, NEW mem \in BOOLEAN, NEW whole \in BOOLEAN,
             Str!Call("set_utf8", Str!set_decoded(obj, t, whole, mem))
      PROVE  StrInv' /\ Str!FailedCallKeepsTextStep
  BY Zenon, <1>5, <1>k, TextIs, SetDecodedKeeps, CallKeeps
<1>6. ASSUME NEW t \in Texts, NEW mem \in BOOLEAN, NEW whole \in BOOLEAN,
             Str!Call("set_native", Str!set_native(obj, t, whole, mem))
      PROVE  StrInv' /\ Str!FailedCallKeepsTextStep
  BY Zenon, <1>6, <1>k, TextIs, SetNativeKeeps, CallKeeps
<1>7. ASSUME NEW t \in Texts, NEW i \in Str!Indices, NEW j \in Str!Indices,
             Str!Call("set", Str!set_range(obj, t, i, j, TRUE))
      PROVE  StrInv' /\ Str!FailedCallKeepsTextStep
  BY Zenon, <1>7, <1>k, TextIs, IndexIs, SetRangeKeeps, CallKeeps
<1>8. ASSUME NEW c \in Str!Chars, NEW mem \in BOOLEAN, Str!Call("set", Str!set_char(obj, c, mem))
      PROVE  StrInv' /\ Str!FailedCallKeepsTextStep
  BY Zenon, <1>8, <1>k, CharIs, SetCharKeeps, CallKeeps
<1>9. ASSUME NEW c \in Str!Chars, NEW i \in Str!Indices, Str!Call("set", Str!set_at(obj, i, c))
      PROVE  StrInv' /\ Str!FailedCallKeepsTextStep
  BY Zenon, <1>9, <1>k, CharIs, IndexIs, SetAtKeeps, CallKeeps
<1> QED BY Zenon, <1>1, <1>2, <1>3, <1>4, <1>5, <1>6, <1>7, <1>8, <1>9 DEF Str!Assign

LEMMA SetNothingKeeps ==
    ASSUME Str!Sane, StrInv, Str!SetNativeNothing
    PROVE  StrInv' /\ Str!FailedCallKeepsTextStep
<1>1. Kept(obj)
  BY Zenon DEF StrInv
<1>2. Outcome(obj, Str!set_native(obj, <<>>, TRUE, TRUE))
  BY Zenon, <1>1, EmptyIs, SetNativeKeeps
<1> QED BY Zenon, <1>2, CallKeeps DEF Str!SetNativeNothing

LEMMA ExtendKeeps ==
    ASSUME Str!Sane, StrInv, Str!Extend
    PROVE  StrInv' /\ Str!FailedCallKeepsTextStep
<1>k. Kept(obj)
  BY Zenon DEF StrInv
<1>1. ASSUME NEW t \in Texts, NEW mem \in BOOLEAN, NEW i \in Str!Indices, Str!Call("insert", Str!insert(obj, i, t, mem))
      PROVE  StrInv' /\ Str!FailedCallKeepsTextStep
  BY Zenon, <1>1, <1>k, TextIs, IndexIs, InsertKeeps, CallKeeps
<1>2. ASSUME NEW t \in Texts, NEW mem \in BOOLEAN, Str!Call("append", Str!append(obj, t, mem))
      PROVE  StrInv' /\ Str!FailedCallKeepsTextStep
  BY Zenon, <1>2, <1>k, TextIs, AppendKeeps, CallKeeps
<1>3. ASSUME NEW t \in Texts, NEW mem \in BOOLEAN, Str!Call("prepend", Str!prepend(obj, t, mem))
      PROVE  StrInv' /\ Str!FailedCallKeepsTextStep
  BY Zenon, <1>3, <1>k, TextIs, AppendKeeps, CallKeeps
<1>4. ASSUME NEW t \in Texts, NEW mem \in BOOLEAN, Str!Call("fmt_append", Str!vfmt_append(obj, t, mem))
      PROVE  StrInv' /\ Str!FailedCallKeepsTextStep
  BY Zenon, <1>4, <1>k, TextIs, FormatKeeps, CallKeeps
<1>5. ASSUME NEW t \in Texts, NEW mem \in BOOLEAN, Str!Call("fmt_prepend", Str!vfmt_prepend(obj, t, mem))
      PROVE  StrInv' /\ Str!FailedCallKeepsTextStep
  BY Zenon, <1>5, <1>k, TextIs, FormatKeeps, CallKeeps
<1>6. ASSUME NEW mem \in BOOLEAN, Str!Call("to_dos", Str!to_dos(obj, mem))
      PROVE  StrInv' /\ Str!FailedCallKeepsTextStep
  BY Zenon, <1>6, <1>k, ToDosKeeps, CallKeeps
<1> QED BY Zenon, <1>1, <1>2, <1>3, <1>4, <1>5, <1>6 DEF Str!Extend

\* What truncate(size) returns when it fails is not "refused".
LEMMA TruncateCallKeeps ==
    ASSUME Str!Sane, StrInv, NEW n \in Nat, NEW mem \in BOOLEAN, Str!Call("truncate", Str!truncate_to(obj, n, mem))
    PROVE  StrInv' /\ Str!FailedCallKeepsTextStep
<1>k. Kept(obj)
  BY Zenon DEF StrInv
<1>1. PICK r : r = Str!truncate_to(obj, n, mem)
  OBVIOUS
<1>2. Kept(r.s) /\ r.ok \in BOOLEAN
  BY Zenon, <1>k, <1>1, TruncateToKeeps
<1>3. obj' = r.s /\ ret' = IF r.ok THEN "done" ELSE "truncate"
  BY Zenon, <1>1 DEF Str!Call
<1>4. ret' = "done" \/ ret' = "truncate"
  BY Zenon, <1>3
<1>5. ret' # "refused" /\ ret' \in {"done", "refused", "truncate"}
  BY <1>4
<1>6. Kept(obj')
  BY Zenon, <1>2, <1>3
<1> QED BY Zenon, <1>5, <1>6 DEF StrInv, Str!FailedCallKeepsTextStep

LEMMA ShrinkKeeps ==
    ASSUME Str!Sane, StrInv, Str!Shrink
    PROVE  StrInv' /\ Str!FailedCallKeepsTextStep
<1>k. Kept(obj)
  BY Zenon DEF StrInv
<1>n. \A n \in 0..2 : n \in Nat
  OBVIOUS
<1>1. ASSUME NEW i \in Str!Indices, NEW j \in Str!Indices, Str!Call("remove", Str!remove(obj, i, j))
      PROVE  StrInv' /\ Str!FailedCallKeepsTextStep
  BY Zenon, <1>1, <1>k, IndexIs, RemoveKeeps, CallKeeps
<1>2. ASSUME Str!Call("remove_last", Str!remove_last(obj)) PROVE StrInv' /\ Str!FailedCallKeepsTextStep
  BY Zenon, <1>2, <1>k, RemoveLastKeeps, CallKeeps
<1>3. ASSUME NEW i \in Str!Indices, NEW j \in Str!Indices, NEW mem \in BOOLEAN,
             Str!Call("substring", Str!substring(obj, i, j, mem))
      PROVE  StrInv' /\ Str!FailedCallKeepsTextStep
  BY Zenon, <1>3, <1>k, IndexIs, SubstringKeeps, CallKeeps
<1>4. ASSUME Str!Call("trim", Str!trim(obj)) PROVE StrInv' /\ Str!FailedCallKeepsTextStep
  BY Zenon, <1>4, <1>k, TrimKeeps, CallKeeps
<1>5. ASSUME Str!Call("to_unix", Str!to_unix(obj)) PROVE StrInv' /\ Str!FailedCallKeepsTextStep
  BY Zenon, <1>5, <1>k, ToUnixKeeps, CallKeeps
<1>6. ASSUME NEW n \in 0..2, Str!Call("set_length", Str!set_length(obj, n))
      PROVE  StrInv' /\ Str!FailedCallKeepsTextStep
  BY Zenon, <1>6, <1>k, <1>n, SetLengthKeeps, CallKeeps
<1>7. ASSUME NEW n \in 0..2, NEW mem \in BOOLEAN, Str!Call("truncate", Str!truncate_to(obj, n, mem))
      PROVE  StrInv' /\ Str!FailedCallKeepsTextStep
  BY Zenon, <1>7, <1>n, TruncateCallKeeps
<1>8. ASSUME Str!Call("truncate", Str!truncate(obj)) PROVE StrInv' /\ Str!FailedCallKeepsTextStep
  BY Zenon, <1>8, <1>k, TruncateKeeps, CallKeeps
<1>9. ASSUME NEW mem \in BOOLEAN, Str!Call("reduce", Str!reduce(obj, mem))
      PROVE  StrInv' /\ Str!FailedCallKeepsTextStep
  BY Zenon, <1>9, <1>k, ReduceKeeps, CallKeeps
<1> QED BY Zenon, <1>1, <1>2, <1>3, <1>4, <1>5, <1>6, <1>7, <1>8, <1>9 DEF Str!Shrink

LEMMA RewriteKeeps ==
    ASSUME Str!Sane, StrInv, Str!Rewrite
    PROVE  StrInv' /\ Str!FailedCallKeepsTextStep
<1>k. Kept(obj)
  BY Zenon DEF StrInv
<1>c. Str!LowerA \in Int
  BY DEF Str!LowerA
<1>1. ASSUME NEW t \in Texts, NEW mem \in BOOLEAN, NEW i \in Str!Indices,
             Str!Call("replace", Str!replace_tail(obj, i, t, mem))
      PROVE  StrInv' /\ Str!FailedCallKeepsTextStep
  BY Zenon, <1>1, <1>k, TextIs, IndexIs, ReplaceTailKeeps, CallKeeps
<1>2. ASSUME NEW c \in Str!Chars, NEW mem \in BOOLEAN, NEW i \in Str!Indices,
             Str!Call("replace", Str!replace_tail_char(obj, i, c, mem))
      PROVE  StrInv' /\ Str!FailedCallKeepsTextStep
  BY Zenon, <1>2, <1>k, CharIs, IndexIs, ReplaceTailCharKeeps, CallKeeps
<1>3. ASSUME NEW t \in Texts, NEW i \in Str!Indices, NEW j \in Str!Indices,
             Str!Call("replace", Str!replace_range(obj, i, j, t, TRUE))
      PROVE  StrInv' /\ Str!FailedCallKeepsTextStep
  BY Zenon, <1>3, <1>k, TextIs, IndexIs, ReplaceRangeKeeps, CallKeeps
<1>4. ASSUME NEW c \in Str!Chars, Str!Call("replace_all", Str!replace_all(obj, c, Str!LowerA))
      PROVE  StrInv' /\ Str!FailedCallKeepsTextStep
  BY Zenon, <1>4, <1>k, <1>c, CharIs, ReplaceAllKeeps, CallKeeps
<1>5. ASSUME NEW i \in Str!Indices, NEW j \in Str!Indices, Str!Call("swap", Str!swap_chars(obj, i, j))
      PROVE  StrInv' /\ Str!FailedCallKeepsTextStep
  BY Zenon, <1>5, <1>k, IndexIs, SwapCharsKeeps, CallKeeps
<1>6. ASSUME NEW i \in Str!Indices, NEW j \in Str!Indices, Str!Call("tolower", Str!tolower(obj, i, j))
      PROVE  StrInv' /\ Str!FailedCallKeepsTextStep
  BY Zenon, <1>6, <1>k, IndexIs, ToLowerKeeps, CallKeeps
<1>7. ASSUME Str!Call("toupper", Str!toupper(obj)) PROVE StrInv' /\ Str!FailedCallKeepsTextStep
  BY Zenon, <1>7, <1>k, ToUpperKeeps, CallKeeps
<1>8. ASSUME Str!Call("reverse", Str!reverse(obj)) PROVE StrInv' /\ Str!FailedCallKeepsTextStep
  BY Zenon, <1>8, <1>k, ReverseKeeps, CallKeeps
<1> QED BY Zenon, <1>1, <1>2, <1>3, <1>4, <1>5, <1>6, <1>7, <1>8 DEF Str!Rewrite

LEMMA ReadKeepsText ==
    ASSUME Str!Sane, StrInv, Str!Read
    PROVE  StrInv' /\ Str!FailedCallKeepsTextStep
<1>k. Kept(obj)
  BY Zenon DEF StrInv
<1>i. -1 \in Int /\ 0 \in Int /\ \A i \in {0, 1} : i \in Int
  OBVIOUS
<1>1. ASSUME Str!Call("hash", Str!hash(obj)) PROVE StrInv' /\ Str!FailedCallKeepsTextStep
  BY Zenon, <1>1, <1>k, HashKeeps, CallKeeps
<1>2. ASSUME NEW i \in {0, 1}, Str!Call("get_utf8", Str!get_encoded(obj, i, -1))
      PROVE  StrInv' /\ Str!FailedCallKeepsTextStep
  <2>1. i \in Int
    BY Zenon, <1>i
  <2>2. Outcome(obj, Str!get_encoded(obj, i, -1))
    BY Zenon, <1>i, <1>k, <2>1, GetEncodedKeeps
  <2> QED BY Zenon, <1>2, <2>2, CallKeeps
<1>3. ASSUME NEW i \in {0, 1}, Str!Call("get_ascii", Str!get_ascii(obj, 0, i))
      PROVE  StrInv' /\ Str!FailedCallKeepsTextStep
  <2>1. i \in Int
    BY Zenon, <1>i
  <2>2. Outcome(obj, Str!get_ascii(obj, 0, i))
    BY Zenon, <1>i, <1>k, <2>1, GetAsciiKeeps
  <2> QED BY Zenon, <1>3, <2>2, CallKeeps
<1> QED BY Zenon, <1>1, <1>2, <1>3 DEF Str!Read

LEMMA StrStepKeeps ==
    ASSUME Str!Sane, StrInv, [Str!Next]_Str!vars
    PROVE  StrInv' /\ (Str!FailedCallKeepsTextStep \/ UNCHANGED Str!vars)
<1>1. CASE Str!Next
  BY Zenon, <1>1, AssignKeeps, SetNothingKeeps, ExtendKeeps, ShrinkKeeps, RewriteKeeps, ReadKeepsText DEF Str!Next
<1>2. CASE UNCHANGED Str!vars
  <2>1. obj' = obj /\ ret' = ret
    BY <1>2 DEF Str!vars
  <2>2. StrInv'
    BY Zenon, <2>1 DEF StrInv
  <2> QED BY Zenon, <1>2, <2>2
<1> QED BY Zenon, <1>1, <1>2

LEMMA StrInvariant == ASSUME Str!Sane PROVE Str!Spec => []StrInv
<1>1. ASSUME Str!Init PROVE StrInv
  BY <1>1, StrInitially
<1>2. ASSUME StrInv, [Str!Next]_Str!vars PROVE StrInv'
  BY Zenon, <1>2, StrStepKeeps
<1> QED BY <1>1, <1>2, PTL DEF Str!Spec

StrTypes == obj \in StrObjects /\ ret \in {"done", "refused", "truncate"}

\* The fields keep their types, whatever the calls, their arguments and the memory.
THEOREM StrTypeCorrect == ASSUME Str!Sane PROVE Str!Spec => []StrTypes
<1>1. ASSUME StrInv PROVE StrTypes
  BY Zenon, <1>1 DEF StrInv, StrTypes, Kept
<1> QED BY <1>1, StrInvariant, PTL

LEMMA HashNow == ASSUME StrInv PROVE Str!HashOfText
  BY Zenon DEF StrInv, Kept, Str!HashOfText

\* A hash that is kept is that of the text, also of an empty one, and the text fits its
\* buffer: no call that changes the text keeps the hash of the old one, but for
\* set_native() of no bytes, which does (LSPString.cpp:1964).
THEOREM HashHolds == ASSUME Str!Sane PROVE Str!Spec => []Str!HashOfText
<1>1. StrInv => Str!HashOfText
  BY HashNow
<1> QED BY <1>1, StrInvariant, PTL

LEMMA CopyNow == ASSUME StrInv PROVE Str!TempHoldsCopy
  BY Zenon DEF StrInv, Kept, Str!TempHoldsCopy

\* The buffer of the last encoded copy holds all of it, however it was grown
\* (LSPString.cpp:2433).
THEOREM CopyHolds == ASSUME Str!Sane PROVE Str!Spec => []Str!TempHoldsCopy
<1>1. StrInv => Str!TempHoldsCopy
  BY CopyNow
<1> QED BY <1>1, StrInvariant, PTL

\* A call that reports that it was refused leaves the text as it was: lack of memory and
\* bad indexes are found out before anything is changed.
THEOREM FailureHolds == ASSUME Str!Sane PROVE Str!Spec => Str!FailedCallKeepsText
<1>1. ASSUME StrInv, [Str!Next]_Str!vars PROVE [Str!FailedCallKeepsTextStep]_Str!vars
  BY Zenon, <1>1, StrStepKeeps
<1> QED BY <1>1, StrInvariant, PTL DEF Str!Spec, Str!FailedCallKeepsText

-----------------------------------------------------------------------------
(* Objects                                                                 *)

\* The invariant of whichever object the variables belong to.
ObjInv ==
    /\ machine \in {"inbuf", "bits", "string", "sharedmem"}
    /\ machine = "inbuf" => BufInv
    /\ machine = "bits" => BitInv
    /\ machine = "string" => StrInv
    /\ machine = "sharedmem" => ShmInv

LEMMA ObjInitially == ASSUME Init PROVE ObjInv
<1> USE ObjectsAssumption
<1>1. CASE machine = "inbuf" /\ InBuf!Init
  BY <1>1, BufInitially DEF ObjInv
<1>2. CASE machine = "bits" /\ Bits!Init
  BY <1>2, BitInitially DEF ObjInv
<1>3. CASE machine = "string" /\ Str!Init
  BY <1>3, StrInitially DEF ObjInv
<1>4. CASE machine = "sharedmem" /\ Shm!Init
  BY <1>4, InitSound DEF ObjInv
<1> QED BY <1>1, <1>2, <1>3, <1>4 DEF Init

\* A step of one object is a step of its module, and no other object's.
LEMMA OneMoves ==
    ASSUME [Next]_vars, ObjInv
    PROVE  /\ machine' = machine
           /\ \/ machine = "inbuf" /\ [InBuf!Next]_InBuf!vars
              \/ machine = "bits" /\ [Bits!Next]_(Bits!vars)
              \/ machine = "string" /\ [Str!Next]_Str!vars /\ UNCHANGED <<env, abs>>
              \/ machine = "sharedmem" /\ [Shm!Next]_Shm!vars
<1>1. CASE Next
  BY Zenon, <1>1 DEF Next
<1>2. CASE UNCHANGED vars
  <2>1. machine' = machine /\ obj' = obj /\ env' = env /\ ret' = ret /\ abs' = abs
    BY <1>2 DEF vars
  <2>2. UNCHANGED InBuf!vars /\ UNCHANGED Bits!vars /\ UNCHANGED Str!vars /\ UNCHANGED Shm!vars
    BY <2>1 DEF InBuf!vars, Bits!vars, Str!vars, Shm!vars
  <2> QED BY Zenon, <2>1, <2>2 DEF ObjInv
<1> QED BY <1>1, <1>2

LEMMA ObjPreserved == ASSUME ObjInv, [Next]_vars PROVE ObjInv'
<1> USE ObjectsAssumption
<1>1. CASE machine = "inbuf" /\ [InBuf!Next]_InBuf!vars
  BY <1>1, OneMoves, BufPreserved DEF ObjInv
<1>2. CASE machine = "bits" /\ [Bits!Next]_(Bits!vars)
  BY <1>2, OneMoves, BitPreserved DEF ObjInv
<1>3. CASE machine = "string" /\ [Str!Next]_Str!vars
  BY <1>3, OneMoves, StrStepKeeps DEF ObjInv
<1>4. CASE machine = "sharedmem" /\ [Shm!Next]_Shm!vars
  BY <1>4, OneMoves, Keeps DEF ObjInv
<1> QED BY Zenon, <1>1, <1>2, <1>3, <1>4, OneMoves

LEMMA ObjInvariant == Spec => []ObjInv
<1>1. Init => ObjInv
  BY ObjInitially
<1>2. ObjInv /\ [Next]_vars => ObjInv'
  BY ObjPreserved
<1> QED BY <1>1, <1>2, PTL DEF Spec

\* The ring buffer and the bit streams deliver what the stream below them has, once and
\* in order, for every length of the stream, size of the buffers and cut into calls.
THEOREM StreamsDeliverHolds == Spec => []StreamsDeliver
<1>1. ASSUME ObjInv PROVE StreamsDeliver
  BY Zenon, <1>1, ObjectsAssumption, DeliveryNow, WindowNow, BitsNow, ReaderNow DEF ObjInv, StreamsDeliver
<1> QED BY <1>1, ObjInvariant, PTL

\* What strings and segments keep about their data is true of the data, for every text,
\* process, object and name.
THEOREM AccountsExactHolds == Spec => []AccountsExact
<1>1. ASSUME ObjInv PROVE AccountsExact
  BY Zenon, <1>1, ObjectsAssumption, HashNow, CopyNow, CountsNow, NamesNow, SizesNow DEF ObjInv, AccountsExact
<1> QED BY <1>1, ObjInvariant, PTL

\* Calls of the four objects report what they have done, and leave what they were called
\* on as it was when they fail.
THEOREM CallsReportHolds == Spec => CallsReport
<1>1. ASSUME ObjInv, [Next]_vars PROVE [CallsReportStep]_vars
  <2> USE ObjectsAssumption
  <2> SUFFICES ASSUME ~ UNCHANGED vars PROVE CallsReportStep
    OBVIOUS
  <2>0. ~ UNCHANGED <<obj, env, ret, abs>>
    BY <1>1, OneMoves DEF vars
  <2>1. CASE machine = "inbuf" /\ [InBuf!Next]_InBuf!vars
    <3>1. InBuf!ReportsMovementStep
      BY <1>1, <2>0, <2>1, MovementNow DEF ObjInv, InBuf!vars
    <3> QED BY <2>1, <3>1 DEF CallsReportStep
  <2>2. CASE machine = "bits" /\ [Bits!Next]_(Bits!vars)
    <3>1. Bits!SkipLandsStep
      BY <1>1, <2>0, <2>2, SkipNow DEF ObjInv, Bits!vars
    <3> QED BY <2>2, <3>1 DEF CallsReportStep
  <2>3. CASE machine = "string" /\ [Str!Next]_Str!vars /\ UNCHANGED <<env, abs>>
    <3>1. Str!FailedCallKeepsTextStep
      BY <1>1, <2>0, <2>3, StrStepKeeps DEF ObjInv, Str!vars
    <3> QED BY <2>3, <3>1 DEF CallsReportStep
  <2>4. CASE machine = "sharedmem" /\ [Shm!Next]_Shm!vars
    <3>1. Shm!FailuresUndoneStep
      BY <1>1, <2>0, <2>4, FailuresNow DEF ObjInv, Shm!vars
    <3> QED BY <2>4, <3>1 DEF CallsReportStep
  <2> QED BY Zenon, <1>1, <2>1, <2>2, <2>3, <2>4, OneMoves
<1> QED BY <1>1, ObjInvariant, PTL DEF Spec, CallsReport

=============================================================================
