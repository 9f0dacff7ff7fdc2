------------------------------ MODULE JsonNode ------------------------------
(***************************************************************************)
(* src/main/fmt/json/dom: the values of a JSON document, as counted nodes  *)
(* that several handles, arrays and objects can have at the same time.     *)
(*                                                                         *)
(*   obj   h: the node of each handle (a Node, Integer, ..., Object; 0: no *)
(*         node); node: the nodes, with their counts, types and data       *)
(*   ret   OK, or FAILED for any other status of the last call; NO_RETURN  *)
(*         after a call that has gone through a NULL pointer               *)
(*   abs   the number of calls that have changed something                 *)
(* A handle of one class can have a node of any type, as as_int() and the  *)
(* others give one: every call is possible on every handle.  A double is   *)
(* counted in halves and a boolean is 0 or 1.  Memory does not run out.    *)
(* cast_to_array() and cast_to_object() have no caller.                    *)
(***************************************************************************)
EXTENDS Integers, Sequences, FiniteSets, SequencesExt, TLC

CONSTANTS Token,                    \* TokenAfter of ExprTokens
          Handles, Keys,
          Ints, Doubles, Texts,     \* the numbers and the strings there are
          Given,                    \* those of the strings that calls give
          MaxNodes, MaxItems,       \* bounds on the nodes, on an array, and on
          MaxCalls                  \* the calls that change something

VARIABLES obj, ret, abs
vars == <<obj, ret, abs>>

E == INSTANCE ExprValues

Nodes == 1..MaxNodes
NoMembers == [k \in Keys |-> 0]
Gone == [refs |-> 0, type |-> "GONE", n |-> 0, s |-> "", items |-> <<>>, mem |-> NoMembers]
Value(type, n, s) == [Gone EXCEPT !.type = type, !.n = n, !.s = s]
NullValue == Value("NULL", 0, "")
Scalars == {Value("INT", n, "") : n \in Ints} \union {Value("DOUBLE", f, "") : f \in Doubles}
             \union {Value("BOOL", b, "") : b \in {0, 1}} \union {Value("STRING", 0, s) : s \in Texts}

\* Node.cpp: what has a node, and its counts.
Room(o) == {k \in Nodes : o.node[k].refs = 0}
Slot(o) == CHOOSE k \in Room(o) : \A j \in Room(o) : k <= j
New(o, v, refs) == [o EXCEPT !.node[Slot(o)] = [v EXCEPT !.refs = refs]]
Children(v) == v.items \o [i \in 1..Cardinality(Keys) |-> v.mem[SetToSeq(Keys)[i]]]
RECURSIVE release_ref(_, _), undef_node(_, _)
release_ref(N, k) ==
    IF k = 0 THEN N
    ELSE IF N[k].refs > 1 THEN [N EXCEPT ![k].refs = @ - 1]
    ELSE [undef_node([N EXCEPT ![k].refs = 0], k) EXCEPT ![k] = Gone]
undef_node(N, k) ==
    LET empty == [N EXCEPT ![k].items = <<>>, ![k].mem = NoMembers]
    IN  IF k = 0 THEN N
        ELSE LET done == FoldLeft(release_ref, empty, Children(N[k])) IN [done EXCEPT ![k] = [NullValue EXCEPT !.refs = done[k].refs]]
Release(o, h) == [o EXCEPT !.node = release_ref(@, o.h[h]), !.h[h] = 0]
\* The node of a handle, made when there is none, and emptied.
clear_node(o, h) ==
    IF o.h[h] = 0 THEN [New(o, NullValue, 1) EXCEPT !.h[h] = Slot(o)]
    ELSE [o EXCEPT !.node = undef_node(@, o.h[h])]
\* One more reference to the node of a handle, which gets one if it has none.
make_ref(o, h) ==
    IF o.h[h] # 0 THEN [o EXCEPT !.node[o.h[h]].refs = @ + 1]
    ELSE [New(o, NullValue, 2) EXCEPT !.h[h] = Slot(o)]
copy_ref(o, h, g) ==
    LET r == make_ref(o, g)
    IN  IF o.h[h] = o.h[g] THEN o ELSE [r EXCEPT !.node = release_ref(@, o.h[h]), !.h[h] = r.h[g]]
create(o, h, v) == LET k == Slot(o) IN [New(o, v, 1) EXCEPT !.node = release_ref(@, o.h[h]), !.h[h] = k]
\* Handles for what a call returns: another reference, or none.
Node(o, h, k) ==
    LET r == IF k = 0 THEN o ELSE [o EXCEPT !.node[k].refs = @ + 1] IN [r EXCEPT !.node = release_ref(@, o.h[h]), !.h[h] = k]

TypeOf(o, h) == IF o.h[h] = 0 THEN "NULL" ELSE o.node[o.h[h]].type
Val(o, h) == IF o.h[h] = 0 THEN NullValue ELSE o.node[o.h[h]]
size(v) == Len(v.items) + Cardinality({k \in Keys : v.mem[k] # 0})

----------------------------------------------------------------------------
\* What one type is as another.  A cast of a string to a number or a truth
\* value takes all of its text, as an expression writes it.
Bad == Value("BAD", 0, "")
Truth(b) == IF b THEN 1 ELSE 0
Reads(v, Of(_)) == LET p == E!Parsed(v.s) IN IF p.kind \in {"NONE", "MORE"} THEN Bad ELSE Of(p)
cast_to_int(v) ==
    CASE v.type = "DOUBLE" -> Value("INT", E!Toward0(v.n), "")
      [] v.type = "STRING" -> Reads(v, LAMBDA p : Value("INT", CASE p.kind = "IVALUE" -> p.num.i [] p.kind = "FVALUE" -> E!Toward0(p.num.f)
                                                                  [] OTHER -> Truth(p.kind = "TRUE"), ""))
      [] v.type \in {"ARRAY", "OBJECT"} -> Value("INT", size(v), "")
      [] OTHER -> Value("INT", v.n, "")
cast_to_double(v) ==
    CASE v.type = "DOUBLE" -> v
      [] v.type = "STRING" -> Reads(v, LAMBDA p : Value("DOUBLE", CASE p.kind = "IVALUE" -> 2 * p.num.i [] p.kind = "FVALUE" -> p.num.f
                                                                     [] OTHER -> 2 * Truth(p.kind = "TRUE"), ""))
      [] OTHER -> Value("DOUBLE", 2 * cast_to_int(v).n, "")
Half(f) == f >= 1 \/ f <= -1
cast_to_bool(v) ==
    CASE v.type = "DOUBLE" -> Value("BOOL", Truth(Half(v.n)), "")
      [] v.type = "STRING" -> Reads(v, LAMBDA p : Value("BOOL", Truth(CASE p.kind = "IVALUE" -> p.num.i # 0 [] p.kind = "FVALUE" -> Half(p.num.f)
                                                                         [] OTHER -> p.kind = "TRUE"), ""))
      [] OTHER -> Value("BOOL", Truth(cast_to_int(v).n # 0), "")
TextOf(v) ==
    CASE v.type = "INT" -> ToString(v.n) [] v.type = "DOUBLE" -> E!FloatText(v.n) [] v.type = "BOOL" -> (IF v.n = 1 THEN "true" ELSE "false")
      [] v.type = "STRING" -> v.s [] OTHER -> ""
cast_to_string(v) == IF v.type \in {"ARRAY", "OBJECT"} THEN Bad ELSE Value("STRING", 0, TextOf(v))
cast_to(v, type) ==
    CASE type = "NULL" -> NullValue [] type = "INT" -> cast_to_int(v) [] type = "DOUBLE" -> cast_to_double(v)
      [] type = "BOOL" -> cast_to_bool(v) [] type = "STRING" -> cast_to_string(v)

\* What the four classes read without a cast: a number of a string with a
\* fraction is read by Integer from the bits of the double.
Read(v, Of(_), zero) == LET p == E!Parsed(v.s) IN IF p.kind \in {"NONE", "MORE"} THEN zero ELSE Of(p)
IntegerGet(v) ==
    CASE v.type \in {"INT", "BOOL"} -> v.n [] v.type = "DOUBLE" -> E!Toward0(v.n)
      [] v.type = "STRING" -> Read(v, LAMBDA p : CASE p.kind = "IVALUE" -> p.num.i [] p.kind = "FVALUE" -> E!Bits(p.num.f)
                                                   [] OTHER -> Truth(p.kind = "TRUE"), 0)
      [] OTHER -> 0
DoubleGet(v) ==
    CASE v.type \in {"INT", "BOOL"} -> 2 * v.n [] v.type = "DOUBLE" -> v.n
      [] v.type = "STRING" -> Read(v, LAMBDA p : CASE p.kind = "IVALUE" -> 2 * p.num.i [] p.kind = "FVALUE" -> p.num.f
                                                   [] OTHER -> 2 * Truth(p.kind = "TRUE"), 0)
      [] OTHER -> 0
BooleanGet(v) ==
    CASE v.type \in {"INT", "BOOL", "DOUBLE"} -> v.n # 0
      [] v.type = "STRING" -> Read(v, LAMBDA p : CASE p.kind = "IVALUE" -> p.num.i # 0 [] p.kind = "FVALUE" -> p.num.f # 0
                                                   [] OTHER -> p.kind = "TRUE", FALSE)
      [] OTHER -> FALSE
\* A number with a fraction is passed to fmt_ascii() as an integer: what "%f"
\* makes of it is not told.
StringGet(v) ==
    CASE v.type \in {"INT", "BOOL", "STRING"} -> [res |-> "OK", text |-> TextOf(v)]
      [] v.type = "DOUBLE" -> [res |-> "OK", text |-> "?"]
      [] OTHER -> [res |-> "BAD_TYPE", text |-> ""]
Strict(v, type) == IF v.type = type THEN v ELSE Bad

----------------------------------------------------------------------------
Done(res, o) == /\ ret # "NO_RETURN"
                /\ obj' = o /\ ret' = (IF res = "OK" THEN "OK" ELSE "FAILED")
                /\ abs' = (IF o = obj THEN abs ELSE abs + 1) /\ abs' <= MaxCalls
\* What happens then is not defined, and not followed further.
Crashes == ret # "NO_RETURN" /\ ret' = "NO_RETURN" /\ UNCHANGED <<obj, abs>>
\* Handles without nodes, or with new arrays and objects.
Empty == [h |-> [h \in Handles |-> 0], node |-> [k \in Nodes |-> Gone]]
Init ==
    /\ obj \in {FoldLeft(LAMBDA o, h : IF f[h] = "NONE" THEN o ELSE create(o, h, Value(f[h], 0, "")), Empty, SetToSeq(Handles)) :
                f \in [Handles -> {"NONE", "ARRAY", "OBJECT"}]}
    /\ ret = "OK"
    /\ abs = 0
Fits == Room(obj) # {}      \* the bound on the nodes

CreateNode == \E h \in Handles : Fits /\ Done("OK", create(obj, h, NullValue))
CreateAs(v) == \E h \in Handles : Fits /\ Done("OK", create(obj, h, v))
CreateInteger == \E n \in Ints : CreateAs(Value("INT", n, ""))
CreateDouble == \E f \in Doubles : CreateAs(Value("DOUBLE", f, ""))
CreateBoolean == CreateAs(Value("BOOL", 1, ""))
CreateString == \E s \in Given : CreateAs(Value("STRING", 0, s))
CreateArray == \E h \in Handles : Fits /\ Done("OK", create(obj, h, Value("ARRAY", 0, "")))
CreateObject == \E h \in Handles : Fits /\ Done("OK", create(obj, h, Value("OBJECT", 0, "")))
Assign == \E h, g \in Handles : Fits /\ Done("OK", copy_ref(obj, h, g))
Destroy == \E h \in Handles : Done("OK", Release(obj, h))
\* set() of a class: the node of the handle becomes one of the class.
SetTo(o, h, v) == LET c == clear_node(o, h) IN [c EXCEPT !.node[c.h[h]] = [v EXCEPT !.refs = c.node[c.h[h]].refs]]
\* sset(): only when it is one already.
SetAs(v) == \E h \in Handles : Fits /\ Done("OK", SetTo(obj, h, v))
StrictSet(v) == \E h \in Handles :
    IF TypeOf(obj, h) = v.type THEN Done("OK", SetTo(obj, h, v)) ELSE Done("BAD_TYPE", obj)
SetInteger == \E n \in Ints : SetAs(Value("INT", n, "")) \/ StrictSet(Value("INT", n, ""))
SetDouble == \E f \in Doubles : SetAs(Value("DOUBLE", f, "")) \/ StrictSet(Value("DOUBLE", f, ""))
SetBoolean == SetAs(Value("BOOL", 1, "")) \/ StrictSet(Value("BOOL", 1, ""))
SetString == \E s \in Given : SetAs(Value("STRING", 0, s)) \/ StrictSet(Value("STRING", 0, s))
\* cast(): Double and Boolean cast to integers, as Integer does.  cast_to_string()
\* does not keep the node it makes for a handle without one, and writes to NULL.
Cast == \E h \in Handles, type \in {"INT", "STRING"} :
    LET v == cast_to(Val(obj, h), type)
    IN  /\ Fits
        /\ IF obj.h[h] = 0 /\ type = "STRING" THEN Crashes
           ELSE Done(IF v = Bad THEN "BAD_FORMAT" ELSE "OK",
                     IF v = Bad \/ (TypeOf(obj, h) = type) THEN obj ELSE SetTo(obj, h, v))

\* Array.cpp.  lltl::parray refuses what is out of its range.
Put(o, h, at, g) ==
    LET r == make_ref(o, g)
        k == r.h[h]
    IN  IF at > Len(r.node[k].items) THEN [res |-> "NO_MEM", obj |-> [r EXCEPT !.node = release_ref(@, r.h[g])]]
        ELSE [res |-> "OK", obj |-> [r EXCEPT !.node[k].items = InsertAt(@, at + 1, r.h[g])]]
IsArray(h) == TypeOf(obj, h) = "ARRAY"
InBound(h) == IsArray(h) => Len(Val(obj, h).items) < MaxItems
ArrayPut(h, at, g) ==
    /\ Fits /\ InBound(h)
    /\ IF IsArray(h) THEN LET r == Put(obj, h, at, g) IN Done(r.res, r.obj) ELSE Done("BAD_TYPE", obj)
Add == \E h, g \in Handles : ArrayPut(h, Len(Val(obj, h).items), g)
Prepend == \E h, g \in Handles : ArrayPut(h, 0, g)
Insert == \E h, g \in Handles, at \in 1..MaxItems : ArrayPut(h, at, g)
ArrayGet == \E h, g \in Handles, at \in 1..MaxItems :
    LET v == Val(obj, h) IN Done("OK", Node(obj, g, IF IsArray(h) /\ at <= Len(v.items) THEN v.items[at] ELSE 0))
Cut(o, h, at, n) ==
    LET k == o.h[h]
        rm == SubSeq(o.node[k].items, at + 1, at + n)
        left == [o.node EXCEPT ![k].items = SubSeq(@, 1, at) \o SubSeq(@, at + n + 1, Len(@))]
    IN  [o EXCEPT !.node = FoldLeft(release_ref, left, rm)]
ArrayRemove == \E h \in Handles, at \in 0..(MaxItems - 1) :
    IF ~IsArray(h) THEN Done("BAD_TYPE", obj)
    ELSE IF at >= Len(Val(obj, h).items) THEN Done("NOT_FOUND", obj)
    ELSE Done("OK", Cut(obj, h, at, 1))
ArrayRemoveN == \E h \in Handles, at \in 0..(MaxItems - 1), n \in 1..MaxItems :
    IF ~IsArray(h) THEN Done("BAD_TYPE", obj)
    ELSE IF at + n > Len(Val(obj, h).items) THEN Done("NO_MEM", obj)
    ELSE Done("OK", Cut(obj, h, at, n))

\* Object.cpp.
IsObject(h) == TypeOf(obj, h) = "OBJECT"
Member(h, key) == IF IsObject(h) THEN Val(obj, h).mem[key] ELSE 0
ObjectGet == \E h, g \in Handles, key \in Keys : Done("OK", Node(obj, g, Member(h, key)))
ObjectRemove == \E h \in Handles, key \in Keys :
    IF Member(h, key) = 0 THEN Done("NOT_FOUND", obj)
    ELSE Done("OK", [obj EXCEPT !.node = release_ref([@ EXCEPT ![obj.h[h]].mem[key] = 0], Member(h, key))])
ObjectSet == \E h, g \in Handles, key \in Keys :
    LET r == make_ref(obj, g)
    IN  /\ Fits
        /\ IF ~IsObject(h) THEN Done("NOT_FOUND", obj)
           ELSE Done("OK", [r EXCEPT !.node = release_ref([@ EXCEPT ![r.h[h]].mem[key] = r.h[g]], Member(h, key))])
fields(v) == IF v.type = "OBJECT" THEN {k \in Keys : v.mem[k] # 0} ELSE {}

Next == \/ CreateNode \/ CreateInteger \/ CreateDouble \/ CreateBoolean \/ CreateString \/ CreateArray \/ CreateObject
        \/ Assign \/ Destroy \/ SetInteger \/ SetDouble \/ SetBoolean \/ SetString \/ Cast
        \/ Add \/ Prepend \/ Insert \/ ArrayGet \/ ArrayRemove \/ ArrayRemoveN \/ ObjectGet \/ ObjectRemove \/ ObjectSet
Spec == Init /\ [][Next]_vars

----------------------------------------------------------------------------
Places(k) ==
    LET In(v) == Cardinality({i \in DOMAIN v.items : v.items[i] = k}) + Cardinality({m \in Keys : v.mem[m] = k})
    IN  FoldLeft(LAMBDA n, j : n + In(obj.node[j]), 0, [j \in Nodes |-> j])
\* A node counts the handles that have it and the places it has in arrays and
\* objects, also when values contain one another in a circle, and is there as
\* long as there is one (Node.cpp:94-226, Array.cpp, Object.cpp).
RefsExact == \A k \in Nodes :
    LET v == obj.node[k]
    IN  /\ v.refs = Cardinality({h \in Handles : obj.h[h] = k}) + Places(k)
        /\ (v.refs = 0) = (v = Gone)
        /\ v.items # <<>> => v.type = "ARRAY"
        /\ v.mem # NoMembers => v.type = "OBJECT"

\* An integer, a truth value or a number cast to a string is cast back to
\* itself, and a scalar reads as what its cast gives, but for strings that
\* Integer reads with a fraction and numbers that String reads with one
\* (numbers nearer to 0 than a half, for Boolean, are not counted) (Node.cpp:285-477, Integer.cpp:76,
\* Boolean.cpp:76, String.cpp:176).
CastsAgree == obj = Empty => \A v \in Scalars \union {NullValue} :
    LET int == cast_to_int(v)
        dbl == cast_to_double(v)
        bool == cast_to_bool(v)
        text == cast_to_string(v)
        Fraction == v.type = "STRING" /\ E!Parsed(v.s).kind = "FVALUE"
        Clean(w) == [w EXCEPT !.refs = 0]
    IN  /\ v.type \in {"INT", "DOUBLE", "BOOL"} => Clean(cast_to(text, v.type)) = v
        /\ ~Fraction => IntegerGet(v) = (IF int = Bad THEN 0 ELSE int.n)
        /\ DoubleGet(v) = (IF dbl = Bad THEN 0 ELSE dbl.n)
        /\ BooleanGet(v) = (bool # Bad /\ bool.n = 1)
        /\ v.type \notin {"DOUBLE", "NULL"} => StringGet(v) = [res |-> "OK", text |-> text.s]
        /\ (int = Bad) = (dbl = Bad) /\ (int = Bad) = (bool = Bad)

\* A call that fails leaves every value and every handle as it was; a handle
\* without node that was to be put into an array may have got a null node of
\* its own (Array.cpp:95-216, Object.cpp:124-177).  Every call returns, but for
\* a cast to a string of a handle without a node (Node.cpp:469-474).
FailsCleanStep ==
    /\ ret' = "FAILED" =>
         /\ \A k \in Nodes : obj.node[k] # Gone => obj'.node[k] = obj.node[k]
         /\ \A h \in Handles : obj'.h[h] # obj.h[h] => obj.h[h] = 0 /\ obj'.node[obj'.h[h]] = [NullValue EXCEPT !.refs = 1]
    /\ ret' = "NO_RETURN" => \E h \in Handles : obj.h[h] = 0
FailsClean == [][FailsCleanStep]_vars
=============================================================================
