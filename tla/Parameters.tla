----------------------------- MODULE Parameters -----------------------------
(***************************************************************************)
(* src/main/expr/Parameters.cpp: the ordered collection of parameters of a *)
(* call or of a formatted message.  A parameter has a value and may have a *)
(* name; a client reaches it by its index or by the first one of a name.   *)
(*                                                                         *)
(*   obj   vParams: the parameters, in order                               *)
(*   ret   the last call: its status, whether it called modified(), and    *)
(*         the value it gave to the client                                 *)
(* Indexes are those of the code, from 0.  Memory does not run out.        *)
(***************************************************************************)
EXTENDS ExprValues

CONSTANTS Names,     \* the names of parameters
          Values,    \* their values
          Types,     \* the types a client asks for
          Other,     \* a second collection, for the calls that take one
          MaxParams  \* bound: how many parameters a collection holds

VARIABLES obj, ret
vars == <<obj, ret>>

NoName == "?"                   \* a parameter without a name, and a NULL name
Param(name, v) == [name |-> name, v |-> v]
None == [t |-> "NONE"]          \* no value was given to the client
Done(res, mod, out) == [res |-> res, mod |-> mod, out |-> out]
Changed(par, out) == [res |-> "OK", par |-> par, mod |-> TRUE, out |-> out]
Refused(res, par) == [res |-> res, par |-> par, mod |-> FALSE, out |-> None]

----------------------------------------------------------------------------
\* Finding.  A place is counted from 1, and 0 means there is none.
lookup_by_name(par, name) ==
    LET at == {i \in 1..Len(par) : par[i].name = name}
    IN  IF at = {} THEN 0 ELSE CHOOSE i \in at : \A j \in at : i <= j
get_index(par, name) == lookup_by_name(par, name) - 1
At(par, index) == IF index < Len(par) THEN index + 1 ELSE 0
get_name(par, index) ==
    LET i == At(par, index)
    IN  IF i = 0 THEN "INVALID_VALUE" ELSE IF par[i].name = NoName THEN "NULL" ELSE par[i].name
get_type(par, name) == LET i == lookup_by_name(par, name) IN IF i = 0 THEN "NOT_FOUND" ELSE par[i].v.t
RECURSIVE Indexed(_, _)
Indexed(name, indexes) == IF indexes = <<>> THEN name ELSE Indexed(name \o "_" \o ToString(Head(indexes)), Tail(indexes))
resolve(par, name, indexes) ==
    LET i == lookup_by_name(par, Indexed(name, indexes)) IN IF i = 0 THEN Fail("NOT_FOUND", None) ELSE OK(par[i].v)

\* Reading.
Read(par, i, missing) == IF i = 0 THEN Fail(missing, None) ELSE OK(par[i].v)
Typed(r, type) == IF r.res = "OK" /\ r.v.t # type THEN Fail("BAD_TYPE", None) ELSE r
get(par, name)              == Read(par, lookup_by_name(par, name), "NOT_FOUND")
get_typed(par, index, type) == Typed(Read(par, At(par, index), "INVALID_VALUE"), type)
get_named(par, name, type)  ==
    IF name = NoName THEN Fail("INVALID_VALUE", None) ELSE Typed(Read(par, lookup_by_name(par, name), "NOT_FOUND"), type)
get_utf8(par, name, type)   == IF name = NoName THEN Fail("INVALID_VALUE", None) ELSE get_named(par, name, type)
As(r, type) ==
    LET c == cast_value(r.v, type)
    IN  IF r.res # "OK" THEN r
        ELSE IF c.res # "OK" THEN Fail(c.res, None)
        ELSE IF c.v.t = type THEN c ELSE Fail("BAD_TYPE", None)
as_value(par, index, type)  == As(Read(par, At(par, index), "INVALID_VALUE"), type)
as_named(par, name, type)   ==
    IF name = NoName THEN Fail("INVALID_VALUE", None) ELSE As(Read(par, lookup_by_name(par, name), "NOT_FOUND"), type)
as_typed(par, index, type)  == as_value(par, index, type)
as_utf8(par, name, type)    == IF name = NoName THEN Fail("INVALID_VALUE", None) ELSE as_named(par, name, type)
as_string(par, name, type)  == as_named(par, name, type)

----------------------------------------------------------------------------
\* Changing one parameter.
Place1(par, i, p) == SubSeq(par, 1, i) \o <<p>> \o SubSeq(par, i + 1, Len(par))
Without(par, i) == SubSeq(par, 1, i - 1) \o SubSeq(par, i + 1, Len(par))
add(par, name, v)          == Changed(Append(par, Param(name, v)), None)
add_move(par, name, v)     == Changed(Append(par, Param(name, v)), Undef)
add_utf8(par, name, v)     == add(par, name, v)
add_named(par, name, v)    == add(par, name, v)
add_value(par, v)          == add(par, NoName, v)
insert(par, index, name, v) ==
    IF index > Len(par) THEN Refused("INVALID_VALUE", par) ELSE Changed(Place1(par, index, Param(name, v)), None)
insert_utf8(par, index, name, v)  == insert(par, index, name, v)
insert_named(par, index, name, v) == insert(par, index, name, v)
insert_value(par, index, v)       == insert(par, index, NoName, v)

Assign(par, i, v) == Changed([par EXCEPT ![i].v = v], None)
set(par, name, v) ==
    LET i == lookup_by_name(par, name) IN IF i = 0 THEN add(par, name, v) ELSE Assign(par, i, v)
set_at(par, index, v) == IF At(par, index) = 0 THEN Refused("INVALID_VALUE", par) ELSE Assign(par, At(par, index), v)
set_utf8(par, name, v)  == IF name = NoName THEN Refused("INVALID_VALUE", par) ELSE set(par, name, v)
set_named(par, name, v) == set(par, name, v)
set_index(par, index, v) == set_at(par, index, v)

Take(par, i, missing) == IF i = 0 THEN Refused(missing, par) ELSE Changed(Without(par, i), par[i].v)
TakeTyped(par, i, type, missing) ==
    IF i > 0 /\ par[i].v.t # type THEN Refused("BAD_TYPE", par) ELSE Take(par, i, missing)
remove(par, index) == Take(par, At(par, index), "INVALID_VALUE")
remove_named(par, name) ==
    IF name = NoName THEN Refused("INVALID_VALUE", par) ELSE Take(par, lookup_by_name(par, name), "NOT_FOUND")
remove_value(par, index, type) == TakeTyped(par, At(par, index), type, "INVALID_VALUE")
remove_value_named(par, name, type) ==
    IF name = NoName THEN Refused("INVALID_VALUE", par) ELSE TakeTyped(par, lookup_by_name(par, name), type, "NOT_FOUND")
\* drop_value() gives the parameter itself to the typed forms of remove.
drop_value(par, index, type) == TakeTyped(par, At(par, index), type, "INVALID_VALUE")
drop_named(par, name, type)  == TakeTyped(par, lookup_by_name(par, name), type, "NOT_FOUND")
remove_typed(par, index, type) == drop_value(par, index, type)
remove_utf8(par, name, type) == IF name = NoName THEN Refused("INVALID_VALUE", par) ELSE drop_named(par, name, type)
remove_string(par, name, type) == drop_named(par, name, type)

\* Changing many: from first, before last.
Slice(par, first, last) == SubSeq(par, first + 1, last)
Bad(first, last, n) == first < 0 \/ first > last \/ last > n
set_slice(par, p, first, last) ==
    LET to == IF last < 0 THEN Len(p) ELSE last
    IN  IF first < 0 THEN Refused("UNDERFLOW", par)
        ELSE IF to > Len(p) \/ (last < 0 /\ first > to) THEN Refused("OVERFLOW", par)
        ELSE IF first > to THEN Refused("INVALID_VALUE", par)
        ELSE Changed(Slice(p, first, to), None)
insert_slice(par, index, p, first, last) ==
    IF Bad(first, last, Len(p)) THEN Refused("INVALID_VALUE", par)
    ELSE IF index > Len(par) THEN Refused("OVERFLOW", par)
    ELSE Changed(SubSeq(par, 1, index) \o Slice(p, first, last) \o SubSeq(par, index + 1, Len(par)), None)
add_slice(par, p, first, last) ==
    IF Bad(first, last, Len(p)) THEN Refused("INVALID_VALUE", par) ELSE Changed(par \o Slice(p, first, last), None)
remove_slice(par, first, last) ==
    IF Bad(first, last, Len(par)) THEN Refused("INVALID_VALUE", par)
    ELSE Changed(SubSeq(par, 1, first) \o SubSeq(par, last + 1, Len(par)), None)
clear(par) == Changed(<<>>, None)

----------------------------------------------------------------------------
\* The calls of a client.
Init == obj = <<>> /\ ret = Done("OK", FALSE, None)

Call(r) == Len(r.par) <= MaxParams /\ obj' = r.par /\ ret' = Done(r.res, r.mod, r.out)
Indexes == 0..MaxParams
Add == \E name \in Names \union {NoName}, v \in Values : Call(add_utf8(obj, name, v)) \/ Call(add_named(obj, name, v))
AddMove == \E name \in Names, v \in Values : Call(add_move(obj, name, v))
AddValue == \E v \in Values : Call(add_value(obj, v))
Insert == \E i \in Indexes, name \in Names, v \in Values :
    Call(insert_utf8(obj, i, name, v)) \/ Call(insert_named(obj, i, name, v)) \/ Call(insert_value(obj, i, v))
Set == \E name \in Names \union {NoName}, v \in Values :
    Call(set_utf8(obj, name, v)) \/ (name # NoName /\ Call(set_named(obj, name, v)))
SetAt == \E i \in Indexes, v \in Values : Call(set_index(obj, i, v))
RemoveIndexed == \E i \in Indexes, type \in Types :
    Call(remove(obj, i)) \/ Call(remove_value(obj, i, type)) \/ Call(remove_typed(obj, i, type))
RemoveNamed == \E name \in Names \union {NoName}, type \in Types :
    \/ Call(remove_named(obj, name)) \/ Call(remove_value_named(obj, name, type))
    \/ Call(remove_utf8(obj, name, type)) \/ (name # NoName /\ Call(remove_string(obj, name, type)))
Slices == \E first, last \in -1..MaxParams, i \in Indexes :
    \/ Call(set_slice(obj, Other, first, last)) \/ Call(insert_slice(obj, i, Other, first, last))
    \/ Call(add_slice(obj, Other, first, last)) \/ Call(remove_slice(obj, first, last))
Clear == Call(clear(obj))
Swap  == Call(Changed(Other, None))
Next == Add \/ AddMove \/ AddValue \/ Insert \/ Set \/ SetAt \/ RemoveIndexed \/ RemoveNamed \/ Slices \/ Clear \/ Swap
Spec == Init /\ [][Next]_vars
----------------------------------------------------------------------------
\* The ways to reach one parameter agree: by its name, by its index, typed or
\* cast, a parameter shadowed by an earlier one of its name by its index alone
\* (Parameters.cpp:83-156, 912-1398).
WaysAgree ==
    /\ \A name \in Names :
           LET k == get_index(obj, name)
           IN  IF k < 0 THEN get(obj, name).res = "NOT_FOUND" /\ resolve(obj, name, <<>>).res = "NOT_FOUND"
               ELSE /\ \A j \in 0..k - 1 : get_name(obj, j) # name
                    /\ get(obj, name) = OK(obj[k + 1].v) /\ resolve(obj, name, <<>>) = get(obj, name)
                    /\ get_name(obj, k) = name /\ get_type(obj, name) = obj[k + 1].v.t
                    /\ \A type \in Types : /\ get_utf8(obj, name, type) = get_typed(obj, k, type)
                                           /\ as_utf8(obj, name, type) = as_typed(obj, k, type)
                                           /\ as_string(obj, name, type) = as_typed(obj, k, type)
    /\ \A k \in 0..Len(obj) - 1, type \in Types :
           LET typed == get_typed(obj, k, type)
               cast  == as_value(obj, k, type)
           IN  /\ typed.res = "OK" => cast = typed
               /\ cast.res = "OK" => cast.v.t = type
    /\ \A type \in Types : get_typed(obj, Len(obj), type).res = "INVALID_VALUE" /\ get_utf8(obj, NoName, type).res = "INVALID_VALUE"

\* modified() is called by the calls that succeed and by no other, and what
\* changes a collection is such a call (Parameters.cpp:55-69, 245-454, 653-712,
\* 1400-1434, 1625-1790).
ModifiedTellsStep ==
    /\ ret'.mod <=> ret'.res = "OK"
    /\ obj' # obj => ret'.mod
ModifiedTells == [][ModifiedTellsStep]_vars

\* What a call puts in at a place, the call that takes from that place brings
\* out again, and nothing else has moved (Parameters.cpp:245-350, 653-712,
\* 1424-1434, 1625-1790).
TakenBack ==
    /\ \A i \in Indexes, first, last \in 0..Len(Other) :
           LET in == insert_slice(obj, i, Other, first, last)
           IN  in.res = "OK" => /\ remove_slice(in.par, i, i + last - first).par = obj
                                /\ set_slice(obj, in.par, i, i + last - first) = set_slice(obj, Other, first, last)
                                /\ i = Len(obj) => in = add_slice(obj, Other, first, last)
    /\ \A i \in Indexes, v \in Values, name \in Names \union {NoName} :
           LET in == insert_utf8(obj, i, name, v)
           IN  in.res = "OK" => remove(in.par, i) = Changed(obj, v) /\ remove_typed(in.par, i, v.t) = Changed(obj, v)
    /\ \A i \in Indexes, v \in Values :
           LET in == set_at(obj, i, v)
           IN  in.res = "OK" => set_at(in.par, i, obj[i + 1].v).par = obj
=============================================================================
