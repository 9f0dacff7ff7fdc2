------------------------------ MODULE Variables ------------------------------
(***************************************************************************)
(* src/main/expr/Variables.cpp and EnvResolver.cpp: the variables and      *)
(* functions an expression sees, with those of every resolver.  Both       *)
(* are kept in arrays in the order of their names and found by bisection;  *)
(* a variable that is not there is asked of the resolver and kept.         *)
(*                                                                         *)
(*   obj   vars: vVars, funcs: vFunc, each with its names in order         *)
(*   env   pResolver: "none", "null" (Resolver) or "env" (EnvResolver)     *)
(*   abs   what was last given under each name, for the properties         *)
(* Memory does not run out, and names are not NULL.                        *)
(***************************************************************************)
EXTENDS ExprValues

CONSTANTS Names,        \* the names of variables and functions
          Values,       \* the values of variables
          Functions,    \* the functions of a client; each returns its name
          Environment,  \* the environment of the process: name -> text
          Arguments,    \* the arguments of calls: sequences of values
          MaxEntries    \* bound: how many variables and functions there are

VARIABLES obj, env, abs
vars == <<obj, env, abs>>


----------------------------------------------------------------------------
\* The place where a name is or would be, from 1; 0 when there is nothing.
RECURSIVE Bisect(_, _, _, _)
Bisect(list, name, first, last) ==
    LET mid == (first + last) \div 2
        cmp == compare_to(name, list[mid].name)
    IN  IF first >= last THEN first
        ELSE IF cmp < 0 THEN Bisect(list, name, first, mid - 1)
        ELSE IF cmp > 0 THEN Bisect(list, name, mid + 1, last)
        ELSE mid
index_of_var(o, name)  == IF o.vars = <<>> THEN 0 ELSE Bisect(o.vars, name, 1, Len(o.vars))
index_of_func(o, name) == IF o.funcs = <<>> THEN 0 ELSE Bisect(o.funcs, name, 1, Len(o.funcs))
Has(list, i, name) == i > 0 /\ list[i].name = name
\* Where a new entry goes: before the one found, or after it when that is less.
Slot(list, i, name) == IF i = 0 THEN 1 ELSE IF compare_to(name, list[i].name) > 0 THEN i + 1 ELSE i

insert_var(o, name, v, i)  == [o EXCEPT !.vars = InsertAt(@, i, [name |-> name, v |-> v])]
insert_func(o, name, f, i) == [o EXCEPT !.funcs = InsertAt(@, i, [name |-> name, v |-> f])]
set(o, name, v) ==
    LET i == index_of_var(o, name)
    IN  IF Has(o.vars, i, name) THEN [o EXCEPT !.vars[i].v = v] ELSE insert_var(o, name, v, Slot(o.vars, i, name))
\* The typed forms with a name in UTF-8 and with a string; a NULL string is null.
set_utf8(o, name, v)   == set(o, name, v)
set_string(o, name, v) == set(o, name, v)
set_move(o, name, v)   == set(o, name, v)
unset(o, name) ==
    LET i == index_of_var(o, name)
    IN  IF Has(o.vars, i, name) THEN [obj |-> [o EXCEPT !.vars = RemoveAt(@, i)], r |-> OK(o.vars[i].v)]
        ELSE [obj |-> o, r |-> Fail("NOT_FOUND", Nothing)]
\* A name that is bound already is bound once more.
bind_func(o, name, f) ==
    LET i == index_of_func(o, name)
    IN  IF Has(o.funcs, i, name) THEN insert_func([o EXCEPT !.funcs[i].v = f], name, f, i)
        ELSE insert_func(o, name, f, Slot(o.funcs, i, name))
unbind_func(o, name) ==
    LET i == index_of_func(o, name)
    IN  IF Has(o.funcs, i, name) THEN [obj |-> [o EXCEPT !.funcs = RemoveAt(@, i)], r |-> OK(Nothing)]
        ELSE [obj |-> o, r |-> Fail("NOT_FOUND", Nothing)]
clear_vars(o) == [o EXCEPT !.vars = <<>>]
clear_func(o) == [o EXCEPT !.funcs = <<>>]

\* The resolvers.
RECURSIVE Indexed(_, _)
Indexed(name, indexes) == IF indexes = <<>> THEN name ELSE Indexed(name \o "_" \o ToString(Head(indexes)), Tail(indexes))
EnvResolve(name, indexes) ==
    IF indexes # <<>> \/ name \notin DOMAIN Environment THEN OK(Null) ELSE OK(StrV(Environment[name]))
resolve(o, resolver, name, indexes) ==
    LET search == Indexed(name, indexes)
        i == index_of_var(o, search)
        r == IF resolver = "env" THEN EnvResolve(name, indexes) ELSE OK(Null)
    IN  IF Has(o.vars, i, search) THEN [obj |-> o, r |-> OK(o.vars[i].v)]
        ELSE IF resolver = "none" THEN [obj |-> o, r |-> Fail("NOT_FOUND", Nothing)]
        ELSE [obj |-> insert_var(o, search, r.v, Slot(o.vars, i, search)), r |-> r]

call(o, name, args) ==
    LET i == index_of_func(o, name)
    IN  IF Has(o.funcs, i, name) THEN OK(StrV(o.funcs[i].v)) ELSE std_call(name, args)

----------------------------------------------------------------------------
Init ==
    /\ obj = [vars |-> <<>>, funcs |-> <<>>]
    /\ env \in {"none", "null", "env"}
    /\ abs = [vars |-> <<>>, funcs |-> <<>>]

Twice == "-"      \* for a name that was bound again
Remember(map, name, v) == [n \in DOMAIN map \union {name} |-> IF n = name THEN v ELSE map[n]]
Forget(map, name) == [n \in DOMAIN map \ {name} |-> map[n]]
Becomes(o) == Len(o.vars) + Len(o.funcs) <= MaxEntries /\ obj' = o /\ UNCHANGED env
Set == \E name \in Names, v \in Values :
    /\ Becomes(set_utf8(obj, name, v)) \/ Becomes(set_string(obj, name, v)) \/ Becomes(set_move(obj, name, v))
    /\ abs' = [abs EXCEPT !.vars = Remember(@, name, v)]
Unset == \E name \in Names :
    Becomes(unset(obj, name).obj) /\ abs' = [abs EXCEPT !.vars = Forget(@, name)]
Resolve == \E name \in Names, indexes \in {<<>>, <<1>>} :
    LET s == resolve(obj, env, name, indexes)
    IN  /\ Indexed(name, indexes) \in Names
        /\ Becomes(s.obj)
        /\ abs' = IF s.r.res = "OK" THEN [abs EXCEPT !.vars = Remember(@, Indexed(name, indexes), s.r.v)] ELSE abs
Bind == \E name \in Names, f \in Functions :
    /\ Becomes(bind_func(obj, name, f))
    /\ abs' = [abs EXCEPT !.funcs = Remember(@, name, IF name \in DOMAIN @ THEN Twice ELSE f)]
Unbind == \E name \in Names :
    /\ Becomes(unbind_func(obj, name).obj)
    /\ abs' = IF name \in DOMAIN abs.funcs /\ abs.funcs[name] = Twice THEN abs ELSE [abs EXCEPT !.funcs = Forget(@, name)]
Clear ==
    \/ Becomes(clear_vars(obj)) /\ abs' = [abs EXCEPT !.vars = <<>>]
    \/ Becomes(clear_func(obj)) /\ abs' = [abs EXCEPT !.funcs = <<>>]
Next == Set \/ Unset \/ Resolve \/ Bind \/ Unbind \/ Clear
Spec == Init /\ [][Next]_vars
----------------------------------------------------------------------------
\* Each name is found and has the value last given to it, by set() or by the
\* resolver that was asked once; so has each function that was bound once.  A
\* name bound again has two entries, and they part (Variables.cpp:245-301,
\* 315-498, 572-629).
LastGiven ==
    /\ \A name \in Names :
           LET i == index_of_var(obj, name)
           IN  IF name \in DOMAIN abs.vars THEN /\ Has(obj.vars, i, name) /\ obj.vars[i].v = abs.vars[name]
                    /\ unset(obj, name).r = OK(abs.vars[name]) /\ resolve(obj, env, name, <<>>).r = OK(abs.vars[name])
               ELSE ~Has(obj.vars, i, name) /\ unset(obj, name).r.res = "NOT_FOUND"
    /\ \A name \in Names :
           LET f == call(obj, name, <<>>)
           IN  IF name \notin DOMAIN abs.funcs THEN f.res = "NOT_FOUND"
               ELSE abs.funcs[name] # Twice => f = OK(StrV(abs.funcs[name]))

\* The arrays are in the order of the names: what the bisection stands on; no
\* variable is there twice (Variables.cpp:341-451).
InOrder ==
    /\ \A i \in 1..Len(obj.vars) - 1 : compare_to(obj.vars[i].name, obj.vars[i + 1].name) < 0
    /\ \A i \in 1..Len(obj.funcs) - 1 : compare_to(obj.funcs[i].name, obj.funcs[i + 1].name) <= 0

Number(v) == v.t \in {"INT", "FLOAT", "BOOL"} \/ (v.t = "STRING" /\ cast_non_string(v).res = "OK" /\ cast_non_string(v).v.t # "UNDEF")
ValueOf(v) == Halves(IF v.t = "STRING" THEN cast_non_string(v).v ELSE v)
\* min() and max() of arguments that are all numbers, or texts of numbers, are
\* one of the arguments and no other is beyond it; one argument that is none
\* makes them undefined, as it does avg() and rms() (functions.cpp:29-339).
BestArgument ==
    obj.vars = <<>> /\ obj.funcs = <<>> => \A list \in Arguments, name \in {"min", "max", "avg", "rms"} :
        LET args == ToSet(list)
            r    == call(obj, name, list)
        IN  IF args = {} THEN r = OK(Undef)
            ELSE IF \A v \in args : Number(v) THEN
                 CASE name = "min" -> r.v \in args /\ \A v \in args : ValueOf(r.v) <= ValueOf(v)
                   [] name = "max" -> r.v \in args /\ \A v \in args : ValueOf(r.v) >= ValueOf(v)
                   [] OTHER -> \E v, w \in args : ValueOf(v) <= r.v.f /\ r.v.f <= IF ValueOf(w) < 0 THEN -ValueOf(w) ELSE ValueOf(w)
            ELSE IF Len(list) = 1 /\ name \in {"min", "max"} THEN r = OK(list[1])
            ELSE r.v = Undef
=============================================================================
