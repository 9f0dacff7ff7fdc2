----------------------------- MODULE ExprValues -----------------------------
(***************************************************************************)
(* src/main/expr/types.cpp, functions.cpp and Resolver.cpp: the values an  *)
(* expression computes with, their casts, and the functions every resolver *)
(* knows.                                                                  *)
(*                                                                         *)
(* A value is a record with its type and one field.  The strings of a      *)
(* value belong to it, and a copy copies them, so a value stands for its   *)
(* string.                                                                 *)
(***************************************************************************)
EXTENDS ExprTokens

CONSTANT Token     \* Token[t, flags]: the tokenizer t after get_token(flags)

BoolV(b)  == [t |-> "BOOL", b |-> b]
StrV(s)   == [t |-> "STRING", s |-> s]
Null     == [t |-> "NULL"]
Undef    == [t |-> "UNDEF"]
\* An undefined value that still has the bits of the value it was.
Stale    == [t |-> "UNDEF", was |-> "other"]
Nothing  == [t |-> "NONE"]      \* for a value that was not given
\* The integer that has the bits of a double: far from every other integer.
Bits(h)  == IF h = 0 THEN 0 ELSE IF h > 0 THEN 1000000 + h ELSE h - 1000000

----------------------------------------------------------------------------
\* types.cpp
OK(v)      == [res |-> "OK", v |-> v]
Fail(r, v) == [res |-> r, v |-> v]
Toward0(h) == IF h >= 0 THEN h \div 2 ELSE -((-h) \div 2)
\* What a string holds: a number or a truth value, nothing of the kind, or more.
ParsedFrom(t) ==
    IF t.tok \notin {"IVALUE", "FVALUE", "TRUE", "FALSE"} THEN [kind |-> "NONE"]
    ELSE IF Token[t, {"GET"}].tok # "EOF" THEN [kind |-> "MORE"]
    ELSE [kind |-> t.tok, num |-> t.num]
Parsed(s) == ParsedFrom(Token[Tokenizer(s), {"GET"}])
OfParsed(v, Of(_), p) ==
    CASE p.kind = "NONE" -> OK(Stale) [] p.kind = "MORE" -> Fail("BAD_FORMAT", v) [] OTHER -> OK(Of(p))
FromString(v, Of(_)) == OfParsed(v, Of, Parsed(v.s))

cast_int(v) ==
    CASE v.t = "FLOAT"  -> OK(IntV(Toward0(v.f)))
      [] v.t = "BOOL"   -> OK(IntV(IF v.b THEN 1 ELSE 0))
      [] v.t = "STRING" -> FromString(v, LAMBDA p : IntV(CASE p.kind = "IVALUE" -> p.num.i [] p.kind = "FVALUE" -> Bits(p.num.f)
                                                          [] p.kind = "TRUE" -> 1 [] p.kind = "FALSE" -> 0))
      [] OTHER -> OK(v)
cast_float(v) ==
    CASE v.t = "INT"    -> OK(FloatV(2 * v.i))
      [] v.t = "BOOL"   -> OK(FloatV(IF v.b THEN 2 ELSE 0))
      [] v.t = "STRING" -> FromString(v, LAMBDA p : FloatV(CASE p.kind = "IVALUE" -> 2 * p.num.i [] p.kind = "FVALUE" -> p.num.f
                                                            [] p.kind = "TRUE" -> 2 [] p.kind = "FALSE" -> 0))
      [] OTHER -> OK(v)
cast_bool(v) ==
    CASE v.t = "INT"    -> OK(BoolV(v.i # 0))
      [] v.t = "FLOAT"  -> OK(BoolV(v.f >= 1 \/ v.f <= -1))
      [] v.t = "STRING" -> FromString(v, LAMBDA p : BoolV(CASE p.kind = "IVALUE" -> p.num.i # 0
                                                           [] p.kind = "FVALUE" -> p.num.f > 1 \/ p.num.f <= -1
                                                           [] OTHER -> p.kind = "TRUE"))
      [] OTHER -> OK(v)
FloatText(h) == (IF h < 0 THEN "-" ELSE "") \o ToString((IF h < 0 THEN -h ELSE h) \div 2) \o (IF h % 2 = 0 THEN ".000000" ELSE ".500000")
cast_string(v) ==
    CASE v.t = "INT"   -> OK(StrV(ToString(v.i)))
      [] v.t = "FLOAT" -> OK(StrV(FloatText(v.f)))
      [] v.t = "BOOL"  -> OK(StrV(IF v.b THEN "true" ELSE "false"))
      [] OTHER -> OK(v)
cast_string_ext(v) ==
    CASE v.t = "NULL" -> OK(StrV("null")) [] v.t = "UNDEF" -> OK(StrV("undef")) [] OTHER -> cast_string(v)
\* The number or truth value of a string, as it is written.
Written(p) == IF p.kind \in {"IVALUE", "FVALUE"} THEN p.num ELSE BoolV(p.kind = "TRUE")
cast_numeric(v) ==
    CASE v.t = "BOOL" -> cast_int(v)
      [] v.t = "STRING" -> FromString(v, LAMBDA p : IF Written(p).t = "BOOL" THEN cast_int(Written(p)).v ELSE Written(p))
      [] OTHER -> OK(v)
cast_non_string(v) == IF v.t = "STRING" THEN FromString(v, Written) ELSE OK(v)
\* The form with a destination: a value that is no string leaves it alone, and
\* whatever follows the first token is an error.
cast_non_string_to(dst, v) ==
    IF v.t # "STRING" THEN OK(dst)
    ELSE IF Token[Token[Tokenizer(v.s), {"GET"}], {"GET"}].tok # "EOF" THEN Fail("BAD_FORMAT", dst)
    ELSE cast_non_string(v)
cast_value(v, type) ==
    CASE type = "INT" -> cast_int(v) [] type = "FLOAT" -> cast_float(v) [] type = "BOOL" -> cast_bool(v)
      [] type = "STRING" -> cast_string(v) [] type = "NULL" -> OK(Null) [] type = "UNDEF" -> OK(Undef)

----------------------------------------------------------------------------
\* functions.cpp and Resolver.cpp: the functions every resolver knows.
Halves(v) == CASE v.t = "INT" -> 2 * v.i [] v.t = "FLOAT" -> v.f [] v.t = "BOOL" -> IF v.b THEN 2 ELSE 0
Comparable(v) == IF v.t = "STRING" THEN cast_non_string_to(Undef, v) ELSE OK(v)
CompareResults(x, y) ==
    IF x.res # "OK" THEN x ELSE IF y.res # "OK" THEN y
    ELSE IF x.v.t = "UNDEF" \/ y.v.t = "UNDEF" THEN OK(Undef)
    ELSE OK(IntV(CASE Halves(x.v) < Halves(y.v) -> -1 [] Halves(x.v) > Halves(y.v) -> 1 [] OTHER -> 0))
numeric_compare(a, b) ==
    IF a.t = "UNDEF" \/ b.t = "UNDEF" THEN OK(Undef)
    ELSE IF a.t = "NULL" THEN OK(BoolV(b.t = "NULL"))
    ELSE IF b.t = "NULL" THEN OK(BoolV(FALSE))
    ELSE CompareResults(Comparable(a), Comparable(b))
\* Of the arguments from i on and the best so far.
RECURSIVE Extreme(_, _, _, _)
Beyond(args, i, best, sign, c) ==
    IF c.res # "OK" THEN Fail(c.res, Undef)
    ELSE IF c.v.t # "INT" THEN OK(Undef)
    ELSE Extreme(args, i + 1, IF sign * c.v.i > 0 THEN args[i] ELSE best, sign)
Extreme(args, i, best, sign) ==
    IF i > Len(args) THEN OK(best) ELSE Beyond(args, i, best, sign, numeric_compare(best, args[i]))
stdfunc_min(args) == IF args = <<>> THEN OK(Undef) ELSE Extreme(args, 2, args[1], 1)
stdfunc_max(args) == IF args = <<>> THEN OK(Undef) ELSE Extreme(args, 2, args[1], -1)
\* The first argument that is no number decides the result of a mean.
Averaged(c, bad, Result(_)) ==
    IF c = <<>> THEN OK(Undef)
    ELSE IF bad = <<>> THEN OK(FloatV(Result([k \in 1..Len(c) |-> c[k].v.f])))
    ELSE IF Head(bad).res # "OK" THEN Fail(Head(bad).res, Undef) ELSE OK(Undef)
MeanOf(c, Result(_)) == Averaged(c, SelectSeq(c, LAMBDA x : x.res # "OK" \/ x.v.t # "FLOAT"), Result)
Mean(args, Result(_)) == MeanOf([i \in 1..Len(args) |-> cast_float(args[i])], Result)
Sum(h) == FoldLeft(LAMBDA n, x : n + x, 0, h)
stdfunc_avg(args) == Mean(args, LAMBDA h : Sum(h) \div Len(h))
stdfunc_rms(args) ==
    Mean(args, LAMBDA h : CHOOSE r \in 0..100 : LET n == Sum([i \in 1..Len(h) |-> h[i]*h[i]]) \div Len(h)
                                               IN r*r <= n /\ n < (r + 1)*(r + 1))
Builtin == << [name |-> "avg"], [name |-> "max"], [name |-> "min"], [name |-> "rms"] >>
\* The bisection starts with last one behind the table: a name behind every
\* name of the table is compared with what follows it in memory.
RECURSIVE find_std_func(_, _, _)
AtName(name, first, mid, last, cmp) ==
    IF cmp = 0 THEN name
    ELSE IF cmp < 0 THEN find_std_func(name, first, mid - 1) ELSE find_std_func(name, mid + 1, last)
AtPlace(name, first, mid, last) ==
    IF mid = Len(Builtin) THEN "OUTSIDE" ELSE AtName(name, first, mid, last, compare_to(name, Builtin[mid + 1].name))
find_std_func(name, first, last) ==
    IF first > last THEN "NULL" ELSE AtPlace(name, first, (first + last) \div 2, last)
Called(found, args) ==
    CASE found = "avg" -> stdfunc_avg(args) [] found = "max" -> stdfunc_max(args)
      [] found = "min" -> stdfunc_min(args) [] found = "rms" -> stdfunc_rms(args)
      [] OTHER -> Fail("NOT_FOUND", Nothing)
std_call(name, args) == Called(find_std_func(name, 0, Len(Builtin)), args)
=============================================================================
