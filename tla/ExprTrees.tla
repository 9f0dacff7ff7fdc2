------------------------------ MODULE ExprTrees ------------------------------
(***************************************************************************)
(* src/main/expr/evaluator.cpp: the operators of expressions, and what a   *)
(* tree of them evaluates to.  A node is a record: op, and its operands l, *)
(* r and c, its value, or its name and the expressions of its indexes or   *)
(* arguments.                                                              *)
(*                                                                         *)
(* A result the model does not know is Unknown: bits a value had before, a *)
(* mathematical function away from the arguments where it is exact, a      *)
(* fraction that is not whole in halves.  Broken is a string whose pointer *)
(* was calculated with: an operator goes on after a cast that failed.      *)
(***************************************************************************)
EXTENDS ExprValues

Unknown    == [t |-> "ANY"]
Broken == [t |-> "BROKEN"]
Opaque(v)  == v.t \in {"ANY", "BROKEN"}
\* The type is set to VT_UNDEF, and the bits stay.
Dropped(v) == IF v \in {IntV(0), FloatV(0), BoolV(FALSE), Null, Undef} THEN Undef ELSE Stale
Gone(res)  == Fail(res, Undef)
Trunc(n, d) == IF (n >= 0) = (d > 0) THEN (IF n < 0 THEN -n ELSE n) \div (IF d < 0 THEN -d ELSE d)
               ELSE -((IF n < 0 THEN -n ELSE n) \div (IF d < 0 THEN -d ELSE d))
Rest(n, d)  == n - d * Trunc(n, d)
Exact(n, d) == IF d = 0 THEN Unknown ELSE IF Rest(n, d) = 0 THEN FloatV(Trunc(n, d)) ELSE Unknown
Bit(x, k) == (x \div 2^k) % 2
Bits8(F(_, _), x, y) ==
    FoldLeft(LAMBDA n, k : n + (IF F(Bit(x, k), Bit(y, k)) THEN IF k = 7 THEN -128 ELSE 2^k ELSE 0), 0, <<0, 1, 2, 3, 4, 5, 6, 7>>)

----------------------------------------------------------------------------
\* Operators of two numbers.  l and r are the results of the operands, a and
\* b their values after the cast.  An operand that is not there stops the
\* evaluation before the right one.
Binary(l, r, a, b, result) ==
    IF l.res # "OK" THEN l
    ELSE IF a.t = "UNDEF" THEN OK(a)
    ELSE IF a.t = "NULL" THEN OK(Undef)
    ELSE IF r.res # "OK" THEN Gone(r.res)
    ELSE IF Opaque(a) \/ Opaque(b) THEN OK(Unknown)
    ELSE IF b.t = "STRING" THEN Gone("BAD_TYPE")
    ELSE IF b.t = "NULL" THEN OK(Dropped(a))
    ELSE result
\* INT_OP
IntResult(op, a, b) ==
        IF b.t = "UNDEF" THEN OK(Dropped(a))
        ELSE IF a.t = "STRING" THEN OK(Broken)
        ELSE CASE op = "IADD" -> OK(IntV(a.i + b.i)) [] op = "ISUB" -> OK(IntV(a.i - b.i)) [] op = "IMUL" -> OK(IntV(a.i * b.i))
               [] op = "IDIV" -> IF b.i = 0 THEN Gone("CRASH") ELSE OK(IntV(Trunc(a.i, b.i)))
               [] op = "BOR"  -> OK(IntV(Bits8(LAMBDA x, y : x + y > 0, a.i, b.i)))
               [] op = "BAND" -> OK(IntV(Bits8(LAMBDA x, y : x + y = 2, a.i, b.i)))
               [] op = "BXOR" -> OK(IntV(Bits8(LAMBDA x, y : x + y = 1, a.i, b.i)))
IntOpOf(op, l, r, a, b) == Binary(l, r, a, b, IntResult(op, a, b))
IntOp(op, l, r) == IntOpOf(op, l, r, cast_int(l.v).v, cast_int(r.v).v)
\* A right operand that is undefined leaves the left one as it is.
Computed(a, b, Ints(_, _), Floats(_, _)) ==
    IF b.t = "UNDEF" THEN OK(a)
    ELSE IF a.t = "STRING" THEN OK(IF b.t = "INT" THEN Broken ELSE Unknown)
    ELSE IF a.t = "INT" /\ b.t = "INT" THEN OK(Ints(a.i, b.i))
    ELSE OK(Floats(Halves(a), Halves(b)))
ArithmeticOf(l, r, a, b, Ints(_, _), Floats(_, _)) == Binary(l, r, a, b, Computed(a, b, Ints, Floats))
Arithmetic(l, r, Ints(_, _), Floats(_, _)) == ArithmeticOf(l, r, cast_numeric(l.v).v, cast_numeric(r.v).v, Ints, Floats)
eval_add(l, r) == Arithmetic(l, r, LAMBDA x, y : IntV(x + y), LAMBDA x, y : FloatV(x + y))
eval_sub(l, r) == Arithmetic(l, r, LAMBDA x, y : IntV(x - y), LAMBDA x, y : FloatV(x - y))
eval_mul(l, r) == Arithmetic(l, r, LAMBDA x, y : IntV(x * y), LAMBDA x, y : Exact(x * y, 2))
eval_div(l, r) ==
    Arithmetic(l, r, LAMBDA x, y : IF y = 0 THEN Dropped(IntV(x)) ELSE IntV(Trunc(x, y)), LAMBDA x, y : Exact(2 * x, y))
Modulo(a, b) ==
    IF b.t = "UNDEF" THEN OK(a)
    ELSE IF a.t = "STRING" THEN OK(IF b.i = 0 THEN Stale ELSE Broken)
    ELSE OK(IF b.i = 0 THEN Dropped(a) ELSE IntV(Rest(a.i, b.i)))
ModuloOf(l, r, a, b) == Binary(l, r, a, b, Modulo(a, b))
eval_imod(l, r) == ModuloOf(l, r, cast_int(l.v).v, cast_int(r.v).v)
FloatModulo(a, b) ==
    IF b.t = "UNDEF" THEN OK(a)
    ELSE IF a.t = "STRING" THEN OK(Broken)
    ELSE OK(IF b.f = 0 THEN Unknown ELSE FloatV(Rest(a.f, b.f)))
FloatModuloOf(l, r, a, b) == Binary(l, r, a, b, FloatModulo(a, b))
eval_fmod(l, r) == FloatModuloOf(l, r, cast_float(l.v).v, cast_float(r.v).v)
Power(l, r, a, b) ==
    IF l.res # "OK" THEN l
    ELSE IF a.t = "NULL" THEN OK(Undef)
    ELSE IF a.t = "UNDEF" THEN OK(a)
    ELSE IF a.t = "STRING" THEN Gone("BAD_TYPE")
    ELSE IF r.res # "OK" THEN Gone(r.res)
    ELSE IF Opaque(a) \/ Opaque(b) THEN OK(Unknown)
    ELSE IF b.t = "STRING" THEN Gone("BAD_TYPE")
    ELSE IF b.t # "FLOAT" THEN OK(Dropped(a))
    ELSE OK(IF b.f \notin {0, 2, 4, 6} \/ a.f \notin -20..20 THEN Unknown
            ELSE IF b.f = 0 THEN FloatV(2) ELSE Exact(2 * a.f^(b.f \div 2), 2^(b.f \div 2)))
eval_power(l, r) == Power(l, r, cast_float(l.v).v, cast_float(r.v).v)

\* Logic.  The truth value a value holds, also when it has another type.
Truth(v) == CASE v.t = "BOOL" -> IF v.b THEN "yes" ELSE "no" [] v \in {Null, Undef} -> "no" [] OTHER -> "any"
Xor(l, r, a, b) ==
    IF l.res # "OK" THEN l
    ELSE IF a.res # "OK" THEN Gone(a.res)
    ELSE IF r.res # "OK" THEN Gone(r.res)
    ELSE IF b.res # "OK" THEN Gone(b.res)
    ELSE IF "any" \in {Truth(a.v), Truth(b.v)} THEN OK(Unknown)
    ELSE IF a.v.t # "BOOL" THEN OK(IF Truth(b.v) = "no" THEN a.v ELSE IF a.v = Undef THEN Stale ELSE Unknown)
    ELSE OK(BoolV(Truth(a.v) # Truth(b.v)))
eval_xor(l, r) == Xor(l, r, cast_bool(l.v), cast_bool(r.v))
\* or() with the value that decides "yes", and() with "no".
DecidedBy(l, r, by, a, b) ==
    IF l.res # "OK" THEN l
    ELSE IF a.res # "OK" THEN Gone(a.res)
    ELSE IF Truth(a.v) = "any" THEN OK(Unknown)
    ELSE IF Truth(a.v) = by THEN OK(a.v)
    ELSE IF r.res # "OK" THEN r
    ELSE IF b.res # "OK" THEN Gone(b.res) ELSE OK(b.v)
Decided(l, r, by) == DecidedBy(l, r, by, cast_bool(l.v), cast_bool(r.v))
eval_or(l, r)  == Decided(l, r, "yes")
eval_and(l, r) == Decided(l, r, "no")

----------------------------------------------------------------------------
\* Comparison.
Absent(a, b, type) == IF a.t = type THEN OK(IntV(IF b.t = type THEN 0 ELSE -1)) ELSE OK(IntV(1))
Sign(n) == CASE n < 0 -> -1 [] n > 0 -> 1 [] OTHER -> 0
\* A truth value on the right is read from the left operand instead.
TextOf(v) == cast_string(v).v.s
Compared(l, r, a, b) ==
    IF l.res # "OK" THEN l
    ELSE IF r.res # "OK" THEN Gone(r.res)
    ELSE IF Opaque(a) \/ Opaque(b) THEN OK(Unknown)
    ELSE IF "UNDEF" \in {a.t, b.t} THEN Absent(a, b, "UNDEF")
    ELSE IF "NULL" \in {a.t, b.t} THEN Absent(a, b, "NULL")
    ELSE IF "STRING" \in {a.t, b.t} THEN OK(IntV(compare_to(TextOf(a), TextOf(b))))
    ELSE IF b.t = "BOOL" THEN
         CASE a.t = "BOOL"  -> OK(IntV(0))
           [] a.t = "INT"   -> OK(IF a.i \in {0, 1} THEN IntV(0) ELSE Unknown)
           [] a.t = "FLOAT" -> OK(IntV(Sign(a.f)))
    ELSE OK(IntV(Sign(Halves(a) - Halves(b))))
eval_cmp(l, r) == Compared(l, r, l.v, r.v)
IntCompared(l, r, a, b) ==
    IF l.res # "OK" THEN l
    ELSE IF r.res # "OK" THEN Gone(r.res)
    ELSE IF Opaque(a) \/ Opaque(b) THEN OK(Unknown)
    ELSE IF "UNDEF" \in {a.t, b.t} THEN Absent(a, b, "UNDEF")
    ELSE IF "NULL" \in {a.t, b.t} THEN Absent(a, b, "NULL")
    ELSE IF "STRING" \in {a.t, b.t} THEN OK(Unknown)
    ELSE OK(IntV(Sign(a.i - b.i)))
eval_icmp(l, r) == IntCompared(l, r, cast_int(l.v).v, cast_int(r.v).v)
\* eval_cmp_eq() ... eval_cmp_ge(), and the same of eval_icmp().
Related(c, rel) ==
    IF c.res # "OK" \/ c.v.t # "INT" THEN c
    ELSE OK(BoolV(CASE rel = "EQ" -> c.v.i = 0 [] rel = "NOT_EQ" -> c.v.i # 0 [] rel = "LESS" -> c.v.i < 0
                    [] rel = "GREATER" -> c.v.i > 0 [] rel = "LESS_EQ" -> c.v.i <= 0 [] rel = "GREATER_EQ" -> c.v.i >= 0))
eval_cmp_xx(l, r, rel)  == Related(eval_cmp(l, r), rel)
eval_icmp_xx(l, r, rel) == Related(eval_icmp(l, r), rel)

----------------------------------------------------------------------------
\* Operators of one operand: what is cast, and what is done to each type.
Unary(l, v, Op(_)) ==
    IF l.res # "OK" THEN l
    ELSE IF Opaque(v) THEN OK(v)
    ELSE IF v.t = "NULL" THEN OK(Undef)
    ELSE IF v.t = "UNDEF" THEN OK(v)
    ELSE Op(v)
eval_neg(l) ==
    Unary(l, IF l.v.t = "STRING" THEN cast_numeric(l.v).v ELSE l.v, LAMBDA v :
        CASE v.t = "INT" -> OK(IntV(-v.i - 1)) [] v.t = "FLOAT" -> OK(FloatV(2 * (-Toward0(v.f) - 1)))
          [] v.t = "BOOL" -> OK(BoolV(~v.b)) [] OTHER -> Gone("BAD_TYPE"))
eval_not(l)   == Unary(l, cast_bool(l.v).v, LAMBDA v : IF v.t = "BOOL" THEN OK(BoolV(~v.b)) ELSE Gone("BAD_TYPE"))
eval_psign(l) == l
eval_nsign(l) ==
    Unary(l, cast_numeric(l.v).v, LAMBDA v :
        CASE v.t = "INT" -> OK(IntV(-v.i)) [] v.t = "FLOAT" -> OK(FloatV(-v.f)) [] OTHER -> Gone("BAD_TYPE"))
eval_abs(l) ==
    Unary(l, cast_numeric(l.v).v, LAMBDA v :
        CASE v.t = "INT" -> OK(IntV(IF v.i < 0 THEN -v.i ELSE v.i)) [] v.t = "FLOAT" -> OK(FloatV(IF v.f < 0 THEN -v.f ELSE v.f))
          [] OTHER -> Gone("BAD_TYPE"))
eval_exists(l) == IF l.res # "OK" THEN l ELSE IF Opaque(l.v) THEN OK(Unknown) ELSE OK(BoolV(l.v.t # "UNDEF"))
\* A function where it is exact: <<argument, result>>, in halves.
MathAt == [SIN |-> {<<0, 0>>}, COS |-> {<<0, 2>>}, TAN |-> {<<0, 0>>}, ASIN |-> {<<0, 0>>}, ACOS |-> {<<2, 0>>}, ATAN |-> {<<0, 0>>},
           LOGE |-> {<<2, 0>>}, LOGD |-> {<<2, 0>>, <<20, 2>>}, LOG2 |-> {<<1, -2>>, <<2, 0>>, <<4, 2>>}, EXP |-> {<<0, 2>>},
           SQRT |-> {<<0, 0>>, <<2, 2>>, <<8, 4>>}, RAD |-> {<<0, 0>>}, DEG |-> {<<0, 0>>}, DB |-> {<<0, 2>>, <<40, 20>>}]
MathValue(op, v) ==
    LET at == {p \in MathAt[op] : p[1] = v.f} IN IF at = {} THEN Unknown ELSE FloatV((CHOOSE p \in at : TRUE)[2])
\* MATH_OP: the status of the cast is returned, and the value calculated with.
MathOp(op, l) ==
    Unary(l, cast_float(l.v).v, LAMBDA v : IF v.t = "STRING" THEN Fail("BAD_FORMAT", Broken) ELSE OK(MathValue(op, v)))
eval_db(l) == Unary(l, cast_float(l.v).v, LAMBDA v : IF v.t = "STRING" THEN Gone("BAD_TYPE") ELSE OK(MathValue("DB", v)))

StringOp(l, Op(_)) == Unary(l, cast_string(l.v).v, LAMBDA v : OK(Op(v.s)))
Reversed(s) == FoldLeft(LAMBDA t, i : Ch(s, i) \o t, "", [i \in 1..Len(s) |-> i])
eval_strupper(l) == StringOp(l, LAMBDA s : StrV(MapText(UpperCh, s)))
eval_strlower(l) == StringOp(l, LAMBDA s : StrV(MapText(LowerCh, s)))
eval_strlen(l)   == StringOp(l, LAMBDA s : IntV(Len(s)))
eval_strrev(l)   == StringOp(l, LAMBDA s : StrV(Reversed(s)))
Casted(l, cast) ==
    IF l.res # "OK" THEN l ELSE IF Opaque(l.v) THEN OK(Unknown) ELSE IF cast.res = "OK" THEN cast ELSE Gone(cast.res)
eval_int_cast(l)    == Casted(l, cast_int(l.v))
eval_float_cast(l)  == Casted(l, cast_float(l.v))
eval_string_cast(l) == Casted(l, cast_string(l.v))
eval_bool_cast(l)   == Casted(l, cast_bool(l.v))

\* Strings of two operands.
eval_strcat(l, r) ==
    IF l.res # "OK" THEN l
    ELSE IF r.res # "OK" THEN Gone(r.res)
    ELSE IF Opaque(l.v) \/ Opaque(r.v) THEN OK(Unknown)
    ELSE OK(StrV(cast_string_ext(l.v).v.s \o cast_string_ext(r.v).v.s))
\* The text is appended for each bit that is set, and doubled after each bit.
RECURSIVE Repeat(_, _, _)
Repeat(out, tmp, x) ==
    IF x = 0 THEN out
    ELSE Repeat(IF x % 2 = 1 THEN out \o tmp ELSE out, IF x \div 2 > 0 THEN tmp \o tmp ELSE tmp, x \div 2)
TimesOf(l, r, n) ==
    IF l.res # "OK" THEN l
    ELSE IF r.res # "OK" THEN Gone(r.res)
    ELSE IF Opaque(l.v) \/ Opaque(n) THEN OK(Unknown)
    ELSE IF n.t = "STRING" THEN Gone("NO_MEM")
    ELSE IF n.t # "INT" \/ (n.t = "INT" /\ n.i < 0) THEN OK(Undef)
    ELSE OK(StrV(Repeat("", cast_string_ext(l.v).v.s, n.i)))
eval_strrep(l, r) == TimesOf(l, r, cast_int(r.v).v)

----------------------------------------------------------------------------
\* Trees.
Val(v)      == [op |-> "VALUE", v |-> v]
Un(op, l)   == [op |-> op, l |-> l]
Bin(op, l, r) == [op |-> op, l |-> l, r |-> r]
Ternary(c, l, r) == [op |-> "TERNARY", c |-> c, l |-> l, r |-> r]
Resolve(name, items) == [op |-> "RESOLVE", name |-> name, items |-> items]
Call(name, items)    == [op |-> "CALL", name |-> name, items |-> items]

\* env: the variables it resolves, by name and indexes; the functions are
\* those every resolver knows, and one that fails.
NoEnv == [there |-> FALSE]
EnvOf(known) == [there |-> TRUE, vars |-> known]
env_call(name, args) == IF name = "fail" THEN Gone("IO_ERROR") ELSE std_call(name, args)
\* The first operand that failed.
FirstBad(rs) == LET bad == {i \in 1..Len(rs) : rs[i].res # "OK"} IN CHOOSE i \in bad : \A j \in bad : i <= j
Index(v) == CASE v.t = "INT" -> IntV(v.i) [] v \in {Null, Undef} -> IntV(0) [] OTHER -> Unknown
ResolvedAt(env, rs, cast, at, key) ==
    IF ~env.there THEN OK(Undef)
    ELSE IF \E i \in 1..Len(rs) : cast[i].res # "OK" THEN Gone(cast[FirstBad(cast)].res)
    ELSE IF \E i \in 1..Len(rs) : at[i] = Unknown THEN OK(Unknown)
    ELSE IF key \in DOMAIN env.vars THEN OK(env.vars[key])
    ELSE IF rs = <<>> THEN OK(Undef) ELSE Gone("NOT_FOUND")
ResolvedBy(env, name, rs, cast, at) == ResolvedAt(env, rs, cast, at, <<name, [i \in 1..Len(rs) |-> at[i].i]>>)
Resolved(env, name, rs, cast) == ResolvedBy(env, name, rs, cast, [i \in 1..Len(rs) |-> Index(cast[i].v)])
eval_resolve(env, name, rs) ==
    Resolved(env, name, rs, [i \in 1..Len(rs) |-> IF rs[i].res = "OK" THEN cast_int(rs[i].v) ELSE rs[i]])
Returned(env, rs, r) ==
    IF ~env.there THEN OK(Undef)
    ELSE IF \E i \in 1..Len(rs) : rs[i].res # "OK" THEN Gone(rs[FirstBad(rs)].res)
    ELSE IF \E i \in 1..Len(rs) : Opaque(rs[i].v) THEN OK(Unknown)
    ELSE IF r.res = "NOT_FOUND" THEN OK(Undef) ELSE r
eval_call(env, name, rs) == Returned(env, rs, env_call(name, [i \in 1..Len(rs) |-> rs[i].v]))

Relations == {"EQ", "NOT_EQ", "LESS", "GREATER", "LESS_EQ", "GREATER_EQ"}
IRelation == [IEQ |-> "EQ", INOT_EQ |-> "NOT_EQ", ILESS |-> "LESS", IGREATER |-> "GREATER", ILESS_EQ |-> "LESS_EQ", IGREATER_EQ |-> "GREATER_EQ"]
IntOps == {"IADD", "ISUB", "IMUL", "IDIV", "BOR", "BAND", "BXOR"}
BinaryOps == IntOps \union Relations \union DOMAIN IRelation
             \union {"ADD", "SUB", "MUL", "DIV", "IMOD", "FMOD", "POW", "XOR", "OR", "AND", "CMP", "ICMP", "SCAT", "SREP"}
UnaryOps == {"BNOT", "NOT", "PSIGN", "NSIGN", "ABS", "EX", "DB", "SUPR", "SLWR", "SLEN", "SREV", "INT", "FLOAT", "STR", "BOOL"}
            \union (DOMAIN MathAt \ {"DB"})
apply2(op, l, r) ==
    CASE op \in IntOps -> IntOp(op, l, r)
      [] op \in Relations -> eval_cmp_xx(l, r, op)
      [] op \in DOMAIN IRelation -> eval_icmp_xx(l, r, IRelation[op])
      [] op = "ADD" -> eval_add(l, r) [] op = "SUB" -> eval_sub(l, r) [] op = "MUL" -> eval_mul(l, r) [] op = "DIV" -> eval_div(l, r)
      [] op = "IMOD" -> eval_imod(l, r) [] op = "FMOD" -> eval_fmod(l, r) [] op = "POW" -> eval_power(l, r)
      [] op = "XOR" -> eval_xor(l, r) [] op = "OR" -> eval_or(l, r) [] op = "AND" -> eval_and(l, r)
      [] op = "CMP" -> eval_cmp(l, r) [] op = "ICMP" -> eval_icmp(l, r) [] op = "SCAT" -> eval_strcat(l, r) [] op = "SREP" -> eval_strrep(l, r)
apply1(op, l) ==
    CASE op = "BNOT" -> eval_neg(l) [] op = "NOT" -> eval_not(l) [] op = "PSIGN" -> eval_psign(l) [] op = "NSIGN" -> eval_nsign(l)
      [] op = "ABS" -> eval_abs(l) [] op = "EX" -> eval_exists(l) [] op = "DB" -> eval_db(l) [] op = "SUPR" -> eval_strupper(l)
      [] op = "SLWR" -> eval_strlower(l) [] op = "SLEN" -> eval_strlen(l) [] op = "SREV" -> eval_strrev(l) [] op = "INT" -> eval_int_cast(l)
      [] op = "FLOAT" -> eval_float_cast(l) [] op = "STR" -> eval_string_cast(l) [] op = "BOOL" -> eval_bool_cast(l)
      [] OTHER -> MathOp(op, l)
RECURSIVE eval(_, _)
Chosen(e, env, cond, c) ==
    IF cond.res # "OK" THEN cond
    ELSE IF Opaque(c) THEN OK(Unknown)
    ELSE IF c.t # "BOOL" THEN OK(Dropped(c))
    ELSE eval(IF c.b THEN e.l ELSE e.r, env)
eval_ternary(e, env, cond) == Chosen(e, env, cond, cast_bool(cond.v).v)
ItemsOf(e, env) == [i \in 1..Len(e.items) |-> eval(e.items[i], env)]
eval(e, env) ==
    CASE e.op = "VALUE" -> OK(e.v)
      [] e.op = "RESOLVE" -> eval_resolve(env, e.name, ItemsOf(e, env))
      [] e.op = "CALL" -> eval_call(env, e.name, ItemsOf(e, env))
      [] e.op = "TERNARY" -> eval_ternary(e, env, eval(e.c, env))
      [] e.op \in BinaryOps -> apply2(e.op, eval(e.l, env), eval(e.r, env))
      [] e.op \in UnaryOps -> apply1(e.op, eval(e.l, env))
=============================================================================
