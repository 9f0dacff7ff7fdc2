------------------------------ MODULE Evaluator ------------------------------
(***************************************************************************)
(* Evaluating expressions one operator at a time: the machine that checks  *)
(* the operators of ExprTrees.                                             *)
(*                                                                         *)
(*   obj   a value: a constant, or what an operator made of two            *)
(* A step applies one operator to a constant and another.                  *)
(***************************************************************************)
EXTENDS ExprTrees

CONSTANTS Leaves,   \* the constants of the expressions
          Bound     \* bound: the largest number, or length, a step leads to

VARIABLES obj
vars == obj

Init == obj \in Leaves

InBound(v) ==
    CASE v.t = "INT" -> v.i \in -Bound..Bound [] v.t = "FLOAT" -> v.f \in -Bound..Bound [] v.t = "STRING" -> Len(v.s) <= Bound
      [] OTHER -> TRUE
Given(r) == r.res = "OK" /\ InBound(r.v) /\ obj' = r.v
Becomes(e) == Given(eval(e, NoEnv))
\* Bound: one operator.
Nodes == [op : BinaryOps, l : {Val(obj)}, r : {Val(leaf) : leaf \in Leaves}] \union [op : UnaryOps, l : {Val(obj)}]
         \union {Ternary(Val(obj), Val(leaf), Val(obj)) : leaf \in Leaves}
Node == \E e \in Nodes : Becomes(e)
Next == obj \in Leaves /\ Node
Spec == Init /\ [][Next]_vars
----------------------------------------------------------------------------
Num(v) == v.t \in {"INT", "FLOAT", "BOOL"}
Values == [t : {"INT"}, i : Int] \union [t : {"FLOAT"}, f : Int] \union [t : {"BOOL"}, b : BOOLEAN] \union [t : {"STRING"}, s : STRING]
          \union {Null, Undef, Stale, Unknown, Broken}
Failing == Call("fail", <<>>)
Leafs   == [op : {"VALUE"}, v : Values] \union {Failing}
Trees   == [op : BinaryOps, l : Leafs, r : Leafs] \union [op : UnaryOps, l : Leafs] \union [op : {"TERNARY"}, c : Leafs, l : Leafs, r : Leafs]
           \union [op : {"RESOLVE"}, name : STRING, items : {<<>>}] \union [op : {"CALL"}, name : STRING, items : Seq(Leafs)]
\* R: what a tree gives.
LawsOf(a, b, x, y, R) ==
    LET Do(op, v, w) == R[Bin(op, Val(v), Val(w))]
        Make(op, v) == R[Un(op, Val(v))]
    IN
    /\ Num(a) /\ Num(b) /\ y.i # 0 =>
           Do("IADD", Do("IMUL", Do("IDIV", a, b).v, b).v, Do("IMOD", a, b).v).v = x
    /\ Num(a) /\ Num(b) => LET neg == Make("NSIGN", b).v
                           IN  /\ Do("SUB", a, b) = Do("ADD", a, neg)
                               /\ Make("NSIGN", neg).v = cast_numeric(b).v
                               /\ Make("BNOT", Make("BNOT", x).v).v = x
    /\ ~Opaque(a) =>
           /\ Do("LESS", a, b).v # Do("GREATER_EQ", a, b).v \/ Do("LESS", a, b).v = Unknown
           /\ Do("EQ", a, b).v # Do("NOT_EQ", a, b).v \/ Do("EQ", a, b).v = Unknown
           /\ "BOOL" \notin {a.t, b.t} => /\ Do("LESS", a, b) = Do("GREATER", b, a) \/ {a.t, b.t} \intersect {"NULL", "UNDEF"} # {}
                                          /\ Do("EQ", a, b) = Do("EQ", b, a)
           /\ {a.t, b.t} \subseteq {"INT", "BOOL", "FLOAT"} => Do("ILESS_EQ", a, b).v = BoolV(x.i <= y.i)
    /\ ~Opaque(a) /\ b.t = "INT" /\ b.i \in 0..Bound =>
           LET text == cast_string_ext(a).v.s
               more == Do("SREP", a, IntV(b.i + 1))
           IN  /\ more = Do("SCAT", a, Do("SREP", a, b).v)
               /\ Make("SLEN", more.v) = OK(IntV((b.i + 1) * Len(text)))
               /\ Make("SREV", Make("SREV", StrV(text)).v) = OK(StrV(text))
\* The operators keep the laws of arithmetic, order and text: a quotient and
\* a remainder make the dividend again, a difference is the sum with what is
\* negated, a negation undoes itself, the six relations follow the comparison
\* and turn around with the operands, and a text repeated n times is n of it.
\* Not so when the right operand of a comparison is a truth value, or a cast
\* has failed (evaluator.cpp:30-395, 485-988, 1231-1440).
Laws == \A b \in Leaves : LawsOf(obj, b, cast_int(obj).v, cast_int(b).v, [e \in Trees |-> eval(e, NoEnv)])

\* R: what a tree gives with the value of obj under the name n.
UndefSpreadsOf(a, numeric, truth, R) ==
    LET empty == numeric.t \in {"UNDEF", "NULL"}
    IN  /\ \A op \in IntOps \union {"ADD", "SUB", "MUL", "DIV", "IMOD", "FMOD", "POW"} :
               /\ empty => R[Bin(op, a, Failing)].v.t = "UNDEF" /\ R[Bin(op, a, Failing)].res = "OK"
               /\ ~empty => R[Bin(op, a, Failing)].res \in {"IO_ERROR", "BAD_TYPE"}
               /\ R[Bin(op, Failing, a)].res = "IO_ERROR"
               /\ Num(obj) => LET r == R[Bin(op, a, Val(Undef))].v
                             IN  IF op \in IntOps \union {"POW"} THEN r.t = "UNDEF"
                                 ELSE Halves(r) = Halves(obj) \/ (op = "IMOD" /\ r = cast_int(obj).v)
        /\ truth.res = "OK" =>
               /\ (R[Bin("OR", a, Failing)].res = "OK") = (truth.v = BoolV(TRUE) \/ Truth(truth.v) = "any")
               /\ (R[Bin("AND", a, Failing)].res = "OK") = (truth.v = BoolV(FALSE) \/ Truth(truth.v) # "yes")
               /\ R[Ternary(a, Failing, Val(Null))].res = IF truth.v = BoolV(TRUE) THEN "IO_ERROR" ELSE "OK"
               /\ R[Ternary(a, Val(Null), Failing)].res = IF truth.v = BoolV(FALSE) THEN "IO_ERROR" ELSE "OK"
        /\ R[Resolve("n", <<>>)] = OK(obj) /\ R[Resolve("m", <<>>)] = OK(Undef) /\ eval_resolve(NoEnv, "n", <<>>) = OK(Undef)
        /\ R[Call("max", <<a>>)] = OK(obj) /\ R[Call("max", <<a, Failing>>)].res = "IO_ERROR" /\ R[Call("none", <<a>>)] = OK(Undef)
        /\ \A op \in UnaryOps \ {"EX", "STR", "INT", "FLOAT", "BOOL"} : obj.t \in {"UNDEF", "NULL"} /\ op # "PSIGN" => R[Un(op, a)].v.t = "UNDEF"
\* What is undefined on the left makes the result undefined, and so does null;
\* on the right it does so for the operators of bits and powers, and the sums
\* and products keep the left operand.  An operand that failed makes the
\* expression fail, but for one that or(), and() and the condition leave out
\* and one after an operand that is not there (evaluator.cpp:30-483, 905-988,
\* 1155-1229).
UndefSpreads ==
    ~Opaque(obj) => UndefSpreadsOf(Val(obj), cast_numeric(obj).v, cast_bool(obj),
                                   [e \in Trees |-> eval(e, EnvOf([k \in {<<"n", <<>>>>} |-> obj]))])
=============================================================================
