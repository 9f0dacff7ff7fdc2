----------------------------- MODULE ExprParser ------------------------------
(***************************************************************************)
(* src/main/expr/parser.cpp and Expression.cpp: from the text of an        *)
(* expression to its tree, and the object that keeps the trees of a text,  *)
(* their results and the names they depend on.                             *)
(*                                                                         *)
(*   obj   the Expression: roots (tree and result) and deps                *)
(*   ret   what the last call was and what it returned                     *)
(*   abs   the trees whose text was parsed last                            *)
(* NoExpr is the tree of a condition without its second half: parsing it   *)
(* succeeds and leaves nothing.  Left out: running out of memory.          *)
(***************************************************************************)
EXTENDS ExprTrees

CONSTANTS Terms,   \* the trees that are operands
          Known    \* the variables of the resolver

VARIABLES obj, ret, abs
vars == <<obj, ret, abs>>

NoExpr == [op |-> "NONE"]
Parsed1(e, t) == [res |-> "OK", e |-> e, t |-> t]
Bad(res, t)   == [res |-> res, e |-> NoExpr, t |-> t]
Next1(t) == Token[t, {"GET"}]
Operator(t) == Token[t, {"GET", "XSIGN"}]      \* what follows an operand
EndOr(t) == IF t.tok = "EOF" THEN "EOF" ELSE "BAD_TOKEN"

----------------------------------------------------------------------------
\* parser.cpp.  The rules of the operators of two operands, from the tightest
\* on: the tokens, and whether the rule repeats (left), calls itself for the
\* right operand (right) or stops after one operator (once).
parse_power   == [ops |-> {"POW"}, repeat |-> "left"]
parse_muldiv  == [ops |-> {"MUL", "DIV", "IMUL", "IDIV", "FMOD", "IMOD"}, repeat |-> "left"]
parse_addsub  == [ops |-> {"ADD", "SUB", "ADDSYM", "SUBSYM", "IADD", "ISUB"}, repeat |-> "left"]
parse_strrep  == [ops |-> {"SREP"}, repeat |-> "once"]
parse_strcat  == [ops |-> {"SCAT"}, repeat |-> "right"]
parse_cmp_rel == [ops |-> {"LESS", "GREATER", "LESS_EQ", "GREATER_EQ", "ILESS", "IGREATER", "ILESS_EQ", "IGREATER_EQ"}, repeat |-> "right"]
parse_cmp_eq  == [ops |-> {"NOT_EQ", "EQ", "CMP", "INOT_EQ", "IEQ", "ICMP"}, repeat |-> "right"]
parse_bit_and == [ops |-> {"BAND"}, repeat |-> "left"]
parse_bit_xor == [ops |-> {"BXOR"}, repeat |-> "right"]
parse_bit_or  == [ops |-> {"BOR"}, repeat |-> "right"]
parse_and     == [ops |-> {"AND"}, repeat |-> "right"]
parse_xor     == [ops |-> {"XOR"}, repeat |-> "right"]
parse_or      == [ops |-> {"OR"}, repeat |-> "right"]
Rules == <<parse_power, parse_muldiv, parse_addsub, parse_strrep, parse_strcat, parse_cmp_rel, parse_cmp_eq, parse_bit_and,
           parse_bit_xor, parse_bit_or, parse_and, parse_xor, parse_or>>
Op(tok) == CASE tok = "ADDSYM" -> "ADD" [] tok = "SUBSYM" -> "SUB" [] OTHER -> tok

\* Every rule starts at the current token and ends at the first that is not its.
\* The rules call one another by their level: those above are 1..Len(Rules).
ExpressionLevel == Len(Rules) + 1
NotLevel  == 0
SignLevel == -1
FuncLevel == -2
RECURSIVE Read(_, _), Repeated(_, _), Indexes(_, _, _), Arguments(_, _)
parse_expression(t) == Read(ExpressionLevel, t)
AfterRight(left, right) ==
    IF right.res = "OK" THEN Parsed1(Bin(Op(left.t.tok), left.e, right.e), right.t) ELSE right
AfterLeft(k, left) ==
    IF left.res # "OK" THEN left
    ELSE IF Rules[k].repeat = "left" THEN Repeated(k, left)
    ELSE IF left.t.tok \notin Rules[k].ops THEN left
    ELSE AfterRight(left, Read(IF Rules[k].repeat = "right" THEN k ELSE k - 1, Next1(left.t)))
parse_rule(k, t) == AfterLeft(k, Read(k - 1, t))
Again(k, both) == IF both.res = "OK" THEN Repeated(k, both) ELSE both
Repeated(k, left) ==
    IF left.t.tok \in Rules[k].ops THEN Again(k, AfterRight(left, Read(k - 1, Next1(left.t)))) ELSE left

AfterElse(cond, left, right) == IF right.res = "OK" THEN Parsed1(Ternary(cond.e, left.e, right.e), right.t) ELSE right
AfterThen(cond, left) ==
    IF left.res # "OK" THEN left
    ELSE IF left.t.tok # "COLON" THEN Parsed1(NoExpr, left.t)
    ELSE AfterElse(cond, left, parse_expression(Next1(left.t)))
AfterCondition(cond) ==
    IF cond.res # "OK" \/ cond.t.tok # "QUESTION" THEN cond ELSE AfterThen(cond, parse_expression(Next1(cond.t)))
parse_ternary(t) == AfterCondition(Read(Len(Rules), t))

OfOne(op, right) == IF right.res = "OK" THEN Parsed1(Un(op, right.e), right.t) ELSE right
Prefix(t, level, op) == OfOne(op, Read(level, Next1(t)))
parse_not(t) ==
    IF t.tok \in {"NOT", "BNOT"} THEN Prefix(t, NotLevel, t.tok) ELSE Read(SignLevel, t)
parse_sign(t) ==
    CASE t.tok = "ADD" -> Prefix(t, SignLevel, "PSIGN") [] t.tok = "SUB" -> Prefix(t, SignLevel, "NSIGN") [] OTHER -> Read(FuncLevel, t)

FuncTokens == {"EX", "DB", "SUPR", "SLWR", "SLEN", "SREV", "INT", "FLOAT", "BOOL", "STR", "SIN", "COS", "TAN", "ASIN", "ACOS", "ATAN",
               "LOGE", "LOGD", "LOG2", "EXP", "SQRT", "RAD", "DEG", "ABS"}
\* What follows ')' here is not read as what follows an operand.
Called1(name, args) == IF args.res = "OK" THEN Parsed1(Call(name, args.e), Next1(args.t)) ELSE args
AtBrace(t, open) == IF open.tok = "LBRACE" THEN Called1(t.text, Arguments(open, <<>>)) ELSE Bad(EndOr(open), open)
parse_call(t) == AtBrace(t, Next1(t))
AfterArgument(list, arg) ==
    IF arg.res # "OK" THEN arg
    ELSE IF arg.t.tok = "COMMA" THEN Arguments(arg.t, Append(list, arg.e))
    ELSE IF arg.t.tok = "RBRACE" THEN Parsed1(Append(list, arg.e), arg.t)
    ELSE Bad(EndOr(arg.t), arg.t)
Arguments(open, list) == AfterArgument(list, parse_expression(Next1(open)))
parse_identifier(t, flags) ==
    IF t.tok # "IDENTIFIER" /\ "BAREWORD" \notin flags THEN Bad("BAD_TOKEN", t) ELSE Indexes(t.text, Operator(t), <<>>)
\* A word in the brackets is a variable whose value is the index.
AfterIndex(name, items, index) ==
    IF index.res # "OK" THEN index
    ELSE IF index.t.tok # "RQBRACE" THEN Bad("BAD_TOKEN", index.t)
    ELSE Indexes(name, Operator(index.t), Append(items, index.e))
AtIndex(name, items, first) ==
    AfterIndex(name, items, IF first.tok = "BAREWORD" THEN Parsed1(Resolve(first.text, <<>>), Next1(first)) ELSE parse_expression(first))
Indexes(name, t, items) ==
    IF t.tok = "LQBRACE" THEN AtIndex(name, items, Next1(t)) ELSE Parsed1(Resolve(name, items), t)

Decibels(v) == MathValue("DB", FloatV(Halves(v)))
Constant(tok, t) ==
    CASE tok = "STRING" -> StrV(t.text) [] tok \in {"TRUE", "FALSE"} -> BoolV(tok = "TRUE") [] tok = "NULL" -> Null
      [] tok = "UNDEF" -> Undef [] tok \in {"PI", "E"} -> Unknown
AfterInner(inner) ==
    IF inner.res # "OK" THEN inner
    ELSE IF inner.t.tok = "RBRACE" THEN Parsed1(inner.e, Operator(inner.t)) ELSE Bad("BAD_TOKEN", inner.t)
AfterNumber(v, next) == IF next.tok = "DB" THEN Parsed1(Val(Decibels(v)), Operator(next)) ELSE Parsed1(Val(v), next)
parse_primary(t) ==
    CASE t.tok = "IDENTIFIER" -> parse_identifier(t, {})
      [] t.tok \in {"IVALUE", "FVALUE"} -> AfterNumber(t.num, Operator(t))
      [] t.tok \in {"STRING", "TRUE", "FALSE", "PI", "E", "NULL", "UNDEF"} -> Parsed1(Val(Constant(t.tok, t)), Operator(t))
      [] t.tok = "LBRACE" -> AfterInner(parse_expression(Next1(t)))
      [] OTHER -> Bad(EndOr(t), t)
InBraces(op, arg) ==
    IF arg.res # "OK" THEN arg
    ELSE IF arg.t.tok = "RBRACE" THEN Parsed1(Un(op, arg.e), Next1(arg.t)) ELSE Bad(EndOr(arg.t), arg.t)
OfFunction(op, next) ==
    IF next.tok = "EOF" THEN Bad("EOF", next)
    ELSE IF next.tok = "LBRACE" THEN InBraces(op, parse_expression(Next1(next)))
    ELSE OfOne(op, Read(FuncLevel, next))
parse_func(t) ==
    CASE t.tok = "BAREWORD" -> parse_call(t) [] t.tok \in FuncTokens -> OfFunction(t.tok, Next1(t)) [] OTHER -> parse_primary(t)

Read(level, t) ==
    CASE level = ExpressionLevel -> parse_ternary(t) [] level \in 1..Len(Rules) -> parse_rule(level, t)
      [] level = NotLevel -> parse_not(t) [] level = SignLevel -> parse_sign(t) [] level = FuncLevel -> parse_func(t)

----------------------------------------------------------------------------
\* Expression.cpp
NewRoot(e) == [e |-> e, v |-> Undef]
Empty == [roots |-> <<>>, deps |-> <<>>]
destroy_all_data(x) == Empty
RECURSIVE parse_regular(_, _, _), parse_string(_, _, _, _)
AfterRoot(flags, roots, p) ==
    IF p.res # "OK" THEN [res |-> p.res, roots |-> Append(roots, NewRoot(NoExpr))]
    ELSE IF p.t.tok = "SEMICOLON" /\ "MULTIPLE" \in flags THEN parse_regular(p.t, flags, Append(roots, NewRoot(p.e)))
    ELSE [res |-> IF p.t.tok \in {"SEMICOLON", "EOF"} THEN "OK" ELSE IF p.t.err # "OK" THEN p.t.err ELSE "INVALID_VALUE",
          roots |-> Append(roots, NewRoot(p.e))]
parse_regular(t, flags, roots) == AfterRoot(flags, roots, parse_expression(Next1(t)))
Joined(e, right) == IF e = NoExpr THEN right ELSE Bin("SCAT", e, right)
prepend_string(e, str, force) == IF str = "" /\ ~force THEN e ELSE Joined(e, Val(StrV(str)))
Closed(right) == IF right.res # "OK" \/ right.t.tok = "RCBRACE" THEN right ELSE Bad(EndOr(right.t), right.t)
parse_substitution(first) ==
    Closed(IF first.tok = "BAREWORD" THEN parse_identifier(first, {"BAREWORD"}) ELSE parse_expression(first))
\* A '$' is dropped at the end, and where another one follows it.
Substituted(s, e, sub) ==
    IF sub.res = "OK" THEN parse_string(s, sub.t.at, "", Joined(e, sub.e)) ELSE [res |-> sub.res, roots |-> <<>>]
AtChar(s, i, tmp, e, c, next) ==
    IF c = "" \/ (c = "$" /\ next = "") THEN [res |-> "OK", roots |-> <<NewRoot(prepend_string(e, tmp, e = NoExpr))>>]
    ELSE IF c # "$" THEN parse_string(s, i + 1, tmp \o c, e)
    ELSE IF next # "{" THEN parse_string(s, i + 2, tmp \o (IF next = "$" THEN "" ELSE "$") \o next, e)
    ELSE Substituted(s, prepend_string(e, tmp, FALSE), parse_substitution(Next1([Tokenizer(s) EXCEPT !.at = i + 2])))
parse_string(s, i, tmp, e) == AtChar(s, i, tmp, e, Ch(s, i), Ch(s, i + 1))

add_dependency(deps, name) == IF name \in ToSet(deps) THEN deps ELSE Append(deps, name)
has_dependency(x, name) == name \in ToSet(x.deps)
RECURSIVE scan_dependencies(_, _)
scan_dependencies(deps, e) ==
    LET Items(d) == FoldLeft(scan_dependencies, d, e.items)
    IN  CASE e.op \in {"VALUE", "NONE"} -> deps
          [] e.op = "RESOLVE" -> Items(add_dependency(deps, e.name))
          [] e.op = "CALL" -> Items(deps)
          [] e.op = "TERNARY" -> scan_dependencies(scan_dependencies(scan_dependencies(deps, e.c), e.l), e.r)
          [] e.op \in UnaryOps -> scan_dependencies(deps, e.l)
          [] OTHER -> scan_dependencies(scan_dependencies(deps, e.l), e.r)
post_process(roots) == FoldLeft(LAMBDA d, r : scan_dependencies(d, r.e), <<>>, roots)
Compiled(x, p) == [obj |-> IF p.res = "OK" THEN [roots |-> p.roots, deps |-> post_process(p.roots)] ELSE destroy_all_data(x), res |-> p.res]
parse(x, text, flags) ==
    Compiled(x, IF "STRING" \in flags THEN parse_string(text, 1, "", NoExpr) ELSE parse_regular(Tokenizer(text), flags, <<>>))
result(x, idx) == IF idx \in 1..Len(x.roots) THEN OK(x.roots[idx].v) ELSE Fail("BAD_ARGUMENTS", Nothing)

\* A root without a tree is undefined; a tree with such a part is a crash.
Evaluated(e) == IF e = NoExpr THEN OK(Undef) ELSE eval(e, EnvOf(Known))
\* The roots are evaluated until one fails, which keeps what was left in it.
StoredTo(x, r, last) ==
    [obj |-> [x EXCEPT !.roots = [i \in 1..Len(r) |-> IF i <= last THEN [@[i] EXCEPT !.v = r[i].v] ELSE @[i]]],
     r |-> IF r = <<>> THEN Fail("BAD_STATE", Nothing) ELSE IF r[last].res = "OK" THEN OK(r[1].v) ELSE Fail(r[last].res, Nothing)]
Stored(x, r) == StoredTo(x, r, IF \E i \in 1..Len(r) : r[i].res # "OK" THEN FirstBad(r) ELSE Len(r))
evaluate(x) == Stored(x, [i \in 1..Len(x.roots) |-> Evaluated(x.roots[i].e)])
StoredAt(x, idx, r) == [obj |-> [x EXCEPT !.roots[idx].v = r.v], r |-> IF r.res = "OK" THEN r ELSE Fail(r.res, Nothing)]
evaluate_at(x, idx) ==
    IF idx \notin 1..Len(x.roots) THEN [obj |-> x, r |-> Fail("BAD_ARGUMENTS", Nothing)]
    ELSE StoredAt(x, idx, Evaluated(x.roots[idx].e))

----------------------------------------------------------------------------
\* How a tree is written: every operation in parentheses.
SignOf(op) == CASE op = "POW" -> "**" [] op = "MUL" -> "*" [] op = "ADD" -> "+" [] op = "SUB" -> "-" [] op = "SREP" -> "srep"
              [] op = "SCAT" -> "sc" [] op = "LESS" -> "<" [] op = "EQ" -> "==" [] op = "CMP" -> "<=>" [] op = "BAND" -> "band"
              [] op = "BXOR" -> "bxor" [] op = "BOR" -> "bor" [] op = "AND" -> "&&" [] op = "XOR" -> "^^" [] op = "OR" -> "||"
              [] op = "NOT" -> "!" [] op = "BNOT" -> "~" [] op = "NSIGN" -> "-" [] op = "PSIGN" -> "+" [] op = "SLEN" -> "slen"
              [] op = "EX" -> "ex"
WrittenBinary == {"POW", "MUL", "ADD", "SUB", "SREP", "SCAT", "LESS", "EQ", "CMP", "BAND", "BXOR", "BOR", "AND", "XOR", "OR"}
WrittenUnary  == {"NOT", "BNOT", "NSIGN", "PSIGN", "SLEN", "EX"}
Quote == "'"
RECURSIVE Text(_)
Text(e) ==
    LET List(items, sep) == FoldLeft(LAMBDA s, i : s \o (IF s = "" THEN "" ELSE sep) \o Text(i), "", items)
    IN  CASE e.op = "VALUE" -> (CASE e.v.t = "INT" -> ToString(e.v.i) [] e.v.t = "STRING" -> Quote \o e.v.s \o Quote
                                  [] e.v.t = "BOOL" -> IF e.v.b THEN "true" ELSE "false")
          [] e.op = "RESOLVE" -> ":" \o e.name \o (IF e.items = <<>> THEN "" ELSE "[" \o List(e.items, "][") \o "]")
          [] e.op = "CALL" -> "(" \o e.name \o "(" \o List(e.items, ", ") \o "))"
          [] e.op = "TERNARY" -> "(" \o Text(e.c) \o " ? " \o Text(e.l) \o " : " \o Text(e.r) \o ")"
          [] e.op \in WrittenUnary -> "(" \o SignOf(e.op) \o " " \o Text(e.l) \o ")"
          [] OTHER -> "(" \o Text(e.l) \o " " \o SignOf(e.op) \o " " \o Text(e.r) \o ")"

Init == obj = Empty /\ ret = [call |-> "new", res |-> "OK"] /\ abs = <<>>
Takes(p, trees) == obj' = p.obj /\ ret' = [call |-> "parse", res |-> p.res] /\ abs' = IF p.res = "OK" THEN trees ELSE <<>>
Parses(text, flags, trees) == Takes(parse(obj, text, flags), trees)
Composed == {Bin(op, t, u) : op \in WrittenBinary, t \in Terms, u \in Terms} \union {Un(op, t) : op \in WrittenUnary, t \in Terms}
            \union {Ternary(t, u, v) : t \in Terms, u \in Terms, v \in Terms} \union {Call("max", <<t, u>>) : t \in Terms, u \in Terms}
\* The texts: of one expression, of two, of one with others after it, and a template.
Single   == {<<Text(e), {}, <<e>>>> : e \in Composed \union Terms}
Multiple == {<<Text(t) \o ";" \o Text(u), {"MULTIPLE"}, <<t, u>>>> : t \in Terms, u \in Terms}
First    == {<<Text(t) \o "; 1 1", {}, <<t>>>> : t \in Terms}
Template == {<<"$${a}$b${" \o Text(t) \o "}${" \o Text(u) \o "}$", {"STRING"}, <<Bin("SCAT", Bin("SCAT", Val(StrV("${a}$b")), t), u)>>>> :
             t \in Terms, u \in Terms}
Unfinished  == {<<"(:n + ", {}, <<>>>>, <<":n;", {"MULTIPLE"}, <<>>>>, <<"${n", {"STRING"}, <<>>>>}
Parse == \E x \in IF ret.call = "new" THEN Single \union Multiple \union First \union Template ELSE Unfinished : Parses(x[1], x[2], x[3])
Evaluates(s) == obj' = s.obj /\ ret' = [call |-> "evaluate", res |-> s.r.res] /\ UNCHANGED abs
Evaluate     == Evaluates(evaluate(obj))
EvaluateOne  == \E idx \in {2, 3} : Evaluates(evaluate_at(obj, idx))
\* Bound: a new text only for an object that has none, and one call after it.
Next == \/ ret.call \in {"new", "parse"} /\ Parse
        \/ ret.call = "parse" /\ (Evaluate \/ EvaluateOne)
Spec == Init /\ [][Next]_vars
----------------------------------------------------------------------------
\* A tree written with all its parentheses is read back as that tree, several
\* as several, and a template as the texts and substitutions joined in order
\* (parser.cpp:102-1325, Expression.cpp:181-399).
ReadsBack == [i \in 1..Len(obj.roots) |-> obj.roots[i].e] = abs

Rank(op) == CHOOSE k \in 1..Len(Rules) : op \in Rules[k].ops
\* Without parentheses the tighter operator takes its operands first; of two
\* as tight the left one does for powers, products and sums, and the right one
\* for the others, and srep does not repeat (parser.cpp:616-1260).
Grouping ==
    obj = Empty /\ ret.call = "new" => \A o, p \in WrittenBinary :
        LET N(n) == Val(IntV(n))
            ofleft == Rank(o) < Rank(p) \/ (Rank(o) = Rank(p) /\ o \in {"POW", "MUL", "ADD", "SUB", "BAND"})
            Grouped(r) ==
                IF o = "SREP" /\ p = "SREP" THEN r.res = "INVALID_VALUE" /\ r.obj = Empty
                ELSE /\ r.res = "OK"
                     /\ r.obj.roots[1].e = IF ofleft THEN Bin(p, Bin(o, N(1), N(2)), N(3)) ELSE Bin(o, N(1), Bin(p, N(2), N(3)))
        IN  Grouped(parse(Empty, "1 " \o SignOf(o) \o " 2 " \o SignOf(p) \o " 3", {}))

RECURSIVE NamesOf(_)
NamesOf(e) ==
    (IF e.op = "RESOLVE" THEN {e.name} ELSE {})
    \union UNION {NamesOf(e[f]) : f \in DOMAIN e \intersect {"l", "r", "c"}}
    \union (IF "items" \in DOMAIN e THEN UNION {NamesOf(i) : i \in ToSet(e.items)} ELSE {})
\* The dependencies are the names of the trees, each once; and when every one
\* is known, each root has the value of its tree once it is evaluated
\* (Expression.cpp:88-134, 401-528).
DependsOnNames ==
    /\ ToSet(obj.deps) = UNION {NamesOf(abs[i]) : i \in 1..Len(abs)} /\ IsInjective(obj.deps)
    /\ ret.call = "evaluate" /\ ret.res = "OK" => \E i \in 1..Len(abs) : result(obj, i) = eval(abs[i], EnvOf(Known))

\* A text that is not complete is refused, and leaves the object with no tree
\* and no name, whatever it had before: it cannot be evaluated any more
\* (Expression.cpp:401-418).
BrokenLeavesNothing ==
    /\ ret.call = "parse" /\ ret.res # "OK" => obj = Empty /\ evaluate(obj).r.res = "BAD_STATE"
    /\ obj.roots # <<>> => Len(obj.roots) = Len(abs)
=============================================================================
