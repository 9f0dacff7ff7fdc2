----------------------------- MODULE ExprTokens -----------------------------
(***************************************************************************)
(* src/main/expr/Tokenizer.cpp: the tokens of an expression.  A text is a  *)
(* string, read with Len and SubSeq.  The floats are those that are a      *)
(* whole number of halves (no infinity, no NaN, no negative zero).         *)
(***************************************************************************)
EXTENDS Integers, Sequences, SequencesExt, TLC

\* Characters.
Ch(s, i) == IF i \in 1..Len(s) THEN SubSeq(s, i, i) ELSE ""
Place(c, alphabet) ==
    LET at == {i \in 1..Len(alphabet) : Ch(alphabet, i) = c}
    IN  IF at = {} THEN 0 ELSE CHOOSE i \in at : TRUE
Small == "abcdefghijklmnopqrstuvwxyz"
Large == "ABCDEFGHIJKLMNOPQRSTUVWXYZ"
Figures == "0123456789"
MapText(Op(_), s) == FoldLeft(LAMBDA t, i : t \o Op(Ch(s, i)), "", [i \in 1..Len(s) |-> i])
LowerCh(c) == IF c # "" /\ Place(c, Large) > 0 THEN Ch(Small, Place(c, Large)) ELSE c
UpperCh(c) == IF c # "" /\ Place(c, Small) > 0 THEN Ch(Large, Place(c, Small)) ELSE c
\* LSPString::compare_to(): the place in the order of the character codes.
Codes == " %'-.0123456789:<=>ABCDEFGHIJKLMNOPQRSTUVWXYZ_abcdefghijklmnopqrstuvwxyz{}"
RECURSIVE compare_to(_, _)
compare_to(s, t) ==
    IF s = "" \/ t = "" THEN Len(s) - Len(t)
    ELSE IF Ch(s, 1) = Ch(t, 1) THEN compare_to(SubSeq(s, 2, Len(s)), SubSeq(t, 2, Len(t)))
    ELSE Place(Ch(s, 1), Codes) - Place(Ch(t, 1), Codes)

\* The numbers a token has: an integer, or a float counted in halves.
IntV(n)   == [t |-> "INT", i |-> n]
FloatV(h) == [t |-> "FLOAT", f |-> h]

----------------------------------------------------------------------------
\* Tokenizer.cpp
\* in and at: the sequence and the place of cCurrent in it; num: the union of
\* fValue and iValue.
Tokenizer(s) == [in |-> s, at |-> 1, tok |-> "UNKNOWN", text |-> "", num |-> IntV(0), err |-> "OK", unget |-> 0]

IsFirst(c) == c # "" /\ (Place(c, Small) > 0 \/ Place(c, Large) > 0 \/ c = "_")
IsNext(c)  == IsFirst(c) \/ (c # "" /\ Place(c, Figures) > 0)
is_hex(c)  == c # "" /\ Place(LowerCh(c), "0123456789abcdef") > 0
RECURSIVE skip_whitespace(_, _), RunOf(_, _, _)
skip_whitespace(s, i) == IF Ch(s, i) \in {" ", "\t", "\n", "\r"} THEN skip_whitespace(s, i + 1) ELSE i
RunOf(P(_), s, i) == IF P(Ch(s, i)) THEN RunOf(P, s, i + 1) ELSE i
parse_digit(c, radix) == c # "" /\ (c = "_" \/ Place(LowerCh(c), "0123456789abcdef") \in 1..radix)
\* The number the digits of a part of the text make.
Digits(s, radix) ==
    FoldLeft(LAMBDA n, i : IF Ch(s, i) = "_" THEN n ELSE radix*n + Place(LowerCh(Ch(s, i)), "0123456789abcdef") - 1,
             0, [i \in 1..Len(s) |-> i])
Figs(s) == Len(SelectSeq([i \in 1..Len(s) |-> Ch(s, i)], LAMBDA c : c # "_"))

Committed(t, tok, to) == [t EXCEPT !.tok = tok, !.text = SubSeq(t.in, t.at, to - 1), !.at = to]
\* The sign and the prefix of a number, and where its digits begin.
HeadOf(c, a, zero, prefix, p) ==
    [sign |-> c \in {"+", "-"}, minus |-> c = "-", zero |-> zero /\ ~prefix,
     radix |-> IF ~prefix THEN 10 ELSE CASE p = "b" -> 2 [] p = "o" -> 8 [] p = "d" -> 10 [] p = "x" -> 16,
     from |-> IF prefix THEN a + 2 ELSE IF zero THEN a + 1 ELSE a]
Prefixed(c, a, zero, p) == HeadOf(c, a, zero, zero /\ p \in {"b", "o", "d", "x"}, p)
AfterSign(s, c, a) == Prefixed(c, a, Ch(s, a) = "0", LowerCh(Ch(s, a + 1)))
NumberHead(s, at) == AfterSign(s, Ch(s, at), IF Ch(s, at) \in {"+", "-"} THEN at + 1 ELSE at)
\* Where the digits before the point end, those behind it, and the exponent.
NumberWhole(s, h) == RunOf(LAMBDA x : parse_digit(x, h.radix), s, h.from)
NumberPart(s, h, c) == IF Ch(s, c) = "." THEN RunOf(LAMBDA x : parse_digit(x, h.radix), s, c + 1) ELSE c
Exponent(s, h, d, there, sign, x) ==
    [there |-> there, sign |-> sign, from |-> x, to |-> IF there THEN RunOf(LAMBDA y : parse_digit(y, h.radix), s, x) ELSE d]
ExponentAt(s, h, d, there, sign) == Exponent(s, h, d, there, sign, IF sign THEN d + 2 ELSE d + 1)
NumberExponent(s, h, d) ==
    ExponentAt(s, h, d, Ch(s, d) \in {"e", "E", "p", "P"}, Ch(s, d) \in {"e", "E", "p", "P"} /\ Ch(s, d + 1) \in {"+", "-"})
\* The values of the digits, in halves and cut off where they are not whole.
ScaledBy(fixed, places, minus, by, radix) ==
    IF minus THEN fixed \div (radix^places * by) ELSE (fixed * by) \div radix^places
Scaled(s, h, c, part, minus, exponent) ==
    ScaledBy(2*(Digits(SubSeq(s, h.from, c - 1), h.radix) * h.radix^Figs(part) + Digits(part, h.radix)),
          Figs(part), minus, h.radix^exponent, h.radix)
HalvesOf(s, h, c, d, e) ==
    Scaled(s, h, c, SubSeq(s, c + 1, d - 1), Ch(s, d + 1) = "-", Digits(SubSeq(s, e.from, e.to - 1), h.radix))
Signed(h, n) == IF h.minus THEN -n ELSE n
Lone(s, i) == Ch(s, i) = "_"
NumberToken(t, h, c, d, e, dot, exp) ==
    IF Lone(t.in, h.from) /\ ~h.zero THEN Committed(t, "UNKNOWN", h.from + 1)
    ELSE IF dot /\ Lone(t.in, c + 1) THEN Committed(t, "UNKNOWN", c + 2)
    ELSE IF c = h.from /\ ~h.zero /\ ~(dot /\ d > c + 1)
    THEN Committed(t, IF h.sign /\ ~dot THEN IF h.minus THEN "SUB" ELSE "ADD" ELSE "UNKNOWN", IF dot THEN d ELSE c)
    ELSE IF e.there /\ Lone(t.in, e.from) THEN Committed(t, "UNKNOWN", e.from + 1)
    ELSE IF e.sign /\ ~exp THEN Committed(t, "UNKNOWN", e.to)
    ELSE IF ~dot /\ ~exp THEN [Committed(t, "IVALUE", e.to) EXCEPT !.num = IntV(Signed(h, Digits(SubSeq(t.in, h.from, c - 1), h.radix)))]
    ELSE [Committed(t, "FVALUE", e.to) EXCEPT
              !.num = FloatV(Signed(h, HalvesOf(t.in, h, c, d, IF exp THEN e ELSE [e EXCEPT !.to = e.from])))]
NumberEnd(t, h, c, d, e) == NumberToken(t, h, c, d, e, Ch(t.in, c) = ".", e.there /\ e.to > e.from)
NumberFrom(t, h, c, d) == NumberEnd(t, h, c, d, NumberExponent(t.in, h, d))
NumberAt(t, h, c) == NumberFrom(t, h, c, NumberPart(t.in, h, c))
NumberOf(t, h) == NumberAt(t, h, NumberWhole(t.in, h))
lookup_number(t) == NumberOf(t, NumberHead(t.in, t.at))

Unescape(c) == CASE c = "n" -> "\n" [] c = "t" -> "\t" [] c = "r" -> "\r" [] c \in {"\\", "'"} -> c [] OTHER -> "\\" \o c
\* The characters of a text in quotes, and of the ones that follow it.
RECURSIVE Quoted(_, _, _)
Quoted(s, i, text) ==
    LET c == Ch(s, i)
        n == skip_whitespace(s, i + 1)
    IN  IF c = "" \/ (c = "\\" /\ Ch(s, i + 1) = "") THEN [err |-> "EOF", to |-> Len(s) + 1, text |-> text]
        ELSE IF c = "\\" THEN Quoted(s, i + 2, text \o Unescape(Ch(s, i + 1)))
        ELSE IF c # "'" THEN Quoted(s, i + 1, text \o c)
        ELSE IF Ch(s, n) = "'" THEN Quoted(s, n + 1, text)
        ELSE [err |-> "OK", to |-> n, text |-> text]
AfterQuoted(t, q) ==
    [t EXCEPT !.at = q.to, !.text = q.text, !.err = IF q.err = "OK" THEN @ ELSE q.err,
              !.tok = IF q.err = "OK" THEN "STRING" ELSE "ERROR"]
lookup_string(t) == AfterQuoted(t, Quoted(t.in, t.at + 1, ""))
lookup_identifier(t, tok) ==
    IF IsFirst(Ch(t.in, t.at)) THEN Committed(t, tok, RunOf(IsNext, t.in, t.at)) ELSE t
ColorTo(t, to) == [Committed(t, "COLOR", to) EXCEPT !.text = t.text \o SubSeq(t.in, t.at, to - 1)]
lookup_color(t) == IF is_hex(Ch(t.in, t.at)) THEN ColorTo(t, RunOf(is_hex, t.in, t.at)) ELSE t

\* The table of the words, in the order of the code, and the search in it.
Barewords == <<
    <<"abs", "ABS">>, <<"acos", "ACOS">>, <<"add", "ADDSYM">>, <<"and", "AND">>, <<"arccos", "ACOS">>, <<"arcsin", "ASIN">>,
    <<"arctg", "ATAN">>, <<"asin", "ASIN">>, <<"atan", "ATAN">>, <<"band", "BAND">>, <<"bnot", "BNOT">>, <<"bool", "BOOL">>,
    <<"bor", "BOR">>, <<"bxor", "BXOR">>, <<"cmp", "CMP">>, <<"cos", "COS">>, <<"db", "DB">>, <<"deg", "DEG">>,
    <<"div", "DIV">>, <<"e", "E">>, <<"eq", "EQ">>, <<"ex", "EX">>, <<"exp", "EXP">>, <<"false", "FALSE">>,
    <<"float", "FLOAT">>, <<"fmod", "FMOD">>, <<"fp", "FLOAT">>, <<"ge", "GREATER_EQ">>, <<"gt", "GREATER">>,
    <<"iadd", "IADD">>, <<"icmp", "ICMP">>, <<"idiv", "IDIV">>, <<"ie", "IEQ">>, <<"ieq", "IEQ">>,
    <<"ige", "IGREATER_EQ">>, <<"igt", "IGREATER">>, <<"ile", "ILESS_EQ">>, <<"ilt", "ILESS">>, <<"imod", "IMOD">>,
    <<"imul", "IMUL">>, <<"ine", "INOT_EQ">>, <<"inge", "ILESS">>, <<"ingt", "ILESS_EQ">>, <<"inle", "IGREATER">>,
    <<"inlt", "IGREATER_EQ">>, <<"int", "INT">>, <<"isub", "ISUB">>, <<"lc", "SLWR">>, <<"le", "LESS_EQ">>,
    <<"lg", "LOGD">>, <<"ln", "LOGE">>, <<"log", "LOGE">>, <<"log10", "LOGD">>, <<"log2", "LOG2">>, <<"logb", "LOG2">>,
    <<"logd", "LOGD">>, <<"loge", "LOGE">>, <<"lt", "LESS">>, <<"mod", "IMOD">>, <<"mul", "MUL">>, <<"ne", "NOT_EQ">>,
    <<"nge", "LESS">>, <<"ngt", "LESS_EQ">>, <<"nle", "GREATER">>, <<"nlt", "GREATER_EQ">>, <<"not", "NOT">>,
    <<"null", "NULL">>, <<"or", "OR">>, <<"pi", "PI">>, <<"pow", "POW">>, <<"rad", "RAD">>, <<"sc", "SCAT">>,
    <<"scat", "SCAT">>, <<"sin", "SIN">>, <<"sl", "SLEN">>, <<"slen", "SLEN">>, <<"slwr", "SLWR">>, <<"sqrt", "SQRT">>,
    <<"sr", "SREP">>, <<"srep", "SREP">>, <<"srev", "SREV">>, <<"str", "STR">>, <<"sub", "SUBSYM">>, <<"supr", "SUPR">>,
    <<"tan", "TAN">>, <<"tg", "TAN">>, <<"true", "TRUE">>, <<"uc", "SUPR">>, <<"undef", "UNDEF">>, <<"xor", "XOR">> >>
RECURSIVE FindWord(_, _, _)
FindWord(w, first, last) ==
    LET center == (first + last) \div 2
        cmp    == compare_to(w, Barewords[center][1])
    IN  IF first > last THEN "BAREWORD"
        ELSE IF cmp < 0 THEN FindWord(w, first, center - 1)
        ELSE IF cmp > 0 THEN FindWord(w, center + 1, last)
        ELSE Barewords[center][2]
decode_bareword(t) == IF t.tok = "BAREWORD" THEN [t EXCEPT !.tok = FindWord(MapText(LowerCh, t.text), 1, Len(Barewords))] ELSE t

\* The operators of one, two and three characters: a longer one goes first.
Operators == << <<"<=>", "CMP">>, <<"**", "POW">>, <<"&&", "AND">>, <<"||", "OR">>, <<"!=", "NOT_EQ">>, <<"^^", "XOR">>,
    <<"<=", "LESS_EQ">>, <<"<>", "NOT_EQ">>, <<">=", "GREATER_EQ">>, <<"==", "EQ">>, <<"(", "LBRACE">>, <<")", "RBRACE">>,
    <<"[", "LQBRACE">>, <<"]", "RQBRACE">>, <<"{", "LCBRACE">>, <<"}", "RCBRACE">>, <<"#", "SHARP">>, <<"@", "AT">>,
    <<"*", "MUL">>, <<"/", "DIV">>, <<"%", "IMOD">>, <<"~", "BNOT">>, <<"?", "QUESTION">>, <<"&", "AND">>, <<"|", "OR">>,
    <<"!", "NOT">>, <<"^", "XOR">>, <<"<", "LESS">>, <<">", "GREATER">>, <<"=", "EQ">>, <<";", "SEMICOLON">>,
    <<",", "COMMA">>, <<":", "COLON">> >>
Punctuation(s, i) ==
    LET here == SelectSeq(Operators, LAMBDA o : SubSeq(s, i, IF i + Len(o[1]) - 1 > Len(s) THEN Len(s) ELSE i + Len(o[1]) - 1) = o[1])
    IN  IF here = <<>> THEN <<"", "UNKNOWN">> ELSE here[1]
OperatorToken(p, flags) ==
    IF p.tok = "COLON" THEN lookup_identifier(p, "IDENTIFIER")
    ELSE IF p.tok \in {"SHARP", "AT"} /\ "COLOR" \in flags THEN lookup_color(p) ELSE p
Bareword(w, flags) == IF "XKEYWORDS" \in flags THEN w ELSE decode_bareword(w)
ReadToken(u, flags, c, o) ==
    IF o[2] # "UNKNOWN" THEN OperatorToken(Committed(u, o[2], u.at + Len(o[1])), flags)
    ELSE IF c = "'" THEN lookup_string(u)
    ELSE IF c \in {"+", "-"} /\ "XSIGN" \in flags THEN Committed(u, IF c = "+" THEN "ADD" ELSE "SUB", u.at + 1)
    ELSE IF ~IsFirst(c) THEN lookup_number(u)
    ELSE Bareword(lookup_identifier(u, "BAREWORD"), flags)
TokenFrom(t, flags, i) ==
    IF Ch(t.in, i) = "" THEN [t EXCEPT !.at = i, !.tok = "EOF", !.err = "EOF"]
    ELSE ReadToken([t EXCEPT !.at = i, !.text = ""], flags, Ch(t.in, i), Punctuation(t.in, i))
get_token(t, flags) ==
    IF "GET" \notin flags THEN t
    ELSE IF t.unget > 0 THEN [t EXCEPT !.unget = @ - 1]
    ELSE TokenFrom(t, flags, skip_whitespace(t.in, t.at))

\* get_token() as a function, for the modules that have it as a constant.
Tokenizers == [in : STRING, at : Nat, tok : STRING, text : STRING, num : [t : {"INT"}, i : Int] \union [t : {"FLOAT"}, f : Int],
               err : STRING, unget : Nat]
TokenAfter == [t \in Tokenizers, flags \in SUBSET {"GET", "XSIGN", "XKEYWORDS", "COLOR"} |-> get_token(t, flags)]
=============================================================================
