----------------------------- MODULE ExprFormat ------------------------------
(***************************************************************************)
(* src/main/expr/format.cpp: texts with specifiers {...} in the place of   *)
(* parameters.                                                             *)
(*                                                                         *)
(*   obj   the pieces of a format text: texts and specifiers               *)
(* A client adds a piece.  The scientific form of a number (e, E) is left  *)
(* out, and an integer has 64 bits only when it is written without a sign. *)
(***************************************************************************)
EXTENDS ExprValues

CONSTANTS Pieces,      \* the pieces of a text
          Par,         \* the parameters, in order
          Numbers,     \* integers that are written and read again
          MaxPieces    \* bound: how many pieces a text has

VARIABLES obj
vars == obj

P == INSTANCE Parameters WITH Names <- {}, Values <- {}, Types <- {}, Other <- <<>>, MaxParams <- 0, ret <- 0
IsFigure(c) == c # "" /\ Place(c, Figures) > 0
Number(s) == Digits(s, 10)
BiggerOf(a, b) == IF a > b THEN a ELSE b
Times(c, n) == FoldLeft(LAMBDA s, i : s \o c, "", [i \in 1..n |-> i])

----------------------------------------------------------------------------
\* The specifier.  align: NONE, or how the padding is divided.
init_spec(index) == [name |-> "", index |-> index, flags |-> {}, lpad |-> " ", rpad |-> " ", align |-> "NONE", type |-> "", width |-> 0,
                     xwidth |-> 0, frac |-> 0]
\* The type: one letter, or two of the same.
TypeAt(s, i) ==
    LET two == SubSeq(s, i, IF i < Len(s) THEN i + 1 ELSE i)
    IN  CASE two = "ll" -> [type |-> "l", to |-> i + 2] [] two = "lL" -> [type |-> "z", to |-> i + 2]
          [] two = "Ll" -> [type |-> "Z", to |-> i + 2] [] two = "LL" -> [type |-> "L", to |-> i + 2]
          [] two = "tt" -> [type |-> "t", to |-> i + 2] [] two = "tT" -> [type |-> "y", to |-> i + 2]
          [] two = "Tt" -> [type |-> "Y", to |-> i + 2] [] two = "TT" -> [type |-> "T", to |-> i + 2]
          [] Ch(s, i) \in {"i", "d", "u", "b", "o", "x", "X", "f", "F", "e", "E", "s", "S", "l", "L", "t", "T"} -> [type |-> Ch(s, i), to |-> i + 1]
          [] OTHER -> [type |-> "", to |-> i]
Flag(spec, flag) == [spec EXCEPT !.flags = @ \union {flag}]
RECURSIVE Specifier(_, _, _)
No(spec) == [res |-> "BAD_FORMAT", spec |-> spec]
AsNumber(s, from, to) == Number(SubSeq(s, from, to - 1))
\* What the following character makes of an alignment.
Aligned(s, i, spec, with, next, alone) ==
    IF spec.align # "NONE" THEN No(spec)
    ELSE IF next \in DOMAIN with THEN Specifier(s, i + 2, [spec EXCEPT !.align = with[next]])
    ELSE Specifier(s, i + 1, [spec EXCEPT !.align = alone])
Named(s, i, spec, to) == Specifier(s, to, [Flag(spec, "NAME") EXCEPT !.name = SubSeq(s, i + 1, to - 1)])
Indexed(s, i, spec, to) ==
    IF to = i + 1 \/ Ch(s, to) # "]" THEN No(spec)
    ELSE Specifier(s, to + 1, [Flag(spec, "INDEX") EXCEPT !.index = AsNumber(s, i + 1, to)])
Extra(s, i, spec, to) ==
    IF to > i + 1
    THEN Specifier(s, to, [Flag(spec, "XWIDTH") EXCEPT !.xwidth = @ * 10^(to - i - 1) + AsNumber(s, i + 1, to)])
    ELSE IF "XWIDTH" \in spec.flags THEN Specifier(s, to, spec) ELSE No(spec)
\* The parts of a type: the sign before a, the width before b, the fraction
\* before d.
Typed(s, spec, signed, a, b, d, type) ==
    Specifier(s, type.to,
        [Flag(spec, "TYPE") EXCEPT
            !.flags = @ \union (IF signed THEN {"SIGN"} ELSE {}) \union (IF b > a THEN {"WIDTH"} ELSE {}) \union (IF d > b THEN {"FRAC"} ELSE {}),
            !.width = IF b > a THEN AsNumber(s, a, b) ELSE @, !.frac = IF d > b THEN AsNumber(s, b + 1, d) ELSE @, !.type = type.type])
AtType(s, spec, signed, a, b, d) ==
    IF (Ch(s, b) = "." /\ d = b + 1) \/ d > Len(s) THEN No(spec) ELSE Typed(s, spec, signed, a, b, d, TypeAt(s, d))
AtFraction(s, spec, signed, a, b) == AtType(s, spec, signed, a, b, IF Ch(s, b) = "." THEN RunOf(IsFigure, s, b + 1) ELSE b)
AtWidth(s, spec, signed, a) == AtFraction(s, spec, signed, a, RunOf(IsFigure, s, a))
SpecifierAt(s, i, spec, c, next) ==
    LET taken == spec.flags \intersect {"NAME", "INDEX"} # {}
    IN  CASE c = "" -> [res |-> "OK", spec |-> spec]
          [] c = "@" -> IF taken \/ ~IsFirst(next) THEN No(spec) ELSE Named(s, i, spec, RunOf(IsNext, s, i + 1))
          [] c = "[" -> IF taken THEN No(spec) ELSE Indexed(s, i, spec, RunOf(IsFigure, s, i + 1))
          [] c = "^" -> IF "LPAD" \in spec.flags \/ next = "" THEN No(spec) ELSE Specifier(s, i + 2, [Flag(spec, "LPAD") EXCEPT !.lpad = next])
          [] c = "$" -> IF "RPAD" \in spec.flags \/ next = "" THEN No(spec) ELSE Specifier(s, i + 2, [Flag(spec, "RPAD") EXCEPT !.rpad = next])
          [] c \in {">", "<", "|"} ->
                 Aligned(s, i, spec, CASE c = ">" -> "|" :> "FROM_LEFT" [] c = "<" -> "|" :> "TO_LEFT"
                                       [] OTHER -> ("<" :> "FROM_RIGHT") @@ (">" :> "TO_RIGHT"),
                         next, CASE c = ">" -> "RIGHT" [] c = "<" -> "LEFT" [] OTHER -> "MIDDLE")
          [] c = ":" -> Extra(s, i, spec, RunOf(IsFigure, s, i + 1))
          [] c = "%" -> IF "TYPE" \in spec.flags THEN No(spec) ELSE AtWidth(s, spec, next = "+", IF next = "+" THEN i + 2 ELSE i + 1)
          [] OTHER -> No(spec)
Specifier(s, i, spec) == SpecifierAt(s, i, spec, Ch(s, i), Ch(s, i + 1))
\* From behind the '{': the specifier, where it ends, and what is written when
\* it is none: the text as it stands.
ReadSpecifier(to, buf, sp) ==
    IF sp.res = "OK" THEN [res |-> "OK", to |-> to, out |-> "", spec |-> sp.spec]
    ELSE [res |-> sp.res, to |-> to, out |-> "{" \o buf \o "}"]
Braced(index, end, buf) == ReadSpecifier(end + 1, buf, Specifier(buf, 1, init_spec(index)))
read_specifier(s, i, index) ==
    LET close == {k \in i..Len(s) : Ch(s, k) = "}"}
        end   == CHOOSE k \in close : \A j \in close : k <= j
    IN  IF close = {} THEN [res |-> "BAD_FORMAT", to |-> Len(s) + 1, out |-> "{" \o SubSeq(s, i, Len(s))]
        ELSE Braced(index, end, SubSeq(s, i, end - 1))

----------------------------------------------------------------------------
\* Values.
Special(v) == IF v.t = "NULL" THEN "<null>" ELSE "<undef>"
check_specials(v, text) == IF v.t \in {"NULL", "UNDEF"} THEN Special(v) ELSE text
RECURSIVE InBase(_, _, _)
InBase(n, base, figures) == (IF n < base THEN "" ELSE InBase(n \div base, base, figures)) \o Ch(figures, (n % base) + 1)
int_append_extra(spec, v, figs) ==
    (IF v.i < 0 THEN "-" ELSE IF "SIGN" \in spec.flags THEN "+" ELSE "")
    \o (IF "WIDTH" \in spec.flags /\ spec.width > Len(figs) THEN Times("0", spec.width - Len(figs)) ELSE "") \o figs
AbsOf(n) == IF n < 0 THEN -n ELSE n
Hex == "0123456789abcdef"
int_to_dec(spec, v) == check_specials(v, int_append_extra(spec, v, InBase(AbsOf(v.i), 10, Hex)))
int_to_bin(spec, v) == check_specials(v, int_append_extra(spec, v, InBase(AbsOf(v.i), 2, Hex)))
int_to_hex(spec, v) ==
    check_specials(v, int_append_extra(spec, v, InBase(AbsOf(v.i), 16, IF spec.type = "X" THEN "0123456789ABCDEF" ELSE Hex)))
\* Without a sign: the 64 bits of a negative n, which still gets its '-'
\* (bound: n is above -56).
int_to_oct(spec, v) ==
    check_specials(v, int_append_extra(spec, v,
        IF v.i >= 0 THEN InBase(v.i, 8, Hex) ELSE "1" \o Times("7", 19) \o InBase(64 + v.i, 8, Hex)))
uint_to_dec(spec, v) ==
    check_specials(v, int_append_extra(spec, v, IF v.i >= 0 THEN InBase(v.i, 10, Hex) ELSE "1844674407370955" \o ToString(1616 + v.i)))
\* printf("%.<frac>f") of a number of halves: to the even number when it has
\* no place for the half.
Fixed(h, frac) ==
    IF frac = 0 THEN ToString(IF h % 2 = 0 THEN h \div 2 ELSE 2 * ((h + 1) \div 4))
    ELSE ToString(h \div 2) \o "." \o (IF h % 2 = 0 THEN "0" ELSE "5") \o Times("0", frac - 1)
float_to_str(spec, v) ==
    LET text == Fixed(AbsOf(v.f), IF "FRAC" \in spec.flags THEN spec.frac ELSE 6)
    IN  check_specials(v, (IF v.f < 0 THEN "-" ELSE IF "SIGN" \in spec.flags THEN "+" ELSE "")
            \o (IF "WIDTH" \in spec.flags /\ spec.width > Len(text) THEN Times("0", spec.width - Len(text)) ELSE "") \o text)
text_to_str(spec, v) ==
    LET Rest(F(_)) == MapText(F, SubSeq(v.s, 2, Len(v.s)))
    IN  check_specials(v, CASE spec.type = "t" -> MapText(LowerCh, v.s)
                            [] spec.type = "T" -> MapText(UpperCh, v.s)
                            [] spec.type = "y" -> LowerCh(Ch(v.s, 1)) \o Rest(UpperCh)
                            [] spec.type = "Y" -> UpperCh(Ch(v.s, 1)) \o Rest(LowerCh)
                            [] OTHER -> v.s)
bool_to_str(spec, v) ==
    check_specials(v, CASE spec.type = "l" -> IF v.b THEN "true" ELSE "false"
                        [] spec.type = "L" -> IF v.b THEN "TRUE" ELSE "FALSE"
                        [] spec.type = "z" -> IF v.b THEN "tRUE" ELSE "fALSE"
                        [] spec.type = "Z" -> IF v.b THEN "True" ELSE "False")

Conversions == [i |-> "INT", d |-> "INT", u |-> "INT", b |-> "INT", o |-> "INT", x |-> "INT", X |-> "INT", f |-> "FLOAT", F |-> "FLOAT",
                l |-> "BOOL", L |-> "BOOL", z |-> "BOOL", Z |-> "BOOL"]
Written1(spec, v) ==
    CASE spec.type \in {"i", "d"} -> int_to_dec(spec, v) [] spec.type = "u" -> uint_to_dec(spec, v)
      [] spec.type = "b" -> int_to_bin(spec, v) [] spec.type = "o" -> int_to_oct(spec, v)
      [] spec.type \in {"x", "X"} -> int_to_hex(spec, v) [] spec.type \in {"f", "F"} -> float_to_str(spec, v)
      [] spec.type \in {"l", "L", "z", "Z"} -> bool_to_str(spec, v) [] OTHER -> text_to_str(spec, v)
\* How much of the padding goes to the left; none when nothing says where.
LeftPad(align, pad) ==
    CASE align = "LEFT" -> 0 [] align = "RIGHT" -> pad [] align \in {"MIDDLE", "FROM_LEFT"} -> pad \div 2
      [] align = "FROM_RIGHT" -> pad - (pad \div 2) [] align = "TO_LEFT" -> pad \div 4 [] align = "TO_RIGHT" -> pad - (pad \div 4)
Padded(spec, text) ==
    LET pad  == BiggerOf(spec.width, spec.xwidth) - Len(text)
        left == LeftPad(spec.align, pad)
    IN  IF spec.flags \intersect {"WIDTH", "XWIDTH"} = {} \/ pad <= 0 \/ spec.align = "NONE" THEN text
        ELSE Times(spec.lpad, left) \o text \o Times(spec.rpad, pad - left)
Shown(spec, c) == IF c.res # "OK" THEN [res |-> c.res, out |-> ""] ELSE [res |-> "OK", out |-> Padded(spec, Written1(spec, c.v))]
Found(spec, r) ==
    IF r.res # "OK" THEN [res |-> r.res, out |-> ""]
    ELSE Shown(spec, cast_value(r.v, IF spec.type \in DOMAIN Conversions THEN Conversions[spec.type] ELSE "STRING"))
emit_parameter(spec, par) ==
    Found(spec, IF "NAME" \in spec.flags THEN P!get(par, spec.name) ELSE P!Read(par, P!At(par, spec.index), "INVALID_VALUE"))

\* From place i of the text on, with what is written so far.
RECURSIVE Format(_, _, _, _, _, _)
AfterParameter(s, to, par, index, out, own, e) ==
    IF e.res = "OK" THEN Format(s, to, par, IF own THEN index ELSE index + 1, FALSE, out \o e.out) ELSE [res |-> e.res, out |-> out]
AfterSpecifier(s, par, index, out, sp) ==
    IF sp.res # "OK" THEN Format(s, sp.to, par, index, FALSE, out \o sp.out)
    ELSE AfterParameter(s, sp.to, par, index, out, sp.spec.flags \intersect {"NAME", "INDEX"} # {}, emit_parameter(sp.spec, par))
Format(s, i, par, index, protector, out) ==
    LET c == Ch(s, i)
    IN  CASE c = "" -> [res |-> "OK", out |-> out]
          [] c = "\\" -> Format(s, i + 1, par, index, ~protector, out \o (IF protector THEN "\\" ELSE ""))
          [] c = "{" -> IF protector THEN Format(s, i + 1, par, index, FALSE, out \o "{")
                        ELSE AfterSpecifier(s, par, index, out, read_specifier(s, i + 1, index))
          [] c = "}" -> Format(s, i + 1, par, index, FALSE, out \o "}")
          [] OTHER -> Format(s, i + 1, par, index, FALSE, out \o (IF protector THEN "\\" ELSE "") \o c)
format(s, par) == Format(s, 1, par, 0, FALSE, "")

----------------------------------------------------------------------------
Init == obj = <<>>
Next == Len(obj) < MaxPieces /\ \E p \in Pieces : obj' = Append(obj, p)
Spec == Init /\ [][Next]_vars
----------------------------------------------------------------------------
Takes(s) == Ch(s, 1) = "{" /\ format(s, <<>>).res = "INVALID_VALUE" /\ ~\E i \in 1..Len(s) : Ch(s, i) = "["
RECURSIVE OneByOne(_, _, _)
AfterPiece(list, used, out, own, here) ==
    IF here.res = "OK" THEN OneByOne(Tail(list), IF own THEN used ELSE used + 1, out \o here.out) ELSE [res |-> here.res, out |-> out]
Piece(list, used, out, own) == AfterPiece(list, used, out, own, format(Head(list), IF own THEN Par ELSE SubSeq(Par, used + 1, Len(Par))))
OneByOne(list, used, out) == IF list = <<>> THEN [res |-> "OK", out |-> out] ELSE Piece(list, used, out, ~Takes(Head(list)))
\* A text is written piece by piece: each is written as it is alone, with the
\* parameters that earlier pieces without a name or an index of their own have
\* not taken; the first that cannot be written ends it, after what came before
\* (format.cpp:39-155, 1006-1078).
PieceByPiece == format(FoldLeft(LAMBDA s, p : s \o p, "", obj), Par) = OneByOne(obj, 0, "")

Base == [d |-> "", i |-> "0d", b |-> "0b", o |-> "0o", x |-> "0x", X |-> "0x", u |-> ""]
Unsigned(s) == IF Ch(s, 1) \in {"+", "-"} THEN SubSeq(s, 2, Len(s)) ELSE s
ReadBack(n, type, width, r, t) ==
    /\ r.res = "OK" /\ (Ch(r.out, 1) = "-") = (n < 0) /\ (Ch(r.out, 1) = "+") = (n >= 0 /\ width \in {"+", "+4"})
    /\ width \in {"4", "+4"} => Len(Unsigned(r.out)) >= 4 /\ (Ch(Unsigned(r.out), 1) = "0" => Len(Unsigned(r.out)) = 4)
    /\ n >= 0 \/ type \notin {"u", "o"} => t.tok = "IVALUE" /\ t.num = IntV(AbsOf(n)) /\ t.at = Len(t.in) + 1
ReadsBack(n, type, width, r) == ReadBack(n, type, width, r, Token[Tokenizer(Base[type] \o Unsigned(r.out)), {"GET"}])
\* A number that was written in a base, with a sign or zeros before it, is
\* read again as that number; not a negative one without its sign
\* (format.cpp:577-711).
NumbersReadBack ==
    obj = <<>> => \A n \in Numbers, type \in DOMAIN Base, width \in {"", "+", "4", "+4"} :
        ReadsBack(n, type, width, format("{%" \o width \o type \o "}", <<P!Param("n", IntV(n))>>))

Alignments == {"", ">", "<", "|", ">|", "<|", "|<", "|>"}
PaddedTo(align, width, r, bare) ==
    LET pads == Len(r.out) - Len(bare)
    IN  /\ r.res = "OK" /\ pads = IF align # "" /\ width > Len(bare) THEN width - Len(bare) ELSE 0
        /\ \E left \in 0..pads : r.out = Times("(", left) \o bare \o Times(")", pads - left)
               /\ (align = "<" => left = 0) /\ (align = ">" => left = pads)
               /\ (align \in {"|", ">|", "|<"} => 2*left - pads \in -1..1)
               /\ (align = "<|" => 2*left <= pads) /\ (align = "|>" => 2*left >= pads)
\* A parameter that is shorter than its place is padded to it, on the sides
\* and with the characters the specifier tells, and its text is not cut or
\* changed; without an alignment it is not padded (format.cpp:930-1003).
PaddedToWidth ==
    obj = <<>> => \A align \in Alignments, width \in 0..9, i \in 1..Len(Par) :
        PaddedTo(align, width, format("{^($)%" \o ToString(width) \o "s" \o align \o "}", <<Par[i]>>), format("{}", <<Par[i]>>).out)
=============================================================================
