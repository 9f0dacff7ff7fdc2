------------------------------ MODULE JsonParser -----------------------------
(***************************************************************************)
(* src/main/fmt/json/Tokenizer.cpp and Parser.cpp: from the characters of a *)
(* JSON text to tokens, and from tokens to events.  An operation takes a   *)
(* tokenizer, or a parser, and gives it as it is afterwards.               *)
(*                                                                         *)
(* A character is a string of one character, or a name for those TLA+ has  *)
(* no string for.  A number is its digits and the power of ten they are to *)
(* be multiplied by.  Left out: running out of memory.                     *)
(***************************************************************************)
EXTENDS Integers, Sequences, FiniteSets, TLC

Chars(s) == [i \in 1..Len(s) |-> SubSeq(s, i, i)]
RECURSIVE Join(_)
Join(ss) == IF ss = <<>> THEN <<>> ELSE Head(ss) \o Join(Tail(ss))
Upper == "ABCDEFGHIJKLMNOPQRSTUVWXYZ"
Lower == "abcdefghijklmnopqrstuvwxyz"
Figures == "0123456789"
Of(c, s) == \E i \in 1..Len(s) : SubSeq(s, i, i) = c

----------------------------------------------------------------------------
\* Tokenizer.cpp.  A sequence ends with EOF or with another status.
Special == [m |-> "0", e |-> 0, neg |-> FALSE]
Tokenizer(in, end) ==
    [in |-> in, pos |-> 0, end |-> end, tok |-> "UNKNOWN", val |-> <<>>, pend |-> <<>>, num |-> Special, err |-> "OK", unget |-> 0]
Ended(t) == t.pos >= Len(t.in)
lookup(t) == IF Ended(t) THEN t.end ELSE t.in[t.pos + 1]
Tok(t, token) == [t EXCEPT !.tok = token]
set_error(t, code) == [t EXCEPT !.tok = "ERROR", !.err = code]
skip(t) == [t EXCEPT !.pos = @ + 1]
commit(t) == [skip(t) EXCEPT !.val = Append(@, lookup(t))]
is_identifier_start(c) == Of(c, Upper) \/ Of(c, Lower) \/ c \in {"_", "$", "\\"}
is_identifier(c) == Of(c, Upper) \/ Of(c, Lower) \/ Of(c, Figures) \/ c \in {"_", "$"}
parse_digit(c, radix) ==      \* -1: not a digit
    LET at(s, first) == IF Of(c, s) THEN first + (CHOOSE i \in 1..Len(s) : SubSeq(s, i, i) = c) ELSE 0
        d == IF Of(c, Figures) THEN at(Figures, -1) ELSE IF Of(c, "abcdef") THEN at("abcdef", 9) ELSE IF Of(c, "ABCDEF") THEN at("ABCDEF", 9) ELSE -1
    IN  IF d < radix THEN d ELSE -1

\* The table is in the order of its words but for three places.
ecma_reserved ==
  <<"Infinity", "abstract", "arguments", "await", "boolean", "break", "byte", "case", "catch", "char", "class", "const", "continue",
    "debugger", "default", "delete", "do", "double", "instanceof", "interface", "else", "enum", "eval", "export", "extends", "false",
    "final", "finally", "float", "for", "function", "goto", "if", "implements", "import", "in", "int", "let", "long", "native", "new",
    "null", "package", "private", "protected", "public", "return", "short", "static", "super", "switch", "synchronized", "this", "throw",
    "transient", "try", "true", "typeof", "var", "void", "volatile", "while", "with", "yield">>
Rank(c) == CHOOSE i \in 1..64 : SubSeq("$0123456789ABCDEFGHIJKLMNOPQRSTUVWXYZ_abcdefghijklmnopqrstuvwxyz", i, i) = c
Before(a, b) ==               \* a, characters, is before the word b
    \E k \in 1..Len(b) : (\A i \in 1..k - 1 : i <= Len(a) /\ a[i] = SubSeq(b, i, i)) /\ (Len(a) < k \/ Rank(a[k]) < Rank(SubSeq(b, k, k)))
RECURSIVE Halved(_, _, _)
Halved(text, first, last) ==
    LET c == (first + last) \div 2
    IN  first <= last /\ (IF text = Chars(ecma_reserved[c + 1]) THEN TRUE
                          ELSE IF Before(text, ecma_reserved[c + 1]) THEN Halved(text, first, c - 1) ELSE Halved(text, c + 1, last))
Plain(text) == \A i \in 1..Len(text) : is_identifier(text[i])
is_reserved_word(text) == Plain(text) /\ Halved(text, 0, Len(ecma_reserved) - 1)
is_valid_identifier(text) ==
    text # <<>> /\ is_identifier_start(text[1]) /\ (\A i \in 2..Len(text) : is_identifier(text[i])) /\ ~is_reserved_word(text)

\* Units of UTF-16 wait until the character after them is known.
Letter(n) == IF n \in 97..122 THEN SubSeq(Lower, n - 96, n - 96) ELSE IF n \in 65..90 THEN SubSeq(Upper, n - 64, n - 64)
             ELSE IF n = 47 THEN "/" ELSE IF n = 42 THEN "*" ELSE IF n = 10 THEN "\n" ELSE "U" \o ToString(n)
High(u) == u \in 55296..56319
Low(u) == u \in 56320..57343
RECURSIVE Utf16(_)
Utf16(s) ==
    LET joined == 65536 + (s[1] % 1024) * 1024 + (s[2] % 1024)
    IN  IF s = <<>> THEN <<>>
        ELSE IF Len(s) > 1 /\ High(s[1]) /\ Low(s[2]) THEN <<Letter(joined)>> \o Utf16(SubSeq(s, 3, Len(s)))
        ELSE <<IF High(s[1]) \/ Low(s[1]) THEN "U65533" ELSE Letter(s[1])>> \o Utf16(Tail(s))
add_pending_character(t, u) == [t EXCEPT !.pend = Append(@, u)]
commit_pending_characters(t) == [t EXCEPT !.val = @ \o Utf16(t.pend), !.pend = <<>>]

\* After the backslash: a letter and n digits.
RECURSIVE HexDigits(_, _, _)
HexDigits(t, n, cp) ==
    LET d == parse_digit(lookup(t), 16)
    IN  IF n = 0 THEN add_pending_character(t, cp)
        ELSE IF Ended(t) THEN set_error(t, t.end)
        ELSE IF d < 0 THEN set_error(skip(t), "BAD_TOKEN")
        ELSE HexDigits(skip(t), n - 1, 16 * cp + d)
Escape(t, letters, n) ==
    IF Ended(t) THEN set_error(t, t.end) ELSE IF lookup(t) \notin letters THEN set_error(t, "BAD_TOKEN") ELSE HexDigits(skip(t), n, 0)
parse_unicode_escape_sequence(t) == Escape(t, {"u", "U"}, 4)
parse_hexadecimal_escape_sequence(t) == Escape(t, {"x", "X"}, 2)

\* A string, from behind its first quote.
Meaning(c) == CASE c = "n" -> "\n" [] c = "r" -> "\r" [] c = "t" -> "\t" [] c = "f" -> "\f" [] c = "b" -> "BS" [] c = "v" -> "VT"
                [] c = "0" -> "NUL" [] OTHER -> c
Protected(t) ==               \* the character after a backslash
    IF lookup(t) = "\r" THEN skip(t)
    ELSE IF lookup(t) = "\n" THEN (IF lookup(skip(t)) = "\r" THEN skip(skip(t)) ELSE skip(t))
    ELSE [skip(t) EXCEPT !.val = Append(@, Meaning(lookup(t)))]
RECURSIVE parse_string(_, _)
parse_string(t, quote) ==
    LET u == commit_pending_characters(t)
        s == skip(t)
        After(x) == IF x.tok = "ERROR" THEN x ELSE parse_string(x, quote)
    IN  IF Ended(t) THEN set_error(t, t.end)
        ELSE IF lookup(t) = "\\" THEN
             (IF Ended(s) THEN set_error(s, t.end)
              ELSE After(IF lookup(s) \in {"u", "U"} THEN parse_unicode_escape_sequence(s)
                         ELSE IF lookup(s) \in {"x", "X"} THEN parse_hexadecimal_escape_sequence(s)
                         ELSE Protected(commit_pending_characters(s))))
        ELSE IF lookup(t) = "\n" THEN set_error(u, "BAD_TOKEN")
        ELSE IF lookup(t) = quote THEN Tok(skip(u), IF quote = "'" THEN "SQ_STRING" ELSE "DQ_STRING")
        ELSE parse_string(commit(u), quote)

\* The \u escapes an identifier ends with stay pending, but at the end of the text:
\* they go in front of the next string, identifier or comment.
RECURSIVE Identifier(_)
Identifier(t) ==
    LET After(x) == IF x.tok = "ERROR" THEN x ELSE Identifier(x)
    IN  IF Ended(t) THEN (IF t.end = "EOF" THEN commit_pending_characters(t) ELSE set_error(t, t.end))
        ELSE IF is_identifier(lookup(t)) THEN Identifier(commit(commit_pending_characters(t)))
        ELSE IF lookup(t) # "\\" THEN t ELSE After(parse_unicode_escape_sequence(skip(t)))
Word(i) ==
    LET double(name) == [Tok(i, "DOUBLE") EXCEPT !.num = [Special EXCEPT !.m = name]]
    IN  CASE i.tok = "ERROR" -> i
          [] i.val = Chars("true") -> Tok(i, "TRUE")
          [] i.val = Chars("false") -> Tok(i, "FALSE")
          [] i.val = Chars("null") -> Tok(i, "NULL")
          [] i.val = Chars("NaN") -> double("NaN")
          [] i.val = Chars("Infinity") -> double("Infinity")
          [] OTHER -> Tok(i, IF is_reserved_word(i.val) THEN "RESERVED" ELSE "IDENTIFIER")
parse_identifier(t) == Word(Identifier(t))

\* Comments, from behind the two characters they start with.
RECURSIVE parse_single_line_comment(_), parse_multiline_comment(_, _)
parse_single_line_comment(t) ==
    LET After(x) == IF x.tok = "ERROR" THEN x ELSE parse_single_line_comment(x)
    IN  IF Ended(t) THEN (IF t.end = "EOF" THEN Tok(t, "SL_COMMENT") ELSE set_error(t, t.end))
        ELSE IF lookup(t) = "\n" THEN Tok(skip(commit_pending_characters(t)), "SL_COMMENT")
        ELSE IF lookup(t) = "\\" THEN After(parse_unicode_escape_sequence(skip(t)))
        ELSE parse_single_line_comment(commit(commit_pending_characters(t)))
parse_multiline_comment(t, last) ==
    LET c == lookup(t)
        After(x) == IF x.tok = "ERROR" THEN x ELSE parse_multiline_comment(x, c)
    IN  IF Ended(t) THEN set_error(t, t.end)
        ELSE IF last = "*" /\ c = "/" THEN [Tok(skip(t), "ML_COMMENT") EXCEPT !.val = SubSeq(@, 1, Len(@) - 1)]
        ELSE IF last = "\n" /\ c = "\r" THEN parse_multiline_comment(skip(t), last)
        ELSE IF c = "\\" THEN After(parse_unicode_escape_sequence(skip(t)))
        ELSE parse_multiline_comment(commit(commit_pending_characters(t)), c)

RECURSIVE Digits(_, _, _)     \* [t, ds]
Digits(t, radix, ds) ==
    LET After(d) == IF Ended(t) \/ d < 0 THEN [t |-> t, ds |-> ds] ELSE Digits(commit(t), radix, Append(ds, d))
    IN  After(parse_digit(lookup(t), radix))
RECURSIVE Sum(_, _)
Sum(ds, radix) == IF ds = <<>> THEN 0 ELSE radix * Sum(SubSeq(ds, 1, Len(ds) - 1), radix) + ds[Len(ds)]
CommitIf(t, set) == IF lookup(t) \in set THEN commit(t) ELSE t
\* A number, part after part: its sign, its integer, its fraction and its
\* exponent.  The hexadecimal number is not looked behind; the letter e need
\* not have an exponent.
Numeric(neg, m, e) == [m |-> ToString(m), e |-> e, neg |-> neg]
NamedNumber(neg, s, word) ==
    [word EXCEPT !.val = s.val \o @, !.tok = IF @ = "DOUBLE" THEN @ ELSE "UNKNOWN", !.num = IF word.tok = "DOUBLE" THEN [@ EXCEPT !.neg = neg] ELSE @]
Hexadecimal(neg, hex) ==
    IF hex.ds = <<>> THEN Tok(hex.t, "UNKNOWN") ELSE [Tok(hex.t, "HEXADECIMAL") EXCEPT !.num = Numeric(neg, Sum(hex.ds, 16), 0)]
\* n: the sign, the digits, and whether there are an integer and a point;
\* es: the text behind the sign of the exponent, which is minus or not.
Number(n, fs, minus, bare, exp) ==
    IF ~n.hasint /\ fs = <<>> THEN Tok(exp.t, "UNKNOWN")
    ELSE IF bare /\ exp.ds = <<>> THEN Tok(exp.t, "UNKNOWN")
    ELSE IF Ended(exp.t) /\ exp.t.end # "EOF" THEN set_error(exp.t, exp.t.end)
    ELSE IF ~Ended(exp.t) /\ is_identifier_start(lookup(exp.t)) THEN set_error(exp.t, "BAD_FORMAT")
    ELSE [Tok(exp.t, IF ~n.dot /\ exp.ds = <<>> THEN "DECIMAL" ELSE "DOUBLE") EXCEPT
            !.num = Numeric(n.neg, Sum(n.int \o fs, 10), (IF minus THEN -1 ELSE 1) * Sum(exp.ds, 10) - Len(fs))]
Exponent(n, frac, ex, es) ==
    IF ex = frac.t \/ (~n.hasint /\ frac.ds = <<>>) THEN Number(n, frac.ds, FALSE, FALSE, [t |-> frac.t, ds |-> <<>>])
    ELSE Number(n, frac.ds, lookup(ex) = "-", es # ex, Digits(es, 10, <<>>))
AtExponent(n, frac, ex) == Exponent(n, frac, ex, CommitIf(ex, {"-", "+"}))
Fraction(n, frac) == AtExponent(n, frac, CommitIf(frac.t, {"e", "E"}))
AtFraction(neg, hasint, int, dot) ==
    Fraction([neg |-> neg, hasint |-> hasint, int |-> int.ds, dot |-> dot # int.t],
             IF dot = int.t THEN [t |-> dot, ds |-> <<>>] ELSE Digits(dot, 10, <<>>))
Decimal(neg, zero, int) == AtFraction(neg, zero \/ int.ds # <<>>, int, CommitIf(int.t, {"."}))
Signed(neg, s, z) ==
    IF z # s /\ lookup(z) \in {"x", "X"} THEN Hexadecimal(neg, Digits(commit(z), 16, <<>>)) ELSE Decimal(neg, z # s, Digits(z, 10, <<>>))
Sign(t, s) ==
    IF s # t /\ lookup(s) \in {"I", "N"} THEN NamedNumber(lookup(t) = "-", s, parse_identifier([s EXCEPT !.val = <<>>]))
    ELSE Signed(lookup(t) = "-", s, CommitIf(s, {"0"}))
parse_number(t) == Sign(t, CommitIf(t, {"-", "+"}))

RECURSIVE skip_whitespace(_)
skip_whitespace(t) == IF ~Ended(t) /\ lookup(t) \in {" ", "\t", "\n", "\r", "\f"} THEN skip_whitespace(skip(t)) ELSE t
Punctuation == ("[" :> "LQ_BRACE") @@ ("]" :> "RQ_BRACE") @@ ("{" :> "LC_BRACE") @@ ("}" :> "RC_BRACE") @@ (":" :> "COLON") @@ ("," :> "COMMA")
Punctuated(t, s, d) ==        \* s: without the last value; d: behind the next character
    LET c == lookup(t)
    IN  IF Ended(t) THEN [t EXCEPT !.tok = IF t.end = "EOF" THEN "EOF" ELSE "ERROR", !.err = t.end]
        ELSE IF c \in DOMAIN Punctuation THEN Tok(d, Punctuation[c])
        ELSE IF c \in {"'", "\""} THEN parse_string(skip(s), c)
        ELSE IF c = "/" THEN
             (IF Ended(d) THEN [d EXCEPT !.err = "BAD_STATE"]
              ELSE IF lookup(d) = "/" THEN parse_single_line_comment([skip(d) EXCEPT !.val = <<>>])
              ELSE IF lookup(d) = "*" THEN parse_multiline_comment([skip(d) EXCEPT !.val = <<>>], "") ELSE commit(d))
        ELSE IF is_identifier_start(c) THEN parse_identifier(s) ELSE parse_number(s)
AtToken(t) == Punctuated(t, [t EXCEPT !.val = <<>>], commit([t EXCEPT !.val = <<>>]))
get_token(t) ==
    IF t.unget > 0 THEN [t EXCEPT !.unget = @ - 1] ELSE AtToken([skip_whitespace(t) EXCEPT !.tok = "UNKNOWN"])
unget(t) == [t EXCEPT !.unget = @ + 1]

----------------------------------------------------------------------------
\* Parser.cpp.  An operation gives the parser after it and a status.
Got(p, res) == [p |-> p, res |-> res]
Unknown == [type |-> "UNKNOWN", v |-> <<>>]
Parser(version) ==
    [open |-> FALSE, v5 |-> version = "JSON5", mode |-> "ROOT", flags |-> {}, stack |-> <<>>, cur |-> Unknown, t |-> Tokenizer(<<>>, "EOF")]
Wrap(p, in, end, version) ==
    IF p.open THEN Got(p, "BAD_STATE")
    ELSE Got([p EXCEPT !.open = TRUE, !.v5 = version = "JSON5", !.mode = "ROOT", !.flags = {}, !.t = Tokenizer(in, end)], "OK")
\* The forms that make the sequence: a file, a text or a stream ("res": how its
\* opening ended, "NULL" without one).  What was made is given up on failure.
wrap(p, from, version) ==
    IF p.open THEN Got(p, "BAD_STATE") ELSE IF from.res = "NULL" THEN Got(p, "BAD_ARGUMENTS")
    ELSE IF from.res # "OK" THEN Got(p, from.res) ELSE Wrap(p, from.in, "EOF", version)
open(p, path, version) == wrap(p, path, version)
close(p) == Got([p EXCEPT !.open = FALSE, !.cur = Unknown, !.stack = <<>>, !.t = Tokenizer(<<>>, "EOF")], "OK")
push_state(p, mode) == [p EXCEPT !.stack = Append(@, [mode |-> p.mode, flags |-> p.flags]), !.mode = mode, !.flags = {}]
pop_state(p) ==
    LET n == Len(p.stack)
    IN  IF n = 0 THEN Got(p, "BAD_STATE")
        ELSE Got([p EXCEPT !.mode = p.stack[n].mode, !.flags = p.stack[n].flags, !.stack = SubSeq(@, 1, n - 1)], "OK")
lookup_token(p) == [p EXCEPT !.t = get_token(@)]

Event(p, type, v) == [p EXCEPT !.cur = [type |-> type, v |-> v]]
Numeral(n) == <<IF n.neg THEN "-" ELSE "+", n.m, ToString(n.e)>>
read_primitive(p) ==
    LET tok == p.t.tok
    IN  CASE tok = "DQ_STRING" \/ (p.v5 /\ tok \in {"SQ_STRING", "IDENTIFIER"}) -> Got(Event(p, "STRING", p.t.val), "OK")
          [] tok \in {"TRUE", "FALSE"} -> Got(Event(p, "BOOL", <<tok>>), "OK")
          [] tok = "NULL" -> Got(Event(p, "NULL", <<>>), "OK")
          [] tok = "DECIMAL" \/ (p.v5 /\ tok = "HEXADECIMAL") -> Got(Event(p, "INTEGER", Numeral(p.t.num)), "OK")
          [] tok = "DOUBLE" -> Got(Event(p, "DOUBLE", Numeral(p.t.num)), "OK")
          [] OTHER -> Got(p, "BAD_TOKEN")
Strings == {"SQ_STRING", "DQ_STRING"}
Scalars == {"TRUE", "FALSE", "NULL", "DECIMAL", "DOUBLE", "HEXADECIMAL"}
Comments == {"SL_COMMENT", "ML_COMMENT"}
\* A value where one is allowed: p has the flags that follow it.
Value(p) ==
    CASE p.t.tok = "LQ_BRACE" -> Got(push_state(Event(p, "ARRAY_START", <<>>), "ARRAY"), "OK")
      [] p.t.tok = "LC_BRACE" -> Got(push_state(Event(p, "OBJECT_START", <<>>), "OBJECT"), "OK")
      [] OTHER -> read_primitive(p)
Flagged(p, flag) == [p EXCEPT !.flags = @ \cup {flag}]
\* What each state does with a token; after what it passes over it reads on.
Passed(p) == Got(p, "PASSED")
read_root(p) ==
    LET tok == p.t.tok
    IN  IF tok = "EOF" THEN Got(p, "EOF") ELSE IF tok = "ERROR" THEN Got(p, p.t.err)
        ELSE IF tok \in Comments /\ p.v5 THEN Passed(p)
        ELSE IF tok \in {"LQ_BRACE", "LC_BRACE"} \cup Strings \cup Scalars /\ "VALUE" \notin p.flags THEN Value(Flagged(p, "VALUE"))
        ELSE Got(p, "BAD_TOKEN")
read_array(p) ==
    LET tok == p.t.tok
    IN  IF tok = "EOF" THEN Got(p, "CORRUPTED") ELSE IF tok = "ERROR" THEN Got(p, p.t.err)
        ELSE IF tok \in Comments /\ p.v5 THEN Passed(p)
        ELSE IF tok = "COMMA" /\ p.flags = {"VALUE"} THEN Passed(Flagged(p, "COMMA"))
        ELSE IF tok = "RQ_BRACE" /\ ("COMMA" \notin p.flags \/ p.v5) THEN pop_state(Event(p, "ARRAY_END", <<>>))
        ELSE IF tok \in {"LQ_BRACE", "LC_BRACE"} \cup Strings \cup Scalars /\ p.flags \in {{}, {"VALUE", "COMMA"}} THEN Value([p EXCEPT !.flags = {"VALUE"}])
        ELSE Got(p, "BAD_TOKEN")
Named == {"PROPERTY", "COLON"}
Whole == Named \cup {"VALUE"}
NameOrValue(p, v) ==
    IF v.res # "OK" THEN v
    ELSE IF p.flags = Named THEN Got(Flagged(v.p, "VALUE"), "OK")
    ELSE Got([v.p EXCEPT !.flags = {"PROPERTY"}, !.cur.type = "PROPERTY"], "OK")
read_object(p) ==
    LET tok == p.t.tok
    IN  IF tok = "EOF" THEN Got(p, "CORRUPTED") ELSE IF tok = "ERROR" THEN Got(p, p.t.err)
        ELSE IF tok \in Comments /\ p.v5 THEN Passed(p)
        ELSE IF tok = "COMMA" /\ p.flags = Whole THEN Passed(Flagged(p, "COMMA"))
        ELSE IF tok = "COLON" /\ p.flags = {"PROPERTY"} THEN Passed(Flagged(p, "COLON"))
        ELSE IF tok = "RC_BRACE" /\ (p.flags \in {{}, Whole} \/ (p.flags = Whole \cup {"COMMA"} /\ p.v5)) THEN pop_state(Event(p, "OBJECT_END", <<>>))
        ELSE IF tok \in {"LQ_BRACE", "LC_BRACE"} \cup Scalars /\ p.flags = Named THEN Value(Flagged(p, "VALUE"))
        ELSE IF tok \notin Strings \cup {"IDENTIFIER"} THEN Got(p, "BAD_TOKEN")
        ELSE IF p.flags \notin {{}, Whole \cup {"COMMA"}, Named} THEN Got(p, "BAD_STATE")
        ELSE NameOrValue(p, read_primitive(p))
ByMode(p) == CASE p.mode = "ROOT" -> read_root(p) [] p.mode = "ARRAY" -> read_array(p) [] p.mode = "OBJECT" -> read_object(p)
RECURSIVE Reads(_)
OrOn(r) == IF r.res = "PASSED" THEN Reads(r.p) ELSE r
Reads(p) == OrOn(ByMode(lookup_token(p)))
read_next(p) == IF ~p.open THEN Got(p, "BAD_STATE") ELSE Reads(p)
Types == {"STRING", "DOUBLE", "INTEGER", "BOOL"}
get(p, type) ==
    IF ~p.open THEN "BAD_STATE" ELSE IF p.cur.type = type THEN "OK" ELSE IF p.cur.type = "NULL" THEN "NULL" ELSE "BAD_TYPE"
\* Takes the event, whatever its type is; a size is an integer not below 0.
Typed(r, type) == IF r.res # "OK" THEN r ELSE Got(r.p, get(r.p, type))
AsSize(r) == IF r.res = "OK" /\ r.p.cur.v[1] = "-" /\ r.p.cur.v[2] # "0" THEN Got(r.p, "UNDERFLOW") ELSE r
AsType(r, type) == CASE type = "ANY" -> r [] type = "SIZE" -> AsSize(Typed(r, "INTEGER")) [] OTHER -> Typed(r, type)
read(p, type) == AsType(read_next(p), type)

\* skip_current() reads what the current event has started to its end: the rest
\* of an array or of an object, or the value of a member; skip_next() reads the
\* next value to its end, as if after a name.
Starts == {"OBJECT_START", "ARRAY_START", "PROPERTY"}
RECURSIVE SkipFrom(_, _)
AfterItem(type, s) == IF s.res # "OK" \/ type = "PROPERTY" THEN s ELSE SkipFrom(type, s.p)
SkipRead(type, n) ==
    IF n.res # "OK" THEN n
    ELSE IF type = "ARRAY_START" /\ n.p.cur.type = "ARRAY_END" THEN n
    ELSE IF type = "OBJECT_START" /\ n.p.cur.type # "PROPERTY" THEN Got(n.p, IF n.p.cur.type = "OBJECT_END" THEN "OK" ELSE "BAD_TOKEN")
    ELSE AfterItem(type, SkipFrom(n.p.cur.type, n.p))
SkipFrom(type, p) == IF type \in Starts THEN SkipRead(type, read_next(p)) ELSE Got(p, "OK")
=============================================================================
