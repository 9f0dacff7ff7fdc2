------------------------------ MODULE JsonWriter -----------------------------
(***************************************************************************)
(* src/main/fmt/json/Serializer.cpp and dom.cpp: from calls to JSON text,  *)
(* and between texts and trees of nodes.                                   *)
(*                                                                         *)
(*   obj   the Serializer: open, mode, flags, ident, stack, settings, and  *)
(*         the text it has written                                         *)
(*   ret   OK, or FAILED for any other status of the last call             *)
(*   abs   events: those written since the serializer was opened; calls:   *)
(*         how many there were; comma: one was put between a name and its  *)
(*         value; rest: the last text was left before its end              *)
(* Characters and numbers are those of JsonParser, which the text is read  *)
(* with.  Left out: running out of memory, a sequence that does not write. *)
(***************************************************************************)
EXTENDS Integers, Sequences, FiniteSets, TLC

CONSTANTS Settings,         \* of the serializer
          Names, Remarks,   \* of members; of comments
          Odd,              \* characters strings are tried with
          MaxCalls          \* bound on the calls

VARIABLES obj, ret, abs
vars == <<obj, ret, abs>>

R == INSTANCE JsonParser
Chars(s) == R!Chars(s)

Res(w, res) == [w |-> w, res |-> res]
init_serial_flags == [version |-> "LEGACY", identifiers |-> FALSE, ident |-> " ", padding |-> 0, separator |-> FALSE, multiline |-> FALSE]
Serializer ==
    [open |-> FALSE, mode |-> "ROOT", flags |-> {}, ident |-> 0, stack |-> <<>>, set |-> init_serial_flags, out |-> <<>>]
\* The indentation is not set back.
wrap(w, settings) ==
    IF w.open THEN Res(w, "BAD_STATE") ELSE Res([w EXCEPT !.open = TRUE, !.mode = "ROOT", !.flags = {}, !.set = settings, !.out = <<>>], "OK")
\* What is made for a file, a text or a stream; "how": as its opening ended.
open(w, how, settings) ==
    IF w.open THEN Res(w, "BAD_STATE") ELSE IF how = "NULL" THEN Res(w, "BAD_ARGUMENTS") ELSE IF how # "OK" THEN Res(w, how) ELSE wrap(w, settings)
close(w) == Res([w EXCEPT !.open = FALSE, !.stack = <<>>], "OK")
push_state(w, mode) ==
    [w EXCEPT !.stack = Append(@, [mode |-> w.mode, flags |-> w.flags, ident |-> w.ident]), !.mode = mode, !.flags = {},
              !.ident = @ + w.set.padding]
pop_state(w) ==
    LET s == w.stack[Len(w.stack)]
    IN  [w EXCEPT !.mode = s.mode, !.flags = s.flags, !.ident = s.ident, !.stack = SubSeq(@, 1, Len(@) - 1)]

Put(w, text) == [w EXCEPT !.out = @ \o text]
Set(w, flags) == [w EXCEPT !.flags = @ \cup flags]
Clear(w, flags) == [w EXCEPT !.flags = @ \ flags]
writeln(w) == IF w.set.multiline THEN Put(Clear(w, {"CONTENT"}), <<"\n">> \o [i \in 1..w.ident |-> w.set.ident]) ELSE w
emit_comma(w) == IF w.flags \cap {"VALUE", "COMMA"} = {"VALUE"} THEN Put(Set(w, {"CONTENT"}), <<",">>) ELSE w
emit_separator(w) == IF w.set.separator /\ "CONTENT" \in w.flags THEN Put(w, <<" ">>) ELSE w
write_comma(w) ==
    IF ~w.open THEN Res(w, "BAD_STATE")
    ELSE IF w.mode = "ROOT" \/ w.flags \cap {"VALUE", "COMMA"} # {"VALUE"} THEN Res(w, "INVALID_VALUE")
    ELSE Res(Put(Set(w, {"COMMA"}), <<",">>), "OK")

\* Where a value may be, and what is written in front of it.
Misplaced(w) == (w.mode = "ROOT" /\ "VALUE" \in w.flags) \/ (w.mode = "OBJECT" /\ "PROPERTY" \notin w.flags)
Lead(w) == emit_separator(IF w.mode = "ARRAY" THEN writeln(emit_comma(w)) ELSE Clear(w, {"PROPERTY"}))
write_raw(w, text) ==
    IF ~w.open THEN Res(w, "BAD_STATE") ELSE IF Misplaced(w) THEN Res(w, "INVALID_VALUE")
    ELSE Res(Put(Set(Clear(Lead(w), {"COMMA"}), {"VALUE", "CONTENT"}), text), "OK")

Abs1(i) == IF i < 0 THEN 0 - i ELSE i
Sign(i) == IF i < 0 THEN <<"-">> ELSE <<>>
Hex(n) == SubSeq("0123456789abcdef", n + 1, n + 1)
RECURSIVE HexText(_)
HexText(n) == IF n < 16 THEN <<Hex(n)>> ELSE Append(HexText(n \div 16), Hex(n % 16))
write_int(w, i) == write_raw(w, Sign(i) \o Chars(ToString(Abs1(i))))
write_hex(w, i) ==
    IF w.open /\ w.set.version = "LEGACY" THEN Res(w, "INVALID_VALUE") ELSE write_raw(w, Sign(i) \o <<"0", "x">> \o HexText(Abs1(i)))
\* A double is its sign and millionths, or a name; "%f" writes six digits of them.
Point6(m) ==
    LET d == "000000" \o m
    IN  Chars(IF Len(m) > 6 THEN SubSeq(m, 1, Len(m) - 6) ELSE "0") \o <<".">> \o Chars(SubSeq(d, Len(d) - 5, Len(d)))
write_double(w, d) ==
    write_raw(w, (IF d[1] = "-" /\ d[2] # "NaN" THEN <<"-">> ELSE <<>>) \o (IF d[2] \in {"NaN", "Infinity"} THEN Chars(d[2]) ELSE Point6(d[2])))
write_bool(w, b) == write_raw(w, IF b THEN Chars("true") ELSE Chars("false"))
write_null(w) == write_raw(w, Chars("null"))

\* Characters as they are written between quotes and in comments.
Short == ("NUL" :> "0") @@ ("BS" :> "b") @@ ("\f" :> "f") @@ ("\r" :> "r") @@ ("\t" :> "t") @@ ("VT" :> "v") @@ ("\n" :> "n") @@ ("\\" :> "\\") @@ ("\"" :> "\"")
hex(n) == SubSeq("0123456789ABCDEF", n + 1, n + 1)
Unit(u) == <<"\\", "u", hex(u \div 4096), hex((u \div 256) % 16), hex((u \div 16) % 16), hex(u % 16)>>
Code(c) == IF \E o \in Odd : o.c = c THEN (CHOOSE o \in Odd : o.c = c).code ELSE 97
Escaped(c) ==
    LET n == Code(c)
    IN  IF c \in DOMAIN Short THEN <<"\\", Short[c]>>
        ELSE IF n < 32 THEN Unit(n)
        ELSE IF n >= 65536 THEN Unit(55296 + (n - 65536) \div 1024) \o Unit(56320 + (n % 1024))
        ELSE <<c>>
Literal(s) == <<"\"">> \o R!Join([i \in 1..Len(s) |-> Escaped(s[i])]) \o <<"\"">>
write_literal(w, s) == Put(Set(w, {"CONTENT"}), Literal(s))
write_string(w, s) == write_raw(w, Literal(s))
RemarkChar(s, i, multiline) ==
    LET prev == IF i = 1 THEN "" ELSE s[i - 1]
    IN  CASE s[i] = "/" /\ prev = "*" -> Unit(47) [] s[i] = "*" /\ prev = "/" -> Unit(42)
          [] s[i] = "\n" /\ ~multiline -> Unit(10) [] OTHER -> <<s[i]>>
write_comment(w, s) ==
    IF ~w.open THEN Res(w, "BAD_STATE") ELSE IF w.set.version = "LEGACY" THEN Res(w, "INVALID_VALUE")
    ELSE Res(Put(Set(emit_separator(w), {"CONTENT"}),
                 <<"/", "*">> \o R!Join([i \in 1..Len(s) |-> RemarkChar(s, i, w.set.multiline)]) \o <<"*", "/">>), "OK")
write_property(w, name) ==
    LET n == Set(Clear(writeln(emit_comma(w)), {"COMMA"}), {"PROPERTY", "CONTENT"})
        bare == w.set.identifiers /\ w.set.version = "JSON5" /\ R!is_valid_identifier(name)
    IN  IF ~w.open \/ w.mode # "OBJECT" THEN Res(w, "BAD_STATE")
        ELSE IF "PROPERTY" \in w.flags THEN Res(w, "INVALID_VALUE")
        ELSE Res(Put(IF bare THEN Put(n, name) ELSE write_literal(n, name), <<":">>), "OK")
Start(w, mode, bracket) ==
    IF ~w.open THEN Res(w, "BAD_STATE") ELSE IF Misplaced(w) THEN Res(w, "INVALID_VALUE")
    ELSE Res(push_state(Put(Set(Lead(w), {"VALUE", "CONTENT"}), <<bracket>>), mode), "OK")
End(w, mode, bracket) ==
    LET p == pop_state(w)
        q == IF "VALUE" \in w.flags THEN writeln(p) ELSE p
    IN  IF ~w.open \/ w.mode # mode \/ "PROPERTY" \in w.flags THEN Res(w, "BAD_STATE")
        ELSE IF "COMMA" \in w.flags /\ w.set.version = "LEGACY" THEN Res(w, "INVALID_VALUE")
        ELSE Res(Put(Set(Clear(q, {"COMMA"}), {"CONTENT"}), <<bracket>>), "OK")
start_object(w) == Start(w, "OBJECT", "{")
end_object(w) == End(w, "OBJECT", "}")
start_array(w) == Start(w, "ARRAY", "[")
end_array(w) == End(w, "ARRAY", "]")
\* The value may be refused when the name is written.
Named(n, value(_)) == IF n.res = "OK" THEN value(n.w) ELSE n
Prop(w, name, value(_)) == Named(write_property(w, name), value)
prop_int(w, name, i) == LET v(x) == write_int(x, i) IN Prop(w, name, v)
prop_hex(w, name, i) == LET v(x) == write_hex(x, i) IN Prop(w, name, v)
prop_double(w, name, d) == LET v(x) == write_double(x, d) IN Prop(w, name, v)
prop_bool(w, name, b) == LET v(x) == write_bool(x, b) IN Prop(w, name, v)
prop_string(w, name, s) == LET v(x) == write_string(x, s) IN Prop(w, name, v)
prop_null(w, name) == Prop(w, name, write_null)
write(w, e) ==
    CASE e.type = "OBJECT_START" -> start_object(w) [] e.type = "OBJECT_END" -> end_object(w)
      [] e.type = "ARRAY_START" -> start_array(w) [] e.type = "ARRAY_END" -> end_array(w)
      [] e.type = "PROPERTY" -> write_property(w, e.v) [] e.type = "STRING" -> write_string(w, e.v)
      [] e.type = "BOOL" -> write_bool(w, e.v = <<"TRUE">>) [] e.type = "NULL" -> write_null(w)
      [] e.type = "INTEGER" -> write_raw(w, (IF e.v[1] = "-" THEN <<"-">> ELSE <<>>) \o Chars(e.v[2]))
      [] e.type = "DOUBLE" -> write_double(w, e.v)
      [] OTHER -> Res(w, "BAD_ARGUMENTS")

----------------------------------------------------------------------------
\* dom.cpp.  A tree: a null, a scalar with its event, an array of items or an
\* object of members, each name once.
Null == [k |-> "null", v |-> <<>>]
Scalar(e) == IF e.type = "NULL" THEN Null ELSE [k |-> "scalar", v |-> <<e>>]
Collected == {"ARRAY_START", "OBJECT_START"}
dom_parse_item(e) == CASE e.type = "OBJECT_START" -> [k |-> "object", v |-> <<>>] [] e.type = "ARRAY_START" -> [k |-> "array", v |-> <<>>]
                       [] OTHER -> Scalar(e)
Tree(p, res, node) == [p |-> p, res |-> res, node |-> node]
Branch(node) == node.k \in {"array", "object"}
\* The stack of the code is the recursion here; what it is empty under is the
\* root.  name: empty, or the name of the member whose value is to come.  A root
\* that is neither array nor object is read and lost.
RECURSIVE Filled(_, _, _)
With(node, name, sub) ==
    IF sub.res # "OK" THEN sub
    ELSE IF node.k = "root" THEN Tree(sub.p, "OK", IF Branch(sub.node) THEN sub.node ELSE Null)
    ELSE Filled(sub.p, [node EXCEPT !.v = Append(@, IF node.k = "object" THEN [name |-> name[1], node |-> sub.node] ELSE sub.node)], <<>>)
Made(p, item) == IF Branch(item) THEN Filled(p, item, <<>>) ELSE Tree(p, "OK", item)
Next1(node, name, r) ==
    LET e == r.p.cur
    IN  IF r.res # "OK" THEN Tree(r.p, r.res, node)
        ELSE IF name # <<>> \/ node.k = "root" \/ (node.k = "array" /\ e.type # "ARRAY_END") THEN With(node, name, Made(r.p, dom_parse_item(e)))
        ELSE IF e.type \in {"ARRAY_END", "OBJECT_END"} THEN Tree(r.p, "OK", node)
        ELSE IF e.type # "PROPERTY" \/ \E i \in DOMAIN node.v : node.v[i].name = e.v THEN Tree(r.p, "BAD_FORMAT", node)
        ELSE Filled(r.p, node, <<e.v>>)
Filled(p, node, name) == Next1(node, name, R!read_next(p))
Ended(t, strict) ==
    IF t.res # "OK" THEN t ELSE IF strict /\ R!read_next(t.p).res # "EOF" THEN Tree(t.p, "BAD_FORMAT", Null) ELSE t
dom_parse_root(p, strict) == Ended(Filled(p, [k |-> "root", v |-> <<>>], <<>>), strict)
\* Every form opens a parser, and gives the tree only if all went well.
Given(node, t) == [res |-> t.res, node |-> IF t.res = "OK" THEN t.node ELSE node]
dom_parse(node, text, version, flexible) ==
    Given(node, dom_parse_root(R!Wrap(R!Parser(version), text, "EOF", version).p, ~flexible))
dom_load(node, opened, text, version) == IF opened # "OK" THEN [res |-> opened, node |-> node] ELSE dom_parse(node, text, version, FALSE)

RECURSIVE dom_serialize(_, _), Written(_, _, _)
\* Members are written in the order of their names, here that of Names.
Ordered(members) ==
    LET place(m) == CHOOSE i \in 1..Len(Names) : Names[i] = m.name
        count(m) == Cardinality({i \in DOMAIN members : place(members[i]) <= place(m)})
    IN  [i \in DOMAIN members |-> CHOOSE m \in {members[j] : j \in DOMAIN members} : count(m) = i]
After(r, items, i) == IF r.res # "OK" THEN r ELSE Written(r.w, items, i + 1)
Titled(n, items, i) ==
    IF n.res # "OK" THEN n ELSE After(dom_serialize(n.w, IF n.w.mode = "OBJECT" THEN items[i].node ELSE items[i]), items, i)
Written(w, items, i) ==
    IF i > Len(items) THEN Res(w, "OK")
    ELSE Titled(IF w.mode = "OBJECT" THEN write_property(w, items[i].name) ELSE Res(w, "OK"), items, i)
Closed(r, t) == IF r.res # "OK" THEN r ELSE IF t.k = "array" THEN end_array(r.w) ELSE end_object(r.w)
Opened(s, t) == IF s.res # "OK" THEN s ELSE Closed(Written(s.w, IF t.k = "array" THEN t.v ELSE Ordered(t.v), 1), t)
dom_serialize(w, t) ==
    CASE t.k = "null" -> write_null(w)
      [] t.k = "scalar" -> write(w, t.v[1])
      [] OTHER -> Opened(IF t.k = "array" THEN start_array(w) ELSE start_object(w), t)
TextOf(r) == [res |-> r.res, text |-> close(r.w).w.out]
dom_write(t, settings) == TextOf(dom_serialize(wrap(Serializer, settings).w, t))
dom_save(opened, t, settings) == IF opened # "OK" THEN [res |-> opened, text |-> <<>>] ELSE dom_write(t, settings)

----------------------------------------------------------------------------
Num(i) == <<IF i < 0 THEN "-" ELSE "+", ToString(Abs1(i)), "0">>
Ev(type, v) == <<[type |-> type, v |-> v]>>
Int1 == Ev("INTEGER", Num(-26))
Text1 == Ev("STRING", <<"a">>)
Init ==
    /\ \E s \in Settings : obj = open(Serializer, "OK", s).w
    /\ ret = "OK"
    /\ abs = [events |-> <<>>, calls |-> 0, comma |-> FALSE, rest |-> FALSE]
\* A call, and the events it writes.
Call(r, events) ==
    /\ abs.calls < MaxCalls
    /\ obj' = r.w
    /\ ret' = IF r.res = "OK" THEN "OK" ELSE "FAILED"
    /\ abs' = [abs EXCEPT !.calls = IF r.w = obj THEN @ ELSE @ + 1, !.events = IF r.res = "OK" THEN @ \o events ELSE @]
StartObject == Call(start_object(obj), Ev("OBJECT_START", <<>>))
EndObject == Call(end_object(obj), Ev("OBJECT_END", <<>>))
StartArray == Call(start_array(obj), Ev("ARRAY_START", <<>>))
EndArray == Call(end_array(obj), Ev("ARRAY_END", <<>>))
WriteProperty == \E i \in DOMAIN Names : Call(write_property(obj, Names[i]), Ev("PROPERTY", Names[i]))
WriteValue == Call(write_int(obj, -26), Int1) \/ Call(write_hex(obj, -26), Int1) \/ Call(write_string(obj, <<"a">>), Text1)
WriteComment == \E s \in Remarks : Call(write_comment(obj, s), <<>>)
Comma(r) ==
    /\ obj' = r.w /\ ret' = IF r.res = "OK" THEN "OK" ELSE "FAILED"
    /\ abs' = [abs EXCEPT !.calls = IF r.w = obj THEN @ ELSE @ + 1, !.comma = @ \/ (r.res = "OK" /\ "PROPERTY" \in obj.flags)]
WriteComma ==
    /\ abs.calls < MaxCalls
    /\ Comma(write_comma(obj))
WriteMember ==
    \E i \in DOMAIN Names :
       \/ Call(prop_int(obj, Names[i], -26), Ev("PROPERTY", Names[i]) \o Int1)
       \/ Call(prop_string(obj, Names[i], <<"a">>), Ev("PROPERTY", Names[i]) \o Text1)
\* The serializer is closed, and opened for another text.
Reopen ==
    /\ obj.open /\ abs.calls < MaxCalls /\ abs.calls > 0
    /\ obj' = open(close(obj).w, "OK", obj.set).w /\ ret' = "OK"
    /\ abs' = [events |-> <<>>, calls |-> abs.calls + 1, comma |-> FALSE, rest |-> abs.rest \/ obj.stack # <<>>]
Next == StartObject \/ EndObject \/ StartArray \/ EndArray \/ WriteProperty \/ WriteValue \/ WriteComment \/ WriteComma \/ WriteMember \/ Reopen

----------------------------------------------------------------------------
RECURSIVE ReadEvents(_, _)
ReadOn(r, events) == IF r.res = "OK" THEN ReadEvents(r.p, Append(events, r.p.cur)) ELSE [events |-> events, res |-> r.res]
ReadEvents(p, events) == ReadOn(R!read_next(p), events)
ReadBack(w) == ReadEvents(R!Wrap(R!Parser(w.set.version), w.out, "EOF", w.set.version).p, <<>>)
\* What has been written at any moment is read back as the events that were
\* written, in every setting: text that is refused later, or read otherwise, is
\* never produced, whatever the order of the calls was.  (A comma that the user
\* puts between a name and its value is written.)
WrittenIsRead == ~abs.comma => ReadBack(obj) = [events |-> abs.events, res |-> IF obj.stack = <<>> THEN "EOF" ELSE "CORRUPTED"]

Depth(text) == Cardinality({i \in DOMAIN text : text[i] \in {"[", "{"}}) - Cardinality({i \in DOMAIN text : text[i] \in {"]", "}"}})
\* In the multi-line form a line is indented by what is open before it, the
\* bracket it starts with aside (writeln, push_state, pop_state).
LinesIndented ==
    obj.set.multiline /\ ~abs.rest =>
        \A i \in DOMAIN obj.out : obj.out[i] = "\n" /\ i < Len(obj.out) /\ obj.out[i + 1] # "*" =>
            LET closing == \E j \in i + 1..Len(obj.out) : obj.out[j] \in {"]", "}"} /\ \A k \in i + 1..j - 1 : obj.out[k] = obj.set.ident
                n == (Depth(SubSeq(obj.out, 1, i)) - (IF closing THEN 1 ELSE 0)) * obj.set.padding
            IN  /\ i + n <= Len(obj.out) /\ \A k \in i + 1..i + n : obj.out[k] = obj.set.ident
                /\ i + n < Len(obj.out) => obj.out[i + n + 1] # obj.set.ident

\* A call that is refused has written nothing.
RefusedWritesNothingStep == ret' = "FAILED" => obj' = obj
RefusedWritesNothing == [][RefusedWritesNothingStep]_vars

Once == abs.calls = 0 /\ abs.events = <<>> /\ ret = "OK"
Doubles == {<<"+", "NaN", "0">>, <<"+", "Infinity", "0">>, <<"-", "Infinity", "0">>, <<"+", "1500000", "-6">>, <<"-", "70", "-6">>}
OddTexts == UNION {[1..n -> {o.c : o \in Odd}] : n \in 0..2}
Scalars ==
    {[type |-> "DOUBLE", v |-> d] : d \in Doubles} \cup {[type |-> "BOOL", v |-> <<b>>] : b \in {"TRUE", "FALSE"}} \cup {[type |-> "NULL", v |-> <<>>]}
        \cup {[type |-> "STRING", v |-> s] : s \in OddTexts} \cup {[type |-> "INTEGER", v |-> Num(i)] : i \in {0, -26}}
A(items) == [k |-> "array", v |-> items]
O(members) == [k |-> "object", v |-> members]
Small == {Null, Scalar(Text1[1]), A(<<>>), O(<<>>)}
Flat == {A(<<x, y>>) : x, y \in Small} \cup {O(<<[name |-> n, node |-> x]>>) : n \in {Names[i] : i \in DOMAIN Names}, x \in Small}
Trees == Flat \cup {A(<<x, Null>>) : x \in Flat} \cup {O([i \in DOMAIN Names |-> [name |-> Names[i], node |-> IF i = 1 THEN x ELSE Null]]) : x \in Flat}
Backwards(t) == IF t.k = "object" THEN [t EXCEPT !.v = [i \in DOMAIN @ |-> @[Len(@) + 1 - i]]] ELSE t
Case1(w, events) == [w |-> w, events |-> events]
Alone == {Case1(write(obj, e).w, <<e>>) : e \in Scalars}
Opening == Ev("OBJECT_START", <<>>) \o Ev("PROPERTY", Names[1])
Members(w) ==
    LET d == <<"-", "70", "-6">>
    IN  {Case1(prop_bool(w, Names[1], TRUE).w, Opening \o Ev("BOOL", <<"TRUE">>)), Case1(prop_null(w, Names[1]).w, Opening \o Ev("NULL", <<>>)),
         Case1(prop_double(w, Names[1], d).w, Opening \o Ev("DOUBLE", d))}
Loaded(text, res, node) == [text |-> text, res |-> res, node |-> node]
Documents ==
    {Loaded(dom_save("OK", Backwards(t), obj.set).text, "OK", t) : t \in Trees} \cup {Loaded(Chars("{\"a\":1,\"a\":2}"), "BAD_FORMAT", Null)}
\* Every scalar and every text is read back as itself, and a tree of arrays and
\* objects that is written and parsed is the same tree again, in every setting
\* (write_raw, write_literal, dom_serialize, dom_parse).
SameAgain ==
    Once =>
        /\ \A c \in Alone \cup Members(start_object(obj).w) : ReadBack(c.w).events = c.events
        /\ \A d \in Documents : dom_load(Null, "OK", d.text, obj.set.version) = [res |-> d.res, node |-> d.node]
=============================================================================
