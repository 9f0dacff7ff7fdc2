-------------------------------- MODULE Osc ---------------------------------
(***************************************************************************)
(* src/main/protocol/osc/forge.cpp and parse.cpp: a packet of the Open     *)
(* Sound Control protocol is written into a buffer through a chain of      *)
(* frames, closed, and read again through another chain of frames.         *)
(*                                                                         *)
(*   obj   f: the buffer being written, with its frames; p: the parser of  *)
(*         the packet, with its own; a frame that has ended is the one     *)
(*         after the last                                                  *)
(*   ret   OK, NULL, or FAILED for any other status of the last call       *)
(*   abs   events: what the calls that succeeded have written; torn: a     *)
(*         call has failed after it had written something, or has put an   *)
(*         address behind a prefix that is not of whole words; phase:      *)
(*         forge, parse, or none when there is no packet to read; ended:   *)
(*         the root frame has ended; damaged: a size in the packet has     *)
(*         been changed on its way; calls: the calls that changed something *)
(* Bytes are numbers, and so are the characters of addresses and strings.  *)
(* A float or double stands for its bytes.  Memory does not run out.       *)
(***************************************************************************)
EXTENDS Integers, Sequences, FiniteSets, SequencesExt, TLC

CONSTANTS Sizes,        \* the sizes of buffers; 0 for a dynamic one
          Addresses,    \* prefixes and addresses
          Params,       \* parameters given one by one
          Lists,        \* lists of parameters for forge_message() and parse_message()
          MaxForge, MaxParse    \* bounds on the calls that change something

VARIABLES obj, ret, abs
vars == <<obj, ret, abs>>

Midi == INSTANCE Midi

----------------------------------------------------------------------------
\* types.h: the types of parameters, and the words of a packet.
FPT == [i |-> 105, f |-> 102, s |-> 115, b |-> 98, h |-> 104, t |-> 116, d |-> 100, S |-> 83, c |-> 99, r |-> 114,
        m |-> 109, T |-> 84, F |-> 70, N |-> 78, I |-> 73, open |-> 91, close |-> 93]
Bundle == <<35, 98, 117, 110, 100, 108, 101, 0>>
Zeros(n) == [i \in 1..n |-> 0]
BE32(n) == <<(n \div 16777216) % 256, (n \div 65536) % 256, (n \div 256) % 256, n % 256>>
BE64(n) == Zeros(4) \o BE32(n)
Number(bytes) == FoldLeft(LAMBDA n, b : 256 * n + b, 0, bytes)
Padded(n) == 4 * ((n + 3) \div 4)
Ev(name, val) == [ev |-> name, val |-> val]

----------------------------------------------------------------------------
\* forge.cpp
Res(res, f) == [res |-> res, f |-> f]
Then(r, Next_(_)) == IF r.res = "OK" THEN Next_(r.f) ELSE r
Frame(type, offset) == [type |-> type, offset |-> offset]
forge_begin(size, dynamic) ==
    [data |-> <<>>, cap |-> size, dynamic |-> dynamic, refs |-> 1, toff |-> 0, tsize |-> 0, frames |-> <<Frame("ROOT", 0)>>]
forge_check_capacity(f, capacity) ==
    IF capacity <= f.cap THEN Res("OK", f)
    ELSE IF ~f.dynamic THEN Res("OVERFLOW", f) ELSE Res("OK", [f EXCEPT !.cap = (3 * capacity) \div 2])
forge_append_bytes(f, bytes) ==
    Then(forge_check_capacity(f, Len(f.data) + Len(bytes)), LAMBDA g : Res("OK", [g EXCEPT !.data = @ \o bytes]))
forge_append_padded(f, bytes) == forge_append_bytes(f, bytes \o Zeros(Padded(Len(bytes)) - Len(bytes)))
\* The frame i of the chain, and whether it is the last one.
TypeAt(f, i) == IF i > Len(f.frames) THEN "UNKNOWN" ELSE f.frames[i].type
IsTop(f, i) == i >= Len(f.frames)
InMessage(f, i) == IsTop(f, i) /\ TypeAt(f, i) \in {"MESSAGE", "ARRAY"}
\* A parameter: its type goes into the list of types, which moves what comes
\* after it when it grows by a word, and its data to the end.
forge_parameter(f, i, type, bytes) ==
    LET old == Padded(f.tsize)
        grows == old # Padded(f.tsize + 1)
        at == f.toff + old
        moved == IF grows THEN SubSeq(f.data, 1, at) \o Zeros(4) \o SubSeq(f.data, at + 1, Len(f.data)) ELSE f.data
        typed == [moved EXCEPT ![f.toff + f.tsize] = FPT[type]]
    IN  IF ~InMessage(f, i) THEN Res("BAD_STATE", f)
        ELSE Then(forge_check_capacity(f, Len(f.data) + (IF grows THEN 4 ELSE 0) + Padded(Len(bytes))),
                  LAMBDA g : Res("OK", [g EXCEPT !.data = typed \o bytes \o Zeros(Padded(Len(bytes)) - Len(bytes)), !.tsize = @ + 1]))
Push(f, type, offset) == [f EXCEPT !.frames = Append(@, Frame(type, offset)), !.refs = @ + 1]
\* An element can begin here, after its size when it is in a bundle.
Misplaced(f, i) == ~IsTop(f, i) \/ TypeAt(f, i) \notin {"ROOT", "BUNDLE"} \/ (TypeAt(f, i) # "BUNDLE" /\ f.data # <<>>)
Size0(f, i) == IF TypeAt(f, i) = "BUNDLE" THEN BE32(0) ELSE <<>>
forge_begin_bundle(f, i, tag) ==
    IF Misplaced(f, i) THEN Res("BAD_STATE", f)
    ELSE Then(forge_append_bytes(f, Size0(f, i) \o Bundle \o BE64(tag)), LAMBDA g : Res("OK", Push(g, "BUNDLE", Len(f.data))))
\* Four writes, each of which may not fit: what has been written stays.  The
\* prefix is not filled up to a word.
forge_begin_message(f, i, prefix, address) ==
    LET typed(g) == forge_append_bytes([g EXCEPT !.toff = Len(g.data), !.tsize = 2], <<44, 0, 0, 0>>)
    IN  IF Misplaced(f, i) THEN Res("BAD_STATE", f)
        ELSE Then(forge_append_bytes(f, Size0(f, i)), LAMBDA a :
                 Then(forge_append_bytes(a, prefix), LAMBDA b :
                     Then(forge_append_padded(b, address \o <<0>>), LAMBDA c :
                         Then(typed(c), LAMBDA d : Res("OK", Push(d, "MESSAGE", Len(f.data)))))))
forge_begin_array(f, i) == Then(forge_parameter(f, i, "open", <<>>), LAMBDA g : Res("OK", Push(g, "ARRAY", 0)))

\* What a value is written as.  The length of a blob is written before it is
\* known whether the parameter fits.
Bytes(type, v) ==
    CASE type \in {"i", "r"} -> BE32(v[1])
      [] type = "c" -> BE32(v[1] % 256)
      [] type \in {"h", "t"} -> BE64(v[1])
      [] type \in {"s", "S"} -> v \o <<0>>
      [] type \in {"f", "d", "b"} -> v
      [] OTHER -> <<>>
forge_blob(f, i, v) ==
    IF ~InMessage(f, i) THEN Res("BAD_STATE", f)
    ELSE Then(forge_append_bytes(f, BE32(Len(v))), LAMBDA g : forge_parameter(g, i, "b", v))
forge_midi(f, i, event) == forge_parameter(f, i, "m", Midi!encode(event))
forge_midi_raw(f, i, bytes) == IF Len(bytes) \notin 1..3 THEN Res("BAD_ARGUMENTS", f) ELSE forge_parameter(f, i, "m", bytes)
Forge(f, i, q) ==
    CASE q.ev = "b" -> forge_blob(f, i, q.val) [] q.ev = "m" -> forge_midi_raw(f, i, q.val)
      [] OTHER -> forge_parameter(f, i, q.ev, Bytes(q.ev, q.val))
\* The end of a frame; a frame of a bundle has its size then.
Pop(f) == [f EXCEPT !.refs = @ - 1, !.frames = Front(@)]
Popped(r) == Res(r.res, Pop(r.f))
forge_end(f, i) ==
    LET type == TypeAt(f, i)
        top == f.frames[i]
        size == BE32(Len(f.data) - top.offset - 4)
        sized == [k \in DOMAIN f.data |-> IF k \in (top.offset + 1)..(top.offset + 4) THEN size[k - top.offset] ELSE f.data[k]]
    IN  IF ~IsTop(f, i) \/ type = "UNKNOWN" \/ (type = "ROOT" /\ f.refs <= 0) THEN Res("BAD_STATE", f)
        ELSE IF type = "ROOT" THEN Res("OK", [f EXCEPT !.refs = @ - 1])
        ELSE IF type = "ARRAY" THEN Popped(forge_parameter(f, i, "close", <<>>))
        ELSE Res("OK", Pop(IF f.frames[i - 1].type = "BUNDLE" THEN [f EXCEPT !.data = sized] ELSE f))
\* A whole message.  An infinite number and no string are parameters of
\* their own; a list with open arrays, or that closes what is not open, is
\* refused after the message has been written.
Deeper(depth, type) == CASE type = "open" -> depth + 1 [] type = "close" -> depth - 1 [] OTHER -> depth
RECURSIVE ForgeList(_, _, _)
ForgeList(f, list, depth) ==
    IF list = <<>> THEN Res(IF depth = 0 THEN "OK" ELSE "BAD_FORMAT", f)
    ELSE IF Head(list).ev = "m" THEN Res("NOT_SUPPORTED", f)
    ELSE Then(Forge(f, Len(f.frames), Head(list)), LAMBDA g :
             IF Deeper(depth, Head(list).ev) < 0 THEN Res("BAD_FORMAT", g) ELSE ForgeList(g, Tail(list), Deeper(depth, Head(list).ev)))
\* The message ends whatever has become of its list.
EndOf(l) == [forge_end(l.f, Len(l.f.frames)) EXCEPT !.res = IF l.res = "OK" THEN @ ELSE l.res]
forge_message(f, i, address, list) == Then(forge_begin_message(f, i, <<>>, address), LAMBDA g : EndOf(ForgeList(g, list, 0)))
forge_close(f) == IF f.refs > 0 \/ (f.dynamic /\ f.cap = 0) THEN "BAD_STATE" ELSE "OK"

----------------------------------------------------------------------------
\* parse.cpp.  The list of types of the message that is being read is args,
\* with the zero that ends it, and empty when there is none.
Out(res, p, val) == [res |-> res, p |-> p, val |-> val]
Not(res, p) == Out(res, p, <<>>)
Limit(type, limit) == [type |-> type, limit |-> limit]
parse_begin(data) ==
    [data |-> data, offset |-> 0, refs |-> 1, args |-> <<>>, frames |-> <<Limit("ROOT", Len(data))>>]
CanParse(data) == Len(data) >= 4 /\ Len(data) % 4 = 0
Sub(p, at, n) == SubSeq(p.data, at + 1, at + n)
Word(p, at) == Number(Sub(p, at, 4))
\* The length of a string, and what it takes with the zeros after it.
StrLen(p, at, left) ==
    LET ends == {n \in 0..(left - 1) : p.data[at + n + 1] = 0} IN IF ends = {} THEN left ELSE CHOOSE n \in ends : \A k \in ends : n <= k
Kind(p, i) == IF i > Len(p.frames) THEN "UNKNOWN" ELSE p.frames[i].type
Lim(p, i) == p.frames[i].limit
Left(p, i) == Lim(p, i) - p.offset
Reading(p, i) == i = Len(p.frames) /\ Kind(p, i) \notin {"UNKNOWN", "LOST"}
Holds(p, i) == Reading(p, i) /\ Kind(p, i) \in {"ROOT", "BUNDLE"}

\* The element that is next: where it starts, how long it is, and what is
\* left from there.
Sized(p, size, left) == [at |-> p.offset + 4, size |-> size, left |-> left - 4, fits |-> left >= size]
Element(p, i) ==
    IF Kind(p, i) = "ROOT" THEN [at |-> p.offset, size |-> Len(p.data), left |-> Left(p, i), fits |-> TRUE]
    ELSE IF Left(p, i) <= 4 THEN [at |-> p.offset, size |-> 0, left |-> 0, fits |-> FALSE]
    ELSE Sized(p, Word(p, p.offset) + 4, Left(p, i))
IsBundle(p, at) == Sub(p, at, 8) = Bundle
TokenOf(p, e, size) ==
    IF e.left < size THEN "CORRUPTED"
    ELSE IF size >= 4 /\ p.data[e.at + 1] = 47 THEN "MESSAGE"
    ELSE IF size >= 16 /\ IsBundle(p, e.at) THEN "BUNDLE" ELSE "CORRUPTED"
Content(p, i, e) == IF Kind(p, i) = "ROOT" THEN e.size ELSE e.size - 4
ElementToken(p, i, e) == TokenOf(p, e, Content(p, i, e))
parse_token(p, i) ==
    LET c == Head(p.args)
    IN  IF ~Reading(p, i) THEN "BAD_STATE"
        ELSE IF Holds(p, i)
        THEN IF Left(p, i) = 0 THEN "EOR"
             ELSE IF Kind(p, i) = "ROOT" /\ p.offset > 0 THEN "CORRUPTED" ELSE ElementToken(p, i, Element(p, i))
        ELSE IF p.args = <<>> THEN "BAD_STATE"
        ELSE CASE c = FPT.open -> "ARRAY"
               [] c = FPT.close -> IF Kind(p, i) = "ARRAY" THEN "EOR" ELSE "CORRUPTED"
               [] c = 0 -> IF Kind(p, i) = "MESSAGE" /\ Left(p, i) <= 0 THEN "EOR" ELSE "CORRUPTED"
               [] OTHER -> CHOOSE t \in DOMAIN FPT : FPT[t] = c
Enter(p, i, type, limit, offset, args, val) ==
    Out("OK", [p EXCEPT !.frames = Append(@, Limit(type, limit)), !.offset = offset, !.args = args, !.refs = @ + 1], val)
\* The address ends before what is left does, and so does the list of types
\* that follows it; without a list there are no parameters.
Address(p, i, e) ==
    CASE ~Holds(p, i) -> "BAD_STATE"
      [] Holds(p, i) /\ (~e.fits \/ e.left <= 4) -> "CORRUPTED"
      [] Holds(p, i) /\ e.fits /\ e.left > 4 ->
             IF p.data[e.at + 1] # 47 THEN "BAD_TYPE" ELSE IF StrLen(p, e.at, e.left) >= e.left THEN "CORRUPTED" ELSE "OK"
Types(p, i, e, n, at, left, k) ==
    LET enters(args, to) == Enter(p, i, "MESSAGE", p.offset + e.size, to, args, Sub(p, e.at, n))
    IN  IF left <= 0 THEN enters(<<0>>, at)
        ELSE IF p.data[at + 1] # 44 \/ k >= left THEN Not("CORRUPTED", p)
        ELSE enters(Sub(p, at + 1, k), at + Padded(k + 1))
AfterAddress(p, i, e, n, at, left) == Types(p, i, e, n, at, left, StrLen(p, at, left))
Titled(p, i, e, n) == AfterAddress(p, i, e, n, e.at + Padded(n + 1), e.left - Padded(n + 1))
MessageAt(p, i, e) == IF Address(p, i, e) = "OK" THEN Titled(p, i, e, StrLen(p, e.at, e.left)) ELSE Not(Address(p, i, e), p)
parse_begin_message(p, i) == MessageAt(p, i, Element(p, i))
\* A bundle that nothing follows, in it or after it, is refused.
BundleAt(p, i, e) ==
    IF ~Holds(p, i) THEN Not("BAD_STATE", p)
    ELSE IF ~e.fits \/ e.left <= 16 THEN Not("CORRUPTED", p)
    ELSE IF ~IsBundle(p, e.at) THEN Not("BAD_TYPE", p)
    ELSE Enter(p, i, "BUNDLE", p.offset + e.size, e.at + 16, <<>>, <<Word(p, e.at + 12)>>)
parse_begin_bundle(p, i) == BundleAt(p, i, Element(p, i))
RawAt(p, i, e) == IF Address(p, i, e) = "OK" THEN Out("OK", p, Sub(p, e.at, Content(p, i, e))) ELSE Not(Address(p, i, e), p)
parse_raw_message(p, i) == RawAt(p, i, Element(p, i))
parse_check_msg(p, i) == Reading(p, i) /\ ~Holds(p, i) /\ p.args # <<>>
parse_begin_array(p, i) ==
    IF ~parse_check_msg(p, i) \/ Head(p.args) # FPT.open THEN Not("BAD_STATE", p)
    ELSE Enter(p, i, "ARRAY", Lim(p, i), p.offset, Tail(p.args), <<>>)

\* Values.  A value takes its bytes and its type; a null one only its type.
Take(p, n, res, val) == Out(res, [p EXCEPT !.offset = @ + n, !.args = Tail(@)], val)
Otherwise(p, i) ==
    CASE Head(p.args) = 0 -> Not(IF p.offset = Lim(p, i) THEN "EOF" ELSE "CORRUPTED", p)
      [] Head(p.args) = FPT.N -> Take(p, 0, "NULL", <<>>)
      [] OTHER -> Not("BAD_TYPE", p)
\* size_t: an offset behind the limit leaves a great many bytes.
Lacks(p, i, n) == Left(p, i) \in 0..(n - 1)
Fixed(p, i, type, n, Val(_)) ==
    IF ~parse_check_msg(p, i) THEN Not("BAD_STATE", p)
    ELSE IF Head(p.args) # FPT[type] THEN Otherwise(p, i)
    ELSE IF Lacks(p, i, n) THEN Not("CORRUPTED", p)
    ELSE Take(p, n, "OK", Val(Sub(p, p.offset, n)))
parse_int(p, i, type, n) == Fixed(p, i, type, n, LAMBDA b : <<Number(b)>>)
parse_ascii(p, i) == Fixed(p, i, "c", 4, LAMBDA b : <<b[4]>>)
parse_float(p, i, type, n) ==
    IF parse_check_msg(p, i) /\ Head(p.args) = FPT.I THEN Take(p, 0, "OK", <<>>) ELSE Fixed(p, i, type, n, LAMBDA b : b)
parse_string_value(p, i, type) ==
    LET n == StrLen(p, p.offset, Left(p, i))
    IN  IF ~parse_check_msg(p, i) THEN Not("BAD_STATE", p)
        ELSE IF Head(p.args) = FPT[type] THEN Take(p, Padded(n + 1), "OK", Sub(p, p.offset, n))
        ELSE IF Head(p.args) = FPT.N THEN Take(p, 0, "OK", <<>>) ELSE Otherwise(p, i)
parse_blob(p, i) ==
    LET n == Word(p, p.offset)
    IN  IF ~parse_check_msg(p, i) THEN Not("BAD_STATE", p)
        ELSE IF Head(p.args) = FPT.N THEN Take(p, 0, "OK", <<>>)
        ELSE IF Head(p.args) # FPT.b THEN Otherwise(p, i)
        ELSE IF Lacks(p, i, 4) \/ Lacks(p, i, Padded(n + 4)) THEN Not("CORRUPTED", p)
        ELSE Take(p, Padded(n + 4), "OK", Sub(p, p.offset + 4, n))
parse_flag(p, i, type) ==
    IF ~parse_check_msg(p, i) THEN Not("BAD_STATE", p)
    ELSE IF Head(p.args) = FPT[type] THEN Take(p, 0, "OK", <<>>)
    ELSE IF Head(p.args) = 0 THEN Otherwise(p, i) ELSE Not("BAD_TYPE", p)
parse_bool(p, i) ==
    IF parse_check_msg(p, i) /\ Head(p.args) \in {FPT.T, FPT.F} THEN Take(p, 0, "OK", <<IF Head(p.args) = FPT.T THEN 1 ELSE 0>>)
    ELSE Fixed(p, i, "T", 0, LAMBDA b : b)
MidiOf(p, d) == IF d.res # "OK" THEN Not(d.res, p) ELSE Take(p, 4, "OK", Sub(p, p.offset, d.size))
parse_midi_raw(p, i) ==
    IF ~parse_check_msg(p, i) \/ Head(p.args) # FPT.m \/ Lacks(p, i, 4) THEN Fixed(p, i, "m", 4, LAMBDA b : b)
    ELSE MidiOf(p, Midi!decode(Sub(p, p.offset, 4)))
AsEvent(p, r) == IF r.res = "OK" THEN [r EXCEPT !.val = Midi!decode(Sub(p, p.offset, 4)).event] ELSE r
parse_midi(p, i) == AsEvent(p, parse_midi_raw(p, i))
Parse(p, i, type) ==
    CASE type \in {"i", "r"} -> parse_int(p, i, type, 4) [] type \in {"h", "t"} -> parse_int(p, i, type, 8)
      [] type = "f" -> parse_float(p, i, type, 4) [] type = "d" -> parse_float(p, i, type, 8)
      [] type \in {"s", "S"} -> parse_string_value(p, i, type) [] type = "b" -> parse_blob(p, i)
      [] type = "c" -> parse_ascii(p, i) [] type = "m" -> parse_midi_raw(p, i)
      [] type \in {"T", "F"} -> parse_bool(p, i) [] type \in {"N", "I"} -> parse_flag(p, i, type)

\* What is not wanted, and the end of a frame, which skips what is left in
\* it.  A frame that could not be ended within parse_skip() is lost.
Lost(p) == [p EXCEPT !.frames[Len(p.frames)].type = "LOST"]
NotLost(r) == IF r.res = "OK" THEN r ELSE [r EXCEPT !.p = Lost(r.p)]
ElseOf(r, other) == IF r.res = "OK" THEN r ELSE other
PopFrame(p) == [p EXCEPT !.refs = @ - 1, !.frames = Front(@)]
SkipsBytes(p, i, c) ==
    CASE c \in {FPT.s, FPT.S} -> Padded(StrLen(p, p.offset, Left(p, i)) + 1) [] c = FPT.b -> Padded(Word(p, p.offset) + 4)
      [] c \in {FPT.h, FPT.t, FPT.d} -> 8 [] c \in {FPT.T, FPT.F, FPT.N, FPT.I} -> 0 [] OTHER -> 4
SkipValue(p, i, c, n) ==
    IF c \in {FPT.s, FPT.S, FPT.b} /\ (Left(p, i) <= 0 \/ (c = FPT.b /\ Left(p, i) < 4) \/ n > Left(p, i)) THEN Not("CORRUPTED", p)
    ELSE Take(p, n, "OK", <<>>)
RECURSIVE parse_skip(_, _), parse_end(_, _), SkipArray(_, _)
Inside(r, i) == IF r.res = "OK" THEN NotLost(parse_end(r.p, i + 1)) ELSE r
parse_skip(p, i) ==
    LET c == Head(p.args)
    IN  IF ~Reading(p, i) \/ (~Holds(p, i) /\ p.args = <<>>) THEN Not("BAD_STATE", p)
        ELSE IF Holds(p, i)
        THEN IF Left(p, i) = 0 THEN Not("EOF", p)
             ELSE IF Kind(p, i) = "ROOT" /\ p.offset > 0 THEN Not("CORRUPTED", p)
             ELSE Inside(ElseOf(parse_begin_message(p, i), parse_begin_bundle(p, i)), i)
        ELSE CASE c = FPT.open -> Inside(parse_begin_array(p, i), i)
               [] c = FPT.close -> Not(IF Kind(p, i) = "ARRAY" THEN "EOF" ELSE "CORRUPTED", p)
               [] c = 0 -> Not(IF Kind(p, i) = "ARRAY" \/ p.offset # Lim(p, i) THEN "CORRUPTED" ELSE "EOF", p)
               [] OTHER -> SkipValue(p, i, c, SkipsBytes(p, i, c))
SkipRest(r, i) ==
    IF r.res = "OK" THEN SkipArray(r.p, i) ELSE Not(IF r.res = "EOF" THEN "CORRUPTED" ELSE r.res, r.p)
SkipArray(p, i) == IF Head(p.args) = FPT.close THEN Not("OK", p) ELSE SkipRest(parse_skip(p, i), i)
ArrayEnd(s) == IF s.res = "OK" THEN Not("OK", [PopFrame(s.p) EXCEPT !.args = Tail(@)]) ELSE s
parse_end(p, i) ==
    LET type == Kind(p, i)
    IN  IF ~Reading(p, i) \/ (type = "ROOT" /\ p.refs <= 0) \/ (type = "ARRAY" /\ p.args = <<>>) THEN Not("BAD_STATE", p)
        ELSE IF type = "ROOT" THEN Not("OK", [p EXCEPT !.refs = @ - 1])
        ELSE IF type = "ARRAY" THEN ArrayEnd(SkipArray(p, i))
        ELSE IF p.offset > Lim(p, i) THEN Not("CORRUPTED", p)
        ELSE Not("OK", [PopFrame(p) EXCEPT !.offset = Lim(p, i)])
\* A whole message, of a given list of types.  The end of an array is looked
\* for where one starts, so that no list with an array can be read.
ParseItem(p, i, type, depth) ==
    CASE type \in {"open", "close"} /\ Head(p.args) # FPT.open -> Not("BAD_TYPE", p)
      [] type = "close" /\ Head(p.args) = FPT.open /\ depth = 0 -> Not("BAD_FORMAT", p)
      [] type \in {"open", "close"} /\ Head(p.args) = FPT.open /\ (type = "open" \/ depth > 0) -> Take(p, 0, "OK", <<>>)
      [] type = "m" -> Not("NOT_SUPPORTED", p) [] type \in {"N", "I"} -> Not("BAD_FORMAT", p)
      [] OTHER -> Parse(p, i, type)
RECURSIVE ParseList(_, _, _, _)
AfterItem(n, val, i, list, depth) ==
    IF n.res \in {"OK", "NULL"} THEN ParseList(Out("OK", n.p, Append(val, n.val)), i, Tail(list), Deeper(depth, Head(list).ev))
    ELSE [n EXCEPT !.val = Append(val, n.val)]
ParseList(r, i, list, depth) ==
    IF list = <<>> THEN (IF depth = 0 THEN r ELSE [r EXCEPT !.res = "BAD_FORMAT"])
    ELSE AfterItem(ParseItem(r.p, i, Head(list).ev, depth), r.val, i, list, depth)
\* The frame is gone, whether or not it could be ended.
EndsRead(e, l) == Out(IF l.res = "OK" THEN e.res ELSE l.res, e.p, l.val)
AfterList(l, i) == EndsRead(NotLost(parse_end(l.p, i + 1)), l)
AfterBegin(m, i, list) ==
    IF m.res = "OK" THEN AfterList(ParseList([m EXCEPT !.val = <<>>], i + 1, list, 0), i) ELSE m
parse_message(p, i, list) == AfterBegin(parse_begin_message(p, i), i, list)

----------------------------------------------------------------------------
Status(res) == ret' = IF res \in {"OK", "NULL"} THEN "OK" ELSE "FAILED"
Init ==
    /\ \E size \in Sizes : obj = [f |-> forge_begin(size, size = 0), p |-> parse_begin(<<>>)]
    /\ ret = "OK"
    /\ abs = [events |-> <<>>, torn |-> FALSE, phase |-> "forge", ended |-> FALSE, damaged |-> FALSE, calls |-> 0]
Forged(r, events, torn) ==
    /\ Status(r.res) /\ obj' = [obj EXCEPT !.f = r.f]
    /\ abs' = [abs EXCEPT !.events = IF r.res = "OK" THEN @ \o events ELSE @, !.calls = IF r.f = obj.f THEN @ ELSE @ + 1,
                          !.torn = @ \/ torn \/ (r.res # "OK" /\ r.f.data # obj.f.data)]
    /\ abs'.calls <= MaxForge
Forging(i) == abs.phase = "forge" /\ i \in {1, Len(obj.f.frames), Len(obj.f.frames) + 1}
BeginBundle == \E i \in 1..(Len(obj.f.frames) + 1) : Forging(i) /\ Forged(forge_begin_bundle(obj.f, i, 7), <<Ev("BUNDLE", <<7>>)>>, FALSE)
BeginMessage == \E i \in 1..(Len(obj.f.frames) + 1), a \in Addresses :
    Forging(i) /\ Forged(forge_begin_message(obj.f, i, a[1], a[2]), <<Ev("MESSAGE", a[1] \o a[2])>>, Len(a[1]) % 4 # 0)
BeginArray == \E i \in 1..(Len(obj.f.frames) + 1) : Forging(i) /\ Forged(forge_begin_array(obj.f, i), <<Ev("ARRAY", <<>>)>>, FALSE)
Parameter == \E i \in 1..(Len(obj.f.frames) + 1), q \in Params : Forging(i) /\ Forged(Forge(obj.f, i, q), <<q>>, FALSE)
Events(list) == [k \in DOMAIN list |-> CASE list[k].ev = "open" -> Ev("ARRAY", <<>>) [] list[k].ev = "close" -> Ev("EOR", <<>>) [] OTHER -> list[k]]
Message == \E i \in 1..(Len(obj.f.frames) + 1), list \in Lists :
    Forging(i) /\ Forged(forge_message(obj.f, i, <<47>>, list), <<Ev("MESSAGE", <<47>>)>> \o Events(list) \o <<Ev("EOR", <<>>)>>, FALSE)
Ended(r, root) ==
    /\ Status(r.res) /\ obj' = [obj EXCEPT !.f = r.f]
    /\ abs' = [abs EXCEPT !.events = IF r.res = "OK" /\ ~root THEN Append(@, Ev("EOR", <<>>)) ELSE @, !.ended = @ \/ (root /\ r.res = "OK"),
                          !.torn = @ \/ (r.res # "OK" /\ r.f # obj.f)]
EndFrame == \E i \in 1..(Len(obj.f.frames) + 1) : Forging(i) /\ Ended(forge_end(obj.f, i), TypeAt(obj.f, i) = "ROOT")
Close ==
    LET f == obj.f
    IN  /\ abs.phase = "forge" /\ Status(forge_close(f))
        /\ IF forge_close(f) # "OK" THEN UNCHANGED <<obj, abs>>
           ELSE /\ obj' = [f |-> [f EXCEPT !.data = <<>>, !.cap = 0, !.dynamic = FALSE], p |-> parse_begin(f.data)]
                /\ abs' = [abs EXCEPT !.phase = IF CanParse(f.data) THEN "parse" ELSE "none", !.ended = FALSE, !.calls = 0]
\* A size in a bundle has been changed where the packet came from.
Damage == \E n \in {4, -4} :
    LET d == obj.p.data
    IN  /\ abs.phase = "parse" /\ obj.p = parse_begin(d) /\ ~abs.damaged /\ Len(d) > 24 /\ SubSeq(d, 1, 8) = Bundle
        /\ obj' = [obj EXCEPT !.p.data = SubSeq(d, 1, 16) \o BE32(Number(SubSeq(d, 17, 20)) + n) \o SubSeq(d, 21, Len(d))]
        /\ abs' = [abs EXCEPT !.damaged = TRUE] /\ Status("OK")

Parsed(r) ==
    /\ Status(r.res) /\ obj' = [obj EXCEPT !.p = r.p]
    /\ abs' = [abs EXCEPT !.calls = IF r.p = obj.p THEN @ ELSE @ + 1] /\ abs'.calls <= MaxParse
Parsing(i) == abs.phase = "parse" /\ i \in {Len(obj.p.frames), Len(obj.p.frames) + 1} \union (IF abs.calls = 1 THEN {1} ELSE {})
ParseBegin == \E i \in 1..(Len(obj.p.frames) + 1) :
    Parsing(i) /\ \E r \in {parse_begin_message(obj.p, i), parse_begin_bundle(obj.p, i), parse_begin_array(obj.p, i)} : Parsed(r)
ParseRaw == \E i \in 1..(Len(obj.p.frames) + 1) : Parsing(i) /\ Parsed(parse_raw_message(obj.p, i))
ParseValue == \E i \in 1..(Len(obj.p.frames) + 1), q \in Params : Parsing(i) /\ Parsed(Parse(obj.p, i, q.ev))
ParseSkip == \E i \in 1..(Len(obj.p.frames) + 1) : Parsing(i) /\ Parsed(parse_skip(obj.p, i))
ParseMessage == \E i \in 1..(Len(obj.p.frames) + 1), list \in Lists : Parsing(i) /\ Parsed(parse_message(obj.p, i, list))
EndedParse(r, root) ==
    /\ Status(r.res) /\ obj' = [obj EXCEPT !.p = r.p]
    /\ abs' = [abs EXCEPT !.ended = @ \/ (r.res = "OK" /\ root)]
ParseEnd == \E i \in 1..(Len(obj.p.frames) + 1) : Parsing(i) /\ EndedParse(parse_end(obj.p, i), Kind(obj.p, i) = "ROOT")
Next == \/ BeginBundle \/ BeginMessage \/ BeginArray \/ Parameter \/ Message \/ EndFrame \/ Close \/ Damage
        \/ ParseBegin \/ ParseRaw \/ ParseValue \/ ParseSkip \/ ParseMessage \/ ParseEnd
Spec == Init /\ [][Next]_vars

----------------------------------------------------------------------------
\* Reading all of what is left, by what parse_token() tells.
Wrong == Ev("WRONG", <<>>)
RECURSIVE Walk(_)
Onward(t, r) == IF r.res # "OK" THEN <<Wrong>> ELSE <<Ev(t, r.val)>> \o Walk(r.p)
ByToken(p, i, t) ==
    IF t = "EOR" /\ i = 1 THEN <<>>
    ELSE Onward(t, CASE t = "MESSAGE" -> parse_begin_message(p, i) [] t = "BUNDLE" -> parse_begin_bundle(p, i) [] t = "ARRAY" -> parse_begin_array(p, i)
                     [] t = "EOR" -> parse_end(p, i) [] t \in {"BAD_STATE", "CORRUPTED"} -> Not(t, p) [] OTHER -> Parse(p, i, t))
Walk(p) == ByToken(p, Len(p.frames), parse_token(p, Len(p.frames)))
\* What can be read of what has been written: not a last bundle without
\* elements, which parse_begin_bundle() refuses (parse.cpp:303).
Readable(events) ==
    LET hollow == {i \in DOMAIN events : events[i].ev = "BUNDLE" /\ \A j \in (i + 1)..Len(events) : events[j].ev \in {"EOR", "BUNDLE"}}
    IN  IF hollow = {} THEN events
        ELSE SubSeq(events, 1, (CHOOSE i \in hollow : \A j \in hollow : events[j + 1].ev # "BUNDLE" => i >= j) - 1) \o <<Wrong>>
Whole == ~abs.torn /\ ~abs.damaged

IsRest(rest, events, readable) ==
    /\ \E left \in {events, readable} : IsSuffix(rest, left)
    /\ obj.p.offset = 0 => rest = readable
\* A packet is read as the events that were written into it, in whatever way
\* its frames are read: after every call, what is left is the rest of them
\* (forge.cpp:102-665, parse.cpp:72-1093).
RestIsRead ==
    /\ abs.phase = "parse" /\ Whole => IsRest(Walk(obj.p), abs.events, Readable(abs.events))
    /\ abs.phase = "none" /\ Whole => abs.events = <<>>

\* The frames that are open are counted, those of the parser are within one
\* another, and nothing is written or read behind the end of the buffer
\* (forge.cpp:102-208, parse.cpp:177-423).
FramesWithin ==
    LET open == IF abs.ended THEN 1 ELSE 0
        p == obj.p
    IN  /\ abs.phase = "forge" => obj.f.refs = Len(obj.f.frames) - open /\ Len(obj.f.data) <= obj.f.cap
        /\ abs.phase = "parse" => p.refs = Len(p.frames) - open /\ p.offset <= Len(p.data)
        /\ abs.phase = "parse" /\ Whole => \A i \in 1..Len(p.frames) : p.frames[i].type # "LOST" /\ p.offset <= Lim(p, i)
                                               /\ (i > 1 => Lim(p, i) <= Lim(p, i - 1))

\* A call that fails has read nothing: only a whole message that cannot be
\* read as the list asks is skipped (parse.cpp:177-1093).
RefusedReadsNothingStep == abs.phase = "parse" /\ Whole /\ ret' = "FAILED" =>
    obj'.p = obj.p \/ [obj'.p EXCEPT !.args = <<>>] = [parse_skip(obj.p, Len(obj.p.frames)).p EXCEPT !.args = <<>>]
RefusedReadsNothing == [][RefusedReadsNothingStep]_vars

MidiEvents == [type : Midi!Pairs \union Midi!Singles \union {224, 241, 242, 243} \union Midi!Bare, channel : {0, 5}, a : {0, 7, 100, 129}, b : {0, 3}]
ReadBack(r, list) ==
    LET plain == \A k \in DOMAIN list : list[k].ev \notin {"open", "close", "N", "I", "m"}
    IN  (r.res = "OK") = plain /\ (plain => r.val = [k \in DOMAIN list |-> list[k].val])
ReadEvent(m) == parse_midi(m.p, 2)
IsEvent(x, d) == x.res = d.res /\ (d.res = "OK" => x.val = d.event)
Decoded(e, b, d) ==
    LET one == (e.type >= 240 => e.channel = 0) /\ (e.type \in Midi!Pairs \union {241} \/ e.b = 0) /\ (e.type \in Midi!Bare => e.a = 0)
    IN  /\ Len(b) = Midi!size_of(e)
        /\ b # <<>> /\ one => d.size = Len(b) /\ (e.type # 224 \/ b[2] = b[3] => d.event = e)
        /\ b # <<>> => Then(forge_begin_message(obj.f, 1, <<>>, <<47>>), LAMBDA f :
                        Then(forge_midi(f, 2, e), LAMBDA g : IsEvent(ReadEvent(parse_begin_message(parse_begin(g.data), 1)), d)))
        /\ Len(b) >= 2 => Midi!decode_bytes(b, Len(b)) = d
MidiAgrees(e, b) == Decoded(e, b, Midi!decode(b))
ListAgrees(m, list) == m.res = "OK" => ReadBack(parse_message(parse_begin(m.f.data), 1, list), list)
\* The values of a list of parameters are read by the same list, if it has
\* no array, null, infinite number or MIDI event (forge.cpp:339-449,
\* parse.cpp:991-1093); and a MIDI event is decoded from the bytes it was
\* encoded as, but for a pitch bend of two bytes that differ (midi.cpp).
ListsAgree == abs.phase = "forge" /\ abs.calls = 0 /\ ret = "OK" /\ obj.f.dynamic =>
    /\ \A list \in Lists : ListAgrees(forge_message(obj.f, 1, <<47>>, list), list)
    /\ \A e \in MidiEvents : MidiAgrees(e, Midi!encode(e))
=============================================================================
