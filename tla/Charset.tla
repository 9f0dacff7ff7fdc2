------------------------------- MODULE Charset -------------------------------
(***************************************************************************)
(* src/main/io/charset.cpp: conversion between UTF-8, UTF-16 and UTF-32,   *)
(* of a text that ends with a zero and of a stream that comes in pieces    *)
(* and goes to a buffer of limited size.  Units are numbers; the two byte  *)
(* orders of a unit are not distinguished, so that each definition stands  *)
(* for the little and the big endian form of a function.                   *)
(*                                                                         *)
(*   obj   conv: the two encodings; held: the units given to the converter *)
(*         that it has not taken; out: what it has written                 *)
(*   env   text: the whole source; rest: what has not been given yet       *)
(*   ret   the last call: the room it had, and how much of it is left      *)
(***************************************************************************)
EXTENDS Integers, Sequences, SequencesExt, FiniteSetsExt

CONSTANTS Bytes, Words, Points,   \* the units the texts are made of, none of them 0
          Cased,                  \* code points given to to_lower() and to_upper()
          MaxText,                \* the longest text of bytes or words
          Rooms                   \* sizes of the buffer of one call

VARIABLES obj, env, ret
vars == <<obj, env, ret>>

EOF == -1                \* LSP_UTF32_EOF
Unknown == 65533         \* 0xfffd
UnitAt(s, i) == IF i < Len(s) THEN s[i + 1] ELSE 0
IsHigh(w) == w \div 1024 = 54          \* (w & 0xfc00) == 0xd800
IsLow(w)  == w \div 1024 = 55          \* (w & 0xfc00) == 0xdc00
Joined(high, low) == 65536 + (high % 1024) * 1024 + (low % 1024)

\* What a reader returns: the code point, the offset it goes on from, and the
\* units it has counted off nsrc.
Got(cp, at, used) == [cp |-> cp, at |-> at, used |-> used]

\* A pair may come in either order.
Paired(w, x) == IF IsHigh(w) /\ IsLow(x) THEN Joined(w, x)
                ELSE IF IsLow(w) /\ IsHigh(x) THEN Joined(x, w) ELSE Unknown
PairOrOne(at, cp) == IF cp = Unknown THEN Got(cp, at + 1, 1) ELSE Got(cp, at + 2, 2)
From16(at, w, x) ==
    IF w = 0 THEN Got(0, at, 0) ELSE IF IsHigh(w) \/ IsLow(w) THEN PairOrOne(at, Paired(w, x)) ELSE Got(w, at + 1, 1)
read_utf16_codepoint(s, at) == From16(at, UnitAt(s, at), UnitAt(s, at + 1))
read_utf16_streaming(s, at, left, force) ==
    LET w == UnitAt(s, at)
    IN  IF left = 0 \/ ((IsHigh(w) \/ IsLow(w)) /\ left = 1 /\ ~force) THEN Got(EOF, at, 0)
        ELSE read_utf16_codepoint(SubSeq(s, 1, at + left), at)
write_utf16_codepoint(cp) ==
    IF cp < 65536 THEN <<cp>> ELSE <<55296 + (cp - 65536) \div 1024, 56320 + (cp % 1024)>>
count_utf16(cp) == IF cp < 65536 THEN 1 ELSE 2

\* The bytes that follow a leading byte b > 0x7f, and the bits b gives.  No byte
\* follows a leading byte that is not valid, 0xe0 among them.
Follow(b) ==
    CASE b \div 32 = 6  -> [more |-> IF b % 32 >= 2 THEN 1 ELSE 0, bits |-> b % 32]
      [] b \div 16 = 14 -> [more |-> IF b % 16 # 0 THEN 2 ELSE 0, bits |-> b % 16]
      [] b \div 8 = 30  -> [more |-> 3, bits |-> b % 8]
      [] OTHER          -> [more |-> 0, bits |-> 0]
IsTail(b) == b \div 64 = 2
\* The bytes after the leading one up to the first that is no tail, the code
\* point they make, and whether it is one.
Tails(s, at, more) == CHOOSE k \in 0..more : /\ \A i \in 1..k : IsTail(UnitAt(s, at + i))
                                             /\ k = more \/ ~IsTail(UnitAt(s, at + k + 1))
Composed(s, at, f) == FoldLeft(LAMBDA cp, i : cp * 64 + (UnitAt(s, at + i) % 64), f.bits, [i \in 1..f.more |-> i])
Valid(cp, more) == ~(more = 3 /\ cp < 65536) /\ ~(cp >= 55296 /\ cp < 57344)
CodePoint(at, cp, more) == Got(IF Valid(cp, more) THEN cp ELSE Unknown, at + more + 1, more + 1)
\* k of the tails are there; a sequence that is too short ends with what is
\* in the place of a tail, but for a zero.
Sequence(s, at, f, k) ==
    IF f.more = k THEN CodePoint(at, Composed(s, at, f), k)
    ELSE LET n == IF UnitAt(s, at + k + 1) = 0 THEN k + 1 ELSE k + 2 IN Got(Unknown, at + n, n)
Led(s, at, f) == IF f.more = 0 THEN Got(Unknown, at + 1, 1) ELSE Sequence(s, at, f, Tails(s, at, f.more))
read_utf8_codepoint(s, at) ==
    LET b == UnitAt(s, at)
    IN  IF b <= 127 THEN Got(b, IF b = 0 THEN at ELSE at + 1, 1) ELSE Led(s, at, Follow(b))
\* The streaming form keeps a byte that is no tail for the next character, and
\* with force gives up the whole rest for a sequence that is too long for it.
SequenceStreaming(s, at, f, k) ==
    IF f.more = k THEN CodePoint(at, Composed(s, at, f), k)
    ELSE LET n == IF UnitAt(s, at + k + 1) = 0 THEN k + 2 ELSE k + 1 IN Got(Unknown, at + n, n)
LedStreaming(s, at, left, force, f) ==
    IF f.more = 0 THEN Got(Unknown, at + 1, 1)
    ELSE IF f.more < left THEN SequenceStreaming(s, at, f, Tails(s, at, f.more))
    ELSE IF force THEN Got(Unknown, at, left) ELSE Got(EOF, at, 0)
read_utf8_streaming(s, at, left, force) ==
    LET b == UnitAt(s, at)
    IN  CASE left = 0 -> Got(EOF, at, 0)
          [] left > 0 /\ b <= 127 -> Got(b, IF b = 0 THEN at ELSE at + 1, 1)
          [] OTHER -> LedStreaming(s, at, left, force, Follow(b))
\* The leading byte of four gets the bits from the 16th on, not from the 18th.
write_utf8_codepoint(cp) ==
    CASE cp < 128 -> <<cp>>
      [] cp >= 128 /\ cp < 2048 -> <<192 + cp \div 64, 128 + (cp % 64)>>
      [] cp >= 2048 /\ cp < 65536 -> <<224 + cp \div 4096, 128 + ((cp \div 64) % 64), 128 + (cp % 64)>>
      [] cp >= 65536 /\ cp < 2097152 ->
            <<240 + ((cp \div 65536) % 16),
              128 + ((cp \div 4096) % 64), 128 + ((cp \div 64) % 64), 128 + (cp % 64)>>
      [] OTHER -> <<239, 191, 189>>
count_utf8(cp) == IF cp >= 2048 THEN (IF cp < 65536 \/ cp >= 2097152 THEN 3 ELSE 4) ELSE IF cp >= 128 THEN 2 ELSE 1

----------------------------------------------------------------------------
\* The functions below, by the names of the encodings.
Next_(from, s, at) ==
    CASE from = "utf8" -> read_utf8_codepoint(s, at)
      [] from = "utf16" -> read_utf16_codepoint(s, at)
      [] OTHER -> Got(UnitAt(s, at), at + 1, 1)
Piece(from, s, at, left, force) ==
    CASE from = "utf8" -> read_utf8_streaming(s, at, left, force)
      [] from = "utf16" -> read_utf16_streaming(s, at, left, force)
      [] OTHER -> IF left = 0 THEN Got(EOF, at, 0) ELSE Got(UnitAt(s, at), at + 1, 1)
Write(to, cp) == CASE to = "utf8" -> write_utf8_codepoint(cp)
                   [] to = "utf16" -> write_utf16_codepoint(cp)
                   [] OTHER -> <<cp>>
Count(to, cp) == CASE to = "utf8" -> count_utf8(cp) [] to = "utf16" -> count_utf16(cp) [] OTHER -> 1

\* A text up to its zero: read twice, first to reserve memory.  The forms that
\* write to memory of the caller check the same count against the size of it.
Written(to, t, r) ==
    [at |-> r.at, reserved |-> t.reserved + Count(to, r.cp), out |-> t.out \o Write(to, r.cp), end |-> r.cp = 0]
Text(from, to, s) ==
    FoldLeft(LAMBDA t, i : IF t.end THEN t ELSE Written(to, t, Next_(from, s, t.at)),
             [at |-> 0, reserved |-> 0, out |-> <<>>, end |-> FALSE], [i \in 1..Len(s) + 1 |-> i])
utf8_to_utf16(s)  == Text("utf8", "utf16", s)
utf8_to_utf32(s)  == Text("utf8", "utf32", s)
utf16_to_utf8(s)  == Text("utf16", "utf8", s)
utf16_to_utf32(s) == Text("utf16", "utf32", s)
utf32_to_utf8(s)  == Text("utf32", "utf8", s)
utf32_to_utf16(s) == Text("utf32", "utf16", s)

\* A stream: as long as there is room, a character is taken and written, or left
\* when it is not there as a whole or does not fit.
Fits(to, t, r, n) ==
    IF t.room = 0 \/ r.cp = EOF \/ n > t.room THEN [t EXCEPT !.stop = TRUE]
    ELSE [t EXCEPT !.at = r.at, !.left = @ - r.used, !.room = @ - n, !.out = @ \o Write(to, r.cp)]
Taken(to, t, r) == Fits(to, t, r, Count(to, r.cp))
Stream(from, to, s, room, force) ==
    FoldLeft(LAMBDA t, i : IF t.stop THEN t ELSE Taken(to, t, Piece(from, s, t.at, t.left, force)),
             [at |-> 0, left |-> Len(s), room |-> room, out |-> <<>>, stop |-> FALSE], [i \in 1..Len(s) |-> i])
utf8_to_utf16_stream(s, room, force)  == Stream("utf8", "utf16", s, room, force)
utf8_to_utf32_stream(s, room, force)  == Stream("utf8", "utf32", s, room, force)
utf16_to_utf8_stream(s, room, force)  == Stream("utf16", "utf8", s, room, force)
utf16_to_utf32_stream(s, room, force) == Stream("utf16", "utf32", s, room, force)
utf32_to_utf8_stream(s, room, force)  == Stream("utf32", "utf8", s, room, force)
utf32_to_utf16_stream(s, room, force) == Stream("utf32", "utf16", s, room, force)

WholeText(from, to, s) ==
    CASE from = "utf8" /\ to = "utf16"  -> utf8_to_utf16(s)  [] from = "utf8" /\ to = "utf32"  -> utf8_to_utf32(s)
      [] from = "utf16" /\ to = "utf8"  -> utf16_to_utf8(s)  [] from = "utf16" /\ to = "utf32" -> utf16_to_utf32(s)
      [] from = "utf32" /\ to = "utf8"  -> utf32_to_utf8(s)  [] OTHER -> utf32_to_utf16(s)
Streamed(from, to, s, room, force) ==
    CASE from = "utf8" /\ to = "utf16"  -> utf8_to_utf16_stream(s, room, force)
      [] from = "utf8" /\ to = "utf32"  -> utf8_to_utf32_stream(s, room, force)
      [] from = "utf16" /\ to = "utf8"  -> utf16_to_utf8_stream(s, room, force)
      [] from = "utf16" /\ to = "utf32" -> utf16_to_utf32_stream(s, room, force)
      [] from = "utf32" /\ to = "utf8"  -> utf32_to_utf8_stream(s, room, force)
      [] OTHER -> utf32_to_utf16_stream(s, room, force)

\* Latin and Cyrillic letters; the rest is left to the C library.
Even(c) == c % 2 = 0
LatinUpper == 65..90
to_lower(c) ==
    CASE c \in LatinUpper -> c + 32
      [] c \in 1024..1039 -> c + 80
      [] c \in 1040..1071 -> c + 32
      [] Even(c) /\ c \in (1120..1153) \union (1162..1327) \union (42560..42605) \union (42624..42651) -> c + 1
      [] OTHER -> c
\* Variant: the odd letters of the extended block are shifted too.
ToUpperShifted(c) == IF c \in 42560..42605 THEN c - 1 ELSE c
to_upper(c) ==
    CASE c - 32 \in LatinUpper -> c - 32
      [] c \in 1104..1119 -> c - 80
      [] c \in 1072..1103 -> c - 32
      [] ~Even(c) /\ c \in (1120..1153) \union (1162..1327) \union (42560..42605) \union (42624..42651) -> c - 1
      [] OTHER -> c

----------------------------------------------------------------------------
UpTo(S, n) == UNION {[1..k -> S] : k \in 0..n}
Init ==
    /\ \/ \E to \in {"utf16", "utf32"}, s \in UpTo(Bytes, MaxText) : obj = [conv |-> <<"utf8", to>>, held |-> s, out |-> <<>>]
       \/ \E to \in {"utf8", "utf32"}, s \in UpTo(Words, MaxText) : obj = [conv |-> <<"utf16", to>>, held |-> s, out |-> <<>>]
       \/ \E to \in {"utf8", "utf16"}, s \in UpTo(Points, 2) : obj = [conv |-> <<"utf32", to>>, held |-> s, out |-> <<>>]
    /\ env = [text |-> obj.held, given |-> FALSE, rest |-> <<>>]
    /\ ret = [room |-> 0, left |-> 0]

\* The source is split into what the converter gets at first and what later.
Give ==
    /\ ~env.given
    /\ \E k \in 0..Len(env.text) :
          /\ obj' = [obj EXCEPT !.held = SubSeq(@, 1, k)]
          /\ env' = [env EXCEPT !.given = TRUE, !.rest = SubSeq(env.text, k + 1, Len(env.text))]
    /\ UNCHANGED ret
More ==
    /\ env.given /\ env.rest # <<>>
    /\ obj' = [obj EXCEPT !.held = Append(@, Head(env.rest))]
    /\ env' = [env EXCEPT !.rest = Tail(@)]
    /\ UNCHANGED ret

\* A call of the streaming converter; the client forces it when nothing more
\* will come.
Converted(room, r) ==
    /\ obj' = [obj EXCEPT !.held = SubSeq(@, Len(@) - r.left + 1, Len(@)), !.out = @ \o r.out]
    /\ ret' = [room |-> room, left |-> r.room]
    /\ UNCHANGED env
Convert == \E room \in Rooms :
    env.given /\ Converted(room, Streamed(obj.conv[1], obj.conv[2], obj.held, room, env.rest = <<>>))

Next == Give \/ More \/ Convert
Spec == Init /\ [][Next]_vars

----------------------------------------------------------------------------
Big == 100
Whole == Streamed(obj.conv[1], obj.conv[2], env.text, Big, TRUE).out

IsMadeOf(out, whole) == IsPrefix(out, whole) /\ (obj.held = <<>> /\ env.rest = <<>> => out = whole)
\* However the source is cut into pieces and however small the buffers are, the
\* output is a part of what one call on the whole gives, and all of it at the
\* end: a character cut in two is neither lost nor doubled nor decoded by halves.
PiecesMakeWhole == IsMadeOf(obj.out, Whole)

Reserved(t) == t.end /\ t.reserved = Len(t.out)
\* The memory reserved for a text is what the text then takes, with the zero.
\* (For UTF-32 of the order the machine does not have, it is not: the second
\* reading does not swap the bytes.  See the README.)
ReservedIsWritten == ~env.given => Reserved(WholeText(obj.conv[1], obj.conv[2], env.text))

\* One call writes as much as it takes off the room.
RoomIsKeptStep == obj'.out # obj.out => Len(obj'.out) - Len(obj.out) = ret'.room - ret'.left
RoomIsKept     == [][RoomIsKeptStep]_vars

Survives(to, cp) ==
    /\ cp < 55296 \/ cp >= 57344
    /\ to = "utf16" => cp < 1114112
    /\ to = "utf8" => cp < 2048 \/ cp \in 4096..65535
Decode(from, s) == Front(Text(from, "utf32", s).out)
\* A text of code points that each survive comes back from UTF-8 and UTF-16 as it
\* was, and no other does.  Surrogates and what is above 0x10ffff have no UTF-16
\* or UTF-8; of the others UTF-8 loses 0x800 .. 0xfff, whose leading byte the
\* reader rejects, and all from 0x10000 on, which are written with a wrong one.
RoundTrip ==
    (obj.conv[1] = "utf32" /\ ~env.given) =>
        (Decode(obj.conv[2], Whole) = env.text <=> \A i \in DOMAIN env.text : Survives(obj.conv[2], env.text[i]))

\* Changing case there and back keeps a letter's case class: what the searches
\* and comparisons without regard to case rely on.
CaseFolds ==
    (env.text = <<>>) => \A c \in Cased : /\ to_lower(to_upper(c)) = to_lower(c)
                                          /\ to_upper(to_lower(c)) = to_upper(c)
=============================================================================
