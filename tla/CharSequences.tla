---------------------------- MODULE CharSequences ----------------------------
(***************************************************************************)
(* The sequences of characters of src/main/io: InSequence over a           *)
(* CharsetDecoder, OutSequence over a CharsetEncoder, InMarkSequence over  *)
(* any sequence, and InStringSequence.  A state belongs to one of them:    *)
(* obj.kind tells which.                                                   *)
(*                                                                         *)
(*   obj   the object.  reader: bb and cb, what is between head and tail of*)
(*         the byte and the character buffer, and sLine; writer: bb and cb;*)
(*         mark and string: the mark and what belongs to it                *)
(*   env   the wrapped stream: src and the offset at, or the sink          *)
(*   ret   the last call: its name, how many characters it asked for, its  *)
(*         result and characters                                           *)
(*   abs   the characters of the text the client has passed (at, and was   *)
(*         before the call), or those the writer has accepted              *)
(***************************************************************************)
EXTENDS Integers, Sequences, SequencesExt

CONSTANTS Buf,        \* DATA_BUFSIZE, and MARKSEQ_SIZE of the marks
          Sources,    \* texts in bytes
          Accepts,    \* strings given to the writer
          MaxText,    \* characters behind a mark or in a string, and the most the writer takes
          Limits      \* of marks

VARIABLES obj, env, ret, abs
vars == <<obj, env, ret, abs>>

Lesser(a, b)  == IF a < b THEN a ELSE b
Greater(a, b) == IF a > b THEN a ELSE b
Rest(s, n)    == SubSeq(s, n + 1, Len(s))
Head_(s, n)   == SubSeq(s, 1, Lesser(n, Len(s)))

\* Bytes and characters: "w" takes the two bytes "<" and ">"; "!" is a byte that
\* begins nothing, and a character the charset does not have.
Plain == {"a", "r", "n"}     \* "r" and "n" are CR and LF
EOF == -1
BadFormat == -2
IOError == -3
Unknown == -4                \* STATUS_UNKNOWN_ERR
NotFound == -5

\* iconv() to characters: what comes out (at most room), how many bytes are used
\* and why it has stopped.  It keeps no state between calls.
Decoded(bytes, room) ==
    LET Next1(s, i) ==
            IF s.why # "end" \/ i <= s.used THEN s
            ELSE IF Len(s.out) = room THEN [s EXCEPT !.why = "E2BIG"]
            ELSE IF bytes[i] \in Plain THEN [s EXCEPT !.out = Append(@, bytes[i]), !.used = i]
            ELSE IF bytes[i] = "<" /\ i = Len(bytes) THEN [s EXCEPT !.why = "EINVAL"]
            ELSE IF bytes[i] = "<" /\ bytes[i + 1] = ">" THEN [s EXCEPT !.out = Append(@, "w"), !.used = i + 1]
            ELSE [s EXCEPT !.why = "EILSEQ"]
    IN  FoldLeft(Next1, [out |-> <<>>, used |-> 0, why |-> "end"], [i \in 1..Len(bytes) |-> i])
Encoded(chars) == FlattenSeq([i \in 1..Len(chars) |-> IF chars[i] = "w" THEN <<"<", ">">> ELSE <<chars[i]>>])

Done(o, e, res, chars) == [o |-> o, e |-> e, res |-> res, chars |-> chars]

----------------------------------------------------------------------------
\* CharsetDecoder: pending characters are served before more are decoded; an
\* error of iconv() hides those that are pending from fetch() of an array.
Held(o, d) ==
    IF d.why = "EILSEQ" /\ d.used = 0 THEN [o |-> o, res |-> BadFormat]
    ELSE [o |-> [o EXCEPT !.bb = Rest(@, d.used), !.cb = @ \o d.out], res |-> Len(o.cb) + Len(d.out)]
decode_buffer(o) ==
    IF Len(o.cb) > Buf \/ o.bb = <<>> THEN [o |-> o, res |-> Len(o.cb)] ELSE Held(o, Decoded(o.bb, Buf))
FirstOf(o, e, d) ==
    IF d.res > 0 THEN Done([d.o EXCEPT !.cb = Tail(@)], e, 1, <<Head(d.o.cb)>>) ELSE Done(o, e, IF d.res < 0 THEN d.res ELSE EOF, <<>>)
fetch_char(o, e) ==
    IF o.cb # <<>> THEN Done([o EXCEPT !.cb = Tail(@)], e, 1, <<Head(o.cb)>>) ELSE FirstOf(o, e, decode_buffer(o))
Fetched(s, d, left) ==
    IF d.res <= 0 THEN [s EXCEPT !.stop = TRUE, !.res = IF s.chars = <<>> THEN d.res ELSE Len(s.chars)]
    ELSE [s EXCEPT !.o = [d.o EXCEPT !.cb = Rest(@, left)], !.chars = @ \o Head_(d.o.cb, left),
                   !.res = Len(s.chars) + Lesser(d.res, left)]
fetch(o, count) ==
    FoldLeft(LAMBDA s, i : IF s.stop \/ Len(s.chars) = count THEN s ELSE Fetched(s, decode_buffer(s.o), count - Len(s.chars)),
             [o |-> o, res |-> 0, chars |-> <<>>, stop |-> FALSE], [i \in 1..count + 1 |-> i])

\* fill(): reads until the buffer is full; an error after the first byte is not
\* told.  "give" is what the wrapped stream gives before it fails, in this call.
prepare_buffer(b) == IF Len(b) > Buf \div 2 THEN 0 ELSE Buf - Len(b)
Filled(o, e, give, room, n) ==
    IF room = 0 THEN Done(o, e, 0, <<>>)
    ELSE IF n = 0 THEN Done(o, e, IF give = 0 THEN IOError ELSE EOF, <<>>)
    ELSE Done([o EXCEPT !.bb = @ \o SubSeq(e.src, e.at + 1, e.at + n)], [e EXCEPT !.at = @ + n], n, <<>>)
fill(o, e, give) ==
    LET room == prepare_buffer(o.bb) IN Filled(o, e, give, room, Lesser(Lesser(room, give), Len(e.src) - e.at))

\* InSequence::read(dst, count)
Refilled(s, f, g) ==
    LET t == [s EXCEPT !.o = g.o, !.e = g.e]
    IN  IF g.res > 0 THEN t
        ELSE [t EXCEPT !.stop = TRUE,
                       !.res = IF s.chars # <<>> THEN Len(s.chars) ELSE IF f.res < 0 THEN f.res ELSE g.res]
GotSome(s, f, give) ==
    IF f.res > 0 THEN [s EXCEPT !.o = f.o, !.chars = @ \o f.chars, !.res = Len(s.chars) + f.res]
    ELSE Refilled(s, f, fill(f.o, s.e, give))
read(o, e, count, give) ==
    FoldLeft(LAMBDA s, i : IF s.stop \/ Len(s.chars) = count THEN s ELSE GotSome(s, fetch(s.o, count - Len(s.chars)), give),
             Done([o EXCEPT !.line = <<>>], e, 0, <<>>) @@ [stop |-> FALSE], [i \in 1..2 * (count + Len(e.src)) |-> i])

AfterFill(g) ==
    IF g.res < 0 THEN g ELSE IF g.res = 0 THEN Done(g.o, g.e, EOF, <<>>) ELSE fetch_char(g.o, g.e)
OrFilled(f, give) == IF f.res = EOF THEN AfterFill(fill(f.o, f.e, give)) ELSE f
read_internal(o, e, give) == OrFilled(fetch_char(o, e), give)
read_char(o, e, give) == read_internal([o EXCEPT !.line = <<>>], e, give)

WithoutCR(line) == IF line # <<>> /\ Last(line) = "r" THEN Front(line) ELSE line
InLine(c, force) ==
    LET ended(chars) == Done([c.o EXCEPT !.line = <<>>], c.e, 0, chars) @@ [stop |-> TRUE]
    IN  IF c.res < 0
        THEN IF c.res = EOF /\ force /\ c.o.line # <<>> THEN ended(c.o.line) ELSE Done(c.o, c.e, c.res, <<>>) @@ [stop |-> TRUE]
        ELSE IF c.chars = <<"n">> THEN ended(WithoutCR(c.o.line))
        ELSE Done([c.o EXCEPT !.line = Append(@, c.chars[1])], c.e, 0, <<>>) @@ [stop |-> FALSE]
read_line(o, e, force, give) ==
    FoldLeft(LAMBDA s, i : IF s.stop THEN s ELSE InLine(read_internal(s.o, s.e, give), force),
             Done(o, e, 0, <<>>) @@ [stop |-> FALSE], [i \in 1..Len(e.src) + 1 |-> i])

----------------------------------------------------------------------------
\* CharsetEncoder: one character that cannot be encoded holds up all that are
\* in the buffer with it.
encode_buffer(o) ==
    IF Len(o.bb) > 4 * Buf \/ o.cb = <<>> THEN [o |-> o, res |-> Len(o.bb)]
    ELSE IF Contains(o.cb, "!") THEN [o |-> o, res |-> BadFormat]
    ELSE [o |-> [o EXCEPT !.bb = @ \o Encoded(o.cb), !.cb = <<>>], res |-> Len(o.bb \o Encoded(o.cb))]

\* fetch(IOutStream): the sink takes at most "take" bytes at once, or fails (0).
Put(s, c, n) ==
    IF c.res <= 0 \/ n = 0
    THEN [s EXCEPT !.o = c.o, !.stop = TRUE, !.res = IF @ > 0 THEN @ ELSE IF c.res <= 0 THEN c.res ELSE IOError]
    ELSE [s EXCEPT !.o = [c.o EXCEPT !.bb = Rest(@, n)], !.e.sink = @ \o Head_(c.o.bb, n), !.res = @ + n]
PutSome(s, c, take) == Put(s, c, Lesser(Lesser(c.res, 2 * Buf - s.res), take))
fetch_to(o, e, take) ==
    FoldLeft(LAMBDA s, i : IF s.stop \/ s.res = 2 * Buf THEN s ELSE PutSome(s, encode_buffer(s.o), take),
             Done(o, e, 0, <<>>) @@ [stop |-> FALSE], [i \in 1..2 * Buf + 1 |-> i])
fill_chars(o, chars) ==
    LET n == Lesser(prepare_buffer(o.cb), Len(chars)) IN [o |-> [o EXCEPT !.cb = @ \o Head_(chars, n)], n |-> n]

Flushed(f) == Done(f.o, f.e, Lesser(f.res, 0), <<>>)
flush_buffer_internal(o, e, take) ==
    Flushed(FoldLeft(LAMBDA s, i : IF i > 1 /\ s.res <= 0 THEN s ELSE fetch_to(s.o, s.e, take),
                     Done(o, e, 0, <<>>), [i \in 1..2 * Buf + Len(o.bb) + 2 |-> i]))

\* OutSequence::write(c), and write(c, count), which is content when it has
\* placed a part of the characters.  chars of the result: what has been taken.
Again(f, again, c) == Done(again.o, f.e, IF again.n > 0 THEN 0 ELSE Unknown, Head_(<<c>>, again.n))
AfterFlush(f, c) == IF f.res < 0 THEN f ELSE Again(f, fill_chars(f.o, <<c>>), c)
Once(once, e, c, take) ==
    IF once.n > 0 THEN Done(once.o, e, 0, <<c>>) ELSE AfterFlush(flush_buffer_internal(once.o, e, take), c)
write_char(o, e, c, take) == Once(fill_chars(o, <<c>>), e, c, take)
Drained(s, f) ==
    IF f.res > 0 THEN [s EXCEPT !.o = f.o, !.e = f.e]
    ELSE [s EXCEPT !.o = f.o, !.stop = TRUE, !.res = IF s.chars = <<>> THEN f.res ELSE 0]
Placed(s, w, chars, take) ==
    IF w.n > 0 THEN [s EXCEPT !.o = w.o, !.chars = Head_(chars, Len(@) + w.n)] ELSE Drained(s, fetch_to(s.o, s.e, take))
write(o, e, chars, take) ==
    FoldLeft(LAMBDA s, i : IF s.stop \/ s.chars = chars THEN s ELSE Placed(s, fill_chars(s.o, Rest(chars, Len(s.chars))), chars, take),
             Done(o, e, 0, <<>>) @@ [stop |-> FALSE], [i \in 1..6 * Buf + 2 * Len(chars) |-> i])
close_writer(o, e, take) ==
    LET f == flush_buffer_internal(o, e, take) IN [f EXCEPT !.o = [@ EXCEPT !.bb = <<>>, !.cb = <<>>, !.open = FALSE]]

----------------------------------------------------------------------------
\* InMarkSequence.  A character of the wrapped sequence is its offset.
clear_mark(o) == [o EXCEPT !.pos = 0, !.len = 0, !.max = -1, !.cap = 0, !.buf = <<>>]
grow_buffer(o, amount) ==
    LET end == Lesser(o.max, o.pos + amount)
    IN  IF end <= o.cap THEN o ELSE [o EXCEPT !.cap = Greater(Lesser(end, Buf), @ + @ \div 2)]

\* n characters of the wrapped sequence go behind those in the buffer.
Buffered(o, e, n) == [o EXCEPT !.buf = Head_(@, o.pos) \o SubSeq(e.src, e.at + 1, e.at + n),
                               !.pos = @ + n, !.len = @ + n]
\* The loop of read() and skip() fills the buffer as long as the limit lets it,
\* then takes the rest from the wrapped sequence and gives the mark up.  skip()
\* takes what it has skipped so far off the count, again in each round; the
\* count is unsigned.
Wraps(n) == IF n < 0 THEN n + 2^16 ELSE n
\* n characters go behind the mark; d is what skips or reads past the limit.
PastMark(s, d, bytes) ==
    IF d > 0 THEN [s EXCEPT !.o = clear_mark(@), !.e.at = @ + d, !.res = @ + d, !.stop = TRUE]
    ELSE [s EXCEPT !.stop = TRUE, !.res = IF @ > 0 THEN @ ELSE IF bytes THEN EOF ELSE 0]
BehindMark(s, o, n, bytes) ==
    IF n = 0 THEN [s EXCEPT !.o = o, !.stop = TRUE, !.res = IF @ > 0 THEN @ ELSE EOF]
    ELSE [s EXCEPT !.e.at = @ + n, !.res = @ + n, !.o = Buffered(o, s.e, n), !.steps = @ + 1,
                   !.left = IF bytes THEN @ - n ELSE Wraps(@ - (s.res + n))]
Grown(s, o, bytes) == BehindMark(s, o, Lesser(Lesser(o.cap - o.pos, s.left), Len(s.e.src) - s.e.at), bytes)
MarkLoop(start, bytes) ==
    FoldLeft(LAMBDA s, i : IF s.stop \/ s.left = 0 THEN s
                           ELSE IF s.o.pos < s.o.max THEN Grown(s, grow_buffer(s.o, Buf), bytes)
                           ELSE PastMark(s, Lesser(s.left, Len(s.e.src) - s.e.at), bytes),
             start, [i \in 1..MaxText + 2 |-> i])
MarkDone(o, e, have, s, bytes) ==
    [o |-> s.o, e |-> s.e, res |-> s.res, steps |-> s.steps,
     chars |-> IF bytes THEN SubSeq(o.buf, o.pos + 1, o.pos + have) \o SubSeq(e.src, e.at + 1, s.e.at) ELSE <<>>]
FromMark(o, e, count, bytes) ==
    LET have == Lesser(count, o.len - o.pos)
        n    == Lesser(count, Len(e.src) - e.at)
    IN  IF o.max < 0
        THEN [o |-> o, e |-> [e EXCEPT !.at = @ + n], res |-> IF n = 0 /\ bytes THEN EOF ELSE n, steps |-> 0,
              chars |-> IF bytes THEN SubSeq(e.src, e.at + 1, e.at + n) ELSE <<>>]
        ELSE MarkDone(o, e, have, MarkLoop([o |-> [o EXCEPT !.pos = @ + have], e |-> e, res |-> have, left |-> count - have,
                                            steps |-> IF have > 0 THEN 1 ELSE 0, stop |-> FALSE], bytes), bytes)
mark_read(o, e, count) == FromMark(o, e, count, TRUE)
mark_skip(o, e, count) == FromMark(o, e, count, FALSE)
mark_read_char(o, e) ==
    LET n == Lesser(1, Len(e.src) - e.at)
        c == SubSeq(e.src, e.at + 1, e.at + n)
        f == [e EXCEPT !.at = @ + n]
    IN  IF o.max >= 0 /\ o.pos < o.len THEN Done([o EXCEPT !.pos = @ + 1], e, 1, <<o.buf[o.pos + 1]>>)
        ELSE IF n = 0 THEN Done(o, e, EOF, <<>>)
        ELSE IF o.max < 0 THEN Done(o, f, 1, c)
        ELSE IF o.pos >= o.max THEN Done(clear_mark(o), f, 1, c)
        ELSE Done(Buffered(grow_buffer(o, 1), e, 1), f, 1, c)

\* InStringSequence.  A mark at the start of the string never runs out.
Passed(o) == IF o.mark > 0 /\ o.off > o.mark + o.mlen THEN [o EXCEPT !.mark = -1] ELSE o
string_read(o, e, count) ==
    LET n == Lesser(count, Len(e.src) - o.off)
    IN  IF n = 0 THEN Done(o, e, EOF, <<>>)
        ELSE Done(Passed([o EXCEPT !.off = @ + n]), e, n, SubSeq(e.src, o.off + 1, o.off + n))
string_skip(o, e, count) ==
    LET n == Lesser(count, Len(e.src) - o.off) IN Done(Passed([o EXCEPT !.off = @ + n]), e, n, <<>>)
string_read_line(o, e, force) ==
    LET feeds == {i \in o.off + 1..Len(e.src) : e.src[i] = "n"}
        end   == IF feeds = {} THEN Len(e.src) + 1 ELSE CHOOSE i \in feeds : \A k \in feeds : i <= k
    IN  IF feeds = {} /\ (~force \/ o.off >= Len(e.src)) THEN Done(o, e, EOF, <<>>)
        ELSE Done(Passed([o EXCEPT !.off = Lesser(end, Len(e.src))]), e, 0,
                  WithoutCR(SubSeq(e.src, o.off + 1, end - 1)))

----------------------------------------------------------------------------
Told(op, res) == [op |-> op, asked |-> 0, res |-> res, chars |-> <<>>, clean |-> TRUE]
Whole(src) == Decoded(src, Len(src) + 1).out
Fresh == [was |-> 0, at |-> 0, mark |-> 0, limit |-> -1, took |-> <<>>]
Init ==
    /\ ret = Told("wrap", 0)
    /\ abs = Fresh
    /\ \/ /\ obj = [kind |-> "reader", bb |-> <<>>, cb |-> <<>>, line |-> <<>>]
          /\ env \in {[src |-> s, at |-> 0] : s \in Sources}
       \/ /\ obj = [kind |-> "writer", bb |-> <<>>, cb |-> <<>>, open |-> TRUE]
          /\ env = [sink |-> <<>>]
       \/ /\ obj = [kind |-> "mark", pos |-> 0, len |-> 0, max |-> -1, cap |-> 0, buf |-> <<>>]
          /\ env = [src |-> [i \in 1..MaxText |-> i], at |-> 0]
       \/ /\ obj = [kind |-> "string", off |-> 0, mark |-> -1, mlen |-> 0]
          /\ env \in {[src |-> Whole(s)] : s \in Sources}

\* The client of a reading sequence has passed so many characters of the text more.
Takes(op, asked, call, passed, clean) ==
    /\ obj' = call.o
    /\ env' = call.e
    /\ ret' = [op |-> op, asked |-> asked, res |-> call.res, chars |-> call.chars, clean |-> clean]
    /\ abs' = [abs EXCEPT !.was = abs.at, !.at = @ + passed]

\* What a call on the reader has passed: the line that was begun, when the call
\* forgets it, and what it gives; of a line, whose end is not given, what is no
\* longer ahead.
Ahead(o, e) == Len(o.line) + Len(o.cb) + Len(Whole(o.bb \o Rest(e.src, e.at)))
ReaderTakes(op, asked, call, give) ==
    Takes(op, asked, call,
          IF op \in {"read", "skip"} THEN Len(obj.line) + Greater(call.res, 0)
          ELSE Ahead(obj, env) - Ahead(call.o, call.e),
          give > 1)
Gives == {0, 1, 2 * Buf}    \* the wrapped stream fails at once, after a byte, never
ReadArray == obj.kind = "reader" /\ \E n \in 1..3, g \in Gives : ReaderTakes("read", n, read(obj, env, n, g), g)
ReadChar  == obj.kind = "reader" /\ \E g \in Gives : ReaderTakes("read", 1, read_char(obj, env, g), g)
ReadLine  == obj.kind = "reader" /\ \E f \in BOOLEAN, g \in Gives :
                ReaderTakes(IF f THEN "last line" ELSE "line", 0, read_line(obj, env, f, g), g)
Skip      == obj.kind = "reader" /\ \E n \in 1..2, g \in Gives :
                ReaderTakes("skip", n, [read(obj, env, n, g) EXCEPT !.chars = <<>>], g)

WriterTakes(op, call) ==
    /\ obj.kind = "writer" /\ obj.open
    /\ Len(abs.took) + Len(call.chars) <= MaxText
    /\ obj' = call.o
    /\ env' = call.e
    /\ ret' = [Told(op, call.res) EXCEPT !.chars = call.chars]
    /\ abs' = [abs EXCEPT !.took = @ \o call.chars]
WriteChar  == obj.kind = "writer" /\ \E c \in {"a", "w", "!"}, t \in {0, 1, 2 * Buf} : WriterTakes("char", write_char(obj, env, c, t))
WriteArray == obj.kind = "writer" /\ \E s \in Accepts, t \in {0, 1, 2 * Buf} : WriterTakes("array", write(obj, env, s, t))
Flush      == obj.kind = "writer" /\ \E t \in {0, 1, 2 * Buf} : WriterTakes("flush", flush_buffer_internal(obj, env, t))
Close      == obj.kind = "writer" /\ \E t \in {0, 1, 2 * Buf} : WriterTakes("flush", close_writer(obj, env, t))

MarkTakes(op, asked, call) ==
    /\ obj.kind = "mark"
    /\ Takes(op, asked, [o |-> call.o, e |-> call.e, res |-> call.res, chars |-> call.chars],
             IF op = "read" THEN Len(call.chars) ELSE Greater(call.res, 0), TRUE)
MarkRead == \E n \in 1..3 : MarkTakes("read", n, mark_read(obj, env, n))
MarkChar == MarkTakes("read", 1, mark_read_char(obj, env))
\* A skip() that takes more than one step behind the mark gets its count wrong.
Skipping(n, s) == MarkTakes(IF s.steps <= 1 THEN "skip" ELSE "skip in steps", n, s)
MarkSkip == \E n \in 1..3 : Skipping(n, mark_skip(obj, env, n))
\* mark() forgets what reset() has made pending: the reader is past it.
Mark == /\ obj.kind = "mark"
        /\ \E limit \in Limits :
              /\ obj' = [obj EXCEPT !.pos = 0, !.len = 0, !.max = limit]
              /\ abs' = [abs EXCEPT !.mark = env.at, !.limit = limit, !.was = abs.at, !.at = env.at]
              /\ ret' = Told("mark", 0)
              /\ UNCHANGED env
Reset == /\ obj.kind = "mark"
         /\ ret' = Told("reset", IF obj.max < 0 THEN NotFound ELSE 0)
         /\ IF obj.max < 0 THEN UNCHANGED <<obj, env, abs>>
            ELSE /\ obj' = [obj EXCEPT !.pos = 0]
                 /\ abs' = [abs EXCEPT !.was = abs.at, !.at = abs.mark]
                 /\ UNCHANGED env

StringRead == obj.kind = "string" /\ \E n \in 1..2 :
                LET c == string_read(obj, env, n) IN Takes("read", n, c, Len(c.chars), TRUE)
StringSkip == obj.kind = "string" /\ \E n \in 1..2 :
                LET c == string_skip(obj, env, n) IN Takes("skip", n, c, c.res, TRUE)
StringLine == obj.kind = "string" /\ \E f \in BOOLEAN :
                LET c == string_read_line(obj, env, f)
                IN  Takes(IF f THEN "last line" ELSE "line", 0, c, c.o.off - obj.off, TRUE)
StringMark == /\ obj.kind = "string"
              /\ \E limit \in Limits :
                    /\ obj' = [obj EXCEPT !.mark = obj.off, !.mlen = limit]
                    /\ abs' = [abs EXCEPT !.mark = abs.at, !.limit = limit, !.was = abs.at]
                    /\ ret' = Told("mark", 0)
                    /\ UNCHANGED env
StringReset == /\ obj.kind = "string"
               /\ ret' = Told("reset", IF obj.mark < 0 THEN NotFound ELSE 0)
               /\ IF obj.mark < 0 THEN UNCHANGED <<obj, env, abs>>
                  ELSE /\ obj' = [obj EXCEPT !.off = obj.mark]
                       /\ abs' = [abs EXCEPT !.was = abs.at, !.at = abs.mark]
                       /\ UNCHANGED env
\* close() and wrap() keep nOffset: a used sequence goes on in the next string
\* where it was in the last one (the string is the same here: in a shorter one it
\* would read past the end).
StringRewrap == /\ obj.kind = "string"
                /\ obj' = [obj EXCEPT !.mark = -1, !.mlen = 0]
                /\ abs' = [Fresh EXCEPT !.was = obj.off, !.at = obj.off]
                /\ ret' = Told("wrap", 0)
                /\ UNCHANGED env

Next == \/ ReadArray \/ ReadChar \/ ReadLine \/ Skip
        \/ WriteChar \/ WriteArray \/ Flush \/ Close
        \/ MarkRead \/ MarkChar \/ MarkSkip \/ Mark \/ Reset
        \/ StringRead \/ StringSkip \/ StringLine \/ StringMark \/ StringReset \/ StringRewrap
Spec == Init /\ [][Next]_vars

----------------------------------------------------------------------------
\* The text a reading sequence stands for, as a whole.
Text == IF obj.kind = "reader" THEN Whole(env.src) ELSE env.src

Line(s, forced) == IF Last(s) = "n" THEN WithoutCR(Front(s)) ELSE s
\* A reader gives the characters of the text, each once and in order, whatever
\* mixture of calls, short reads and failures of the wrapped stream there was: a
\* call returns those it has passed, a line without its end, and passes no more
\* than it was asked for.  What is buffered is exactly what comes next.  The
\* exceptions: a skip() in several steps behind a mark passes more or less than it
\* was asked for and tells how much (InMarkSequence.cpp:302), mark() passes over
\* what is pending (333), wrap() begins where the last string was left
\* (InStringSequence.cpp:65).
Delivers ==
    LET passed == SubSeq(Text, abs.was + 1, abs.at) IN
    /\ ret.op = "read" => IsSuffix(ret.chars, passed)
    /\ ret.op \in {"read", "skip"} => ret.res <= ret.asked
    /\ ret.op \in {"line", "last line"} /\ ret.res = 0 =>
           ret.chars = (IF obj.kind = "string" THEN WithoutCR(Line(passed, TRUE)) ELSE Line(passed, TRUE))
    /\ obj.kind = "reader" =>
           Rest(Text, abs.at) = obj.line \o obj.cb \o Whole(obj.bb \o Rest(env.src, env.at))
    /\ obj.kind = "string" => obj.off = abs.at
    /\ obj.kind = "mark" /\ obj.max < 0 => env.at = abs.at
    /\ obj.kind = "mark" /\ obj.max >= 0 =>
           /\ obj.pos \in 0..obj.len /\ abs.at = abs.mark + obj.pos
           /\ Head_(obj.buf, obj.len) = SubSeq(Text, abs.mark + 1, abs.mark + obj.len) /\ env.at = abs.mark + obj.len

\* The end is told only when everything has been given, unless the wrapped
\* stream has failed in the same call; an error of the charset only at the
\* character that is wrong, unless an array was asked for.  Behind a mark, fewer
\* characters than were asked for mean the end, but for the skip() of line 302.
EndIsTheEnd ==
    /\ (ret.res = EOF /\ ret.clean /\ ret.op # "line" /\ obj.kind # "writer") => abs.at = Len(Text)
    /\ (ret.res = BadFormat /\ obj.kind = "reader" /\ obj.line = <<>> /\ ret.op = "line") => abs.at = Len(Text)
    /\ (obj.kind = "mark" /\ ret.op \in {"read", "skip"} /\ ret.res < ret.asked) => abs.at = Len(Text)

\* A mark holds as long as its limit has not been exceeded.
MarkHolds ==
    abs.limit >= 0 =>
        /\ (obj.kind = "mark" /\ obj.max < 0) => env.at > abs.mark + abs.limit
        /\ (obj.kind = "string" /\ obj.mark < 0) => abs.at > abs.mark + abs.limit

\* Every accepted character is in the sink or in one of the buffers, once and in
\* order; after a flush that reports no error all are in the sink.
WriterKeepsAll ==
    obj.kind = "writer" =>
        /\ obj.open => env.sink \o obj.bb \o Encoded(obj.cb) = Encoded(abs.took)
        /\ (ret.op = "flush" /\ ret.res = 0) => env.sink = Encoded(abs.took)

\* A write that reports an error has taken nothing, so that it can be repeated.
FailedWriteStep == (obj.kind = "writer" /\ ret'.res < 0) => abs'.took = abs.took
FailedWrite == [][FailedWriteStep]_vars
=============================================================================
