------------------------------ MODULE BitStreams ------------------------------
(***************************************************************************)
(* src/main/io/OutBitStream.cpp and src/main/io/InBitStream.cpp: streams   *)
(* of bits over a stream of bytes, each with a buffer of one machine word. *)
(* The bits a client writes are numbered in order, so that the sink shows  *)
(* which of them it holds; Pad is a bit do_flush_buffer() adds to fill the *)
(* last byte.  A byte has ByteBits bits and a word WordBytes bytes.        *)
(*                                                                         *)
(*   obj   out: the bits of OutBitStream::nBuffer (nBits of them)          *)
(*         inp: those of InBitStream::nBuffer; open: who is open           *)
(*   env   sink: the bits in the wrapped stream, whole bytes; at: how many *)
(*         of them InBitStream has taken                                   *)
(*   ret   the last call, its result, the bits it delivered                *)
(*   abs   sent: the number of bits the writer has taken; seen: how many   *)
(*         bits the reader has got past; torn: what the writer holds is    *)
(*         not what it took any more, since a write of the wrapped stream  *)
(*         took some bytes and not all, or none while the word was full,   *)
(*         or since close() gave up what it could not write                *)
(*                                                                         *)
(* read() of the wrapped stream fails at its end, as the streams of the    *)
(* library do: one that returned 0 there would make fill() succeed with    *)
(* an empty buffer.                                                        *)
(***************************************************************************)
EXTENDS Integers, Sequences

CONSTANTS ByteBits, WordBytes,
          MaxBits,      \* bits the client writes in all
          MaxCount      \* bits in one call

VARIABLES obj, env, ret, abs
vars == <<obj, env, ret, abs>>

\* What the theorems assume of the constants.
Sane == ByteBits \in Nat \ {0} /\ WordBytes \in Nat \ {0} /\ MaxBits \in Nat /\ MaxCount \in Nat

WordBits == ByteBits * WordBytes
Pad  == 0
EOF  == -1
Fail == -2
Hung == -3
Lesser(a, b) == IF a < b THEN a ELSE b

Init ==
    /\ obj = [out |-> <<>>, inp |-> <<>>, open |-> "out"]
    /\ env = [sink |-> <<>>, at |-> 0]
    /\ ret = [op |-> "wrap", res |-> 0, bits |-> <<>>, asked |-> 0]
    /\ abs = [sent |-> 0, seen |-> 0, torn |-> FALSE]

----------------------------------------------------------------------------
\* OutBitStream.  A call's state: the buffer, the sink, the bits taken, whether
\* it has failed, whether the buffer is torn.  "takes" is the answer of write() of
\* the wrapped stream in this call: -1 for an error, or how many bytes it takes at
\* most, which may be none.
OutState == [buf |-> obj.out, sink |-> env.sink, sent |-> abs.sent, bad |-> FALSE, torn |-> FALSE]
Answers == -1..WordBytes

\* The last byte of a partial word is padded; nBits is reset only when every
\* byte has been written.  The error is the negated answer: when write() takes
\* nothing that is STATUS_OK, and the buffer is full as before.
do_flush_buffer(s, takes) ==
    LET bytes  == (Len(s.buf) + ByteBits - 1) \div ByteBits
        padded == [i \in 1..bytes * ByteBits |-> IF i <= Len(s.buf) THEN s.buf[i] ELSE Pad]
    IN  CASE bytes = 0 \/ bytes <= takes -> [s EXCEPT !.sink = @ \o padded, !.buf = <<>>]
          [] bytes > takes /\ takes = 0 -> s
          [] bytes > takes /\ takes > 0 -> [s EXCEPT !.sink = @ \o SubSeq(padded, 1, takes * ByteBits),
                                                    !.bad = TRUE, !.torn = TRUE]
          [] OTHER -> [s EXCEPT !.bad = TRUE]

\* writev(): a full buffer is flushed before the next bit enters it.  When it is
\* full still, the shift by the width of the word is undefined and none of the bits
\* can be relied on.
Stopped(s) == s.bad \/ s.torn
PutBit(s, takes) ==
    LET f == IF ~Stopped(s) /\ Len(s.buf) >= WordBits THEN do_flush_buffer(s, takes) ELSE s
    IN  CASE Stopped(f) -> f
          [] ~Stopped(f) /\ Len(f.buf) >= WordBits -> [f EXCEPT !.torn = TRUE]
          [] OTHER -> [f EXCEPT !.buf = Append(@, s.sent + 1), !.sent = @ + 1]
writev(n, takes) ==
    LET run[i \in 0..n] == IF i = 0 THEN OutState ELSE PutBit(run[i - 1], takes)
    IN  run[n]

OutDone(op, s, res) ==
    /\ obj' = [obj EXCEPT !.out = s.buf]
    /\ env' = [env EXCEPT !.sink = s.sink]
    /\ ret' = [op |-> op, res |-> IF s.bad THEN Fail ELSE res, bits |-> <<>>, asked |-> 0]
    /\ abs' = [abs EXCEPT !.sent = s.sent, !.torn = @ \/ s.torn]

\* bwrite(buf, bits): byte by byte through writev(); after a failure it returns
\* the bits of the calls that succeeded, when there are some.
bwrite ==
    /\ obj.open = "out" /\ ~abs.torn
    /\ \E n \in 1..MaxCount, takes \in Answers :
        LET s    == writev(n, takes)
            full == ((s.sent - abs.sent) \div ByteBits) * ByteBits
        IN  /\ abs.sent + n <= MaxBits
            /\ OutDone("bwrite", [s EXCEPT !.bad = @ /\ full = 0], IF s.bad THEN full ELSE n)

flush ==
    /\ obj.open = "out" /\ ~abs.torn /\ obj.out # <<>>
    /\ \E takes \in Answers : OutDone("flush", do_flush_buffer(OutState, takes), 0)

\* close() flushes, closes whatever the flush says, and forgets the stream: what a
\* failed flush has left in the buffer is lost, and also what one has left that
\* succeeded because write() took nothing.  The reader then wraps the bytes.
OutClose ==
    /\ obj.open = "out"
    /\ \E takes \in Answers :
        LET s == do_flush_buffer(OutState, takes)
        IN  /\ obj' = [out |-> <<>>, inp |-> <<>>, open |-> "in"]
            /\ env' = [env EXCEPT !.sink = s.sink]
            /\ ret' = [op |-> "close", res |-> IF s.bad THEN Fail ELSE 0, bits |-> <<>>, asked |-> 0]
            /\ abs' = [abs EXCEPT !.torn = @ \/ s.torn \/ s.buf # <<>>]

----------------------------------------------------------------------------
\* InBitStream.  A call's state: the buffer, the bits taken from the sink, the
\* bits got, whether fill() has failed.  "short" is the number of bytes the
\* wrapped stream gives at a time.
InState == [buf |-> obj.inp, at |-> env.at, got |-> <<>>, bad |-> FALSE]

fill(s, short) ==
    LET n == Lesser(Lesser(WordBytes, short) * ByteBits, Len(env.sink) - s.at)
    IN  CASE s.buf # <<>> -> s
          [] s.buf = <<>> /\ n = 0 -> [s EXCEPT !.bad = TRUE]
          [] OTHER -> [s EXCEPT !.buf = SubSeq(env.sink, s.at + 1, s.at + n), !.at = @ + n]

\* readv(): bits from the top of the buffer until the count is reached or
\* nothing more comes.
GetBit(s, short) ==
    LET f == fill(s, short)
    IN  IF s.bad \/ f.bad THEN f ELSE [f EXCEPT !.got = Append(@, Head(f.buf)), !.buf = Tail(@)]
readv(s, n, short) ==
    LET run[i \in 0..n] == IF i = 0 THEN s ELSE GetBit(run[i - 1], short)
    IN  run[n]

\* unread(): bits put back on top of the buffer.
unread(s, n) == [s EXCEPT !.buf = SubSeq(s.got, Len(s.got) - n + 1, Len(s.got)) \o @,
                          !.got = SubSeq(@, 1, Len(@) - n)]

InDone(op, s, res) ==
    /\ obj' = [obj EXCEPT !.inp = s.buf]
    /\ env' = [env EXCEPT !.at = s.at]
    /\ ret' = [op |-> op, res |-> IF s.bad /\ s.got = <<>> THEN EOF ELSE res, bits |-> s.got,
               asked |-> 0]
    /\ abs' = [abs EXCEPT !.seen = @ + Len(s.got)]

Reading == obj.open = "in" /\ ret.res # Hung
Shorts  == {1, WordBytes}

\* bread(), readv(), readb(): bits.
bread ==
    /\ Reading
    /\ \E n \in 1..MaxCount, short \in Shorts :
        LET s == readv(InState, n, short) IN InDone("bread", s, Len(s.got))

\* read(): bytes; the bits of an incomplete one are put back.
read ==
    /\ Reading
    /\ \E n \in 1..MaxCount \div ByteBits, short \in Shorts :
        LET s == readv(InState, n * ByteBits, short)
        IN  InDone("read", unread(s, Len(s.got) % ByteBits), Len(s.got) \div ByteBits)

\* bskip(): within the buffer.
SkipWithin(n) ==
    /\ n <= Len(obj.inp)
    /\ obj' = [obj EXCEPT !.inp = SubSeq(@, n + 1, Len(@))]
    /\ ret' = [op |-> "bskip", res |-> n, bits |-> <<>>, asked |-> n]
    /\ abs' = [abs EXCEPT !.seen = @ + n]
    /\ UNCHANGED env

\* Beyond it the buffer is dropped, "moved" bits are gone with it and the bytes
\* skipped below, and the tail has been read; its bits are not counted.
Below(k) == [InState EXCEPT !.buf = <<>>, !.at = @ + k * ByteBits]
TailBits(n, moved) == n - moved
SkipDone(op, n, moved, tail, res) ==
    /\ obj' = [obj EXCEPT !.inp = tail.buf]
    /\ env' = [env EXCEPT !.at = tail.at]
    /\ ret' = [op |-> op, res |-> res, bits |-> <<>>, asked |-> n]
    /\ abs' = [abs EXCEPT !.seen = @ + moved + Len(tail.got)]

\* Bytes asked of skip() below, bytes that are there, bits that are gone after k.
Bytes(n) == (n - Len(obj.inp)) \div ByteBits
Left     == (Len(env.sink) - env.at) \div ByteBits
Moved(k) == Len(obj.inp) + k * ByteBits

\* All the bytes are skipped.
SkipAll(n, short) ==
    LET tail == readv(Below(Bytes(n)), TailBits(n, Moved(Bytes(n))), short)
    IN  /\ Bytes(n) <= Left
        /\ SkipDone("bskip", n, Moved(Bytes(n)), tail,
                    IF tail.bad /\ tail.got = <<>> /\ Moved(Bytes(n)) = 0 THEN EOF ELSE Moved(Bytes(n)))
\* skip() of a memory stream at its end returns 0, and is called again and again.
SkipStuck(n) == Bytes(n) > Left /\ SkipDone("bskip", n, Moved(Left), Below(Left), Hung)
\* skip() below fails after k bytes: the error is returned when nothing is gone
\* yet, else forgotten, and everything that is left is read.
SkipError(n, k, short) ==
    /\ k < Bytes(n) /\ k <= Left
    /\ IF Moved(k) = 0
       THEN /\ ret' = [op |-> "bskip after error", res |-> Fail, bits |-> <<>>, asked |-> n]
            /\ UNCHANGED <<obj, env, abs>>
       ELSE SkipDone("bskip after error", n, Moved(k), readv(Below(k), TailBits(n, Moved(k)), short), Moved(k))

bskip ==
    /\ Reading
    /\ \E n \in 1..MaxCount :
        \/ SkipWithin(n)
        \/ /\ n > Len(obj.inp)
           /\ \E short \in Shorts : \/ SkipAll(n, short)
                                    \/ SkipStuck(n)
                                    \/ \E k \in 0..MaxCount : SkipError(n, k, short)

Reset == obj.open = "in" /\ obj' = [out |-> <<>>, inp |-> <<>>, open |-> "out"]
         /\ env' = [sink |-> <<>>, at |-> 0] /\ ret' = [op |-> "wrap", res |-> 0, bits |-> <<>>, asked |-> 0]
         /\ abs' = [sent |-> 0, seen |-> 0, torn |-> FALSE]

Next == bwrite \/ flush \/ OutClose \/ bread \/ read \/ bskip \/ Reset
Spec == Init /\ [][Next]_vars

----------------------------------------------------------------------------
\* The bits of s that are no padding (as a function the provers can unfold).
Written(s) ==
    LET upto[i \in 0..Len(s)] == IF i = 0 THEN <<>>
                                 ELSE IF s[i] = Pad THEN upto[i - 1] ELSE Append(upto[i - 1], s[i])
    IN  upto[Len(s)]

\* Every bit the writer has taken is in the sink or in the buffer once, in order,
\* however the words, the padding of flushes and the failed writes fall; and
\* padding only ever completes a byte.  This ends (torn) when a write below takes
\* a part of the buffer, or nothing of a full one and another bit comes, or when
\* close() gives up what it could not write.
BitsOnceInOrder ==
    ~abs.torn =>
        /\ Written(env.sink \o obj.out) = [i \in 1..IF obj.open = "out" THEN abs.sent
                                                    ELSE Len(Written(env.sink)) |-> i]
        /\ Len(env.sink) % ByteBits = 0
        /\ \A i \in 1..Len(env.sink) - 1 :
               (env.sink[i] = Pad /\ env.sink[i + 1] # Pad) => i % ByteBits = 0

\* The bits in the reader's buffer are those of the sink right before the point
\* it has read to, and right after what it has delivered: a read of bytes that
\* ends inside a byte gives the bits back.
ReaderInStep ==
    obj.open = "in" =>
        /\ obj.inp = SubSeq(env.sink, env.at - Len(obj.inp) + 1, env.at)
        /\ abs.seen = env.at - Len(obj.inp)
        /\ ret.bits = SubSeq(env.sink, abs.seen - Len(ret.bits) + 1, abs.seen)

\* A bskip() that returns leaves the reader as many bits further as it was asked
\* for, or at the end, also when skip() below has failed on the way: an error is
\* only told when nothing has moved.  The number it tells is never more than that
\* and, unless skip() has failed, less than a byte short of what was asked for: the
\* bits that were read at the end are not in it.  The one that does not return was
\* asked for more than there is.
SkipLandsStep ==
    ret'.op \in {"bskip", "bskip after error"} =>
        LET left == Len(env.sink) - abs.seen
            far  == abs'.seen - abs.seen
        IN  CASE ret'.res = Hung -> ret'.asked > left
              [] ret'.res = Fail -> far = 0 /\ ret'.op = "bskip after error"
              [] ret'.res = EOF  -> far = 0 /\ left = 0
              [] OTHER -> /\ far = Lesser(ret'.asked, left) /\ ret'.res <= far
                          /\ ret'.op = "bskip" => ret'.asked - ret'.res < ByteBits
SkipLands == [][SkipLandsStep]_vars
=============================================================================
