----------------------------- MODULE InBufStream -----------------------------
(***************************************************************************)
(* src/main/io/InBufStream.cpp: a proxy around an input stream which keeps *)
(* the last bytes it has read in a ring buffer, so that a reader can roll  *)
(* back.  A byte is represented by its offset in the wrapped stream, which *)
(* makes the question "is this the right byte" one about numbers.  The     *)
(* wrapped stream is an InMemoryStream, or a file that reads short.        *)
(*                                                                         *)
(*   obj   the fields of the object: nBufHead, nBufSize, nBufOff,          *)
(*         nPosition, the flags EXT_BUFFERING and EXT_SEEK_BUFFERING, and  *)
(*         vBuffer, a cell of which is Stale until something is stored     *)
(*   env   the offset of the wrapped stream                                *)
(*   ret   the last call: its name, the count or offset asked for, its     *)
(*         result and the bytes it delivered                               *)
(*   abs   what a plain stream would show: the offset of the reader, before*)
(*         and after the last call; and regular, FALSE once a call has run *)
(*         into one of the cases named in Irregular                        *)
(***************************************************************************)
EXTENDS Integers, Sequences

CONSTANTS StreamLen,   \* the bytes of the wrapped stream
          Cap,         \* nBufCap
          MaxCount     \* the longest read or skip the client asks for

VARIABLES obj, env, ret, abs
vars == <<obj, env, ret, abs>>

Stale == -1     \* a cell of vBuffer nothing was stored in
EOF   == -2     \* -STATUS_EOF
Bad   == -3     \* -STATUS_CORRUPTED
U32   == 65536  \* stands for 2^32: above every counter of the instance

\* What the theorems assume of the constants: the counters fit their type.
Sane == StreamLen \in Nat /\ Cap \in 1..U32 - 1 /\ MaxCount \in Nat

Lesser(a, b) == IF a < b THEN a ELSE b

\* A call's outcome: the object, the wrapped offset, the result, the bytes.
Done(o, e, res, bytes) == [o |-> o, e |-> e, res |-> res, bytes |-> bytes]

Init ==
    /\ obj = [head |-> 0, size |-> 0, off |-> 0, pos |-> 0, buffering |-> TRUE, seekbuf |-> FALSE,
              cells |-> [i \in 0..Cap - 1 |-> Stale]]
    /\ env = 0
    /\ ret = [op |-> "wrap", asked |-> 0, res |-> 0, bytes |-> <<>>]
    /\ abs = [was |-> 0, at |-> 0, regular |-> TRUE]

clear_buffer(o)  == [o EXCEPT !.head = 0, !.off = 0, !.size = 0]
position(o)      == o.pos + o.off
FullBuffering(o) == o.buffering /\ o.seekbuf

\* n bytes copied from the ring at the read offset, the ring after n bytes of
\* the stream from offset "at" have been copied in k cells after its head, and
\* what the wrapped stream gives at e: up to n bytes, a short read gives fewer.
\* Variant: from the start of the buffer.
CachedFromStart(o, n) == [i \in 1..n |-> o.cells[(o.off + i - 1) % Cap]]
Cached(o, n)        == [i \in 1..n |-> o.cells[(o.head + o.off + i - 1) % Cap]]
Stored(o, k, at, n) == [c \in 0..Cap - 1 |->
                          LET d == (c - o.head - k) % Cap
                          IN  IF d < n THEN at + d ELSE o.cells[c]]
Fetched(at, n)      == [i \in 1..n |-> at + i - 1]
WrappedRead(e, n, short) == Lesser(Lesser(n, short), StreamLen - e)

\* read_byte(): a byte of the window, or one fetched and pushed to the ring.
read_byte(o, e) ==
    IF o.off < o.size THEN Done([o EXCEPT !.off = @ + 1], e, 1, Cached(o, 1))
    ELSE IF e = StreamLen THEN Done(o, e, EOF, <<>>)
    ELSE Done(IF ~o.buffering THEN [o EXCEPT !.pos = @ + o.size + 1, !.size = 0]
              ELSE LET p == [o EXCEPT !.cells = Stored(o, o.off, e, 1)]
                   IN  IF o.off >= o.head
                       THEN [p EXCEPT !.head = (@ + 1) % Cap, !.pos = @ + 1]
                       ELSE [p EXCEPT !.off = @ + 1, !.size = o.off + 1],
              e + 1, 1, <<e>>)

\* The end of read(): n bytes have been fetched after "avail" bytes of the
\* window, and go to the ring (the last Cap of them when there are more).
Remembered(o, e, avail, n) ==
    LET off == o.off + n IN
    CASE ~o.buffering -> [o EXCEPT !.pos = @ + o.size + avail + n, !.size = 0]
      [] o.buffering /\ n >= Cap ->
            [o EXCEPT !.cells = [c \in 0..Cap - 1 |-> e + n - Cap + c],
                      !.pos = @ + o.size + n - Cap, !.size = Cap, !.head = 0, !.off = Cap]
      [] o.buffering /\ n < Cap /\ off > Cap ->
            [o EXCEPT !.cells = Stored(o, o.off, e, n), !.head = (@ + (off % Cap)) % Cap,
                      !.size = Cap, !.off = Cap, !.pos = @ + (off % Cap)]
      [] OTHER -> [o EXCEPT !.cells = Stored(o, o.off, e, n), !.off = off, !.size = off]

\* read(): nBufSize - nBufOff is unsigned.
read(o, e, count, short) ==
    LET avail == Lesser(count, (o.size - o.off) % U32)
        p     == [o EXCEPT !.off = @ + avail]
        n     == WrappedRead(e, count - avail, short)
    IN  CASE avail = count -> Done(p, e, avail, Cached(o, avail))
          [] avail < count /\ n = 0 -> Done(p, e, IF avail > 0 THEN avail ELSE EOF, Cached(o, avail))
          [] OTHER -> Done(Remembered(p, e, avail, n), e + n, avail + n, Cached(o, avail) \o Fetched(e, n))

\* Variant: a short read counts as a full one.
SkipRoundOptimistic(s, amount, short) ==
    LET room == Cap - ((s.o.head + s.o.off) % Cap)
        n    == WrappedRead(s.e, Lesser(amount - s.res, room), short)
        o    == [s.o EXCEPT !.cells = Stored(s.o, s.o.off, s.e, n)]
        off  == s.o.off + n
    IN  [s EXCEPT !.o = IF off > Cap THEN [o EXCEPT !.head = @ + off - Cap, !.size = Cap, !.off = Cap,
                                                    !.pos = @ + off - Cap]
                        ELSE IF n = 0 THEN s.o ELSE [o EXCEPT !.off = off, !.size = off],
                  !.e = @ + n, !.res = @ + Lesser(amount - s.res, room)]
\* One round of the loop of skip(): s holds the object, the wrapped offset and
\* the bytes skipped so far.
SkipRound(s, amount, short) ==
    LET o   == s.o
        cut == (o.head + o.off) % Cap
        n   == WrappedRead(s.e, Lesser(amount - s.res, Cap - cut), short)
        off == o.off + n
        p   == [o EXCEPT !.cells = Stored(o, o.off, s.e, n)]
    IN  [s EXCEPT !.o = IF off > Cap THEN [p EXCEPT !.head = @ + off - Cap, !.size = Cap, !.off = Cap,
                                                    !.pos = @ + off - Cap]
                        ELSE IF n = 0 THEN o ELSE [p EXCEPT !.off = off, !.size = off],
                  !.e = @ + n, !.res = @ + n]
\* The loop: every round but those at the end of the stream skips a byte at least,
\* so that "amount" rounds are enough.
SkipRounds(start, amount, short) ==
    LET run[i \in 0..amount] == IF i = 0 THEN start ELSE SkipRound(run[i - 1], amount, short)
    IN  run[amount]

\* skip(): within the window, then by the wrapped stream's skip(), or by reads
\* into the ring.
skip(o, e, amount, short) ==
    LET quick == IF o.off < o.size THEN Lesser(amount, o.size - o.off) ELSE 0
        p     == [o EXCEPT !.off = @ + quick]
        moved == Lesser(amount - quick, StreamLen - e)
    IN  IF quick > 0 /\ quick = amount THEN Done(p, e, quick, <<>>)
        ELSE IF ~FullBuffering(o)
        THEN Done(clear_buffer([p EXCEPT !.pos = @ + p.off + moved]), e + moved, moved, <<>>)
        ELSE SkipRounds(Done(p, e, quick, <<>>), amount, short)

\* seek(): within the window; by the wrapped stream's seek(), which stops at the
\* end; forward by skip(); backward by reading the window anew.
seek(o, e, target, short) ==
    LET start == IF target > Cap THEN target - Cap ELSE 0
        n     == WrappedRead(start, Cap, short)
        cells == [c \in 0..Cap - 1 |-> IF c < n THEN start + c ELSE o.cells[c]]
        ahead == skip(o, e, target - o.size + o.off, short)
    IN  IF target \in o.pos..o.pos + o.size THEN Done([o EXCEPT !.off = target - o.pos], e, target, <<>>)
        ELSE IF ~FullBuffering(o)
        THEN LET to == Lesser(target, StreamLen)
             IN  Done([clear_buffer(o) EXCEPT !.pos = to], to, to, <<>>)
        ELSE IF target >= o.pos THEN Done(ahead.o, ahead.e, position(ahead.o), <<>>)
        ELSE IF n = 0 THEN Done(o, start, EOF, <<>>)
        ELSE IF start + n < target THEN Done([o EXCEPT !.cells = cells], start + n, Bad, <<>>)
        ELSE Done([o EXCEPT !.cells = cells, !.head = 0, !.off = target - start, !.size = n,
                            !.pos = start], start + n, target, <<>>)

----------------------------------------------------------------------------
\* The cases after which the window no longer tells what the stream holds: a
\* transfer without buffering while nBufOff is not 0 (nBufSize is zeroed,
\* nBufOff stays), a backward seek that fails half way, and a read_byte() behind
\* a full ring after skip() has moved nBufHead beyond nBufCap: read_byte() takes
\* nBufOff < nBufHead for room in the ring, and the window outgrows it.
Irregular(o, e, call) ==
    \/ ~o.buffering /\ call.o.off > 0 /\ call.e # e /\ ret'.op \in {"read", "read_byte"}
    \/ ret'.op = "seek" /\ call.res < 0
    \/ ret'.op = "read_byte" /\ call.o.size > Cap

\* What a plain stream at offset p would do: a skip moves by the amount or to
\* the end, a transfer by what it delivers, a seek to what it returns.
PlainOffset(p, op, amount, call) ==
    CASE op = "skip" -> Lesser(p + amount, StreamLen)
      [] op = "seek" /\ call.res >= 0 -> call.res
      [] OTHER -> p + Len(call.bytes)

Takes(op, amount, call) ==
    /\ obj' = call.o
    /\ env' = call.e
    /\ ret' = [op |-> op, asked |-> amount, res |-> call.res, bytes |-> call.bytes]
    /\ abs' = [was |-> abs.at, at |-> PlainOffset(abs.at, op, amount, call),
               regular |-> abs.regular /\ ~Irregular(obj, env, call)]

Shorts == {1, StreamLen}   \* a file may give one byte at a time

ReadByte == abs.regular /\ Takes("read_byte", 1, read_byte(obj, env))
Read     == abs.regular /\ \E n \in 1..MaxCount, s \in Shorts : Takes("read", n, read(obj, env, n, s))
Skip     == abs.regular /\ \E n \in 1..MaxCount, s \in Shorts : Takes("skip", n, skip(obj, env, n, s))
Seek     == abs.regular /\ \E p \in 0..StreamLen, s \in Shorts :
                Takes("seek", p, seek(obj, env, p, s))
set_buffering ==
    /\ abs.regular
    /\ \E b, s \in BOOLEAN : obj' = [obj EXCEPT !.buffering = b, !.seekbuf = s]
    /\ ret' = [op |-> "set", asked |-> 0, res |-> 0, bytes |-> <<>>]
    /\ abs' = [abs EXCEPT !.was = abs.at]
    /\ UNCHANGED env

\* do_close() frees the buffer and keeps the buffering flags; the object then
\* wraps another stream, at whatever offset that stands.
Wrapped(o, at) == [clear_buffer(o) EXCEPT !.pos = at, !.cells = [c \in 0..Cap - 1 |-> Stale]]
Rewrap ==
    \E at \in 0..StreamLen :
        /\ obj' = Wrapped(obj, at)
        /\ env' = at
        /\ ret' = [op |-> "wrap", asked |-> 0, res |-> 0, bytes |-> <<>>]
        /\ abs' = [was |-> at, at |-> at, regular |-> TRUE]

Next == ReadByte \/ Read \/ Skip \/ Seek \/ set_buffering \/ Rewrap
Spec == Init /\ [][Next]_vars

----------------------------------------------------------------------------
\* The window of nBufSize bytes in the ring is the part of the stream from
\* nPosition on, and the wrapped stream stands right after it: whatever was
\* read, skipped, rolled back or replaced, a later read from the window and a
\* later read from below it join without a gap.
WindowIsStream ==
    abs.regular =>
        /\ obj.off <= obj.size /\ obj.size <= Cap
        /\ env = obj.pos + obj.size
        /\ \A i \in 0..obj.size - 1 : obj.cells[(obj.head + i) % Cap] = obj.pos + i

\* A reader sees the bytes of the wrapped stream, consecutive from where it
\* stands, and position() is where a plain stream would stand.
DeliversStream ==
    abs.regular =>
        /\ \A i \in DOMAIN ret.bytes : ret.bytes[i] = abs.was + i - 1
        /\ position(obj) = abs.at

\* What the result of a skip leaves out, and where a seek lands.  There are two
\* cases in which the code does not do what it should: skip() that falls through
\* to the wrapped stream (line 545) tells the part moved there only, without what
\* was left of the window; and a buffered forward seek beyond the window (line 392)
\* moves by position - nBufSize + nBufOff bytes, whatever nPosition is.
Untold(o, amount) ==
    IF ~FullBuffering(o) /\ o.off < o.size /\ amount > o.size - o.off THEN o.size - o.off ELSE 0
Landing(o, target) ==
    IF FullBuffering(o) /\ target > o.pos + o.size
    THEN Lesser(position(o) + (target - o.size + o.off), StreamLen) ELSE Lesser(target, StreamLen)

\* Other than in these two cases skip() tells how far it has moved, and a seek that
\* succeeds lands on its target or on the end of the stream; in them, the reader is
\* exactly where they take it.  Where it has landed a seek tells in all cases.
ReportsMovementStep ==
    /\ ret'.op = "skip" => position(obj') - position(obj) = ret'.res + Untold(obj, ret'.asked)
    /\ ret'.op = "seek" /\ ret'.res >= 0 => position(obj') = ret'.res /\ ret'.res = Landing(obj, ret'.asked)
ReportsMovement == [][ReportsMovementStep]_vars
=============================================================================
