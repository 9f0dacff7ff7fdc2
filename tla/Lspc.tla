--------------------------------- MODULE Lspc ---------------------------------
(***************************************************************************)
(* The LSPC container (src/main/fmt/lspc): a File open for writing with    *)
(* its ChunkWriters, which cut their streams into pieces and append them   *)
(* to the file in turn, and a File open for reading with a ChunkReader     *)
(* that picks the pieces of one chunk out of the file again, also while    *)
(* the file grows.  The two sides share nothing but the file and are       *)
(* single-threaded: a call ends before the next one of its side begins.    *)
(* Each system call is a step, and pwrite() and pread() may fail.          *)
(*                                                                         *)
(*   write    loop (-> header -> payload -> loop) -> none                  *)
(*   flush    header -> payload -> none            close: the same, last   *)
(*                                                                         *)
(* A chunk header is one cell of the file and so is a byte of payload,     *)
(* which is known by its writer and its number in the stream.  A header    *)
(* also bears, for the properties alone, its writer and how many bytes of  *)
(* the stream precede its piece.                                           *)
(***************************************************************************)
EXTENDS Naturals, Sequences, FiniteSets, FiniteSetsExt

CONSTANTS
    Writers,        \* the chunks that are written, each by a ChunkWriter
    Magics,         \* chunk types
    NoChunk,        \* no chunk
    BufSize,        \* Resource::bufsize, the size of the buffers
    MaxId,          \* the greatest chunk identifier, 2^32 - 1 in the code
    MaxData,        \* bound: bytes written to each chunk
    ReadSizes,      \* bound: how much is asked of the reader at once
    MaxFailures     \* bound: how often pwrite() fails

ASSUME SizeAssumption == BufSize \in Nat \ {0} /\ MaxId \in Nat
ASSUME BoundAssumption == MaxData \in [Writers -> Nat] /\ ReadSizes \subseteq Nat /\ MaxFailures \in Nat
ASSUME NoChunkAssumption == NoChunk \notin Writers

VARIABLES
    file,           \* the file behind the root header
    outFile,        \* the File object that writes: new, open or closed
    refs,           \* Resource::refs of its resource and of the reader's
    chunkId,        \* Resource::chunk_id
    wr,             \* the ChunkWriters: state, nUID, nMagic, nBufPos
    call,           \* the call in progress on the writing side
    rd,             \* the ChunkReader: nUID, nMagic, nUnread, buffer, nFileOff, bLast
    rcall,          \* the call in progress on it
    given,          \* auxiliary: bytes each writer has taken from its caller
    misread,        \* auxiliary: pread() failed in the call that returned
    pos,            \* auxiliary: bytes the reader has handed out or skipped
    out,            \* auxiliary: the bytes its last step handed out
    failures,       \* auxiliary: how often pwrite() failed
    damaged,        \* auxiliary: a failure left a piece incomplete
    told            \* auxiliary: a call has returned a failure of pwrite()

wside == <<chunkId, wr, call, given>>
rside == <<rd, rcall, misread, pos, out>>
fault == <<failures, damaged, told>>
vars  == <<file, outFile, refs, wside, rside, fault>>

-----------------------------------------------------------------------------
(* The file                                                                *)

Byte(w, n) == [kind |-> "byte", of |-> w, at |-> n]

\* The bytes of a piece that did not pass through the buffer.
DirectSize == IF call.op = "write" /\ wr[call.w].buf = 0 THEN call.size ELSE 0

Header(w, size, last) ==
    [kind |-> "header", of |-> w, at |-> given[w] + DirectSize - size,
     uid |-> wr[w].uid, magic |-> wr[w].magic, size |-> size, last |-> last]

\* The offsets of the headers met on the way from one header to the next.
Walk ==
    LET W[n \in 0..Len(file)] ==
            IF n = 0 THEN {0}
            ELSE W[n - 1] \cup (IF n - 1 \in W[n - 1] THEN {n + file[n].size} ELSE {})
    IN  {p \in W[Len(file)] : p < Len(file)}

\* The headers met that satisfy the caller's test.
Matching(uids, magics) ==
    {p \in Walk : file[p + 1].uid \in uids /\ file[p + 1].magic \in magics}

\* Resource::read is all or nothing: a short pread() gives nothing.
Readable(off, n) == off + n <= Len(file)
Contents(off, n) == SubSeq(file, off + 1, off + n)

NoCall == [op |-> "none", w |-> NoChunk, left |-> 0, phase |-> "loop",
           size |-> 0, rest |-> 0]
NoReader == [chunk |-> NoChunk, uid |-> 0, magic |-> NoChunk, unread |-> 0,
             buf |-> <<>>, off |-> 0, last |-> FALSE]
NoRead == [op |-> "none", left |-> 0]

Init ==
    /\ file    = <<>>
    /\ outFile = "new"
    /\ refs    = [out |-> 0, in |-> 1]
    /\ chunkId = 0
    /\ wr      = [w \in Writers |-> [state |-> "new", uid |-> 0, magic |-> NoChunk, buf |-> 0]]
    /\ call    = NoCall
    /\ given   = [w \in Writers |-> 0]
    /\ rd = NoReader /\ rcall = NoRead /\ misread = FALSE /\ pos = 0 /\ out = <<>>
    /\ failures = 0 /\ damaged = FALSE /\ told = FALSE

-----------------------------------------------------------------------------
(* File: create, open and close, and the writers                           *)

Acquire(x) == refs' = [refs EXCEPT ![x] = @ + 1]
Release(x) == refs' = [refs EXCEPT ![x] = @ - 1]

Create ==
    /\ outFile = "new"
    /\ outFile' = "open"
    /\ Acquire("out")
    /\ UNCHANGED <<file, wside, rside, fault>>

\* Variant: the resource goes with the File object.
FileCloseAll ==
    /\ outFile = "open" /\ call = NoCall
    /\ outFile' = "closed"
    /\ refs' = [refs EXCEPT !["out"] = 0]
    /\ UNCHANGED <<file, wside, rside, fault>>

\* The chunks keep the resource alive.
FileClose ==
    /\ outFile = "open" /\ call = NoCall
    /\ outFile' = "closed"
    /\ Release("out")
    /\ UNCHANGED <<file, wside, rside, fault>>

\* write_chunk: when no identifier is left the writer gets an error and 0.
WriteChunk(w, magic) ==
    /\ outFile = "open" /\ call = NoCall
    /\ wr[w].state = "new"
    /\ chunkId' = IF chunkId = MaxId THEN chunkId ELSE chunkId + 1
    /\ wr' = [wr EXCEPT ![w] = [state |-> "open", magic |-> magic, buf |-> 0,
                                uid |-> IF chunkId = MaxId THEN 0 ELSE chunkId + 1]]
    /\ Acquire("out")
    /\ UNCHANGED <<file, outFile, call, given, rside, fault>>

\* A call of a writer begins.
Begin(w, op, left, phase, size) ==
    /\ call = NoCall /\ wr[w].state = "open"
    /\ call' = [op |-> op, w |-> w, left |-> left, phase |-> phase, size |-> size, rest |-> size]

WriteBegin(w, n) ==
    /\ given[w] + n <= MaxData[w]
    /\ Begin(w, "write", n, "loop", 0)
    /\ UNCHANGED <<file, outFile, refs, chunkId, wr, given, rside, fault>>

\* flush() of an empty buffer does nothing.
FlushBegin(w) ==
    /\ wr[w].buf > 0
    /\ Begin(w, "flush", 0, "header", wr[w].buf)
    /\ UNCHANGED <<file, outFile, refs, chunkId, wr, given, rside, fault>>

\* close() writes the last piece even if it is empty.
CloseBegin(w) ==
    /\ Begin(w, "close", 0, "header", wr[w].buf)
    /\ UNCHANGED <<file, outFile, refs, chunkId, wr, given, rside, fault>>

\* delete without close(): what is buffered is lost.
Delete(w) ==
    /\ call = NoCall /\ wr[w].state = "open"
    /\ Release("out")
    /\ wr' = [wr EXCEPT ![w].state = "deleted", ![w].buf = 0]
    /\ UNCHANGED <<file, outFile, chunkId, call, given, rside, fault>>

\* Variant: the buffer is emptied even when it could not be written.
EndEmptied(failed) ==
    /\ call' = NoCall
    /\ wr' = [wr EXCEPT
                ![call.w].state = IF call.op = "close" THEN "closed" ELSE @,
                ![call.w].buf   = IF call.op = "write" THEN @ ELSE 0]
    /\ IF call.op = "close" THEN Release("out") ELSE UNCHANGED refs
    /\ told' = (told \/ failed)

\* The call ends: close() releases the resource whatever happened, flush() and
\* close() have emptied the buffer unless pwrite() failed.
End(failed) ==
    /\ call' = NoCall
    /\ wr' = [wr EXCEPT
                ![call.w].state = IF call.op = "close" THEN "closed" ELSE @,
                ![call.w].buf   = IF call.op = "close" \/ (call.op = "flush" /\ ~failed)
                                    THEN 0 ELSE @]
    /\ IF call.op = "close" THEN Release("out") ELSE UNCHANGED refs
    /\ told' = (told \/ failed)

\* write(): copy into the buffer, and write the buffer out when it is full.
WriteCopy ==
    LET buf == wr[call.w].buf
        n   == Min({BufSize - buf, call.left})
    IN
    /\ call.op = "write" /\ call.phase = "loop" /\ call.left > 0
    /\ buf > 0 \/ call.left < BufSize
    /\ wr'    = [wr EXCEPT ![call.w].buf = @ + n]
    /\ given' = [given EXCEPT ![call.w] = @ + n]
    /\ call'  = [call EXCEPT !.left = @ - n,
                             !.phase = IF buf + n = BufSize THEN "header" ELSE "loop",
                             !.size = BufSize, !.rest = BufSize]
    /\ UNCHANGED <<file, outFile, refs, chunkId, rside, fault>>

\* A bufferful and more goes to the file directly while the buffer is empty.
WriteDirect ==
    /\ call.op = "write" /\ call.phase = "loop" /\ call.left >= BufSize
    /\ wr[call.w].buf = 0
    /\ call' = [call EXCEPT !.phase = "header", !.size = BufSize, !.rest = BufSize]
    /\ UNCHANGED <<file, outFile, refs, chunkId, wr, given, rside, fault>>

WriteEnd ==
    /\ call.op = "write" /\ call.phase = "loop" /\ call.left = 0
    /\ End(FALSE)
    /\ UNCHANGED <<file, outFile, chunkId, given, rside, failures, damaged>>

\* Variant: the header tells the size of the buffer, not of its contents.
PutHeaderFull ==
    /\ call.op # "none" /\ call.phase = "header"
    /\ file'  = Append(file, Header(call.w, BufSize, call.op = "close"))
    /\ call'  = [call EXCEPT !.phase = "payload"]
    /\ given' = [given EXCEPT ![call.w] = @ + DirectSize]
    /\ UNCHANGED <<outFile, refs, chunkId, wr, rside, fault>>

PutHeader ==
    /\ call.op # "none" /\ call.phase = "header"
    /\ file'  = Append(file, Header(call.w, call.size, call.op = "close"))
    /\ call'  = [call EXCEPT !.phase = "payload"]
    /\ given' = [given EXCEPT ![call.w] = @ + DirectSize]
    /\ UNCHANGED <<outFile, refs, chunkId, wr, rside, fault>>

\* pwrite() fails, before or after a part of the header has been written.
PutHeaderFails ==
    /\ call.op # "none" /\ call.phase = "header"
    /\ failures < MaxFailures
    /\ failures' = failures + 1
    /\ \E torn \in BOOLEAN : damaged' = (damaged \/ torn)
    /\ End(TRUE)
    /\ UNCHANGED <<file, outFile, chunkId, given, rside>>

\* pwrite() writes some or all of what is left of the payload.
PutBytes(n) ==
    /\ call.phase = "payload" /\ n <= call.rest
    /\ file' = file \o [i \in 1..n |-> Byte(call.w, given[call.w] - call.rest + i)]
    /\ call' = [call EXCEPT !.rest = @ - n]
    /\ UNCHANGED <<outFile, refs, chunkId, wr, given, rside, fault>>

\* Only write() of a full buffer looks at the result of this Resource::write.
PutBytesFails ==
    /\ call.phase = "payload" /\ call.rest > 0
    /\ failures < MaxFailures
    /\ failures' = failures + 1
    /\ damaged' = TRUE
    /\ IF call.op = "write" /\ DirectSize = 0
         THEN End(TRUE)
         ELSE call' = [call EXCEPT !.rest = 0] /\ UNCHANGED <<wr, refs, told>>
    /\ UNCHANGED <<file, outFile, chunkId, given, rside>>

\* The piece is out: write() goes on, flush() and close() return.
PieceDone ==
    /\ call.phase = "payload" /\ call.rest = 0
    /\ IF call.op = "write"
         THEN /\ call' = [call EXCEPT !.phase = "loop", !.left = @ - DirectSize]
              /\ wr' = [wr EXCEPT ![call.w].buf = 0]
              /\ UNCHANGED <<refs, told>>
         ELSE End(FALSE)
    /\ UNCHANGED <<file, outFile, chunkId, given, rside, failures, damaged>>

\* The writing process dies; what is in the file stays there.
WriterDies ==
    /\ outFile # "new"
    /\ outFile' = "closed"
    /\ refs'  = [refs EXCEPT !["out"] = 0]
    /\ call'  = NoCall
    /\ wr'    = [w \in Writers |->
                    IF wr[w].state = "open" THEN [wr[w] EXCEPT !.state = "deleted", !.buf = 0]
                    ELSE wr[w]]
    /\ UNCHANGED <<file, chunkId, given, rside, fault>>

-----------------------------------------------------------------------------
(* The reader.  A damaged file may say anything: it is not read here.      *)

\* The first header that fits, on the way from header to header.
OpenReader(uids, magics) ==
    LET found == Matching(uids, magics)
        p     == Min(found)
    IN
    /\ rd = NoReader /\ ~damaged
    /\ found # {}
    /\ rd' = [chunk |-> file[p + 1].of, uid |-> file[p + 1].uid, magic |-> file[p + 1].magic,
              unread |-> file[p + 1].size, buf |-> <<>>, off |-> p + 1, last |-> FALSE]
    /\ Acquire("in")
    /\ pos' = 0 /\ out' = <<>>
    /\ UNCHANGED <<file, outFile, wside, rcall, misread, fault>>

FindChunk(magic, start)    == OpenReader({u \in 0..MaxId : u >= start}, {magic})
ReadChunk(uid)             == OpenReader({uid}, Magics)
ReadChunkOfType(uid, magic) == OpenReader({uid}, {magic})

ReadBegin(op, n) ==
    /\ rcall = NoRead /\ rd # NoReader /\ ~damaged
    /\ rcall' = [op |-> op, left |-> n] /\ misread' = FALSE
    /\ UNCHANGED <<file, outFile, refs, wside, rd, pos, out, fault>>

\* The loops of read() and skip() go on: something is left to do.
Reading(op) == rcall.op = op /\ rcall.left > 0 /\ ~damaged
Drained     == rd.buf = <<>>

\* The bytes handed out, or skipped without a look at them.
Take(bytes, n) ==
    /\ out'   = bytes
    /\ pos'   = pos + n
    /\ rcall' = [rcall EXCEPT !.left = @ - n]
    /\ UNCHANGED <<file, outFile, refs, wside, misread, fault>>

TakeBuffered ==
    LET n == Min({rcall.left, Len(rd.buf)}) IN
    /\ Reading("read") \/ Reading("skip")
    /\ ~Drained
    /\ rd' = [rd EXCEPT !.buf = SubSeq(@, n + 1, Len(@))]
    /\ Take(IF rcall.op = "read" THEN SubSeq(rd.buf, 1, n) ELSE <<>>, n)

\* The rest of the piece, when no more than that is asked for.
TakeDirect ==
    /\ Reading("read") /\ Drained /\ rd.unread \in 1..rcall.left
    /\ Readable(rd.off, rd.unread)
    /\ rd' = [rd EXCEPT !.off = @ + rd.unread, !.unread = 0]
    /\ Take(Contents(rd.off, rd.unread), rd.unread)

FillBuffer ==
    LET n == Min({rd.unread, BufSize}) IN
    /\ Reading("read") /\ Drained /\ rd.unread > rcall.left
    /\ Readable(rd.off, n)
    /\ rd' = [rd EXCEPT !.buf = Contents(rd.off, n), !.off = @ + n, !.unread = @ - n]
    /\ out' = <<>>
    /\ UNCHANGED <<file, outFile, refs, wside, rcall, misread, pos, fault>>

\* skip() moves over the piece without reading it.
SkipUnread ==
    LET n == Min({rd.unread, rcall.left}) IN
    /\ Reading("skip") /\ Drained /\ rd.unread > 0
    /\ rd' = [rd EXCEPT !.off = @ + n, !.unread = @ - n]
    /\ Take(<<>>, n)

\* Variant: the chunk is known by its type alone.
FitsType(h) == h.magic = rd.magic

\* A header of this chunk.
Fits(h) == h.uid = rd.uid /\ h.magic = rd.magic

\* Variants: the reader does not move, or takes the last piece of another chunk
\* for its own.
PassNothing(h) == rd
PassLast(h) == [rd EXCEPT !.off = @ + 1 + h.size, !.last = h.last]

\* The piece of another chunk is passed over.
Pass(h) == [rd EXCEPT !.off = @ + 1 + h.size]

\* The next header: of a piece of this chunk, or of another one.
NextHeader ==
    LET h == file[rd.off + 1] IN
    /\ Reading("read") \/ Reading("skip")
    /\ Drained /\ rd.unread = 0 /\ ~rd.last
    /\ Readable(rd.off, 1)
    /\ rd' = IF Fits(h) THEN [rd EXCEPT !.off = @ + 1, !.unread = h.size, !.last = h.last]
             ELSE Pass(h)
    /\ out' = <<>>
    /\ UNCHANGED <<file, outFile, refs, wside, rcall, misread, pos, fault>>

ReadReturn(failed) ==
    /\ rcall' = NoRead /\ out' = <<>> /\ misread' = failed
    /\ UNCHANGED <<file, outFile, refs, wside, rd, pos, fault>>

ReadEnd == rcall.op # "none" /\ rcall.left = 0 /\ ReadReturn(FALSE)

\* The payload of the piece is not all in the file.
ReadShort ==
    /\ Reading("read") /\ Drained /\ rd.unread > 0
    /\ ~Readable(rd.off, IF rd.unread <= rcall.left THEN rd.unread ELSE Min({rd.unread, BufSize}))
    /\ ReadReturn(FALSE)

\* No piece follows.
ReadEof ==
    /\ Reading("read") \/ Reading("skip")
    /\ Drained /\ rd.unread = 0
    /\ rd.last \/ ~Readable(rd.off, 1)
    /\ ReadReturn(FALSE)

\* pread() fails, for a header or for payload, and the call returns what it has
\* so far.  A caller is not told: the error of a header is the end of the chunk
\* to him, and that of a payload is a short read.
PreadFails ==
    /\ Reading("read") \/ Reading("skip")
    /\ Drained
    /\ IF rd.unread > 0 THEN rcall.op = "read" ELSE ~rd.last
    /\ ReadReturn(TRUE)

ReaderClose ==
    /\ rd # NoReader /\ rcall = NoRead
    /\ rd' = NoReader /\ misread' = FALSE /\ pos' = 0 /\ out' = <<>>
    /\ Release("in")
    /\ UNCHANGED <<file, outFile, wside, rcall, fault>>

-----------------------------------------------------------------------------
WriteStep ==
    \/ WriteCopy \/ WriteDirect \/ WriteEnd \/ PutHeader \/ PieceDone
    \/ \E n \in 1..BufSize : PutBytes(n)

ReadOn ==
    \/ TakeBuffered \/ TakeDirect \/ FillBuffer \/ SkipUnread \/ NextHeader
    \/ ReadEnd \/ ReadShort \/ ReadEof

ReadStep == ReadOn \/ PreadFails

Next ==
    \/ Create \/ FileClose
    \/ \E w \in Writers :
          \/ \E magic \in Magics : WriteChunk(w, magic)
          \/ \E n \in 1..MaxData[w] : WriteBegin(w, n)
          \/ FlushBegin(w) \/ CloseBegin(w) \/ Delete(w)
    \/ WriteStep \/ PutHeaderFails \/ PutBytesFails \/ WriterDies
    \/ \E magic \in Magics, uid \in 0..MaxId : FindChunk(magic, uid) \/ ReadChunkOfType(uid, magic)
    \/ \E uid \in 0..MaxId : ReadChunk(uid)
    \/ \E op \in {"read", "skip"}, n \in ReadSizes : ReadBegin(op, n)
    \/ ReadStep \/ ReaderClose

Spec == Init /\ [][Next]_vars

\* A call that has begun goes on; no failure is counted upon to end it.
FairSpec == Spec /\ WF_vars(WriteStep) /\ WF_vars(ReadOn)

-----------------------------------------------------------------------------
(* Properties                                                              *)

ByteCells   == [kind : {"byte"}, of : Writers, at : Nat \ {0}]
HeaderCells == [kind : {"header"}, of : Writers, at : Nat, uid : 0..MaxId,
                magic : Magics, size : Nat, last : BOOLEAN]
Cells       == ByteCells \cup HeaderCells

\* The ranges of the variables.
TypeOK ==
    /\ file \in Seq(Cells)
    /\ outFile \in {"new", "open", "closed"}
    /\ refs \in [{"out", "in"} -> Nat]
    /\ chunkId \in 0..MaxId
    /\ wr \in [Writers -> [state : {"new", "open", "closed", "deleted"}, uid : 0..MaxId,
                           magic : Magics \cup {NoChunk}, buf : 0..BufSize]]
    /\ call \in [op : {"none", "write", "flush", "close"}, w : Writers \cup {NoChunk},
                 left : Nat, phase : {"loop", "header", "payload"}, size : Nat, rest : Nat]
    /\ given \in [Writers -> Nat]
    /\ rd \in [chunk : Writers \cup {NoChunk}, uid : 0..MaxId, magic : Magics \cup {NoChunk},
               unread : Nat, buf : Seq(Cells), off : Nat, last : BOOLEAN]
    /\ rcall \in [op : {"none", "read", "skip"}, left : Nat]
    /\ misread \in BOOLEAN /\ pos \in Nat /\ out \in Seq(Cells)
    /\ failures \in Nat /\ damaged \in BOOLEAN /\ told \in BOOLEAN

\* The resource of a file is counted once by the File object and once by each
\* open writer or reader, in whatever order they are closed and deleted, so
\* that it is closed with the last of them and not before.
RefsExact ==
    /\ refs["out"] = Cardinality({w \in Writers : wr[w].state = "open"})
                     + IF outFile = "open" THEN 1 ELSE 0
    /\ refs["in"] = IF rd # NoReader THEN 2 ELSE 1

\* Going from header to header meets every header and nothing else, at any
\* moment, unless a failure has left a piece incomplete.
WellFormed ==
    ~damaged => Walk = {p \in 0..(Len(file) - 1) : file[p + 1].kind = "header"}

\* Between two calls every byte a writer has taken is in the file once, in
\* order, or in its buffer; a failure that damaged nothing loses nothing.
BytesOf(w) == {i \in DOMAIN file : file[i].kind = "byte" /\ file[i].of = w}
NothingLost ==
    \A w \in Writers :
        ~damaged /\ call.w # w /\ (wr[w].state = "open" \/ (wr[w].state = "closed" /\ ~told))
            => /\ {file[i].at : i \in BytesOf(w)} = 1..(given[w] - wr[w].buf)
               /\ \A i, j \in BytesOf(w) : i < j => file[i].at < file[j].at

\* The pieces of a chunk make up its stream again (AbstractChunks).
Streams == INSTANCE AbstractChunks WITH
    chunk <- rd.chunk, out <- [i \in DOMAIN out |-> <<out[i].of, out[i].at>>]
ImplementsStreams == Streams!AbsSpec

\* A call that returns less than it was asked for, and in which no pread() has
\* failed, has come to the end of the chunk: if that was closed without an error,
\* the reader has had all of it.  The caller does not see which of the two it is.
CutShort == rcall.left > 0 /\ rcall' = NoRead
CompleteAtEnd ==
    [][CutShort /\ ~misread' =>
          (wr[rd.chunk].state = "closed" /\ ~told => pos = given[rd.chunk])]_vars

\* read() and skip() return, whatever the writers are doing to the file and
\* without the help of a failing pread().
ReadReturns == (rcall.op # "none") ~> (rcall.op = "none" \/ damaged)

\* What ChunkWriter.h says of write(), flush() and close(): they return the
\* status of the operation.  So a piece that did not get into the file whole
\* has been reported by some call, as long as the writing process lives.
FailuresReported == damaged /\ call = NoCall /\ outFile = "open" => told
=============================================================================
