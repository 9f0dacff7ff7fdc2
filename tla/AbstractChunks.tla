---------------------------- MODULE AbstractChunks ----------------------------
(***************************************************************************)
(* What a container of chunks promises: every chunk is a stream of its own *)
(* to which one writer appends, and a reader takes the stream of its chunk *)
(* from the beginning, in order, without a gap and without a byte of       *)
(* another chunk, however the streams are laid out in the file.  The n-th  *)
(* byte of the stream of chunk w is <<w, n>>.                              *)
(***************************************************************************)
EXTENDS Naturals

CONSTANTS
    Writers,        \* the chunks, each with its writer
    NoChunk         \* no chunk

VARIABLES
    given,          \* how many bytes of each chunk its writer has accepted
    chunk,          \* the chunk the reader reads, or NoChunk
    pos,            \* how many bytes of it the reader has handed out or skipped
    out             \* the bytes handed out by the last step of the reader

absVars == <<given, chunk, pos, out>>

\* The bytes from the first to the last one named of the stream of w.
Slice(w, first, last) == [i \in 1..(last + 1 - first) |-> <<w, first + i - 1>>]

AbsInit ==
    /\ given = [w \in Writers |-> 0]
    /\ chunk = NoChunk
    /\ pos = 0
    /\ out = <<>>

Accept(w) ==
    /\ given'[w] > given[w]
    /\ given' = [given EXCEPT ![w] = given'[w]]
    /\ UNCHANGED <<chunk, pos, out>>

OpenChunk(w) ==
    /\ chunk = NoChunk
    /\ chunk' = w /\ pos' = 0 /\ out' = <<>>
    /\ UNCHANGED given

\* The next bytes of the stream, if any, or the position moves over them.
Take ==
    /\ chunk # NoChunk
    /\ \E n \in 0..(given[chunk] - pos) :
          /\ pos' = pos + n
          /\ out' \in {<<>>, Slice(chunk, pos + 1, pos + n)}
    /\ UNCHANGED <<given, chunk>>

CloseChunk ==
    /\ chunk # NoChunk
    /\ chunk' = NoChunk /\ pos' = 0 /\ out' = <<>>
    /\ UNCHANGED given

AbsNext ==
    \/ \E w \in Writers : Accept(w) \/ OpenChunk(w)
    \/ Take \/ CloseChunk

AbsSpec == AbsInit /\ [][AbsNext]_absVars
=============================================================================
