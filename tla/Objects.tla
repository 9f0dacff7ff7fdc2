------------------------------- MODULE Objects -------------------------------
(***************************************************************************)
(* Four of the library's objects side by side: the ring buffer of          *)
(* InBufStream, the bit streams, LSPString, and the segments of SharedMem. *)
(* These are the components whose models need no RECURSIVE operator, so    *)
(* that what is stated of them here for all four is proved in              *)
(* ObjectsProofs; MCObjects adds the others and checks them all.           *)
(*                                                                         *)
(* Each module has the variables obj, env, ret and abs, or some of them.   *)
(* "machine" is chosen once and tells which component they belong to; a    *)
(* variable the component does not have stays 0.                           *)
(***************************************************************************)
EXTENDS Integers

CONSTANTS StreamLen, Cap, MaxCount,                  \* of InBufStream
          ByteBits, WordBytes, MaxBits, MaxStep,     \* of BitStreams
          Texts, MaxLen, Granularity,                \* of LSPString
          Home, Slots, Names, Modes, Size, MaxSegments   \* of SharedMem

VARIABLES machine, obj, env, ret, abs
vars == <<machine, obj, env, ret, abs>>

InBuf == INSTANCE InBufStream
Bits  == INSTANCE BitStreams WITH MaxCount <- MaxStep
Str   == INSTANCE LSPString
Shm   == INSTANCE SharedMem

ASSUME ObjectsAssumption == InBuf!Sane /\ Bits!Sane /\ Str!Sane /\ Shm!Sane

Init ==
    \/ machine = "inbuf" /\ InBuf!Init
    \/ machine = "bits" /\ Bits!Init
    \/ machine = "string" /\ Str!Init /\ env = 0 /\ abs = 0
    \/ machine = "sharedmem" /\ Shm!Init

Next ==
    \/ machine = "inbuf" /\ InBuf!Next /\ UNCHANGED machine
    \/ machine = "bits" /\ Bits!Next /\ UNCHANGED machine
    \/ machine = "string" /\ Str!Next /\ UNCHANGED <<machine, env, abs>>
    \/ machine = "sharedmem" /\ Shm!Next /\ UNCHANGED machine

Spec == Init /\ [][Next]_vars

-----------------------------------------------------------------------------
\* Whoever reads a stream gets what is there, once and in order, however the
\* calls, the buffers and short reads cut it.
StreamsDeliver ==
    \* InBufStream: a reader sees the bytes of the wrapped stream, consecutive from
    \* where it stands.
    /\ machine = "inbuf" => InBuf!DeliversStream
    \* InBufStream: the ring holds the part of the stream from nPosition on, and
    \* the wrapped stream stands right after it.
    /\ machine = "inbuf" => InBuf!WindowIsStream
    \* OutBitStream: every bit taken is in the sink or in the buffer once and in
    \* order, and padding only completes a byte, until a write below takes a part,
    \* or nothing of a full word, or close() gives up the buffer.
    /\ machine = "bits" => Bits!BitsOnceInOrder
    \* InBitStream: the buffer holds the bits between what was delivered and what
    \* was taken from below.
    /\ machine = "bits" => Bits!ReaderInStep

\* What an object keeps about its data is true of the data: a hash of its text,
\* the size of a copy, the users of a context, the name and size of a segment.
AccountsExact ==
    \* LSPString: a hash that is kept is the hash of the text, and the text fits
    \* the buffer, after any sequence of calls; only a string that set_native() of
    \* no bytes has emptied answers with the hash of what it was (LSPString.cpp:1964).
    /\ machine = "string" => Str!HashOfText
    \* LSPString: the buffer of the last encoded copy holds all of it.
    /\ machine = "string" => Str!TempHoldsCopy
    \* SharedMem: contexts are counted, and given up with the last object.
    /\ machine = "sharedmem" => Shm!ContextsCounted
    \* SharedMem: a segment has its name as long as its creator has it open.
    /\ machine = "sharedmem" => Shm!NamesOwned
    \* SharedMem: the size that is told is that of the segment.
    /\ machine = "sharedmem" => Shm!SizesTrue

\* What a call reports is what it has done, and a call that reports a failure
\* has left what it was called on as it was.
CallsReportStep ==
    \* InBufStream: skip() tells how far it has moved, but for what line 545 moves
    \* without telling; a seek that succeeds lands on its target or on the end, or
    \* where line 392 takes one that ends before the ring.
    /\ machine = "inbuf" => InBuf!ReportsMovementStep
    \* InBitStream: bskip() lands where it was asked to, or at the end, also when
    \* skip() below has failed; what it tells is, unless it has, less than a byte
    \* short of what was asked for.  Only one that asks for more than there is may
    \* not return.
    /\ machine = "bits" => Bits!SkipLandsStep
    \* LSPString: a call that reports a failure has left the text alone.
    /\ machine = "string" => Str!FailedCallKeepsTextStep
    \* SharedMem: a call that fails changes no name but takes back its own.
    /\ machine = "sharedmem" => Shm!FailuresUndoneStep
CallsReport == [][CallsReportStep]_vars
=============================================================================
