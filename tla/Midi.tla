-------------------------------- MODULE Midi --------------------------------
(***************************************************************************)
(* src/main/protocol/midi.cpp: MIDI events and the bytes they travel as.   *)
(*                                                                         *)
(* An event is a record: its type (the status byte without the channel),   *)
(* its channel and its two numbers, a and b, whatever the union of the code *)
(* calls them; an event of one number has it in a, and b is 0.  The bytes  *)
(* are a sequence; what follows the event in a buffer is there too.        *)
(***************************************************************************)
EXTENDS Integers, Sequences

MIDI_CHANNELS == 16
Msg == [NOTE_OFF |-> 128, NOTE_ON |-> 144, NOTE_PRESSURE |-> 160, NOTE_CONTROLLER |-> 176, PROGRAM_CHANGE |-> 192,
        CHANNEL_PRESSURE |-> 208, PITCH_BEND |-> 224, SYSTEM_EXCLUSIVE |-> 240, MTC_QUARTER |-> 241, SONG_POS |-> 242,
        SONG_SELECT |-> 243]
\* Types of channel events with two numbers and with one; types with nothing.
Pairs == {Msg.NOTE_OFF, Msg.NOTE_ON, Msg.NOTE_PRESSURE, Msg.NOTE_CONTROLLER}
Singles == {Msg.PROGRAM_CHANGE, Msg.CHANNEL_PRESSURE}
Bare == {246, 247, 248, 250, 251, 252, 254, 255}
Event(type, channel, a, b) == [type |-> type, channel |-> channel, a |-> a, b |-> b]
Failed(res) == [size |-> -1, res |-> res, event |-> Event(0, 0, 0, 0)]
Decoded(size, event) == [size |-> size, res |-> "OK", event |-> event]
IsData(byte) == byte < 128

\* What the bytes of an event must be, from the first to the last of it.
Checked(b, size, event) == IF \A i \in 2..size : IsData(b[i]) THEN Decoded(size, event) ELSE Failed("CORRUPTED")
decode_system_message(b) ==
    CASE b[1] = Msg.SYSTEM_EXCLUSIVE -> Failed("NOT_IMPLEMENTED")
      [] b[1] = Msg.MTC_QUARTER -> Checked(b, 2, Event(b[1], 0, b[2] \div 16, b[2] % 16))
      [] b[1] = Msg.SONG_POS    -> Checked(b, 3, Event(b[1], 0, b[3] * 128 + b[2], 0))
      [] b[1] = Msg.SONG_SELECT -> Checked(b, 2, Event(b[1], 0, b[2], 0))
      [] b[1] \in Bare          -> Checked(b, 1, Event(b[1], 0, 0, 0))
      [] OTHER -> Failed("BAD_FORMAT")
\* The first of the two bytes of a pitch bend is taken for the higher one.
decode(b) ==
    LET type == 16 * (b[1] \div 16)
        channel == b[1] % 16
    IN  CASE b[1] < 128 -> Failed("CORRUPTED")
          [] type \in Pairs   -> Checked(b, 3, Event(type, channel, b[2], b[3]))
          [] type \in Singles -> Checked(b, 2, Event(type, channel, b[2], 0))
          [] type = Msg.PITCH_BEND -> Checked(b, 3, Event(type, channel, b[2] * 128 + b[3], 0))
          [] OTHER -> decode_system_message(b)
\* The same for bytes that are known to be there: never less than two.
Enough(b, bytes) ==
    LET type == 16 * (b[1] \div 16) IN bytes >= 3 \/ ~(type \in Pairs \/ type = Msg.PITCH_BEND \/ b[1] = Msg.SONG_POS)
decode_system_bytes(b, bytes) == IF Enough(b, bytes) THEN decode_system_message(b) ELSE Failed("CORRUPTED")
decode_bytes(b, bytes) ==
    CASE bytes < 2 \/ b[1] < 128 \/ ~Enough(b, bytes) -> Failed("CORRUPTED")
      [] b[1] >= 240 -> decode_system_bytes(b, bytes)
      [] OTHER -> decode(b)

\* The numbers an event can have.
Sound(ev) ==
    CASE ev.type \in Pairs -> ev.a < 128 /\ ev.b < 128
      [] ev.type \in Singles \union {Msg.SONG_SELECT} -> ev.a < 128
      [] ev.type \in {Msg.PITCH_BEND, Msg.SONG_POS} -> ev.a < 16384
      [] ev.type = Msg.MTC_QUARTER -> ev.a < 8 /\ ev.b < 16
      [] OTHER -> ev.type \in Bare
encode(ev) ==
    LET low  == ev.a % 128
        high == ev.a \div 128
        first == ev.type + ev.channel
    IN  CASE ~Sound(ev) \/ (ev.type < 240 /\ ev.channel >= MIDI_CHANNELS) -> <<>>
          [] ev.type \in Pairs -> <<first, ev.a, ev.b>>
          [] ev.type \in Singles -> <<first, ev.a>>
          [] ev.type = Msg.PITCH_BEND -> <<first, low, high>>
          [] ev.type = Msg.SONG_POS -> <<ev.type, low, high>>
          [] ev.type = Msg.MTC_QUARTER -> <<ev.type, 16 * ev.a + ev.b>>
          [] ev.type = Msg.SONG_SELECT -> <<ev.type, ev.a>>
          [] OTHER -> <<ev.type>>
\* Of an event that cannot be encoded: nothing.
size_of(ev) ==
    CASE ~Sound(ev) \/ (ev.type < 240 /\ ev.channel >= MIDI_CHANNELS) -> 0
      [] ev.type \in Pairs \union {Msg.PITCH_BEND, Msg.SONG_POS} -> 3
      [] ev.type \in Singles \union {Msg.MTC_QUARTER, Msg.SONG_SELECT} -> 2
      [] OTHER -> 1
=============================================================================
