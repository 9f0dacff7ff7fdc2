------------------------------- MODULE Pixels -------------------------------
(***************************************************************************)
(* src/main/mm/pixel.cpp: rows of pixels in 14 formats, and the functions  *)
(* that convert a row from one format to another.                          *)
(*                                                                         *)
(* In the formats of 1, 2 and 4 bits the first pixel is in the low bits of *)
(* the first byte, and the bits after the last pixel are 0; the tables and *)
(* shifts of the code, by groups of 8, 4, 2 and 1, are one operator.       *)
(*                                                                         *)
(*   obj   fmt, n pixels in data, a sequence of bytes                      *)
(*   abs   of: the levels of a row that began with one level a pixel, in   *)
(*         255ths; bits: the least bits a pixel has had; in: what carries  *)
(*         the level: "mono", "colour", "alpha" or nothing                 *)
(***************************************************************************)
EXTENDS Integers, Sequences, SequencesExt, FiniteSetsExt

Grey == {"G1", "G2", "G4", "G8"}
Veil == {"A1", "A2", "A4", "A8"}
Mono == Grey \union Veil
One == {"G1", "A1"}
Two == {"G2", "A2"}
Four == {"G4", "A4"}
Eight == {"G8", "A8"}
Rgb  == {"RGB888", "BGR888"}
Rgba == {"RGBA8888", "BGRA8888"}
Prgba == {"PRGBA8888", "PBGRA8888"}
Formats == Mono \union Rgb \union Rgba \union Prgba
bits_per_pixel(f) ==
    CASE f \in One -> 1 [] f \in Two -> 2 [] f \in Four -> 4 [] f \in Eight -> 8
      [] f \in Rgb -> 24 [] f \in Rgba \union Prgba -> 32 [] OTHER -> 0
device_bits_per_pixel(f) == bits_per_pixel(f)
pixel_format_name(f) == IF f = "BGR888" THEN "RGB888" ELSE f
Twin == [G1 |-> "A1", G2 |-> "A2", G4 |-> "A4", G8 |-> "A8", A1 |-> "G1", A2 |-> "G2", A4 |-> "G4", A8 |-> "G8"]
is_exact_copy_of_pixel(dst, src) == dst = src \/ (dst \in Mono /\ src = Twin[dst])

----------------------------------------------------------------------------
\* Packing.
Field(src, bits, i) == (src[((i - 1) * bits) \div 8 + 1] \div 2^(((i - 1) * bits) % 8)) % 2^bits
PackedSize(count, bits) == (count * bits + 7) \div 8
Pack(v, bits) ==
    LET per == 8 \div bits
    IN  [k \in 1..PackedSize(Len(v), bits) |->
            FoldFunctionOnSet(+, 0, [i \in 1..Len(v) |-> v[i] * 2^(((i - 1) % per) * bits)], {i \in 1..Len(v) : (i - 1) \div per = k - 1})]
\* From fields to fields, and from fields to the bytes of a colour.
Repack(src, from, n, to, F(_)) == Pack([i \in 1..n |-> F(Field(src, from, i))], to)
Spread(src, from, n, F(_)) == FlattenSeq([i \in 1..n |-> F(Field(src, from, i))])
\* From pixels of k bytes.
Pixel(src, k, i) == SubSeq(src, k*(i - 1) + 1, k*i)
Narrow(src, k, n, to, F(_)) == Pack([i \in 1..n |-> F(Pixel(src, k, i)) \div 2^(8 - to)], to)
Recolor(src, k, n, F(_)) == FlattenSeq([i \in 1..n |-> F(Pixel(src, k, i))])
Grey3(c) == <<c, c, c>>
Opaque(c) == <<c, c, c, 255>>
White(a) == <<255, 255, 255, a>>
All4(c) == <<c, c, c, c>>

\* One bit.
convert_b1_to_b2(src, n) == Repack(src, 1, n, 2, LAMBDA v : 3*v)
convert_b1_to_b4(src, n) == Repack(src, 1, n, 4, LAMBDA v : 15*v)
convert_b1_to_b8(src, n) == Repack(src, 1, n, 8, LAMBDA v : 255*v)
convert_b1_to_rgb888(src, n)   == Spread(src, 1, n, LAMBDA v : Grey3(255*v))
convert_g1_to_rgba8888(src, n) == Spread(src, 1, n, LAMBDA v : Opaque(255*v))
convert_a1_to_rgba8888(src, n) == Spread(src, 1, n, LAMBDA v : White(255*v))
convert_b1_to_prgba8888(src, n) == Spread(src, 1, n, LAMBDA v : All4(255*v))
\* Two bits.
convert_b2_to_b1(src, n) == Repack(src, 2, n, 1, LAMBDA v : v \div 2)
convert_b2_to_b4(src, n) == Repack(src, 2, n, 4, LAMBDA v : 5*v)
convert_b2_to_b8(src, n) == Repack(src, 2, n, 8, LAMBDA v : 85*v)
convert_b2_to_r8b8g8(src, n)    == Spread(src, 2, n, LAMBDA v : Grey3(85*v))
convert_g2_to_r8b8g8a8(src, n)  == Spread(src, 2, n, LAMBDA v : Opaque(85*v))
convert_a2_to_r8b8g8a8(src, n)  == Spread(src, 2, n, LAMBDA v : White(85*v))
convert_a2_to_pr8b8g8a8(src, n) == Spread(src, 2, n, LAMBDA v : All4(85*v))
\* Four bits.
convert_b4_to_b1(src, n) == Repack(src, 4, n, 1, LAMBDA v : v \div 8)
convert_b4_to_b2(src, n) == Repack(src, 4, n, 2, LAMBDA v : v \div 4)
convert_b4_to_b8(src, n) == Repack(src, 4, n, 8, LAMBDA v : 17*v)
convert_b4_to_rgb888(src, n)    == Spread(src, 4, n, LAMBDA v : Grey3(17*v))
convert_g4_to_rgba8888(src, n)  == Spread(src, 4, n, LAMBDA v : Opaque(17*v))
convert_a4_to_rgba8888(src, n)  == Spread(src, 4, n, LAMBDA v : White(17*v))
convert_a4_to_prgba8888(src, n) == Spread(src, 4, n, LAMBDA v : All4(17*v))
\* A byte.
convert_b8_to_b1(src, n) == Repack(src, 8, n, 1, LAMBDA v : v \div 128)
convert_b8_to_b2(src, n) == Repack(src, 8, n, 2, LAMBDA v : v \div 64)
convert_b8_to_b4(src, n) == Repack(src, 8, n, 4, LAMBDA v : v \div 16)
convert_b8_to_rgb888(src, n)    == Spread(src, 8, n, Grey3)
convert_g8_to_rgba8888(src, n)  == Spread(src, 8, n, Opaque)
convert_a8_to_rgba8888(src, n)  == Spread(src, 8, n, White)
convert_a8_to_prgba8888(src, n) == Spread(src, 8, n, All4)

\* Three bytes.
Light(r, g, b) == (Max({r, g, b}) + Min({r, g, b})) \div 2
lightness(p) == Light(p[1], p[2], p[3])
\* The seventh pixel of a full group of eight is seen without its green.
Seen(p, i, n) == IF i % 8 = 7 /\ i <= 8 * (n \div 8) THEN Light(p[1], p[1], p[3]) ELSE lightness(p)
convert_rgb888_to_b1(src, n) == Pack([i \in 1..n |-> Seen(Pixel(src, 3, i), i, n) \div 128], 1)
convert_rgb888_to_b2(src, n) == Narrow(src, 3, n, 2, lightness)
convert_rgb888_to_b4(src, n) == Narrow(src, 3, n, 4, lightness)
convert_rgb888_to_b8(src, n) == Narrow(src, 3, n, 8, lightness)
convert_rgb888_to_bgr888(src, n)   == Recolor(src, 3, n, LAMBDA p : <<p[3], p[2], p[1]>>)
convert_rgb888_to_rgba8888(src, n) == Recolor(src, 3, n, LAMBDA p : <<p[1], p[2], p[3], 255>>)
convert_rgb888_to_bgra8888(src, n) == Recolor(src, 3, n, LAMBDA p : <<p[3], p[2], p[1], 255>>)
convert_bgr888_to_rgba8888(src, n) == convert_rgb888_to_bgra8888(src, n)
\* Four bytes.
Alpha(p) == p[4]
convert_rgba8888_to_g1(src, n) == Narrow(src, 4, n, 1, lightness)
convert_rgba8888_to_a1(src, n) == Narrow(src, 4, n, 1, Alpha)
convert_rgba8888_to_g2(src, n) == Narrow(src, 4, n, 2, lightness)
convert_rgba8888_to_a2(src, n) == Narrow(src, 4, n, 2, Alpha)
convert_rgba8888_to_g4(src, n) == Narrow(src, 4, n, 4, lightness)
convert_rgba8888_to_a4(src, n) == Narrow(src, 4, n, 4, Alpha)
convert_rgba8888_to_g8(src, n) == Narrow(src, 4, n, 8, lightness)
convert_rgba8888_to_a8(src, n) == Narrow(src, 4, n, 8, Alpha)
convert_rgba8888_to_rgb888(src, n) == Recolor(src, 4, n, LAMBDA p : <<p[1], p[2], p[3]>>)
convert_rgba8888_to_bgr888(src, n) == Recolor(src, 4, n, LAMBDA p : <<p[3], p[2], p[1]>>)
\* a * 0x1011 * c, without its 20 low bits.
Times(p, i) == (p[4] * 4113 * p[i]) \div 1048576
convert_rgba8888_to_prgba8888(src, n) == Recolor(src, 4, n, LAMBDA p : <<Times(p, 1), Times(p, 2), Times(p, 3), p[4]>>)
convert_rgba8888_to_pbgra8888(src, n) == Recolor(src, 4, n, LAMBDA p : <<Times(p, 3), Times(p, 2), Times(p, 1), p[4]>>)
\* Four bytes of which the colour was multiplied by alpha.  Divided(p, i) is
\* c * (0xfffff / a), without its 12 low bits.
Divided(p, i) == IF p[4] = 0 THEN 0 ELSE (p[i] * (1048575 \div p[4])) \div 4096
prgba_lightness(p) == Light(Divided(p, 1), Divided(p, 2), Divided(p, 3)) % 256
Color(p, i) == Divided(p, i) % 256
convert_prgba8888_to_g1(src, n) == Narrow(src, 4, n, 1, prgba_lightness)
convert_prgba8888_to_g2(src, n) == Narrow(src, 4, n, 2, prgba_lightness)
convert_prgba8888_to_g4(src, n) == Narrow(src, 4, n, 4, prgba_lightness)
convert_prgba8888_to_g8(src, n) == Narrow(src, 4, n, 8, prgba_lightness)
convert_prgba8888_to_rgb888(src, n) == Recolor(src, 4, n, LAMBDA p : <<Color(p, 1), Color(p, 2), Color(p, 3)>>)
convert_prgba8888_to_bgr888(src, n) == Recolor(src, 4, n, LAMBDA p : <<Color(p, 3), Color(p, 2), Color(p, 1)>>)
convert_prgba8888_to_rgba8888(src, n) == Recolor(src, 4, n, LAMBDA p : <<Color(p, 1), Color(p, 2), Color(p, 3), p[4]>>)
convert_prgba8888_to_bgra8888(src, n) == Recolor(src, 4, n, LAMBDA p : <<Color(p, 3), Color(p, 2), Color(p, 1), p[4]>>)

----------------------------------------------------------------------------
\* Which function converts src to a format, here applied to src; None: there is none.
None == <<-1>>
pixel_convert_function_for_g1(dst, src, n) ==
    CASE dst \in Two -> convert_b1_to_b2(src, n) [] dst \in Four -> convert_b1_to_b4(src, n) [] dst \in Eight -> convert_b1_to_b8(src, n)
      [] dst \in Rgb -> convert_b1_to_rgb888(src, n) [] dst \in Rgba -> convert_g1_to_rgba8888(src, n)
      [] dst \in Prgba -> convert_b1_to_prgba8888(src, n) [] OTHER -> None
pixel_convert_function_for_a1(dst, src, n) ==
    IF dst \in Rgba THEN convert_a1_to_rgba8888(src, n) ELSE pixel_convert_function_for_g1(dst, src, n)
pixel_convert_function_for_g2(dst, src, n) ==
    CASE dst \in One -> convert_b2_to_b1(src, n) [] dst \in Four -> convert_b2_to_b4(src, n) [] dst \in Eight -> convert_b2_to_b8(src, n)
      [] dst \in Rgb -> convert_b2_to_r8b8g8(src, n) [] dst \in Rgba \union Prgba -> convert_g2_to_r8b8g8a8(src, n) [] OTHER -> None
pixel_convert_function_for_a2(dst, src, n) ==
    CASE dst \in Rgba -> convert_a2_to_r8b8g8a8(src, n) [] dst \in Prgba -> convert_a2_to_pr8b8g8a8(src, n)
      [] OTHER -> pixel_convert_function_for_g2(dst, src, n)
pixel_convert_function_for_g4(dst, src, n) ==
    CASE dst \in One -> convert_b4_to_b1(src, n) [] dst \in Two -> convert_b4_to_b2(src, n) [] dst \in Eight -> convert_b4_to_b8(src, n)
      [] dst \in Rgb -> convert_b4_to_rgb888(src, n) [] dst \in Rgba \union Prgba -> convert_g4_to_rgba8888(src, n) [] OTHER -> None
pixel_convert_function_for_a4(dst, src, n) ==
    CASE dst \in Rgba -> convert_a4_to_rgba8888(src, n) [] dst \in Prgba -> convert_a4_to_prgba8888(src, n)
      [] OTHER -> pixel_convert_function_for_g4(dst, src, n)
pixel_convert_function_for_g8(dst, src, n) ==
    CASE dst \in One -> convert_b8_to_b1(src, n) [] dst \in Two -> convert_b8_to_b2(src, n) [] dst \in Four -> convert_b8_to_b4(src, n)
      [] dst \in Rgb -> convert_b8_to_rgb888(src, n) [] dst \in Rgba \union Prgba -> convert_g8_to_rgba8888(src, n) [] OTHER -> None
pixel_convert_function_for_a8(dst, src, n) ==
    CASE dst \in Rgba -> convert_a8_to_rgba8888(src, n) [] dst \in Prgba -> convert_a8_to_prgba8888(src, n)
      [] OTHER -> pixel_convert_function_for_g8(dst, src, n)
pixel_convert_function_for_rgb888(dst, src, n) ==
    CASE dst \in One -> convert_rgb888_to_b1(src, n) [] dst \in Two -> convert_rgb888_to_b2(src, n) [] dst \in Four -> convert_rgb888_to_b4(src, n)
      [] dst \in Eight -> convert_rgb888_to_b8(src, n) [] dst = "BGR888" -> convert_rgb888_to_bgr888(src, n)
      [] dst \in {"RGBA8888", "PRGBA8888"} -> convert_rgb888_to_rgba8888(src, n)
      [] dst \in {"BGRA8888", "PBGRA8888"} -> convert_rgb888_to_bgra8888(src, n) [] OTHER -> None
\* To its own format it turns the colours round, and to RGB888 there is none.
pixel_convert_function_for_bgr888(dst, src, n) ==
    CASE dst \in {"RGBA8888", "PRGBA8888"} -> convert_bgr888_to_rgba8888(src, n)
      [] dst \in {"BGRA8888", "PBGRA8888"} -> convert_rgb888_to_rgba8888(src, n)
      [] OTHER -> pixel_convert_function_for_rgb888(dst, src, n)
pixel_convert_function_for_rgba8888(dst, src, n) ==
    CASE dst = "G1" -> convert_rgba8888_to_g1(src, n) [] dst = "A1" -> convert_rgba8888_to_a1(src, n)
      [] dst = "G2" -> convert_rgba8888_to_g2(src, n) [] dst = "A2" -> convert_rgba8888_to_a2(src, n)
      [] dst = "G4" -> convert_rgba8888_to_g4(src, n) [] dst = "A4" -> convert_rgba8888_to_a4(src, n)
      [] dst = "G8" -> convert_rgba8888_to_g8(src, n) [] dst = "A8" -> convert_rgba8888_to_a8(src, n)
      [] dst = "RGB888" -> convert_rgba8888_to_rgb888(src, n) [] dst = "BGR888" -> convert_rgba8888_to_bgr888(src, n)
      [] dst = "PRGBA8888" -> convert_rgba8888_to_prgba8888(src, n) [] dst = "PBGRA8888" -> convert_rgba8888_to_pbgra8888(src, n)
      [] OTHER -> None
pixel_convert_function_for_prgba8888(dst, src, n) ==
    CASE dst = "G1" -> convert_prgba8888_to_g1(src, n) [] dst = "G2" -> convert_prgba8888_to_g2(src, n)
      [] dst = "G4" -> convert_prgba8888_to_g4(src, n) [] dst = "G8" -> convert_prgba8888_to_g8(src, n)
      [] dst = "RGB888" -> convert_prgba8888_to_rgb888(src, n) [] dst = "BGR888" -> convert_prgba8888_to_bgr888(src, n)
      [] dst = "RGBA8888" -> convert_prgba8888_to_rgba8888(src, n) [] dst = "BGRA8888" -> convert_prgba8888_to_bgra8888(src, n)
      [] dst \in Veil -> pixel_convert_function_for_rgba8888(dst, src, n) [] OTHER -> None
\* The formats with blue first: the functions of the other order, with the
\* formats a colour can go to in turn.
Turned(f) ==
    CASE f = "RGB888" -> "BGR888" [] f = "BGR888" -> "RGB888" [] f = "RGBA8888" -> "BGRA8888" [] f = "BGRA8888" -> "RGBA8888"
      [] f = "PRGBA8888" -> "PBGRA8888" [] f = "PBGRA8888" -> "PRGBA8888" [] OTHER -> f
pixel_convert_function_for_bgra8888(dst, src, n) == pixel_convert_function_for_rgba8888(Turned(dst), src, n)
pixel_convert_function_for_pbgra8888(dst, src, n) == pixel_convert_function_for_prgba8888(Turned(dst), src, n)
pixel_convert_function(dst, from, src, n) ==
    CASE from = "G1" -> pixel_convert_function_for_g1(dst, src, n) [] from = "A1" -> pixel_convert_function_for_a1(dst, src, n)
      [] from = "G2" -> pixel_convert_function_for_g2(dst, src, n) [] from = "A2" -> pixel_convert_function_for_a2(dst, src, n)
      [] from = "G4" -> pixel_convert_function_for_g4(dst, src, n) [] from = "A4" -> pixel_convert_function_for_a4(dst, src, n)
      [] from = "G8" -> pixel_convert_function_for_g8(dst, src, n) [] from = "A8" -> pixel_convert_function_for_a8(dst, src, n)
      [] from = "RGB888" -> pixel_convert_function_for_rgb888(dst, src, n) [] from = "BGR888" -> pixel_convert_function_for_bgr888(dst, src, n)
      [] from = "RGBA8888" -> pixel_convert_function_for_rgba8888(dst, src, n) [] from = "BGRA8888" -> pixel_convert_function_for_bgra8888(dst, src, n)
      [] from = "PRGBA8888" -> pixel_convert_function_for_prgba8888(dst, src, n) [] from = "PBGRA8888" -> pixel_convert_function_for_pbgra8888(dst, src, n)
      [] OTHER -> None
\* Where there is one: not from a format to itself or to its twin, and not to
\* the other order of the same colours, but RGB888 and BGR888 become BGR888.
HasFunction(dst, from) ==
    /\ from \in Formats /\ dst \in Formats
    /\ from # "BGR888" => ~is_exact_copy_of_pixel(dst, from)
    /\ from \notin Mono \union {"RGB888"} => dst # Turned(from)
\* Without a function the memory is copied: as many bytes as the row has bits,
\* of which "beyond" are not the row's.
OrCopied(dst, src, n, out, size) ==
    IF out # None THEN [data |-> out, beyond |-> 0, exists |-> TRUE]
    ELSE [data |-> SubSeq(src, 1, IF size < Len(src) THEN size ELSE Len(src)),
          beyond |-> size - PackedSize(n, device_bits_per_pixel(dst)), exists |-> FALSE]
convert_pixels(dst, from, src, n) ==
    OrCopied(dst, src, n, pixel_convert_function(dst, from, src, n), device_bits_per_pixel(dst) * n)

----------------------------------------------------------------------------
\* What a pixel means: red, green, blue and alpha.
Level(v, bits) == (255 * v) \div (2^bits - 1)
MeanOf(f, l, p) ==
    LET q == IF f \in {"BGR888", "BGRA8888", "PBGRA8888"} THEN <<p[3], p[2], p[1]>> ELSE <<p[1], p[2], p[3]>>
    IN  CASE f \in Grey -> Opaque(l) [] f \in Veil -> White(l) [] f \in Rgb -> q \o <<255>> [] f \in Rgba -> q \o <<p[4]>>
          [] f \in Prgba -> [k \in 1..3 |-> IF p[4] = 0 THEN 0 ELSE Min({255, (255 * q[k]) \div p[4]})] \o <<p[4]>>
Mean_(f, src, i, bits) == MeanOf(f, Level(Field(src, bits, i), bits), Pixel(src, bits \div 8, i))
Mean(f, src, i) == Mean_(f, src, i, bits_per_pixel(f))
\* What it has to mean in another format.  Formats with one value read each
\* other's, and a colour without alpha gets the value for grey or for alpha.
Meant(dst, from, m, value, cut) ==
    CASE dst \in Grey -> Opaque(cut) [] dst \in Veil -> White(cut)
      [] dst \in Rgb -> IF from \in Mono THEN Opaque(value) ELSE <<m[1], m[2], m[3], 255>>
      [] dst \in Rgba \union Prgba -> m
Cut(v, bits) == Level(v \div 2^(8 - bits), bits)
Valued(dst, from, m, value) == Meant(dst, from, m, value, Cut(value, bits_per_pixel(dst)))
Reference(dst, from, m) ==
    Valued(dst, from, m, CASE from \in Grey -> m[1] [] from \in Veil -> m[4] [] from \in Rgb -> lightness(m)
                           [] OTHER -> IF dst \in Grey THEN lightness(m) ELSE m[4])

-----------------------------------------------------------------------------
CONSTANTS Counts,      \* how many pixels a row has
          Starts       \* the formats rows begin with

VARIABLES obj, abs
vars == <<obj, abs>>

Pattern(k) == (37 * k * k + 83 * k) % 256
Row(f, n) ==
    IF f \in Mono THEN Pack([i \in 1..n |-> Pattern(i) \div 2^(8 - bits_per_pixel(f))], bits_per_pixel(f))
    ELSE FlattenSeq([i \in 1..n |->
             LET a == IF i = 2 THEN 0 ELSE Pattern(i + 5)
                 c == [k \in 1..3 |-> Pattern(3*i + k)]
             IN  CASE f \in Rgb -> c [] f \in Rgba -> c \o <<a>> [] f \in Prgba -> [k \in 1..3 |-> (c[k] * a) \div 255] \o <<a>>])
Begin(f, n) ==
    /\ obj = [fmt |-> f, n |-> n, data |-> Row(f, n)]
    /\ abs = [of |-> IF f \in Mono THEN [i \in 1..n |-> Pattern(i)] ELSE <<>>, bits |-> Min({bits_per_pixel(f), 8}),
              in |-> IF f \in Mono THEN "mono" ELSE "nothing"]
Init == \E f \in Starts, n \in Counts : Begin(f, n)
\* Where the level is after a conversion.
Carrier(from, in, dst) ==
    CASE in = "mono" /\ dst \in Mono -> "mono"
      [] in = "mono" /\ dst \in Rgb -> "colour"
      [] in = "mono" /\ dst \in Rgba \union Prgba -> IF from \in Veil THEN "alpha" ELSE "colour"
      [] in = "colour" /\ dst \notin Veil -> IF dst \in Grey THEN "mono" ELSE "colour"
      [] in = "colour" /\ dst \in Veil -> IF from \in Rgb THEN "mono" ELSE "nothing"
      [] in = "alpha" -> IF dst \in Veil THEN "mono" ELSE IF dst \in Rgba \union Prgba THEN "alpha" ELSE "nothing"
      [] OTHER -> "nothing"
Converted(dst, out) ==
    /\ out # None /\ abs.in # "nothing"
    /\ obj' = [obj EXCEPT !.fmt = dst, !.data = out]
    /\ abs' = [abs EXCEPT !.bits = Min({@, bits_per_pixel(dst)}), !.in = Carrier(obj.fmt, abs.in, dst)]
Convert == \E dst \in Formats : Converted(dst, pixel_convert_function(dst, obj.fmt, obj.data, obj.n))
Next == Convert
Spec == Init /\ [][Next]_vars

----------------------------------------------------------------------------
LevelIs(m, i) == (IF abs.in = "alpha" \/ obj.fmt \in Veil THEN m[4] ELSE lightness(m)) = Cut(abs.of[i], abs.bits)
\* Whatever the row went through, a level that is still there is that of the
\* beginning, cut to the least bits any of the formats had and to no less
\* (pixel.cpp:139-1955).
LevelsStay == abs.in # "nothing" => \A i \in 1..obj.n : LevelIs(Mean(obj.fmt, obj.data, i), i)

Near(a, b, e) == a - b \in -e..e
\* A colour that is multiplied by a small alpha is known less well.
Error(dst, got) ==
    CASE dst \in Prgba /\ obj.fmt \in Rgba -> 255 \div Max({got[4], 1}) + 1
      [] obj.fmt \in Prgba -> IF dst \in Mono THEN Level(1, bits_per_pixel(dst)) ELSE 1 [] OTHER -> 0
Means(got, want, e) == \A k \in 1..4 : (k = 4 \/ got[4] # 0) => Near(got[k], want[k], e)
PixelMeans(dst, got, want) == Means(got, want, Error(dst, got))
RowMeans(dst, res) ==
    IF ~res.exists THEN ~HasFunction(dst, obj.fmt)
    ELSE /\ HasFunction(dst, obj.fmt) /\ Len(res.data) = PackedSize(obj.n, bits_per_pixel(dst)) /\ res.beyond = 0
         /\ ~(dst \in Prgba /\ obj.fmt = "G1") /\ dst # obj.fmt => \A i \in 1..obj.n :
                ~(obj.fmt \in Rgb /\ bits_per_pixel(dst) = 1 /\ i % 8 = 7) =>
                    PixelMeans(dst, Mean(dst, res.data, i), Reference(dst, obj.fmt, Mean(obj.fmt, obj.data, i)))
\* From any format to any that has a function, each pixel means what it meant,
\* as far as the format can tell, and the row takes the bytes it should.  Not
\* so: the seventh of eight pixels of a colour that becomes one bit, black of
\* one bit that becomes premultiplied, and BGR888 to itself.  Where there is
\* no function and no bytes past the row are copied, there are no pixels.
EachPixel == \A dst \in Formats : RowMeans(dst, convert_pixels(dst, obj.fmt, obj.data, obj.n))
=============================================================================
