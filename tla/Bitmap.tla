------------------------------- MODULE Bitmap -------------------------------
(***************************************************************************)
(* src/main/mm/Bitmap.cpp and include/private/mm/bitmap/xpm.h: pictures of *)
(* rows of pixels, each in a block of memory of its own, and how they are  *)
(* read from an XPM image.  Rows are converted by the functions of         *)
(* Pixels.                                                                 *)
(*                                                                         *)
(*   obj   the bitmaps: fmt, w, h, stride, and data: the bytes of the      *)
(*         block, None without one, Freed when the block is not the        *)
(*         bitmap's any more                                               *)
(*   env   "" or the call that touched memory which is not the bitmap's:   *)
(*         what the program does then is not defined, and it is not        *)
(*         followed further                                                *)
(*   ret   the status of the last call, FAILED for all that name a failure *)
(*   abs   the picture of each bitmap as its user knows it: the colour at  *)
(*         <<x, y>>, Unknown where it is what the memory held; Lost: the   *)
(*         whole picture is                                                *)
(***************************************************************************)
EXTENDS Integers, Sequences, SequencesExt, FiniteSetsExt

CONSTANTS Bitmaps, Formats,
          Sizes,       \* pairs of width and height
          Junk,        \* bytes that memory can hold
          Images       \* what a stream can hold: see load_xpm

VARIABLES obj, env, ret, abs
vars == <<obj, env, ret, abs>>

P == INSTANCE Pixels WITH Counts <- {}, Starts <- {}
None == <<-1>>
Freed == <<-2>>
Unknown == <<>>
Lost == [p \in {<<0, 0>>} |-> <<0, 0, 0>>]
Default == "DEFAULT"
Empty(f) == [fmt |-> f, w |-> 0, h |-> 0, stride |-> 0, data |-> None]

is_exact_copy(a, b) == a = b \/ (a \in P!Mono /\ P!Twin[a] = b)
calc_bytes_per_row(f, cols) == (P!device_bits_per_pixel(f) * cols + 7) \div 8
calc_stride(f, cols) ==
    LET bits == P!device_bits_per_pixel(f) * cols
    IN  IF P!device_bits_per_pixel(f) <= 8 THEN (bits + 7) \div 8 ELSE 4 * ((bits + 31) \div 32)
row(m, r) == SubSeq(m.data, (r - 1) * m.stride + 1, r * m.stride)
Held(m) == m.data \notin {None, Freed}

\* The rows of a bitmap in another format.  Where a row is written over itself
\* each byte of a pixel is written before the next one is read.
PutByte(p, k, pixel) == IF k <= Len(p) THEN [p EXCEPT ![k] = pixel[k]] ELSE Append(p, pixel[k])
OnePixel(bytes, fmt, format, from, to) ==
    FoldLeft(LAMBDA p, k : PutByte(p, k, P!pixel_convert_function(format, fmt, SubSeq(p, 1, from), 1)), bytes, [k \in 1..to |-> k])
OverItself(m, r, format, from, to) ==
    FlattenSeq([i \in 1..m.w |-> SubSeq(OnePixel(SubSeq(row(m, r), from*(i - 1) + 1, from*i), m.fmt, format, from, to), 1, to)])
Converted(m, format, over) ==
    [r \in 1..m.h |-> IF over /\ P!device_bits_per_pixel(m.fmt) >= 24
                      THEN OverItself(m, r, format, P!device_bits_per_pixel(m.fmt) \div 8, P!device_bits_per_pixel(format) \div 8)
                      ELSE P!pixel_convert_function(format, m.fmt, row(m, r), m.w)]
Supported(m, format) == P!HasFunction(format, m.fmt)
Zeros(n) == [i \in 1..n |-> 0]
Padded(s, n) == s \o Zeros(n - Len(s))
\* Bytes written over others, from an offset on.
Over(data, at, s) == [i \in DOMAIN data |-> IF i - at \in DOMAIN s THEN s[i - at] ELSE data[i]]

----------------------------------------------------------------------------
\* Each call: the bitmap it leaves, its status, and whether it reached memory
\* that is not the bitmap's.
Did(m, res) == [m |-> m, res |-> res, bad |-> FALSE]
Broken(m) == [m |-> m, res |-> "OK", bad |-> TRUE]
reset(m) == IF m.data = Freed THEN Broken(m) ELSE Did(Empty(m.fmt), "OK")
init(m, format, w, h, alloc) ==
    LET stride == calc_stride(format, w)
    IN  CASE format = Default -> Did(m, "INVALID_VALUE")
          [] format # Default /\ (w = 0 \/ h = 0) -> [reset(m) EXCEPT !.m.fmt = format]
          [] format # Default /\ w > 0 /\ h > 0 /\ m.data = Freed -> Broken(m)
          [] OTHER -> IF alloc THEN Did([fmt |-> format, w |-> w, h |-> h, stride |-> stride, data |-> Zeros(stride * h)], "OK")
                      ELSE Did(m, "NO_MEM")
\* The copy is made, and its block is given up before the call returns; a
\* source without bytes takes the block and gives none.
set(m, src, alloc) ==
    LET size == src.h * src.stride
    IN  CASE src.data = None -> [reset(m) EXCEPT !.m.fmt = src.fmt]
          [] src.data # None /\ (m.data = Freed \/ src.data = Freed) -> Broken(m)
          [] OTHER -> IF size = 0 /\ m.data # None THEN Did([m EXCEPT !.data = Freed], "NO_MEM")
                      ELSE IF ~alloc THEN Did(m, "NO_MEM") ELSE Did([src EXCEPT !.data = Freed], "OK")
\* Rows that get shorter, or fewer, are cleared by a length below zero.  What
\* a row gets at its end is what the memory held.
resize(m, w, h, alloc, junk) ==
    LET stride == calc_stride(m.fmt, w)
        full == Held(m) /\ m.w > 0 /\ m.h > 0
        Row(r) == IF r <= m.h THEN row(m, r) \o [i \in 1..stride - m.stride |-> junk] ELSE Zeros(stride)
        below == (stride < m.stride /\ h > 0) \/ (h < m.h /\ stride > 0)
    IN  CASE m.w = w /\ m.h = h -> Did(m, "OK")
          [] ~(m.w = w /\ m.h = h) /\ ~alloc -> Did(m, "NO_MEM")
          [] OTHER -> IF m.data = Freed \/ (full /\ below) THEN Broken(m)
                      ELSE Did([m EXCEPT !.w = w, !.h = h, !.stride = stride,
                                         !.data = IF full THEN FlattenSeq([r \in 1..h |-> Row(r)]) ELSE Zeros(stride * h)], "OK")
\* Into another bitmap, or the same.  Its block is used again when the sizes
\* agree, with the rows where they are in the source.
SameSize(m, dst, format) == calc_stride(format, m.w) * dst.h = m.stride * m.h
RowsInto(data, m, rows) == FoldLeft(LAMBDA d, r : Over(d, (r - 1) * m.stride, rows[r]), data, [r \in 1..m.h |-> r])
Joined(rows, stride) == FlattenSeq([r \in DOMAIN rows |-> Padded(rows[r], stride)])
Into(m, dst, there, rows, alloc) ==
    LET some == m.w > 0 /\ m.h > 0
        fits == some => m.data # Freed /\ Held(dst) /\ (m.h - 1) * m.stride + calc_bytes_per_row(there.fmt, m.w) <= Len(dst.data)
    IN  CASE SameSize(m, dst, there.fmt) ->
                 IF fits THEN Did([there EXCEPT !.data = IF some THEN RowsInto(@, m, rows) ELSE @], "OK") ELSE Broken(dst)
          [] ~SameSize(m, dst, there.fmt) /\ ~alloc -> Did(dst, "NO_MEM")
          [] OTHER -> IF (some /\ m.data = Freed) \/ dst.data = Freed THEN Broken(dst)
                      ELSE Did([there EXCEPT !.data = Joined(rows, there.stride)], "OK")
convert_to(m, dst, self, format, alloc) ==
    CASE m.fmt = format -> Did(dst, "OK")
      [] m.fmt # format /\ format = Default -> Did(dst, "INVALID_VALUE")
      [] m.fmt # format /\ format # Default /\ ~Supported(m, format) -> Did(dst, "UNSUPPORTED_FORMAT")
      [] OTHER -> Into(m, dst, [dst EXCEPT !.stride = calc_stride(format, m.w), !.w = m.w, !.h = m.h, !.fmt = format],
                       Converted(m, format, self /\ SameSize(m, dst, format)), alloc)
WithTail(c, was) == c \o SubSeq(was, Len(c) + 1, Len(was))
InPlace(m, new, rows) ==
    IF new.stride = m.stride THEN FlattenSeq([r \in 1..m.h |-> WithTail(rows[r], row(m, r))]) ELSE Joined(rows, new.stride)
Own(m, new, rows, alloc) ==
    CASE new.stride # m.stride /\ ~alloc -> Did(m, "NO_MEM")
      [] ~(new.stride # m.stride /\ ~alloc) /\ m.data = Freed -> Broken(m)
      [] OTHER -> Did([new EXCEPT !.data = InPlace(m, new, rows)], "OK")
convert(m, format, alloc) ==
    CASE m.fmt = format -> Did(m, "OK")
      [] m.fmt # format /\ format = Default -> Did(m, "INVALID_VALUE")
      [] OTHER -> IF m.w = 0 \/ m.h = 0 \/ is_exact_copy(m.fmt, format) THEN Did([m EXCEPT !.fmt = format], "OK")
                  ELSE IF ~Supported(m, format) THEN Did(m, "UNSUPPORTED_FORMAT")
                  ELSE Own(m, [m EXCEPT !.fmt = format, !.stride = calc_stride(format, m.w)],
                           Converted(m, format, calc_stride(format, m.w) = m.stride), alloc)

----------------------------------------------------------------------------
\* XPM.  An image has w, h, where reading it fails ("" or "open", "header",
\* "color", "line", "end", "close"), its colours and lines of them, 0 for a
\* name no colour has.  A colour says what it is on screens of
\* four kinds, and its symbolic name: <<>> nothing, <<0>> transparent, <<1>> a
\* name nobody knows, otherwise red, green and blue.
Schema(format) ==
    CASE format \in {"A1", "G1"} -> <<"mono", "gray4", "gray", "color", "symbolic">>
      [] format \in {"A4", "G4"} -> <<"gray4", "mono", "gray", "color", "symbolic">>
      [] format \in {"A8", "G8"} -> <<"gray", "gray4", "mono", "color", "symbolic">>
      [] OTHER -> <<"color", "gray", "gray4", "mono", "symbolic">>
img_pixfmt(format) ==
    CASE format \in {"A1", "A4", "A8"} -> "A8" [] format \in {"G1", "G4", "G8"} -> "G8"
      [] format \in {"A2", "G2", Default} -> "BGRA8888" [] OTHER -> format
xpm_convert_color(c, order) ==
    LET says == SelectSeq([i \in 1..5 |-> c[order[i]]], LAMBDA item : item \notin {<<>>, <<1>>})
    IN  IF says = <<>> \/ Head(says) = <<0>> THEN <<0, 0, 0, 0>> ELSE Head(says) \o <<255>>
\* The bytes of a colour, red, green, blue and alpha, in the format.
ColorBytes(format, c) ==
    LET premultiplied == [k \in 1..3 |-> (c[k] * c[4]) \div 255]
    IN  CASE format = "A8" -> <<c[4]>> [] format = "G8" -> <<P!lightness(c)>>
          [] format = "RGB888" -> <<c[1], c[2], c[3]>> [] format = "BGR888" -> <<c[3], c[2], c[1]>>
          [] format = "RGBA8888" -> c [] format = "BGRA8888" -> <<c[3], c[2], c[1], c[4]>>
          [] format = "PRGBA8888" -> premultiplied \o <<c[4]>>
          [] format = "PBGRA8888" -> <<premultiplied[3], premultiplied[2], premultiplied[1], c[4]>>
ImageColor(im, format, x, y) == xpm_convert_color(im.colors[im.lines[y][x]], Schema(format))
Picture(im, f, format, stride) ==
    FlattenSeq([y \in 1..im.h |-> Padded(FlattenSeq([x \in 1..im.w |-> ColorBytes(f, ImageColor(im, format, x, y))]), stride)])
\* What the bitmap had goes with the temporary one.
Given(m, done) == IF done.res = "OK" /\ m.data = Freed THEN Broken(m) ELSE IF done.res = "OK" THEN done ELSE Did(m, done.res)
Filled(m, im, format, alloc, f, tmp) ==
    IF tmp.res # "OK" THEN Did(m, tmp.res)
    ELSE IF \E y \in 1..im.h, x \in 1..im.w : im.lines[y][x] = 0 THEN Did(m, "CORRUPTED_FILE")
    ELSE IF im.fails = "end" THEN Did(m, "IO_ERROR")
    ELSE Given(m, convert([tmp.m EXCEPT !.data = Picture(im, f, format, tmp.m.stride)], format, alloc))
InFormat(m, im, format, alloc, f) == Filled(m, im, format, alloc, f, init(Empty(f), f, im.w, im.h, alloc))
load_xpm(m, im, format, alloc) ==
    CASE im.fails = "header" -> Did(m, "BAD_FORMAT")
      [] im.fails # "header" /\ (im.w = 0 \/ im.h = 0) -> [reset(m) EXCEPT !.m.fmt = format]
      [] im.fails # "header" /\ im.w > 0 /\ im.h > 0 /\ im.fails \in {"color", "line"} -> Did(m, "CORRUPTED_FILE")
      [] OTHER -> InFormat(m, im, format, alloc, img_pixfmt(format))
do_load(m, im, format, alloc) == load_xpm(m, im, format, alloc)
\* From a file, memory or another stream, which is opened before and closed
\* after; the first of the statuses that is not OK counts.
AtClose(did, im) == IF did.res = "OK" /\ im.fails = "close" THEN [did EXCEPT !.res = "NOT_CLOSED"] ELSE did
load(m, im, format, alloc) ==
    IF im.fails = "open" THEN Did(m, "NOT_FOUND") ELSE AtClose(do_load(m, im, format, alloc), im)

----------------------------------------------------------------------------
\* What a format keeps of a colour.
Level3(format, c) ==
    LET bits == P!bits_per_pixel(format)
        l == P!Cut(P!lightness(c), bits)
    IN  IF c = Unknown \/ format \notin P!Mono THEN c ELSE <<l, l, l>>
Kept(pic, from, format) ==
    IF from \in P!Rgba \union P!Prgba /\ format \in P!Veil THEN Lost ELSE [p \in DOMAIN pic |-> Level3(format, pic[p])]
Black == <<0, 0, 0>>
Plain(w, h, c) == [p \in (1..w) \X (1..h) |-> c]
\* Colours that turn round in place are lost.
BlueFirst == {"BGR888", "BGRA8888", "PBGRA8888"}
Turns(m, format) == /\ {m.fmt, format} \intersect P!Mono = {} /\ (m.fmt \in BlueFirst) # (format \in BlueFirst)
                    /\ calc_stride(format, m.w) = m.stride
Done(call, b, r, pic) ==
    /\ obj' = IF r.bad THEN [c \in Bitmaps |-> Empty("RGBA8888")] ELSE [obj EXCEPT ![b] = r.m]
    /\ env' = IF r.bad THEN call ELSE env
    /\ ret' = IF r.bad THEN "NO_RETURN" ELSE IF r.res \in {"OK", "NOT_CLOSED"} THEN r.res ELSE "FAILED"
    /\ abs' = IF r.bad THEN [c \in Bitmaps |-> Lost] ELSE IF r.m.data = Freed THEN [abs EXCEPT ![b] = Lost]
              ELSE IF r.res = "OK" \/ r.m # obj[b] THEN [abs EXCEPT ![b] = pic] ELSE abs

Init ==
    /\ obj = [b \in Bitmaps |-> Empty("RGBA8888")]
    /\ env = ""
    /\ ret = "OK"
    /\ abs = [b \in Bitmaps |-> Plain(0, 0, Black)]
Runs == env = ""
\* The bound: calls on one bitmap are made while only it has a block.
Alone(b) == Runs /\ \A c \in Bitmaps \ {b} : obj[c].data = None
InitBitmap == \E b \in Bitmaps, f \in Formats \union {Default}, s \in Sizes, alloc \in BOOLEAN :
    Alone(b) /\ Done("init", b, init(obj[b], f, s[1], s[2], alloc), Plain(s[1], s[2], Black))
Reset == \E b \in Bitmaps : Runs /\ Done("reset", b, reset(obj[b]), Plain(0, 0, Black))
Set == \E b, c \in Bitmaps, alloc \in BOOLEAN : Runs /\ Done("set", b, set(obj[b], obj[c], alloc), abs[c])
\* The constructor and the assignment that move; what the target had is not freed.
Move == \E b, c \in Bitmaps :
    /\ Runs /\ b # c
    /\ obj' = [obj EXCEPT ![b] = obj[c], ![c] = Empty("RGBA8888")]
    /\ abs' = [abs EXCEPT ![b] = abs[c], ![c] = Plain(0, 0, Black)]
    /\ ret' = "OK" /\ UNCHANGED env
swap == \E b, c \in Bitmaps :
    /\ Runs /\ b # c
    /\ obj' = [obj EXCEPT ![b] = obj[c], ![c] = obj[b]]
    /\ abs' = [abs EXCEPT ![b] = abs[c], ![c] = abs[b]]
    /\ ret' = "OK" /\ UNCHANGED env
Resize == \E b \in Bitmaps, s \in Sizes, alloc \in BOOLEAN, junk \in Junk :
    LET m == obj[b]
        At(p) == IF p[1] <= m.w /\ p[2] <= m.h THEN abs[b][p] ELSE IF p[2] > m.h \/ m.w = 0 \/ m.h = 0 THEN Black ELSE Unknown
    IN  Alone(b) /\ Done(IF s[1] < m.w \/ s[2] < m.h THEN "shrink" ELSE "resize", b, resize(m, s[1], s[2], alloc, junk), IF abs[b] = Lost THEN Lost ELSE [p \in (1..s[1]) \X (1..s[2]) |-> At(p)])
ConvertTo == \E b, c \in Bitmaps, f \in Formats \union {Default}, alloc \in BOOLEAN :
    LET m == obj[c]
        asIs == m.fmt = f \/ (SameSize(m, obj[b], f) /\ (m.stride # calc_stride(f, m.w) \/ (b = c /\ Turns(m, f))))
        reuse == IF SameSize(m, obj[b], f) /\ obj[b].stride # calc_stride(f, m.w) THEN "reuse" ELSE "convert_to"
    IN  Runs /\ Done(reuse, b, convert_to(m, obj[b], b = c, f, alloc), IF m.fmt = f THEN abs[b] ELSE IF asIs THEN Lost ELSE Kept(abs[c], m.fmt, f))
Convert == \E b \in Bitmaps, f \in Formats \union {Default}, alloc \in BOOLEAN :
    Alone(b) /\ Done("convert", b, convert(obj[b], f, alloc), IF obj[b].fmt # f /\ Turns(obj[b], f) THEN Lost ELSE Kept(abs[b], obj[b].fmt, f))
Load == \E b \in Bitmaps, im \in Images, f \in Formats \union {Default}, alloc \in BOOLEAN :
    Alone(b) /\ Done("load", b, load(obj[b], im, f, alloc),
                 [p \in (1..im.w) \X (1..im.h) |->
                    LET c == ImageColor(im, f, p[1], p[2])
                    IN  IF f \in P!Veil THEN <<c[4], c[4], c[4]>> ELSE Level3(f, SubSeq(c, 1, 3))])
\* The user writes a picture through row() or data(): chequered, with red
\* where there are colours.
Drawn(f, p) == IF (p[1] + p[2]) % 2 = 0 THEN Black ELSE IF f \in P!Mono THEN <<255, 255, 255>> ELSE <<255, 0, 0>>
Pixels(m, p) == LET c == Drawn(m.fmt, p) IN IF m.fmt \in P!Rgb \union P!Rgba \union P!Prgba THEN ColorBytes(m.fmt, c \o <<255>>) ELSE <<c[1]>>
Draw == \E b \in Bitmaps :
    LET m == obj[b]
        Line(y) == Padded(IF m.fmt \in P!Mono THEN P!Pack([x \in 1..m.w |-> P!Level(Drawn(m.fmt, <<x, y>>)[1], 8) \div 2^(8 - P!bits_per_pixel(m.fmt))], P!bits_per_pixel(m.fmt))
                          ELSE FlattenSeq([x \in 1..m.w |-> Pixels(m, <<x, y>>)]), m.stride)
    IN  /\ Alone(b) /\ Held(m)
        /\ Done("draw", b, Did([m EXCEPT !.data = FlattenSeq([y \in 1..m.h |-> Line(y)])], "OK"), [p \in (1..m.w) \X (1..m.h) |-> Drawn(m.fmt, p)])
\* The destructor, and a new object in its place.
Renew == \E b \in Bitmaps :
    Runs /\ Done("free", b, [reset(obj[b]) EXCEPT !.m = IF obj[b].data = Freed THEN @ ELSE Empty("RGBA8888")], Plain(0, 0, Black))
Next == \/ InitBitmap \/ Reset \/ Set \/ Move \/ swap \/ Resize \/ ConvertTo \/ Convert \/ Load \/ Draw \/ Renew
Spec == Init /\ [][Next]_vars

----------------------------------------------------------------------------
\* A bitmap that has its block shows, after any calls, the picture its user
\* drew, loaded or copied, as far as its format can: in rows of the stride
\* that belongs to the format and within the block.  Not so after red and
\* blue are turned round in place, and after convert_to() into a block that
\* was used again with other rows (Bitmap.cpp:314-466, pixel.cpp:1265).  A
\* bitmap that was set from another has no block any more: the copy is freed
\* when set() returns (198), and nothing is said of its picture.
PicturesKept == \A b \in Bitmaps :
    LET m == obj[b]
        Seen(x, y) == P!Mean(m.fmt, row(m, y), x)
    IN  Held(m) /\ m.w > 0 /\ m.h > 0 /\ m.fmt # Default /\ abs[b] # Lost =>
            /\ m.stride = calc_stride(m.fmt, m.w) /\ m.stride * m.h <= Len(m.data)
            /\ DOMAIN abs[b] = (1..m.w) \X (1..m.h)
            /\ \A p \in DOMAIN abs[b] : LET s == Seen(p[1], p[2]) IN
                   abs[b][p] = Unknown \/ abs[b][p] = (IF m.fmt \in P!Veil THEN <<s[4], s[4], s[4]>> ELSE SubSeq(s, 1, 3))

\* Memory that is not the bitmap's is only touched where a bitmap was set
\* from another before (set() frees what it keeps, 198), a resize takes rows or pixels away, or convert_to()
\* uses a block again; and a call that fails leaves the bitmaps as they
\* were, unless it took a source of no bytes or a stream that fails when it
\* is closed (Bitmap.cpp:168-476, xpm.h:83-356).
BitmapFailuresStep ==
    /\ env' # "" => env' \in {"shrink", "reuse"} \/ \E b \in Bitmaps : obj[b].data = Freed
    /\ ret' = "FAILED" => \A b \in Bitmaps :
           obj'[b] = obj[b] \/ (obj'[b].data = Freed /\ \E c \in Bitmaps : obj[c].stride * obj[c].h = 0)
BitmapFailures == [][BitmapFailuresStep]_vars
=============================================================================
