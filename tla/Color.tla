-------------------------------- MODULE Color --------------------------------
(***************************************************************************)
(* src/main/runtime/Color.cpp: a colour that is kept in up to six colour   *)
(* spaces at a time.  What a client asks for in another space is           *)
(* calculated and kept, and a mask tells which spaces are there.           *)
(*                                                                         *)
(*   obj   rep: the colour each space stands for; mask; alpha              *)
(*   abs   the colour the object was given, and the spaces in which the    *)
(*         code is known to keep another one                               *)
(* A colour is its home (the space it was given in) and its components in  *)
(* it, in fifteenths of their range; in another space it is the same       *)
(* colour, whatever its components are there.  The numbers of the          *)
(* conversions are left out.  A space that is not in the mask keeps what   *)
(* it had; the model remembers it where it is read: RGB and LCH.           *)
(***************************************************************************)
EXTENDS Integers, Sequences, SequencesExt, FiniteSets

CONSTANTS Given,    \* the colours clients have
          Alphas    \* the values of the alpha channel, in fifteenths

VARIABLES obj, abs
vars == <<obj, abs>>

Spaces == {"RGB", "HSL", "XYZ", "LAB", "LCH", "CMYK"}
Old == [home |-> "?", c |-> <<>>]
Odd == [home |-> "odd", c |-> <<>>]   \* a colour nobody has asked for
BlackColor == [home |-> "RGB", c |-> <<0, 0, 0>>]
clamp(x) == IF x < 0 THEN 0 ELSE IF x > 15 THEN 15 ELSE x

\* Constructors.
Color == [rep |-> [s \in Spaces |-> IF s \in {"RGB", "LCH"} THEN BlackColor ELSE Old], mask |-> {"RGB"}, alpha |-> 0]
Keep(o, spaces) ==
    [o EXCEPT !.mask = spaces, !.rep = [s \in Spaces |-> IF s \in spaces \union {"RGB", "LCH"} THEN @[s] ELSE Old]]
SetIn(o, space, color) == Keep([o EXCEPT !.rep[space] = color], {space})
ColorAlpha(c, a) == [c EXCEPT !.alpha = clamp(a)]

----------------------------------------------------------------------------
\* Conversions: the spaces one brings into the mask, from those in it.
hsl_to_rgb(o) == [o EXCEPT !.rep["RGB"] = o.rep["HSL"], !.mask = @ \union {"RGB"}]
xyz_to_rgb(o) == [o EXCEPT !.rep["RGB"] = o.rep["XYZ"], !.mask = @ \union {"RGB"}]
lab_to_xyz(o) == [o EXCEPT !.rep["XYZ"] = o.rep["LAB"], !.mask = @ \union {"XYZ"}]
lch_to_lab(o) == [o EXCEPT !.rep["LAB"] = o.rep["LCH"], !.mask = @ \union {"LAB"}]
\* The RGB that is calculated is not marked as there.
cmyk_to_rgb(o) == [o EXCEPT !.rep["RGB"] = o.rep["CMYK"], !.mask = @ \union {"CMYK"}]
calc_rgb(o) ==
    CASE "RGB" \in o.mask -> o
      [] "RGB" \notin o.mask /\ "HSL" \in o.mask -> hsl_to_rgb(o)
      [] o.mask \intersect {"RGB", "HSL"} = {} /\ "XYZ" \in o.mask -> xyz_to_rgb(o)
      [] o.mask \intersect {"RGB", "HSL", "XYZ"} = {} /\ "LAB" \in o.mask -> xyz_to_rgb(lab_to_xyz(o))
      [] o.mask \subseteq {"LCH", "CMYK"} /\ "LCH" \in o.mask -> xyz_to_rgb(lab_to_xyz(lch_to_lab(o)))
      [] o.mask = {"CMYK"} -> cmyk_to_rgb(o)
From(o, space, source) == [o EXCEPT !.rep[space] = o.rep[source], !.mask = @ \union {space}]
calc_hsl(o) == IF "HSL" \in o.mask THEN o ELSE From(calc_rgb(o), "HSL", "RGB")
calc_xyz(o) == IF "XYZ" \in o.mask THEN o ELSE From(calc_rgb(o), "XYZ", "RGB")
calc_lab(o) == IF "LAB" \in o.mask THEN o ELSE From(calc_xyz(o), "LAB", "XYZ")
calc_lch(o) == IF "LCH" \in o.mask THEN o ELSE From(calc_lab(o), "LCH", "LAB")
\* From what RGB holds, which is not calculated first.
calc_cmyk(o) == IF "CMYK" \in o.mask THEN o ELSE From(o, "CMYK", "RGB")
calc(o, space) ==
    CASE space = "RGB" -> calc_rgb(o) [] space = "HSL" -> calc_hsl(o) [] space = "XYZ" -> calc_xyz(o) [] space = "LAB" -> calc_lab(o)
      [] space = "LCH" -> calc_lch(o) [] space = "CMYK" -> calc_cmyk(o)

\* Reading: what the client is given, and the object after it.  The forms for
\* XYZ, LAB, HCL and CMYK clamp the alpha; those with and without it differ in
\* nothing else.
Given1(c, space, alph) == [obj |-> c, color |-> c.rep[space], alpha |-> alph]
Got(o, space, alph) == Given1(calc(o, space), space, alph)
get_rgb(o)   == Got(o, "RGB", o.alpha)
get_rgbo(o)  == Got(o, "RGB", 15 - o.alpha)
get_hsl(o)   == Got(o, "HSL", o.alpha)
get_xyza(o)  == Got(o, "XYZ", clamp(o.alpha))
get_laba(o)  == Got(o, "LAB", clamp(o.alpha))
get_lcha(o)  == Got(o, "LCH", o.alpha)
get_hcla(o)  == Got(o, "LCH", clamp(o.alpha))
get_cmyka(o) == Got(o, "CMYK", clamp(o.alpha))
get(o, space) ==
    CASE space = "RGB" -> get_rgb(o) [] space = "HSL" -> get_hsl(o) [] space = "XYZ" -> get_xyza(o) [] space = "LAB" -> get_laba(o)
      [] space = "LCH" -> get_lcha(o) [] space = "HCL" -> get_hcla(o) [] space = "CMYK" -> get_cmyka(o)

\* Writing.
set_rgb(o, c)     == SetIn(o, "RGB", c)
set_rgba(o, c, a) == [set_rgb(o, c) EXCEPT !.alpha = clamp(a)]
set_hsl(o, c)     == SetIn(o, "HSL", c)
set_hsla(o, c, a) == [set_hsl(o, c) EXCEPT !.alpha = clamp(a)]
set_xyz(o, c)     == SetIn(o, "XYZ", c)
set_xyza(o, c, a) == [set_xyz(o, c) EXCEPT !.alpha = clamp(a)]
set_lab(o, c)     == SetIn(o, "LAB", c)
set_laba(o, c, a) == [set_lab(o, c) EXCEPT !.alpha = clamp(a)]
set_lch(o, c)     == SetIn(o, "LCH", c)
set_lcha(o, c, a) == [set_lch(o, c) EXCEPT !.alpha = clamp(a)]
set_hcl(o, c)     == set_lch(o, c)
set_hcla(o, c, a) == [set_lch(o, c) EXCEPT !.alpha = a]
set_cmyk(o, c)     == SetIn(o, "CMYK", c)
set_cmyka(o, c, a) == [set_cmyk(o, c) EXCEPT !.alpha = clamp(a)]
SetWith(o, c, a) ==
    CASE c.home = "RGB" -> set_rgba(o, c, a) [] c.home = "HSL" -> set_hsla(o, c, a) [] c.home = "XYZ" -> set_xyza(o, c, a)
      [] c.home = "LAB" -> set_laba(o, c, a) [] c.home = "LCH" -> set_lcha(o, c, a) [] c.home = "CMYK" -> set_cmyka(o, c, a)
\* One component, of the colour the space keeps, which is calculated first if it
\* is not there.  next: what another component makes of a colour.
SetOf(c, space, next(_)) == SetIn(c, space, next(c.rep[space]))
Component(o, space, next(_)) == SetOf(calc(o, space), space, next)
alpha(o, a)   == [o EXCEPT !.alpha = a]
opacity(o, a) == [o EXCEPT !.alpha = 15 - a]

\* copy() of another object.  The form with a reference alone leaves LCH as it is.
copy_ptr(o, c) == c
copy_ref(o, c) == [c EXCEPT !.rep["LCH"] = o.rep["LCH"]]
copy_ref_alpha(o, c, a) == [c EXCEPT !.alpha = clamp(a)]
copy_ptr_alpha(o, c, a) == [c EXCEPT !.alpha = clamp(a)]
\* Mixtures, of the RGB colours: the object's own colour, the other one, or
\* one in between, which the model takes from mixed.
White == [home |-> "RGB", c |-> <<15, 15, 15>>]
MixedBy(g, own, other, share, mixed) == set_rgb(g.obj, CASE share = own -> g.color [] share = 15 - own -> other [] OTHER -> mixed)
blend(o, other, share, mixed) == MixedBy(get_rgb(o), 15, other, share, mixed)
darken(o, amount, mixed) == MixedBy(get_rgb(o), 0, BlackColor, amount, mixed)
lighten(o, amount, mixed) == MixedBy(get_rgb(o), 15, White, amount, mixed)
scale_hsl_lightness(o, next(_)) == Component(o, "HSL", next)
scale_lch_luminance(o, next(_)) == Component(o, "LCH", next)

----------------------------------------------------------------------------
\* Words of 32 bits, as bytes: v * 255 + 0.25 of each component.
Byte(k) == (17 * k) % 256
Bytes(g, alph) == [a |-> Byte(alph), c |-> [i \in 1..3 |-> Byte(g.color.c[i])]]
rgba32(o)     == Bytes(get_rgb(o), o.alpha)
hsla32(o)     == Bytes(get_hsl(o), o.alpha)
dev_rgba32(o) == Bytes(get_rgb(o), 15 - o.alpha)
Multiplied(g) == [a |-> Byte(g.alpha), c |-> [i \in 1..3 |-> (68 * g.color.c[i] * g.alpha + 15) \div 60]]
prgba32(o)    == Multiplied(get_rgbo(o))
Unpacked(space, w) == [home |-> space, c |-> [i \in 1..3 |-> w.c[i] \div 17]]
set_rgba32(o, w)     == [set_rgb(o, Unpacked("RGB", w)) EXCEPT !.alpha = w.a \div 17]
set_hsla32(o, w)     == [set_hsl(o, Unpacked("HSL", w)) EXCEPT !.alpha = w.a \div 17]
set_rgb24(o, w)      == [set_rgba32(o, w) EXCEPT !.alpha = 0]
set_hsl24(o, w)      == [set_hsla32(o, w) EXCEPT !.alpha = 0]
set_dev_rgba32(o, w) == [set_rgba32(o, w) EXCEPT !.alpha = 15 - (w.a \div 17)]
\* v is 255 * comp * a; what a byte cannot tell apart is the nearest fifteenth.
set_prgba32(o, w) ==
    IF w.a = 0 THEN [set_rgb(o, BlackColor) EXCEPT !.alpha = 15]
    ELSE [set_rgb(o, [home |-> "RGB", c |-> [i \in 1..3 |-> (30 * w.c[i] + w.a) \div (2 * w.a)]]) EXCEPT !.alpha = 15 - (w.a \div 17)]

\* Texts.  Hexadecimal: n figures for each component, and alpha goes first.
Figures(k, n) == [i \in 1..n |-> k]
Hexes(list, n) == FlattenSeq([i \in 1..Len(list) |-> Figures(list[i], n)])
Prefix(space) == IF space = "RGB" THEN "#" ELSE "@"
Hexadecimal(g, space, tolerance, withalpha) ==
    [prefix |-> Prefix(space), hex |-> Hexes((IF withalpha THEN <<g.alpha>> ELSE <<>>) \o g.color.c, tolerance)]
format(o, space, tolerance, withalpha, len) ==
    IF tolerance \notin 1..4 THEN [res |-> "BAD_ARGUMENTS"]
    ELSE IF len < tolerance * (IF withalpha THEN 4 ELSE 3) + 2 THEN [res |-> "OVERFLOW"]
    ELSE [res |-> "OK", text |-> Hexadecimal(Got(o, space, o.alpha), space, tolerance, withalpha)]
format_hex(o, space, tolerance, withalpha) == format(o, space, tolerance, withalpha, 32)
parse_hex(text, n, prefix) ==
    LET len == Len(text.hex) \div n
    IN  IF text.prefix # prefix \/ Len(text.hex) % n # 0 \/ len \notin 1..4 THEN [res |-> "BAD_FORMAT"]
        ELSE [res |-> "OK", v |-> [k \in 1..n |-> text.hex[(k - 1)*len + 1]]]
HexTo(o, p, space, n) ==
    IF p.res # "OK" THEN [obj |-> o, res |-> p.res]
    ELSE [obj |-> SetWith(o, [home |-> space, c |-> SubSeq(p.v, n - 2, n)], IF n = 4 THEN p.v[1] ELSE 0), res |-> "OK"]
\* parse_rgb, parse_rgba, parse_hsl and parse_hsla.
parse_in(o, text, space, n) == HexTo(o, parse_hex(text, n, Prefix(space)), space, n)
SpaceOf(text) == IF text.prefix = "@" THEN "HSL" ELSE "RGB"
parse4(o, text) == parse_in(o, text, SpaceOf(text), 4)
parse3(o, text) == parse_in(o, text, SpaceOf(text), 3)

\* Functional: the name of the space and the components in its own units, of
\* the first space that is there.
Order == <<"RGB", "HSL", "LCH", "LAB", "XYZ", "CMYK">>
Name == [RGB |-> "rgb", HSL |-> "hsl", LCH |-> "hcl", LAB |-> "lab", XYZ |-> "xyz", CMYK |-> "cmyk"]
Units(name) == CASE name = "hsl" -> <<360, 100, 200>> [] OTHER -> <<1, 1, 1, 1>>
InUnits(c, name) == [i \in 1..Len(c) |-> c[i] * Units(name)[i]]
FromUnits(v, name) == [i \in 1..Len(v) |-> v[i] \div Units(name)[i]]
Shown(o) == SelectSeq(Order, LAMBDA s : s \in o.mask)[1]
Turned(c, s) == IF s = "LCH" THEN <<c[3], c[2], c[1]>> ELSE c
FunctionOf(o, s, last, more) == [prefix |-> "", fn |-> Name[s] \o last, v |-> InUnits(Turned(o.rep[s].c, s), Name[s]) \o more]
format3(o) == FunctionOf(o, Shown(o), "", <<>>)
format4(o) == FunctionOf(o, Shown(o), "a", <<o.alpha>>)
\* The form that writes a string has no alpha.
format4_string(o) == format3(o)
parse_cnumeric(text, n, name) == text.prefix = "" /\ text.fn = name /\ Len(text.v) = n
Functions1 == << <<"rgb", "RGB">>, <<"hsl", "HSL">>, <<"xyz", "XYZ">>, <<"lab", "LAB">>, <<"lch", "LCH">>, <<"hcl", "LCH">>, <<"cmyk", "CMYK">> >>
Comps(text) == IF text.fn \in {"cmyk", "cmyka"} THEN 4 ELSE 3
Called(text, last) ==
    SelectSeq(Functions1, LAMBDA f : parse_cnumeric(text, Comps(text) + (IF last = "" THEN 0 ELSE 1), f[1] \o last))
MeantBy(f, v) == [home |-> f[2], c |-> IF f[1] = "hcl" THEN Turned(v, "LCH") ELSE v]
FunctionTo(o, text, f, alph) == SetWith(o, MeantBy(f, FromUnits(SubSeq(text.v, 1, Comps(text)), f[1])), alph)
\* "cmyk" leaves the alpha as it is.
Functional(o, text, plain, full) ==
    IF plain # <<>> THEN [res |-> "OK", obj |-> IF text.fn = "cmyk" THEN set_cmyk(o, MeantBy(plain[1], text.v)) ELSE FunctionTo(o, text, plain[1], 0)]
    ELSE IF full # <<>> THEN [res |-> "OK", obj |-> FunctionTo(o, text, full[1], text.v[Len(text.v)])]
    ELSE [res |-> "BAD_FORMAT", obj |-> o]
OrThree(four, o, text) == IF four.res = "OK" THEN four ELSE parse3(o, text)
parse(o, text) == IF text.prefix # "" THEN OrThree(parse4(o, text), o, text) ELSE Functional(o, text, Called(text, ""), Called(text, "a"))

----------------------------------------------------------------------------
Init == obj = Color /\ abs = [color |-> BlackColor, off |-> {}]

In(space) == {c \in Given : c.home = space}
\* The client has a new colour in one space.
Becomes(o, color) == obj' = o /\ abs' = [color |-> color, off |-> {}]
Set == \E c \in Given, a \in Alphas : Becomes(SetWith(obj, c, a), c)
\* The two spaces that may keep another colour: one that is known to, and CMYK
\* calculated from an RGB that is not there, unless that RGB is the same by chance.
Astray(space) ==
    /\ space \in abs.off \/ (space = "CMYK" /\ obj.mask \intersect {"CMYK", "RGB"} = {})
    /\ calc(obj, space).rep[space] # abs.color
\* The other component makes c of the client's colour; of any other it makes one
\* nobody has asked for, and that is what the object then has.
SetComponent == \E space \in Spaces : \E c \in In(space) :
    LET next(x) == IF x = abs.color THEN c ELSE Odd
    IN  Becomes(CASE space = "HSL" -> scale_hsl_lightness(obj, next) [] space = "LCH" -> scale_lch_luminance(obj, next)
                  [] OTHER -> Component(obj, space, next), IF Astray(space) THEN Odd ELSE c)
Alpha == \E a \in Alphas : (obj' = alpha(obj, a) \/ obj' = opacity(obj, a)) /\ UNCHANGED abs
Read == \E space \in Spaces \union {"HCL"} :
    /\ obj' = get(obj, space).obj
    /\ abs' = IF Astray(space) THEN [abs EXCEPT !.off = @ \union {space}] ELSE abs
Mixture(share, own, other, mixed) == CASE share = own -> abs.color [] share = 15 - own -> other [] OTHER -> mixed
Mix == \E c \in In("RGB"), share \in {0, 7, 15} :
    \/ Becomes(blend(obj, c, share, White), Mixture(share, 15, c, White))
    \/ Becomes(darken(obj, share, c), Mixture(share, 0, BlackColor, c))
    \/ Becomes(lighten(obj, share, c), Mixture(share, 15, White, c))
\* Another object has colour c, and reads it in a space.
Copied(o, c) ==
    \/ Becomes(copy_ptr(obj, o), c)
    \/ Becomes(copy_ptr_alpha(obj, o, 7), c)
    \/ Becomes(copy_ref_alpha(obj, o, 7), c)
    \/ /\ obj' = copy_ref(obj, o)
       /\ abs' = IF o.mask = {"LCH"} THEN [color |-> obj.rep["LCH"], off |-> {}]
                 ELSE [color |-> c, off |-> o.mask \intersect {"LCH"}]
Copy == \E c \in Given, space \in {"RGB", "LCH"} : Copied(calc(SetWith(Color, c, 15), space), c)
Parsed(o, c) ==
    \/ \E text \in {format4(o)} \union (IF c.home \in {"RGB", "HSL"} THEN {format_hex(o, c.home, 2, alph).text : alph \in BOOLEAN} ELSE {}) :
          Becomes(parse(obj, text).obj, c)
    \/ c.home = "RGB" /\ Becomes(set_rgba32(obj, rgba32(o)), c)
Parse == \E c \in Given : Parsed(SetWith(Color, c, 15), c)
Next == Set \/ SetComponent \/ Alpha \/ Read \/ Mix \/ Copy \/ Parse
Spec == Init /\ [][Next]_vars
----------------------------------------------------------------------------
\* Every space in the mask stands for the colour the client has set, whatever
\* was read or set in between, but for two: CMYK that was calculated while RGB
\* was not there (Color.cpp:839), and LCH after copy() of a reference (336).  In
\* these the object keeps another colour, and a component that is set in one of
\* them, or an LCH that alone is copied, makes that other colour the object's.
SpacesAgree ==
    /\ obj.mask # {}
    /\ \A s \in obj.mask \ abs.off : obj.rep[s] = abs.color
    /\ abs.off = {} => \A s \in Spaces \ {"CMYK"} : calc(obj, s).rep[s] = abs.color

\* What the colour is written to, and the alpha that is read from it.
Case1(text, alph) == [text |-> text, alpha |-> alph]
Functions2(o) == {Case1(format3(o), 0), Case1(format4(o), o.alpha)}
Hexed(o, home) ==
    {Case1(format_hex(o, home, n, full).text, IF full THEN o.alpha ELSE 0) : n \in 1..4, full \in BOOLEAN}
        \ {Case1(format_hex(o, home, 4, FALSE).text, 0)}
\* An object that a word was set to, and the alpha it then has.
Words(o, home) ==
    CASE home = "RGB" -> {<<set_rgba32(Color, rgba32(o)), o.alpha>>, <<set_rgb24(Color, rgba32(o)), 0>>, <<set_dev_rgba32(Color, dev_rgba32(o)), o.alpha>>}
                            \union (IF o.alpha = 15 THEN {} ELSE {<<set_prgba32(Color, prgba32(o)), o.alpha>>})
      [] home = "HSL" -> {<<set_hsla32(Color, hsla32(o)), o.alpha>>, <<set_hsl24(Color, hsla32(o)), 0>>}
      [] OTHER -> {}
Same(o, alph, c) == o.rep[c.home] = c /\ o.mask = {c.home} /\ o.alpha = alph
SameRead(c) ==
    /\ \A x \in Functions2(obj) \union (IF c.home \in {"RGB", "HSL"} THEN Hexed(obj, c.home) ELSE {}) :
          Same(parse(Color, x.text).obj, x.alpha, c)
    /\ c.home \in {"RGB", "HSL"} => \A n \in 1..4 :
          /\ Same(parse3(Color, format_hex(obj, c.home, n, FALSE).text).obj, 0, c)
          /\ format(obj, c.home, n, TRUE, 4*n + 1).res = "OVERFLOW"
    /\ \A x \in Words(obj, c.home) : Same(x[1], x[2], c)
\* A colour that is written in its own space is the same when it is read: as a
\* word, as hexadecimal text with any number of figures, and as a function;
\* without the alpha where the form has none, and not as a text of 12 figures,
\* which is read as one with alpha (Color.cpp:478-556, 1067-1589).
WrittenIsRead ==
    abs.off = {} /\ obj.rep[Shown(obj)].home = Shown(obj) /\ obj.alpha \in 0..15 => SameRead(obj.rep[Shown(obj)])
=============================================================================
