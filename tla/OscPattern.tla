----------------------------- MODULE OscPattern -----------------------------
(***************************************************************************)
(* src/main/protocol/osc/pattern.cpp: patterns of OSC addresses.           *)
(*                                                                         *)
(*   obj   the pattern: its format and where its parts start; no parts     *)
(*         when there is no pattern                                        *)
(*   ret   OK or FAILED; TRUE or FALSE of a match                          *)
(* A text is a sequence of characters; what is read behind its end is the  *)
(* zero that ends it, here "".  Memory does not run out.                   *)
(***************************************************************************)
EXTENDS Integers, Sequences, FiniteSets, SequencesExt, TLC

CONSTANTS Formats,      \* texts for pattern_create()
          Addresses,    \* texts for pattern_match()
          Pieces,       \* what patterns are made of: a text and what it stands for
          MaxPieces     \* how many of them in a pattern

VARIABLES obj, ret
vars == <<obj, ret>>

Chars(s) == [i \in 1..Len(s) |-> SubSeq(s, i, i)]
At(s, i) == IF i \in DOMAIN s THEN s[i] ELSE ""
NoPattern == [format |-> <<>>, parts |-> <<>>]

\* Characters of a list, a range or a literal; every character of these
\* texts can be printed.
pattern_is_invalid(c) == c \in {" ", "#", "*", ",", "/", "?", "[", "]", "{", "}", ""}
Slashes(s) == SelectSeq([i \in 1..Len(s) |-> i], LAMBDA i : s[i] = "/")
pattern_calc_segments(s) == IF At(s, 1) # "/" THEN 0 ELSE Len(Slashes(s))
pattern_split_segments(s) == [k \in 1..Len(Slashes(s)) |-> Slashes(s)[k] + 1]

\* Each returns where the text goes on, or 0.
RECURSIVE pattern_validate_list(_, _), RangeBody(_, _, _), pattern_validate_part(_, _)
pattern_validate_list(s, i) ==
    CASE At(s, i) = "}" -> i + 1
      [] pattern_is_invalid(At(s, i)) /\ At(s, i) \notin {"}", ","} -> 0
      [] OTHER -> pattern_validate_list(s, i + 1)
RangeBody(s, i, count) ==
    LET dash == At(s, i + 1) = "-"
    IN  IF pattern_is_invalid(At(s, i)) THEN (IF At(s, i) = "]" /\ count > 0 THEN i + 1 ELSE 0)
        ELSE IF dash /\ pattern_is_invalid(At(s, i + 2)) THEN 0
        ELSE RangeBody(s, IF dash THEN i + 3 ELSE i + 1, count + 1)
pattern_validate_range(s, i) == RangeBody(s, IF At(s, i) = "!" THEN i + 1 ELSE i, 0)
pattern_validate_part(s, i) ==
    LET c == At(s, i)
        to == CASE c = "{" -> pattern_validate_list(s, i + 1) [] c = "[" -> pattern_validate_range(s, i + 1) [] OTHER -> i + 1
    IN  IF c \in {"", "/"} THEN TRUE
        ELSE c \notin {" ", "#", "]", "}", ","} /\ to # 0 /\ pattern_validate_part(s, to)
Valid(format, parts) == \A k \in DOMAIN parts : At(format, parts[k]) \notin {"", "/"} /\ pattern_validate_part(format, parts[k])
pattern_create(format) ==
    IF pattern_calc_segments(format) > 0 /\ Valid(format, pattern_split_segments(format))
    THEN [res |-> "OK", pattern |-> [format |-> format, parts |-> pattern_split_segments(format)]]
    ELSE [res |-> "FAILED", pattern |-> NoPattern]

\* Matching.  i: where the part goes on; a: where the address does.  A range
\* and a list tell where both go on; at: 0 when they do not match.
On(i, a) == [i |-> i, at |-> a]
Codes == "!-0123456789ab"
Code(c) == IF \E k \in 1..Len(Codes) : SubSeq(Codes, k, k) = c THEN CHOOSE k \in 1..Len(Codes) : SubSeq(Codes, k, k) = c ELSE 0
RECURSIVE RangeFrom(_, _, _, _), ListFrom(_, _, _, _, _, _), pattern_match_part(_, _, _, _)
RangeFrom(s, i, c, matched) ==
    LET dash == ~matched /\ At(s, i + 1) = "-"
        low == Code(s[i])
        high == Code(At(s, i + 2))
        here == IF ~dash THEN c = s[i] ELSE IF low <= high THEN Code(c) \in low..high ELSE Code(c) \in high..low
    IN  IF s[i] = "]" THEN [i |-> i + 1, matched |-> matched]
        ELSE RangeFrom(s, IF dash THEN i + 3 ELSE i + 1, c, matched \/ here)
Ranged(r, invert, a) == On(r.i, IF r.matched # invert THEN a + 1 ELSE 0)
RangeIn(s, i, from, t, a) ==
    IF At(s, from) = "]" \/ a > Len(t) THEN On(i, IF from > i THEN 0 ELSE a)
    ELSE IF pattern_is_invalid(At(t, a)) THEN On(i, 0)
    ELSE Ranged(RangeFrom(s, from, At(t, a), FALSE), from > i, a)
pattern_match_range(s, i, t, a) == RangeIn(s, i, IF At(s, i) = "!" THEN i + 1 ELSE i, t, a)
\* The first item of a list that the address goes on with is the one taken.
ListFrom(s, item, i, t, a, matched) ==
    LET len == i - item
        same == ~matched /\ Len(t) + 1 - a >= len /\ SubSeq(s, item, i - 1) = SubSeq(t, a, a + len - 1)
        to == IF same THEN a + len ELSE a
    IN  IF s[i] = "}" THEN On(i + 1, IF matched \/ same THEN to ELSE 0)
        ELSE IF s[i] = "," THEN ListFrom(s, i + 1, i + 1, t, to, matched \/ same)
        ELSE ListFrom(s, item, i + 1, t, a, matched)
pattern_match_list(s, i, t, a) == ListFrom(s, i, i, t, a, FALSE)
Stop(t, a) == At(t, a) \in {"", "/"}
Behind(s, t, r) == IF r.at = 0 THEN 0 ELSE pattern_match_part(s, r.i, t, r.at)
\* A star: as little of the part as leaves a match.
FirstOf(found) == IF found = <<>> THEN 0 ELSE found[1]
Starred(s, i, t, a, stop) ==
    FirstOf(SelectSeq([k \in 1..(stop - a + 1) |-> pattern_match_part(s, i, t, a + k - 1)], LAMBDA to : to # 0))
PartEnd(t, a) == CHOOSE k \in a..(Len(t) + 1) : Stop(t, k) /\ \A j \in a..(k - 1) : ~Stop(t, j)
pattern_match_part(s, i, t, a) ==
    LET c == At(s, i)
    IN  CASE c \in {"", "/"} -> IF Stop(t, a) THEN a ELSE 0
          [] c = "?" -> IF pattern_is_invalid(At(t, a)) THEN 0 ELSE pattern_match_part(s, i + 1, t, a + 1)
          [] c = "*" -> Starred(s, i + 1, t, a, PartEnd(t, a))
          [] c \in {"[", "{"} -> Behind(s, t, IF c = "[" THEN pattern_match_range(s, i + 1, t, a) ELSE pattern_match_list(s, i + 1, t, a))
          [] OTHER -> IF At(t, a) = c THEN pattern_match_part(s, i + 1, t, a + 1) ELSE 0
RECURSIVE MatchFrom(_, _, _, _)
AfterPart(p, k, t, to) ==
    IF to = 0 THEN FALSE ELSE IF At(t, to) = "" THEN k = Len(p.parts) ELSE MatchFrom(p, k + 1, t, to + 1)
MatchFrom(p, k, t, a) ==
    IF k > Len(p.parts) \/ Stop(t, a) THEN FALSE ELSE AfterPart(p, k, t, pattern_match_part(p.format, p.parts[k], t, a))
pattern_match(p, t) == At(t, 1) = "/" /\ MatchFrom(p, 1, t, 2)

----------------------------------------------------------------------------
Init == obj = NoPattern /\ ret = "OK"
\* The caller destroys a pattern before it creates another one in its place.
Made(r) == ret' = r.res /\ obj' = r.pattern
Create == \E s \in Formats : obj = NoPattern /\ Made(pattern_create(Chars(s)))
Destroy == obj' = NoPattern /\ ret' = "OK"
Match == \E t \in Addresses : ret' = (IF pattern_match(obj, Chars(t)) THEN "TRUE" ELSE "FALSE") /\ UNCHANGED obj
Next == Create \/ Destroy \/ Match
Spec == Init /\ [][Next]_vars

----------------------------------------------------------------------------
\* What a sequence of pieces stands for: the texts it matches, of those there
\* are.  A piece is a text, and either the set of texts it stands for or, for
\* a star, any text without a slash.
AddressTexts == {Chars(t) : t \in Addresses}
RECURSIVE Rule(_, _)
Rule(pieces, t) ==
    IF pieces = <<>> THEN t = <<>>
    ELSE \E n \in 0..Len(t) :
             /\ (IF Head(pieces).star THEN \A k \in 1..n : t[k] # "/" ELSE \E x \in Head(pieces).texts : Chars(x) = SubSeq(t, 1, n))
             /\ Rule(Tail(pieces), SubSeq(t, n + 1, Len(t)))
Sequences == UNION {[1..n -> Pieces] : n \in 1..MaxPieces}
TextOf(pieces) == <<"/">> \o FoldLeft(LAMBDA s, p : s \o Chars(p.text), <<>>, pieces)
Proper(s) == s[Len(s)] # "/" /\ \A k \in 1..(Len(s) - 1) : s[k] = "/" => s[k + 1] # "/"
Prefixed(piece) == \E x, y \in piece.texts : x # y /\ IsPrefix(Chars(x), Chars(y))

Agree(match, rule, pieces) == (match => rule) /\ (rule => match \/ \E k \in DOMAIN pieces : Prefixed(pieces[k]))
Matches(r, pieces) ==
    r.res = "OK" => \A t \in AddressTexts :
        Agree(pattern_match(r.pattern, t), At(t, 1) = "/" /\ Proper(t) /\ Rule(pieces, Tail(t)), pieces)
Known == {[text |-> TextOf(pieces), pieces |-> pieces] : pieces \in Sequences}
Strange == {[text |-> Chars(s), pieces |-> <<>>] : s \in Formats} \ {[k EXCEPT !.pieces = <<>>] : k \in Known}
OfText(r, k) == (r.res = "OK") = (k.pieces # <<>> /\ Proper(k.text)) /\ Matches(r, k.pieces)
\* A pattern of well-formed pieces can be created, and matches an address if
\* and only if the pieces stand for it, part by part; but a list that has an
\* item another one begins with may miss an address (pattern.cpp:295-338),
\* and no other text can be created (pattern.cpp:93-187).
PatternsMatch == obj = NoPattern /\ ret = "OK" => \A k \in Known \cup Strange : OfText(pattern_create(k.text), k)
=============================================================================
