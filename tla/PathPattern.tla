----------------------------- MODULE PathPattern -----------------------------
(***************************************************************************)
(* src/main/io/PathPattern.cpp: a mask ("any path, then a name that starts *)
(* with test- and ends with .c or .h") becomes a tree of commands, and a   *)
(* tree of matchers tests the text of a path with it.                      *)
(*                                                                         *)
(*   obj   pRoot, <<>> before the first set(), and nFlags                  *)
(*   ret   the last call: its name, and its status or answer               *)
(* A command keeps its characters instead of a place in the mask; offsets  *)
(* in a text are those of the code, from 0.  The two places an any_matcher *)
(* remembers are left out: they are still there when it looks again.       *)
(***************************************************************************)
EXTENDS Integers, Sequences, SequencesExt, FiniteSetsExt

CONSTANTS Masks,    \* the masks a client gives
          Texts,    \* the texts of the paths it tests
          Flags     \* the sets of flags it gives

VARIABLES obj, ret
vars == <<obj, ret>>

ESC == "ESC"           \* the back quote
IsSep(c)  == c \in {"/", "\\"}
Special   == {"*", "(", ")", "|", "&", "!"}
Lower(c)  == CASE c = "A" -> "a" [] c = "B" -> "b" [] OTHER -> c
Separators(t) == [i \in 1..Len(t) |-> IF t[i] = "\\" THEN "/" ELSE t[i]]

----------------------------------------------------------------------------
\* The tokenizer: the token at a place of the mask, where it ends, and for a
\* text its characters and their number without the escapes.
Tok(t, to) == [t |-> t, to |-> to, pat |-> <<>>, n |-> -1]
RECURSIVE TextToken(_, _, _, _, _)
TextToken(mask, from, i, escape, n) ==
    LET Ends(k) == [t |-> "TEXT", to |-> i, pat |-> SubSeq(mask, from, i - 1), n |-> k]
        c == mask[i]
    IN  IF i > Len(mask) THEN Ends(IF escape THEN n + 1 ELSE n)
        ELSE IF c \in Special /\ ~escape THEN Ends(n)
        ELSE IF c \in Special THEN TextToken(mask, from, i + 1, FALSE, n + 1)
        ELSE IF c = ESC THEN TextToken(mask, from, i + 1, ~escape, IF escape THEN n + 1 ELSE n)
        ELSE TextToken(mask, from, i + 1, FALSE, IF escape THEN n + 2 ELSE n + 1)
get_token(mask, i) ==
    LET c == mask[i]
        Next(k) == IF i + k > Len(mask) THEN "" ELSE mask[i + k]
    IN  IF i > Len(mask) THEN Tok("EOF", i)
        ELSE IF c = "!" /\ Next(1) = "(" THEN Tok("!(", i + 2)
        ELSE IF c = "*" /\ Next(1) = "*" /\ IsSep(Next(2)) THEN Tok("ANYPATH", i + 3)
        ELSE IF c \in Special THEN Tok(c, i + 1)
        ELSE TextToken(mask, i, i + 1, c = ESC, IF c = ESC THEN 0 ELSE 1)

\* The commands, and the parser: OR of AND of NOT of sequences.
Cmd(cmd, pat, n, kids) == [cmd |-> cmd, pat |-> pat, n |-> n, inv |-> FALSE, kids |-> kids]
Parsed(cmd, i)  == [res |-> "OK", cmd |-> cmd, at |-> i]
Failed(res)     == [res |-> res, at |-> 0]
Invert(p, inverse) == IF p.res = "OK" /\ inverse THEN [p EXCEPT !.cmd.inv = ~@] ELSE p
\* What a group adds to a sequence.
merge_group(out, g) ==
    LET any  == [g EXCEPT !.cmd = "ANY", !.inv = FALSE]
        prev == Last(out)
    IN  IF g.cmd = "PATTERN" /\ g.n <= 0 /\ ~g.inv THEN out
        ELSE IF g.cmd = "ANY" /\ g.n < 0 /\ g.inv THEN out
        ELSE IF ~(g.cmd = "PATTERN" /\ g.inv) THEN Append(out, g)
        ELSE IF out # <<>> /\ prev.cmd = "ANY" /\ prev.n < 0 /\ ~prev.inv
        THEN Append(Front(out), [prev EXCEPT !.n = any.n, !.pat = any.pat])
        ELSE Append(out, any)
merge_simple(out, cmd, tok) ==
    IF cmd \in {"ANY", "ANYPATH"} /\ out # <<>> /\ Last(out).cmd = cmd THEN out
    ELSE IF cmd = "PATTERN" /\ tok.n = 0 THEN out
    ELSE Append(out, Cmd(cmd, tok.pat, tok.n, <<>>))

RECURSIVE parse_sequence(_, _, _), parse_not(_, _), parse_list(_, _, _, _)
AfterGroup(mask, out, group, close) ==
    IF group.res # "OK" THEN group
    ELSE IF close.t = "EOF" THEN Failed("-EOF")
    ELSE IF close.t # ")" THEN Failed("-BAD_FORMAT")
    ELSE parse_sequence(mask, close.to, merge_group(out, group.cmd))
Grouped(mask, out, group) == AfterGroup(mask, out, group, get_token(mask, group.at))
AfterToken(mask, i, out, tok) ==
    CASE tok.t \in {"(", "!("} -> Grouped(mask, out, Invert(parse_list(mask, tok.to, "|", <<>>), tok.t = "!("))
      [] tok.t \in {"TEXT", "*", "ANYPATH"} ->
             parse_sequence(mask, tok.to, merge_simple(out, CASE tok.t = "TEXT" -> "PATTERN" [] tok.t = "*" -> "ANY" [] OTHER -> "ANYPATH", tok))
      [] OTHER -> Parsed(CASE Len(out) = 1 -> out[1] [] out = <<>> -> Cmd("PATTERN", <<>>, 0, <<>>)
                           [] OTHER -> Cmd("SEQUENCE", <<>>, -1, out), i)
parse_sequence(mask, i, out) == AfterToken(mask, i, out, get_token(mask, i))
parse_not(mask, i) ==
    IF get_token(mask, i).t = "!" THEN Invert(parse_not(mask, i + 1), TRUE) ELSE parse_sequence(mask, i, <<>>)
\* parse_or() takes a list of parse_and(), that one of parse_not().
AfterItem(mask, op, kids, item) ==
    IF item.res # "OK" THEN item
    ELSE IF get_token(mask, item.at).t = op THEN parse_list(mask, item.at + 1, op, Append(kids, item.cmd))
    ELSE IF kids = <<>> THEN item
    ELSE Parsed(Cmd(IF op = "|" THEN "OR" ELSE "AND", <<>>, -1, Append(kids, item.cmd)), item.at)
parse_list(mask, i, op, kids) ==
    AfterItem(mask, op, kids, IF op = "|" THEN parse_list(mask, i, "&", <<>>) ELSE parse_not(mask, i))
AtEnd(mask, p) == IF p.res = "OK" /\ get_token(mask, p.at).t # "EOF" THEN Failed("BAD_FORMAT") ELSE p
parse(mask) == AtEnd(mask, parse_list(mask, 1, "|", <<>>))

----------------------------------------------------------------------------
\* The matchers answer for a range [a, b) of the text.  m is what they share:
\* the text, the flags, and what lies in memory behind the text.
RECURSIVE Units(_)
Units(pat) ==
    IF pat = <<>> THEN <<>>
    ELSE IF pat[1] = ESC /\ Len(pat) > 1 /\ pat[2] \in Special \union {ESC} THEN <<pat[2]>> \o Units(SubSeq(pat, 3, Len(pat)))
    ELSE <<pat[1]>> \o Units(Tail(pat))
check_unit(m, u, c) ==
    CASE IsSep(u) -> IsSep(c)
      [] u = "?"  -> ~IsSep(c)
      [] OTHER    -> u = c \/ ("MATCH_CASE" \notin m.flags /\ Lower(u) = Lower(c))
check_pattern(m, pat, a) ==
    LET u == Units(pat) IN
    /\ \A i \in DOMAIN u : a + i <= Len(m.str) => check_unit(m, u[i], m.str[a + i])
    /\ a + Len(u) > Len(m.str) => m.beyond
seek_pattern(m, pat, a, rounds) ==
    LET at == {i \in a..a + rounds - 1 : check_pattern(m, pat, i)} IN IF at = {} THEN -1 ELSE Min(at)

pattern_match(m, c, a, b) == IF b - a # c.n THEN c.inv ELSE check_pattern(m, c.pat, a) # c.inv
any_match(m, c, a, b) ==
    CASE c.n < 0 /\ a = b -> ~c.inv
      [] \E i \in a + 1..b : IsSep(m.str[i]) -> c.inv
      [] c.n < 0 -> ~c.inv
      [] c.n = 0 -> (b > a) # c.inv
      [] OTHER   -> (seek_pattern(m, c.pat, a, b - a - c.n + 1) < 0) # c.inv
anypath_match(m, c, a, b) ==
    CASE a > 0 /\ ~IsSep(m.str[a]) -> c.inv
      [] a = b -> a = 0 \/ ~c.inv
      [] OTHER -> (IsSep(m.str[b]) \/ b >= Len(m.str)) # c.inv

\* How create_matcher() cuts a sequence: the fixed texts at the front and at the
\* end, those in the middle, and the variable parts around these.  A range with
\* no part, between two fixed texts, takes the part where the last one started.
Fixed(c)   == c.cmd = "PATTERN" /\ ~c.inv
create_sequence(kids) ==
    LET vars_ == {i \in DOMAIN kids : ~Fixed(kids[i])}
        lo == IF vars_ = {} THEN Len(kids) + 1 ELSE Min(vars_)
        hi == IF vars_ = {} THEN Len(kids) ELSE Max(vars_)
        Step(s, k) ==
            IF Fixed(k) THEN [s EXCEPT !.fixed = Append(@, k), !.var = Append(@, <<>>),
                                       !.old = IF Last(s.var) = <<>> THEN @ ELSE <<Last(s.var)[1]>>,
                                       !.var[Len(s.var)] = IF @ = <<>> THEN s.old ELSE @]
            ELSE [s EXCEPT !.var[Len(s.var)] = Append(@, k)]
        mid == FoldLeft(Step, [fixed |-> <<>>, var |-> <<<<>>>>, old |-> <<>>], SubSeq(kids, lo, hi))
    IN  [prefix |-> SubSeq(kids, 1, lo - 1), postfix |-> SubSeq(kids, hi + 1, Len(kids)),
         fixed |-> mid.fixed, var |-> IF vars_ = {} THEN <<>> ELSE mid.var]
Width(cs) == FoldLeft(LAMBDA n, c : n + c.n, 0, cs)
check_texts(m, cs, a) == \A i \in DOMAIN cs : check_pattern(m, cs[i].pat, a + Width(SubSeq(cs, 1, i - 1)))

\* sequence_alloc_fixed() from the i-th on: each at its first place; <<>> tells none.
RECURSIVE alloc_fixed(_, _, _, _, _, _)
AllocFrom(m, fixed, at, i, b, place) ==
    IF place < 0 THEN <<>> ELSE alloc_fixed(m, fixed, Append(SubSeq(at, 1, i - 1), place), i + 1, place + fixed[i].n, b)
alloc_fixed(m, fixed, at, i, a, b) ==
    IF i > Len(fixed) THEN at
    ELSE AllocFrom(m, fixed, at, i, b, seek_pattern(m, fixed[i].pat, a, b - a - fixed[i].n + 1))

\* sequence_next_fixed(): the last one that can move on does, and those behind it
\* start anew.  The end of the range does not stop the text it looks for.
RECURSIVE next_fixed(_, _, _, _, _)
MovedTo(m, fixed, at, i, b, all) == IF all # <<>> THEN all ELSE next_fixed(m, fixed, at, i - 1, b)
next_fixed(m, fixed, at, i, b) ==
    IF i = 0 THEN <<>>
    ELSE MovedTo(m, fixed, at, i, b, AllocFrom(m, fixed, at, i, b, seek_pattern(m, fixed[i].pat, at[i] + 1, b - at[i] - 1)))

\* brute_next_variable(): starts of the parts, from all at the end to all at the
\* front; <<>> tells there is no other.
brute_next(starts, a) ==
    LET moves == {i \in 2..Len(starts) : starts[i] > a}
        i == Min(moves)
    IN  IF moves = {} THEN <<>>
        ELSE [k \in DOMAIN starts |-> IF k = 1 \/ k > i THEN starts[k] ELSE starts[i] - 1]

RECURSIVE Match(_, _, _, _), brute_match(_, _, _, _, _), match_fixed(_, _, _, _, _, _), brute_match_all(_, _, _, _, _)
brute_match_all(m, parts, starts, i, b) ==
    LET end == IF i = Len(parts) THEN b ELSE starts[i + 1] IN
    Match(m, parts[i], starts[i], end) /\ (i = Len(parts) \/ brute_match_all(m, parts, starts, i + 1, b))
brute_match(m, inv, parts, starts, b) ==
    LET next == brute_next(starts, starts[1]) IN
    IF brute_match_all(m, parts, starts, 1, b) THEN ~inv
    ELSE IF next = <<>> THEN inv
    ELSE brute_match(m, inv, parts, next, b)
\* A variable part: one matcher, or several tried at every place.
Variable(m, inv, parts, a, b) ==
    IF Len(parts) = 1 THEN Match(m, parts[1], a, b)
    ELSE brute_match(m, inv, parts, [i \in DOMAIN parts |-> IF i = 1 THEN a ELSE b], b)
MatchNext(m, inv, s, next, a, b) == IF next = <<>> THEN inv ELSE match_fixed(m, inv, s, next, a, b)
match_fixed(m, inv, s, at, a, b) ==
    LET From(i) == IF i = 1 THEN a ELSE at[i - 1] + s.fixed[i - 1].n
        To(i)   == IF i > Len(at) THEN b ELSE at[i]
    IN  IF \A i \in DOMAIN s.var : Variable(m, inv, s.var[i], From(i), To(i)) THEN ~inv
        ELSE MatchNext(m, inv, s, next_fixed(m, s.fixed, at, Len(at), b), a, b)
AllMatch(m, c, s, first, last, a, b, at) ==
    IF first > b \/ ~check_texts(m, s.prefix, a) THEN c.inv
    ELSE IF last < first \/ ~check_texts(m, s.postfix, last) THEN c.inv
    ELSE IF s.var = <<>> THEN (first = last) # c.inv
    ELSE IF s.fixed = <<>> THEN Variable(m, c.inv, s.var[1], first, last) # c.inv
    ELSE IF at = <<>> THEN c.inv
    ELSE match_fixed(m, c.inv, s, at, first, last)
Between(m, c, s, first, last, a, b) == AllMatch(m, c, s, first, last, a, b, alloc_fixed(m, s.fixed, <<>>, 1, first, last))
OfSequence(m, c, s, a, b) == Between(m, c, s, a + Width(s.prefix), b - Width(s.postfix), a, b)
sequence_match(m, c, a, b) == OfSequence(m, c, create_sequence(c.kids), a, b)
Match(m, c, a, b) ==
    CASE c.cmd = "PATTERN"  -> pattern_match(m, c, a, b)
      [] b < a              -> m.beyond                  \* size_t(b - a)
      [] c.cmd = "ANY"      -> any_match(m, c, a, b)
      [] c.cmd = "ANYPATH"  -> anypath_match(m, c, a, b)
      [] c.cmd = "AND"      -> (\A i \in DOMAIN c.kids : Match(m, c.kids[i], a, b)) # c.inv
      [] c.cmd = "OR"       -> (\E i \in DOMAIN c.kids : Match(m, c.kids[i], a, b)) # c.inv
      [] c.cmd = "SEQUENCE" -> sequence_match(m, c, a, b)

match_full(o, t, beyond) ==
    Match([str |-> t, flags |-> o.flags, beyond |-> beyond], o.root[1], 0, Len(t)) # ("INVERSE" \in o.flags)
Name(t) == LET seps == {i \in DOMAIN t : t[i] = "/"} IN IF seps = {} THEN t ELSE SubSeq(t, Max(seps) + 1, Len(t))
\* What test() asks about: the text or its last name.  test() of a Path takes the
\* last name of the path it has just made, which is empty.
Asked(o, t)     == IF "FULL_PATH" \in o.flags THEN Separators(t) ELSE Name(Separators(t))
AskedPath(o, t) == IF "FULL_PATH" \in o.flags THEN Separators(t) ELSE <<>>
test(o, asked, beyond) == o.root # <<>> /\ match_full(o, asked, beyond)

----------------------------------------------------------------------------
Init ==
    /\ obj = [root |-> <<>>, flags |-> {}]
    /\ ret = [op |-> "new", res |-> "OK"]
SetTo(flags, p) ==
    /\ obj' = IF p.res = "OK" THEN [root |-> <<p.cmd>>, flags |-> flags] ELSE obj
    /\ ret' = [op |-> "set", res |-> p.res]
Set == \E mask \in Masks, flags \in Flags : SetTo(flags, parse(mask))
SetFlags == \E flags \in Flags :
    /\ obj' = [obj EXCEPT !.flags = flags]
    /\ ret' = [op |-> "set_flags", res |-> "OK"]
Test == \E t \in Texts, beyond \in BOOLEAN :
    /\ ret' = [op |-> "test", res |-> test(obj, Asked(obj, t), beyond)]
    /\ UNCHANGED obj
TestPath == \E t \in Texts, beyond \in BOOLEAN :
    /\ ret' = [op |-> "test", res |-> test(obj, AskedPath(obj, t), beyond)]
    /\ UNCHANGED obj

Next == Set \/ SetFlags \/ Test \/ TestPath
Spec == Init /\ [][Next]_vars

----------------------------------------------------------------------------
\* What a command means: a sequence matches when there is a way to cut the text
\* so that every part matches its piece.  An inverse "**/" does not mean the empty
\* text at the front and finds it all the same (PathPattern.cpp:683).
RECURSIVE Means(_, _, _, _)
RECURSIVE Cut(_, _, _, _)
Cut(m, kids, a, b) ==
    IF kids = <<>> THEN a = b
    ELSE \E at \in a..b : Means(m, kids[1], a, at) /\ Cut(m, Tail(kids), at, b)
Means(m, c, a, b) ==
    LET piece == SubSeq(m.str, a + 1, b)
        Is(t, u) == Len(t) = Len(u) /\ \A i \in DOMAIN u : check_unit(m, u[i], t[i])
        positive ==
          CASE c.cmd = "PATTERN" -> Is(piece, Units(c.pat))
            [] c.cmd = "ANY" -> /\ \A i \in DOMAIN piece : ~IsSep(piece[i])
                                /\ c.n = 0 => piece # <<>>
                                /\ c.n > 0 => ~\E i, k \in DOMAIN piece : Is(SubSeq(piece, i, k), Units(c.pat))
            [] c.cmd = "ANYPATH" -> /\ a = 0 \/ IsSep(m.str[a])
                                    /\ piece = <<>> \/ IsSep(Last(piece)) \/ b = Len(m.str)
            [] c.cmd = "AND" -> \A i \in DOMAIN c.kids : Means(m, c.kids[i], a, b)
            [] c.cmd = "OR"  -> \E i \in DOMAIN c.kids : Means(m, c.kids[i], a, b)
            [] c.cmd = "SEQUENCE" -> Cut(m, c.kids, a, b)
    IN  positive # c.inv \/ (c.cmd = "ANYPATH" /\ a = 0 /\ b = 0)

\* Masks the matcher does not take by their meaning, at any depth: an inverse
\* sequence with variable parts side by side, which is inverted twice; two texts
\* side by side between variable parts; a text behind a variable part that
\* overlaps what the mask ends with (PathPattern.cpp:812-991, 1133-1220).
RECURSIVE Twisted(_)
TwistedHere(c, s) ==
    /\ c.cmd = "SEQUENCE"
    /\ \/ c.inv /\ \E i \in DOMAIN s.var : Len(s.var[i]) > 1
       \/ \E i \in 2..Len(c.kids) : /\ Fixed(c.kids[i - 1]) /\ Fixed(c.kids[i])
                                    /\ i - 1 > Len(s.prefix) /\ i <= Len(c.kids) - Len(s.postfix)
       \/ s.postfix # <<>> /\ \E i \in DOMAIN s.fixed : s.fixed[i].n > 1
Twisted(c) == TwistedHere(c, create_sequence(c.kids)) \/ \E i \in DOMAIN c.kids : Twisted(c.kids[i])
\* Of these the mask "not (text, variable parts side by side, text)" has a meaning
\* of its own: its texts are inverted once, and what lies between them twice.
TwiceInverted(c) ==
    /\ c.cmd = "SEQUENCE" /\ c.inv /\ create_sequence(c.kids).fixed = <<>>
    /\ Twisted(c) /\ ~\E i \in DOMAIN c.kids : Twisted(c.kids[i])
HasEnds(m, s, b) ==
    Width(s.prefix) + Width(s.postfix) <= b /\ check_texts(m, s.prefix, 0) /\ check_texts(m, s.postfix, b - Width(s.postfix))
MeansTwice(m, c, b) == HasEnds(m, create_sequence(c.kids), b) => Means(m, [c EXCEPT !.inv = FALSE], 0, b)

\* The matchers find a text exactly when the mask means it, whatever order they
\* try the places in.  An inverse sequence without texts in its middle, of two
\* variable parts or more, finds what its parts mean and not the contrary; of the
\* other masks named above nothing is said.
Found(m, c, b) == IF TwiceInverted(c) THEN MeansTwice(m, c, b) ELSE Means(m, c, 0, b)
MaskMeans ==
    \/ obj.root = <<>>
    \/ Twisted(obj.root[1]) /\ ~TwiceInverted(obj.root[1])
    \/ \A t \in Texts, beyond \in BOOLEAN :
          LET s == Asked(obj, t) IN
          test(obj, s, beyond) = (Found([str |-> s, flags |-> obj.flags, beyond |-> beyond], obj.root[1], Len(s)) # ("INVERSE" \in obj.flags))

RECURSIVE CountsAgree(_)
CountsAgree(c) ==
    /\ c.cmd = "PATTERN" \/ (c.cmd = "ANY" /\ c.n >= 0) => c.n = Len(Units(c.pat))
    /\ \A i \in DOMAIN c.kids : CountsAgree(c.kids[i])
\* The number of characters the tokenizer counts in a text is the number the
\* check of that text compares.
EscapesAgree == obj.root # <<>> => CountsAgree(obj.root[1])

\* A mask that cannot be parsed leaves the pattern that was there.
FailedMaskKeepsStep == (ret'.op = "set" /\ ret'.res # "OK") => obj' = obj
FailedMaskKeeps == [][FailedMaskKeepsStep]_vars
=============================================================================
