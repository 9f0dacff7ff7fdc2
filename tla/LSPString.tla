------------------------------ MODULE LSPString ------------------------------
(***************************************************************************)
(* src/main/runtime/LSPString.cpp: a growable string of code points with a *)
(* cached hash.  obj holds the fields: the text, nCapacity (pData is NULL  *)
(* when it is 0), nHash (None, or the text it was computed from: two texts *)
(* are taken to have different hashes), and pTemp (the buffer of the last  *)
(* encoded copy: its size and the bytes used, a byte a character); "bare"  *)
(* remembers that set_native() of no bytes has emptied the text.  The      *)
(* strings given to a call are other objects.  Indices are those of C: the *)
(* first character has 0.                                                  *)
(***************************************************************************)
EXTENDS Integers, Sequences, FiniteSetsExt

CONSTANTS Texts,        \* the texts a client passes to calls
          MaxLen,       \* the longest text followed
          Granularity   \* GRANULARITY: the step of the capacity

VARIABLES obj, ret
vars == <<obj, ret>>

\* What the theorems assume of the constants.
Sane == Texts \subseteq Seq(Int) /\ MaxLen \in Nat /\ Granularity \in Nat \ {0}

\* The alphabet, in code point order; Junk is a cell nothing was
\* stored in, which may hold any code point.
LF == 1
CR == 2
SP == 3
UpperA == 4
LowerA == 5
Junk == 9
to_lower(c) == IF c = UpperA THEN LowerA ELSE c
to_upper(c) == IF c = LowerA THEN UpperA ELSE c
is_space(c) == c \in {LF, CR, SP}

None == <<-1>>
NoTemp == [size |-> 0, used |-> 0]
Init == /\ obj = [data |-> <<>>, cap |-> 0, hash |-> None, temp |-> NoTemp, bare |-> FALSE]
        /\ ret = "done"

----------------------------------------------------------------------------
Greater(a, b) == IF a > b THEN a ELSE b
Lesser(a, b)  == IF a < b THEN a ELSE b
At(d, i)      == d[i + 1]
Cut(d, i, j)  == SubSeq(d, i + 1, j)        \* the characters i .. j - 1

\* XSAFE_TRANS and XSAFE_ITRANS: a negative index counts from the end.
Bad == -1
XSAFE_TRANS(i, n)  == IF i < 0 THEN Greater(i + n, Bad) ELSE IF i > n THEN Bad ELSE i
XSAFE_ITRANS(i, n) == IF i < 0 THEN Greater(i + n, Bad) ELSE IF i >= n THEN Bad ELSE i

RoundUp(n)     == ((n + Granularity - 1) \div Granularity) * Granularity
cap_reserve(s, n)  == Greater(s.cap, RoundUp(n))
cap_grow(s, delta) == IF delta <= s.cap - Len(s.data) THEN s.cap
                      ELSE s.cap + RoundUp(Greater(s.cap \div 2, delta))

\* The end of a call: refused, or the text replaced and nHash reset, in a buffer
\* of capacity c; mem tells whether an allocation the call needs succeeds.
Refused(s)        == [s |-> s, ok |-> FALSE]
Same(s)           == [s |-> s, ok |-> TRUE]
\* Variant: the cached hash outlives the text.
PutKeepsHash(s, d, c, mem) == IF c > s.cap /\ ~mem THEN Refused(s)
                              ELSE Same([s EXCEPT !.data = d, !.cap = c, !.bare = FALSE])
NewText(s, d, c)  == [s EXCEPT !.data = d, !.cap = c, !.hash = None, !.bare = FALSE]
Put(s, d, c, mem) == IF c > s.cap /\ ~mem THEN Refused(s)
                     ELSE Same(NewText(s, d, c))
drop_temp(r)      == [r EXCEPT !.s.temp = NoTemp]

\* set(ch), set(arr, n), set(src), set(src, first), set(src, first, last)
set_char(s, ch, mem) == drop_temp(Put(s, <<ch>>, IF s.cap = 0 THEN Granularity ELSE s.cap, mem))
set_text(s, t, mem)  == drop_temp(Put(s, t, cap_reserve(s, Len(t)), mem))
set_range(s, t, first, last, mem) ==
    LET i == XSAFE_TRANS(first, Len(t))
        j == XSAFE_TRANS(last, Len(t))
    IN  IF i = Bad \/ j = Bad THEN drop_temp(Refused(s))
        ELSE drop_temp(Put(s, Cut(t, i, j), IF i < j THEN cap_reserve(s, j - i) ELSE s.cap, mem))
set_at(s, pos, ch) ==
    LET i == XSAFE_ITRANS(pos, Len(s.data))
    IN  IF i = Bad THEN Refused(s) ELSE Put(s, [s.data EXCEPT ![i + 1] = ch], s.cap, TRUE)

\* insert(), append(), prepend() of a character, an array, a string or a part
\* of one.
insert(s, pos, t, mem) ==
    LET i == XSAFE_TRANS(pos, Len(s.data))
    IN  CASE t = <<>> -> Same(s)
          [] t # <<>> /\ i = Bad -> Refused(s)
          [] OTHER -> Put(s, Cut(s.data, 0, i) \o t \o Cut(s.data, i, Len(s.data)), cap_grow(s, Len(t)), mem)
append(s, t, mem)  == IF t = <<>> THEN Same(s) ELSE Put(s, s.data \o t, cap_grow(s, Len(t)), mem)
prepend(s, t, mem) == IF t = <<>> THEN Same(s) ELSE Put(s, t \o s.data, cap_grow(s, Len(t)), mem)

remove(s, first, last) ==
    LET i == XSAFE_TRANS(first, Len(s.data))
        j == XSAFE_TRANS(last, Len(s.data))
    IN  CASE i = Bad \/ j = Bad -> Refused(s)
          [] i # Bad /\ j # Bad /\ j <= i -> Same(s)
          [] OTHER -> Put(s, Cut(s.data, 0, i) \o Cut(s.data, j, Len(s.data)), s.cap, TRUE)
remove_last(s) == IF s.data = <<>> THEN Refused(s) ELSE Put(s, SubSeq(s.data, 1, Len(s.data) - 1), s.cap, TRUE)

\* swap(idx1, idx2); shuffle() is a series of such swaps.
swap_chars(s, idx1, idx2) ==
    LET i == XSAFE_ITRANS(idx1, Len(s.data))
        j == XSAFE_ITRANS(idx2, Len(s.data))
    IN  CASE i = Bad \/ j = Bad -> Refused(s)
          [] i # Bad /\ i = j -> Same(s)
          [] OTHER -> Put(s, [s.data EXCEPT ![i + 1] = At(s.data, j), ![j + 1] = At(s.data, i)], s.cap, TRUE)
reverse(s) == drop_temp(Put(s, [i \in 1..Len(s.data) |-> s.data[Len(s.data) - i + 1]], s.cap, TRUE))

\* swap(src), take(src): text, capacity and hash of another string; take() drops
\* pTemp, swap() leaves it.  copy(), substring(): a new string with a part.
swap(s, t, hashed) == Same([s EXCEPT !.data = t, !.cap = Len(t), !.hash = IF hashed THEN t ELSE None,
                                           !.bare = FALSE])
take(s, t, hashed) == drop_temp(swap(s, t, hashed))
substring(s, first, last, mem) ==
    LET i == XSAFE_TRANS(first, Len(s.data))
        j == XSAFE_TRANS(last, Len(s.data))
        d == Cut(s.data, i, j)
    IN  IF i = Bad \/ j = Bad \/ (~mem /\ i < j) THEN Refused(s)
        ELSE Same([data |-> d, cap |-> Len(d), hash |-> None, temp |-> NoTemp, bare |-> FALSE])

\* trim(): the tail first, then the head.
trim(s) ==
    LET used == {i \in 1..Len(s.data) : ~is_space(s.data[i])}
    IN  CASE s.data = <<>> -> Same(s)
          [] s.data # <<>> /\ used = {} -> Put(s, <<>>, s.cap, TRUE)
          [] s.data # <<>> /\ used = 1..Len(s.data) -> Same(s)
          [] OTHER -> [s |-> [s EXCEPT !.data = SubSeq(@, Min(used), Max(used)),
                                       !.hash = IF Len(s.data) = Max(used) - Min(used) + 1 THEN @ ELSE None],
                       ok |-> TRUE]

\* set_length(), truncate(), truncate(size), reduce()
set_length(s, n) == IF Len(s.data) <= n THEN Same(s) ELSE drop_temp(Put(s, Cut(s.data, 0, n), s.cap, TRUE))
truncate(s)      == drop_temp(Same(NewText(s, <<>>, 0)))
truncate_to(s, n, mem) ==
    LET cut == [s EXCEPT !.data = Cut(@, 0, Lesser(n, Len(@))), !.hash = IF Len(s.data) > n THEN None ELSE @]
    IN  drop_temp(IF n > s.cap THEN Same(s)
                  ELSE IF ~mem /\ n > 0 THEN Refused(cut) ELSE Same([cut EXCEPT !.cap = n]))
reduce(s, mem)   == drop_temp(IF s.cap <= Len(s.data) \/ (~mem /\ s.data # <<>>) THEN Same(s)
                              ELSE Same([s EXCEPT !.cap = Len(s.data)]))

\* replace(pos, ...): the text from pos on; the form that takes a character
\* leaves nLength at pos.
replace_tail(s, pos, t, mem) ==
    LET i == XSAFE_TRANS(pos, Len(s.data))
    IN  IF i = Bad THEN Refused(s) ELSE Put(s, Cut(s.data, 0, i) \o t, cap_reserve(s, i + Len(t)), mem)
replace_tail_char(s, pos, ch, mem) ==
    LET i == XSAFE_TRANS(pos, Len(s.data))
    IN  CASE i = Bad -> Refused(s)
          [] i # Bad /\ i < Len(s.data) -> Put(s, Cut(s.data, 0, i), s.cap, TRUE)
          [] OTHER -> append(s, <<ch>>, mem)

\* replace(first, last, ...): what follows the replacement is taken from index
\* "tail" on, tail being the LENGTH of what follows, and nLength - tail
\* characters of it.
replace_range(s, first, last, t, mem) ==
    LET n     == Len(s.data)
        i     == XSAFE_TRANS(first, n)
        j     == XSAFE_TRANS(last, n)
        count == Greater(j - i, 0)
        tail  == n - i - count
        cell(k) == IF k < n THEN At(s.data, k) ELSE Junk
        new(k)  == IF k \in i..i + Len(t) - 1 THEN At(t, k - i)
                   ELSE IF tail > 0 /\ k - i - Len(t) \in 0..n - tail - 1 THEN cell(tail + k - i - Len(t))
                   ELSE cell(k)
    IN  IF i = Bad \/ j = Bad THEN Refused(s)
        ELSE Put(s, [k \in 1..n - count + Len(t) |-> new(k - 1)], cap_reserve(s, n - count + Len(t)), mem)

replace_all(s, ch, rep) ==
    IF ch \notin Range(s.data) THEN Same(s)
    ELSE Put(s, [i \in DOMAIN s.data |-> IF s.data[i] = ch THEN rep ELSE s.data[i]], s.cap, TRUE)

\* tolower(first, last), toupper(first, last): the pointer is advanced by first
\* and then indexed from first.
tolower(s, first, last) ==
    LET i == XSAFE_TRANS(first, Len(s.data))
        j == XSAFE_TRANS(last, Len(s.data))
        a == Lesser(i, j)
        b == Greater(i, j)
    IN  IF i = Bad \/ j = Bad THEN Refused(s)
        ELSE Put(s, [k \in DOMAIN s.data |-> IF k - 1 \in 2 * a..a + b - 1 THEN to_lower(s.data[k]) ELSE s.data[k]],
                 s.cap, TRUE)
toupper(s) == Put(s, [k \in DOMAIN s.data |-> to_upper(s.data[k])], s.cap, TRUE)

\* set_utf8(), set_utf16*(): decoded into a temporary string and swapped in when
\* all of it could be decoded ("whole").  set_native() also: but of nothing, it
\* sets nLength and nothing else.
set_decoded(s, t, whole, mem) ==
    IF whole /\ mem THEN Same(NewText(s, t, RoundUp(Len(t)))) ELSE Refused(s)
set_native(s, t, whole, mem) ==
    IF t = <<>> THEN Same([s EXCEPT !.data = <<>>, !.bare = TRUE]) ELSE drop_temp(set_decoded(s, t, whole, mem))

\* vfmt_*(), and its append and prepend forms, over the text the C library has
\* formatted into a temporary string.
vfmt(s, t, mem)         == set_decoded(s, t, TRUE, mem)
vfmt_append(s, t, mem)  == IF mem THEN append(s, t, mem) ELSE Refused(s)
vfmt_prepend(s, t, mem) == IF mem THEN prepend(s, t, mem) ELSE Refused(s)

\* append_temp() and resize_temp(): pTemp grows by what is missing and half more.
append_temp(tmp, piece) ==
    [size |-> IF tmp.size - tmp.used < piece THEN tmp.size + piece + piece \div 2 ELSE tmp.size,
     used |-> tmp.used + piece]
\* get_utf8(), get_utf16*(): pieces of at most Granularity characters, then a
\* zero; the offset of pTemp goes back to 0 first.
Pieces(tmp, n) ==
    LET run[k \in 0..n] == IF k = 0 THEN [tmp EXCEPT !.used = 0] ELSE append_temp(run[k - 1], Granularity)
    IN  run[n]
get_encoded(s, first, last) ==
    LET i == XSAFE_TRANS(first, Len(s.data))
        j == XSAFE_TRANS(last, Len(s.data))
    IN  IF i = Bad \/ j = Bad \/ i > j THEN Refused(s)
        ELSE Same([s EXCEPT !.temp = append_temp(Pieces(@, (j - i) \div Granularity), ((j - i) % Granularity) + 1)])
\* get_ascii(): the buffer is made to fit.
get_ascii(s, first, last) ==
    LET i == XSAFE_TRANS(first, Len(s.data))
        j == XSAFE_TRANS(last, Len(s.data))
    IN  IF i = Bad \/ j = Bad \/ i > j THEN Refused(s)
        ELSE Same([s EXCEPT !.temp = [size |-> j - i + 1, used |-> j - i + 1]])

hash(s) == IF s.cap = 0 \/ s.hash # None \/ s.data = <<>> THEN Same(s) ELSE Same([s EXCEPT !.hash = s.data])

----------------------------------------------------------------------------
\* Queries.
Lower(d)         == [i \in DOMAIN d |-> to_lower(d[i])]
MatchAt(d, i, t) == Cut(d, i, i + Len(t)) = t
starts_with(d, t, offset)  == Len(t) = 0 \/ (Len(d) >= Len(t) + offset /\ MatchAt(d, offset, t))
ends_with(d, t)            == Len(t) = 0 \/ (Len(d) >= Len(t) /\ MatchAt(d, Len(d) - Len(t), t))
contains_at(d, i, t)       == Len(d) >= i + Len(t) /\ MatchAt(d, i, t)
\* index_of(), rindex_of(): the first match at or after start, the last one that
\* ends at or before start.
index_of(d, start, t) ==
    LET i   == XSAFE_TRANS(start, Len(d))
        hit == {k \in i..Len(d) - Len(t) : MatchAt(d, k, t)}
    IN  IF i = Bad THEN Bad ELSE IF t = <<>> THEN i ELSE IF hit = {} THEN Bad ELSE Min(hit)
rindex_of(d, start, t) ==
    LET hit == {k \in 0..start - Len(t) : MatchAt(d, k, t)}
    IN  IF start > Len(d) \/ hit = {} THEN Bad ELSE Max(hit)
index_of_nocase(d, start, t)  == index_of(Lower(d), start, Lower(t))
rindex_of_nocase(d, start, t) == rindex_of(Lower(d), start, Lower(t))
count(d, ch, first, last) ==
    LET i == XSAFE_TRANS(first, Len(d))
        j == XSAFE_TRANS(last, Len(d))
    IN  IF i = Bad \/ j = Bad THEN 0
        ELSE Len(SelectSeq(Cut(d, Lesser(i, j), Greater(i, j)), LAMBDA c : c = ch))
\* match(): how much of t agrees; the index only bounds it, the characters are
\* compared from the first one of d on.
match(d, t, index) ==
    LET n    == Lesser(Len(t), Len(d) - index)
        diff == {k \in 0..n - 1 : At(d, k) # At(t, k)}
    IN  IF index >= Len(d) THEN 0 ELSE IF diff = {} THEN n ELSE Min(diff)
\* compare_to(): the first difference, or what the longer text has beyond the
\* shorter.
compare_to(d, t) ==
    LET n    == Lesser(Len(d), Len(t))
        diff == {k \in 0..n - 1 : At(d, k) # At(t, k)}
    IN  CASE diff # {} -> At(d, Min(diff)) - At(t, Min(diff))
          [] diff = {} /\ Len(d) > n -> At(d, n)
          [] diff = {} /\ Len(t) > n -> -At(t, n)
          [] OTHER -> 0
compare_to_nocase(d, t) == compare_to(Lower(d), Lower(t))
equals(d, t)            == Len(d) = Len(t) /\ MatchAt(d, 0, t)
equals_nocase(d, t)     == equals(Lower(d), Lower(t))

\* to_dos(): from the end, as often as there are bare line feeds, the block from
\* the last of them on is moved up and a carriage return put before it.
DosRound(d, b) ==
    LET hit == {i \in 1..b.src - 1 : At(d, i) = LF /\ At(d, i - 1) # CR}
        blk == IF hit = {} THEN 0 ELSE Max(hit)
    IN  [src |-> blk, out |-> <<CR>> \o Cut(d, blk, b.src) \o b.out]
DosRounds(d, n) ==
    LET run[k \in 0..n] == IF k = 0 THEN [src |-> Len(d), out |-> <<>>] ELSE DosRound(d, run[k - 1])
    IN  run[n]
to_dos(s, mem) ==
    LET d    == s.data
        bare == {i \in 0..Len(d) - 1 : At(d, i) = LF /\ (i = 0 \/ At(d, i - 1) # CR)}
        end  == DosRounds(d, Cardinality(bare))
    IN  IF bare = {} THEN Same(s)
        ELSE LET r == Put(s, Cut(d, 0, end.src) \o end.out, cap_grow(s, Cardinality(bare)), mem)
             IN  IF r.ok THEN drop_temp(r) ELSE r

\* to_unix(): from the start, as often as there are pairs, the block before the
\* next of them is moved down without its carriage return.
UnixRound(d, pairs, b) ==
    LET hit == {i \in pairs : i > b.src}
        blk == IF hit = {} THEN Len(d) ELSE Min(hit)
    IN  [src |-> blk, out |-> b.out \o Cut(d, b.src, blk - 1)]
UnixRounds(d, pairs, n) ==
    LET run[k \in 0..n] == IF k = 0 THEN [src |-> 0, out |-> <<>>] ELSE UnixRound(d, pairs, run[k - 1])
    IN  run[n]
to_unix(s) ==
    LET d     == s.data
        pairs == {i \in 1..Len(d) - 1 : At(d, i) = LF /\ At(d, i - 1) = CR}
        end   == UnixRounds(d, pairs, Cardinality(pairs))
    IN  IF pairs = {} THEN Same(s) ELSE drop_temp(Put(s, end.out \o Cut(d, end.src, Len(d)), s.cap, TRUE))

----------------------------------------------------------------------------
Indices == -1..2
Chars   == {LF, UpperA}

Call(op, r) == /\ Len(r.s.data) <= MaxLen
               /\ obj' = r.s
               /\ ret' = IF r.ok THEN "done" ELSE IF op = "truncate" THEN op ELSE "refused"

Assign ==
    \/ \E t \in Texts, mem \in BOOLEAN :
          \/ Call("set", set_text(obj, t, mem))
          \/ Call("fmt", vfmt(obj, t, mem))
          \/ Call("swap", swap(obj, t, mem))
          \/ Call("take", take(obj, t, mem))
          \/ \E whole \in BOOLEAN : Call("set_utf8", set_decoded(obj, t, whole, mem))
          \/ \E whole \in BOOLEAN : t # <<>> /\ Call("set_native", set_native(obj, t, whole, mem))
    \/ \E t \in Texts, i, j \in Indices : Call("set", set_range(obj, t, i, j, TRUE))
    \/ \E c \in Chars, mem \in BOOLEAN : Call("set", set_char(obj, c, mem))
    \/ \E c \in Chars, i \in Indices : Call("set", set_at(obj, i, c))
SetNativeNothing == Call("set_native", set_native(obj, <<>>, TRUE, TRUE))
Extend == \E t \in Texts, mem \in BOOLEAN :
    \/ \E i \in Indices : Call("insert", insert(obj, i, t, mem))
    \/ Call("append", append(obj, t, mem))
    \/ Call("prepend", prepend(obj, t, mem))
    \/ Call("fmt_append", vfmt_append(obj, t, mem))
    \/ Call("fmt_prepend", vfmt_prepend(obj, t, mem))
    \/ Call("to_dos", to_dos(obj, mem))
Shrink ==
    \/ \E i, j \in Indices : Call("remove", remove(obj, i, j))
    \/ Call("remove_last", remove_last(obj))
    \/ \E i, j \in Indices, mem \in BOOLEAN : Call("substring", substring(obj, i, j, mem))
    \/ Call("trim", trim(obj))
    \/ Call("to_unix", to_unix(obj))
    \/ \E n \in 0..2 : Call("set_length", set_length(obj, n))
    \/ \E n \in 0..2, mem \in BOOLEAN : Call("truncate", truncate_to(obj, n, mem))
    \/ Call("truncate", truncate(obj))
    \/ \E mem \in BOOLEAN : Call("reduce", reduce(obj, mem))
Rewrite ==
    \/ \E t \in Texts, mem \in BOOLEAN, i \in Indices : Call("replace", replace_tail(obj, i, t, mem))
    \/ \E c \in Chars, mem \in BOOLEAN, i \in Indices : Call("replace", replace_tail_char(obj, i, c, mem))
    \/ \E t \in Texts, i, j \in Indices : Call("replace", replace_range(obj, i, j, t, TRUE))
    \/ \E c \in Chars : Call("replace_all", replace_all(obj, c, LowerA))
    \/ \E i, j \in Indices : Call("swap", swap_chars(obj, i, j))
    \/ \E i, j \in Indices : Call("tolower", tolower(obj, i, j))
    \/ Call("toupper", toupper(obj))
    \/ Call("reverse", reverse(obj))
Read ==
    \/ Call("hash", hash(obj))
    \/ \E i \in {0, 1} : Call("get_utf8", get_encoded(obj, i, -1))
    \/ \E i \in {0, 1} : Call("get_ascii", get_ascii(obj, 0, i))

Next == Assign \/ SetNativeNothing \/ Extend \/ Shrink \/ Rewrite \/ Read
Spec == Init /\ [][Next]_vars

----------------------------------------------------------------------------
\* The text fits the buffer, and a hash that is kept is the hash of the text,
\* also of an empty one: no sequence of calls lets a changed string answer with
\* the hash of what it was.  Line 1964 is the exception: a string set_native() of
\* no bytes has emptied keeps the hash of the text it had, until it has another.
HashOfText ==
    /\ Len(obj.data) <= obj.cap
    /\ obj.hash \in {None, obj.data} \/ (obj.bare /\ obj.data = <<>>)

\* A call that reports a failure has left the text alone: an allocation that
\* fails, an index out of range or bytes that cannot be decoded are found before
\* the first character is moved.  Shrinking with truncate(size) is the exception.
FailedCallKeepsTextStep == ret' = "refused" => obj'.data = obj.data
FailedCallKeepsText == [][FailedCallKeepsTextStep]_vars

\* The buffer of the last encoded copy holds it whole, with its zero.
TempHoldsCopy == obj.temp.used <= obj.temp.size

\* The pieces of a text, one after the other.
Joined(pieces) == LET upto[i \in 0..Len(pieces)] == IF i = 0 THEN <<>> ELSE upto[i - 1] \o pieces[i]
                  IN  upto[Len(pieces)]
AddCR(d)  == Joined([i \in DOMAIN d |-> IF d[i] = LF /\ (i = 1 \/ d[i - 1] # CR) THEN <<CR, LF>> ELSE <<d[i]>>])
DropCR(d) == Joined([i \in DOMAIN d |-> IF d[i] = CR /\ i < Len(d) /\ d[i + 1] = LF THEN <<>> ELSE <<d[i]>>])
\* The in-place conversions of line endings do what a rewriting of the text
\* would do, and the one undoes the other.
LineEndings ==
    /\ to_dos(obj, TRUE).s.data = AddCR(obj.data)
    /\ to_unix(obj).s.data = DropCR(obj.data)
    /\ to_unix(to_dos(obj, TRUE).s).s.data = DropCR(obj.data)

\* The searches agree with one another and with the comparisons, and comparing
\* is an order in which equal means the same text: what sorted and hashed
\* collections of strings rely on.
QueriesAgree ==
    \A t \in Texts :
        LET d == obj.data
            f == index_of(d, 0, t)
            l == rindex_of(d, Len(d), t)
        IN  /\ (f = Bad) <=> (l = Bad)
            /\ f # Bad /\ t # <<>> => f <= l /\ starts_with(d, t, f) /\ contains_at(d, l, t)
            /\ (t # <<>> /\ ends_with(d, t)) => l = Len(d) - Len(t)
            /\ f # Bad => index_of_nocase(d, 0, t) \in 0..f /\ rindex_of_nocase(d, Len(d), t) >= l
            /\ (t # <<>> /\ f = 0) <=> (match(d, t, 0) = Len(t) /\ t # <<>>)
            /\ Len(t) = 1 => (count(d, t[1], 0, Len(d)) = 0) <=> (f = Bad)
            /\ (compare_to(d, t) = 0) <=> equals(d, t)
            /\ (compare_to_nocase(d, t) = 0) <=> equals_nocase(d, t)
            /\ compare_to(d, t) > 0 <=> compare_to(t, d) < 0
            /\ \A u \in Texts : compare_to(d, t) <= 0 /\ compare_to(t, u) <= 0 => compare_to(d, u) <= 0
=============================================================================
