-------------------------------- MODULE Path --------------------------------
(***************************************************************************)
(* src/main/io/Path.cpp: a path is a text with separators, and every       *)
(* operation is one on that text.  On the platforms modelled the separator *)
(* is "/", and "\" in what a client gives is replaced by it.               *)
(*                                                                         *)
(*   obj   sPath, a sequence of characters                                 *)
(*   ret   the last call: its name and its status                          *)
(* Offsets are those of the code, from 0; a text is indexed from 1.        *)
(***************************************************************************)
EXTENDS Integers, Sequences, SequencesExt, FiniteSetsExt

CONSTANTS Texts,     \* what a client gives as a path
          MaxLen,    \* the longest path
          Links      \* a function: the symbolic links, and where they lead

VARIABLES obj, ret
vars == <<obj, ret>>

OK == "OK"
Status(res, t) == [res |-> res, t |-> t]

\* LSPString: index_of, rindex_of, part [from, to) of a text, match.
Least(a, b) == IF a < b THEN a ELSE b
index_of(t, from, c) ==
    LET at == {i \in from..Len(t) - 1 : t[i + 1] = c} IN IF at = {} THEN -1 ELSE Min(at)
last_index(t, c) == LET at == {i \in 0..Len(t) - 1 : t[i + 1] = c} IN IF at = {} THEN -1 ELSE Max(at)
rindex_of(t, from, c) == IF from >= Len(t) THEN -1 ELSE last_index(SubSeq(t, 1, from + 1), c)
Part(t, from, to) == SubSeq(t, from + 1, to)
From(t, from)     == SubSeq(t, from + 1, Len(t))
match(t, s) == Max({n \in 0..Least(Len(t), Len(s)) : SubSeq(t, 1, n) = SubSeq(s, 1, n)})

fixup_path(t)  == [i \in 1..Len(t) |-> IF t[i] = "\\" THEN "/" ELSE t[i]]
is_absolute(t) == t # <<>> /\ t[1] = "/"
is_root(t)     == t = <<"/">>
Behind(t)      == last_index(t, "/") + 1       \* where the last name starts

\* The parts of a path.
get_last(t)  == From(t, Behind(t))
get_first(t) ==
    LET at == index_of(t, 0, "/") IN
    IF at < 0 THEN Status(IF t = <<>> THEN "NOT_FOUND" ELSE OK, t)
    ELSE Status(OK, Part(t, 0, IF is_absolute(t) THEN at + 1 ELSE at))
\* The form for a buffer, and that for a path: it does not take a path of one
\* name, and answers with the bool of LSPString::set(), where TRUE is not OK.
get_first_utf8(t, maxlen) == IF get_first(t).res = OK /\ Len(get_first(t).t) >= maxlen THEN Status("TOO_BIG", <<>>) ELSE get_first(t)
get_first_path(t) ==
    LET at == index_of(t, 0, "/") IN
    IF at < 0 THEN Status("NOT_FOUND", <<>>) ELSE Status("TRUE", Part(t, 0, IF is_absolute(t) THEN at + 1 ELSE at))
Dot(t)          == LET at == last_index(get_last(t), ".") IN IF at < 0 THEN -1 ELSE Behind(t) + at
get_ext(t)      == IF Dot(t) < 0 THEN <<>> ELSE From(t, Dot(t) + 1)
get_noext(t)    == IF Dot(t) < 0 THEN t ELSE Part(t, 0, Dot(t))
get_last_noext(t) == From(get_noext(t), Behind(t))
get_parent(t) ==
    LET at == last_index(t, "/") IN
    IF is_root(t) \/ at < 0 THEN Status("NOT_FOUND", <<>>) ELSE Status(OK, Part(t, 0, at))

\* Is the last name ".", "..", one of them; is a text a valid name.
is_dot(t)    == (Len(t) = 1 /\ t[1] = ".") \/ IsSuffix(<<"/", ".">>, t)
is_dotdot(t) == IF Len(t) = 2 THEN t = <<".", ".">> ELSE IsSuffix(<<"/", ".", ".">>, t)
is_dots(t) ==
    LET n == Len(t) IN
    /\ n > 0 /\ t[n] = "."
    /\ \/ n = 1 \/ (n > 1 /\ t[n - 1] = "/")
       \/ n > 1 /\ t[n - 1] = "." /\ (n = 2 \/ (n > 2 /\ t[n - 2] = "/"))
valid_path_name(t) == t # <<>> /\ ~Contains(t, "*") /\ ~Contains(t, "?")
valid_file_name(t) == valid_path_name(t) /\ ~Contains(t, "/")

----------------------------------------------------------------------------
\* The operations that change the path: their status and the new text.
set(t, s) == Status(OK, fixup_path(s))
concat(t, s) == Status(OK, fixup_path(t \o s))
\* Variant: the separator is appended before the child is looked at.
AppendChildGlued(t, s) ==
    LET child == fixup_path(s)
        glued == IF t = <<>> \/ Last(t) = "/" THEN t ELSE t \o <<"/">>
    IN  IF child = <<>> THEN Status(OK, t)
        ELSE IF is_absolute(child) THEN Status("INVALID_VALUE", glued)
        ELSE Status(OK, fixup_path(glued \o child))
append_child(t, s) ==
    LET child == fixup_path(s)
        glue  == IF t = <<>> \/ Last(t) = "/" THEN <<>> ELSE <<"/">>
    IN  IF child = <<>> THEN Status(OK, t)
        ELSE IF is_absolute(child) THEN Status("INVALID_VALUE", t)
        ELSE Status(OK, fixup_path(t \o glue \o child))
remove_last(t) ==
    LET at == last_index(t, "/") IN
    IF is_root(t) THEN Status(OK, t)
    ELSE IF ~is_absolute(t) THEN Status(OK, Part(t, 0, Max({at, 0})))
    ELSE Status(OK, Part(t, 0, IF at = 0 \/ rindex_of(t, at - 1, "/") < 0 THEN at + 1 ELSE at))
\* remove_last() that gives the name it removes.
take_last(t) == Status(OK, Part(t, 0, Max({Behind(t) - 1, 0})))
set_last(t, s) ==
    IF s = <<>> THEN remove_last(t) ELSE Status(OK, fixup_path(Part(t, 0, Behind(t)) \o s))
TrimEnd(t) == LET keep == {i \in 1..Len(t) : t[i] # "/"} IN IF keep = {} THEN <<>> ELSE Part(t, 0, Max(keep))
set_parent(t, s) ==
    IF is_root(t) THEN Status("BAD_STATE", t) ELSE Status(OK, fixup_path(TrimEnd(s) \o <<"/">> \o t))
remove_first(t) ==
    LET at == index_of(t, 0, "/") IN
    IF is_root(t) \/ (is_absolute(t) /\ at < 0) THEN Status("NOT_FOUND", t)
    ELSE IF Max({at, 0}) + 1 > Len(t) THEN Status("NO_MEM", t)
    ELSE Status(OK, From(t, Max({at, 0}) + 1))
take_first(t) ==
    LET at == index_of(t, 0, "/") IN
    IF t = <<>> THEN Status("NOT_FOUND", t) ELSE Status(OK, IF at < 0 THEN <<>> ELSE From(t, at + 1))
root(t) ==
    IF ~is_absolute(t) THEN Status("BAD_STATE", t) ELSE Status(OK, <<"/">>)
\* LSPString::remove(first) removes what follows.
remove_root(t) == Status(OK, IF is_absolute(t) THEN Part(t, 0, index_of(t, 0, "/") + 1) ELSE t)
parent(t)      == Status(OK, IF is_root(t) THEN t ELSE Part(t, 0, Max({last_index(t, "/"), 0})))
remove_base(t, s) ==
    LET names == {i \in Len(s)..Len(t) - 1 : t[i + 1] # "/"} IN
    IF ~IsPrefix(s, t) THEN Status(OK, t)            \* "return false"
    ELSE IF Len(s) = Len(t) THEN Status(OK, <<>>)
    ELSE IF t[Len(s) + 1] # "/" THEN Status("INVALID_VALUE", t)
    ELSE Status(OK, IF names = {} THEN <<>> ELSE From(t, Min(names)))
base_name(t) == Status(OK, get_last(t))

\* canonicalize() reads characters in one of four states and writes behind.
BackOne(w) ==
    LET u == Front(w) IN Part(u, 0, last_index(u, "/") + 1)
Write(m, c, root_) ==
    CASE m.st = "SEEK" /\ c = "/" -> [st |-> "SEPARATOR", w |-> Append(m.w, c)]
      [] m.st \in {"SEEK", "SEPARATOR"} /\ c = "." -> [m EXCEPT !.st = "DOT"]
      [] m.st = "SEPARATOR" /\ c = "/" -> m
      [] m.st \in {"DOT", "DOTDOT"} /\ c = "/" ->
            [st |-> "SEPARATOR", w |-> IF m.st = "DOTDOT" /\ Len(m.w) > root_ THEN BackOne(m.w) ELSE m.w]
      [] m.st = "DOT" /\ c = "." -> [m EXCEPT !.st = "DOTDOT"]
      [] OTHER -> [st |-> "SEEK", w |-> m.w \o (CASE m.st = "DOT" -> <<".">> [] m.st = "DOTDOT" -> <<".", ".">>
                                                  [] OTHER -> <<>>) \o <<c>>]
Rewritten(t, s) ==
    FoldLeft(LAMBDA m, c : Write(m, c, Len(s)), [st |-> IF s = <<>> THEN "SEEK" ELSE "SEPARATOR", w |-> s], From(t, Len(s))).w
Trimmed(s, written) == Status(OK, s \o TrimEnd(From(written, Len(s))))
CanonicalFrom(t, s) == Trimmed(s, Rewritten(t, s))
canonicalize(t) == CanonicalFrom(t, IF is_absolute(t) THEN <<"/">> ELSE <<>>)
is_canonical(t) ==
    LET Step(st, c) ==
            CASE st = "NO" \/ (st # "SEEK" /\ c = "/") -> "NO"
              [] st = "SEEK" /\ c = "/" -> "SEPARATOR"
              [] st \in {"SEEK", "SEPARATOR"} /\ c = "." -> "DOT"
              [] st = "DOT" /\ c = "." -> "DOTDOT"
              [] OTHER -> "SEEK"
    IN  is_root(t) \/ FoldLeft(Step, "SEEK", t) = "SEEK"

\* as_relative(): from where the canonical paths part, one ".." for each name
\* of the base that is left, then the rest of the path.
Climb(base, at, t, from) ==
    LET ups == Quantify({i \in at + 1..Len(base) - 1 : base[i + 1] = "/"}, LAMBDA i : TRUE) + 1
        all == FlattenSeq([i \in 1..ups |-> <<".", ".", "/">>]) \o From(t, from)
    IN  Status(OK, IF Last(all) = "/" THEN Front(all) ELSE all)
IsSep(x, i) == i < Len(x) /\ x[i + 1] = "/"
Parted(t, p, base, at, bat) == IF at < 0 \/ bat # at THEN Status("NOT_FOUND", t) ELSE Climb(base, bat, p, at + 1)
Relative(t, p, base, m) ==
    LET back == IF m = Len(base) \/ IsSep(p, m) = IsSep(base, m) THEN m ELSE m - 1
    IN  IF m <= 0 THEN Status("NOT_FOUND", t)
        ELSE IF m = Len(base) /\ m = Len(p) THEN Status(OK, <<>>)
        ELSE IF m = Len(base) /\ IsSep(p, m) THEN Status(OK, From(p, m + 1))
        ELSE IF m = Len(p) /\ m < Len(base)
        THEN IF IsSep(base, m) THEN Climb(base, m, p, m) ELSE Status("NOT_FOUND", t)
        ELSE Parted(t, p, base, rindex_of(p, back, "/"), rindex_of(base, back, "/"))
Matched(t, p, base) == Relative(t, p, base, match(p, base))
as_relative(t, s) == Matched(t, canonicalize(t).t, canonicalize(fixup_path(s)).t)

\* final_path(): follows symbolic links; a path seen before is a loop.
Visit(s, to) ==
    IF to \in s.visited THEN [s EXCEPT !.res = "OVERFLOW"] ELSE [s EXCEPT !.t = to, !.visited = @ \union {to}]
LinkTarget(t, link) == canonicalize(IF is_absolute(link) THEN link ELSE append_child(remove_last(t).t, link).t).t
final_path(t) ==
    LET Step(s, i) == IF s.res # "" THEN s
                      ELSE IF s.t \notin DOMAIN Links THEN [s EXCEPT !.res = OK]
                      ELSE Visit(s, LinkTarget(s.t, fixup_path(Links[s.t])))
    IN  FoldLeft(Step, [t |-> t, res |-> "", visited |-> {}], [i \in 1..Cardinality(DOMAIN Links) + 2 |-> i])

\* mkdir(): Dir::create() needs the parent, and is content with a directory that
\* exists.
Created(dirs, name, above) ==
    IF name \in dirs THEN [res |-> OK, dirs |-> dirs]
    ELSE IF canonicalize(above).t \in dirs \/ (above = <<>> /\ name # <<>>)
    THEN [res |-> OK, dirs |-> dirs \union {name}]
    ELSE [res |-> "NOT_FOUND", dirs |-> dirs]
CreateName(dirs, name) == Created(dirs, name, remove_last(name).t)
CreateDir(dirs, t) == CreateName(dirs, canonicalize(t).t)
AtLast(made, t) == IF made.res # OK THEN made ELSE CreateDir(made.dirs, t)
MakeAbove(dirs, t, path, first) ==
    LET ends  == {i \in 0..Len(path) - 1 : path[i + 1] = "/" /\ i >= (IF is_absolute(path) THEN first + 1 ELSE first)}
        Step(s, i) == IF s.res # OK \/ i \notin ends THEN s ELSE CreateDir(s.dirs, Part(path, 0, i))
    IN  IF first < 0 THEN [res |-> "INVALID_VALUE", dirs |-> dirs]
        ELSE IF ends = {} THEN [res |-> OK, dirs |-> dirs]
        ELSE AtLast(FoldLeft(Step, [res |-> OK, dirs |-> dirs], [i \in 1..Len(path) |-> i]), t)
MakePath(dirs, t, path) == MakeAbove(dirs, t, path, index_of(path, 0, "/"))
OrMakePath(once, dirs, t) == IF once.res = OK THEN once ELSE MakePath(dirs, t, canonicalize(t).t)
mkdir(dirs, t) == OrMakePath(CreateDir(dirs, t), dirs, t)

----------------------------------------------------------------------------
Init ==
    /\ obj = <<>>
    /\ ret = [op |-> "new", res |-> OK]

Takes(op, new) ==
    /\ Len(new.t) <= MaxLen
    /\ obj' = new.t
    /\ ret' = [op |-> op, res |-> new.res]
Set         == \E s \in Texts : Takes("set", set(obj, s))
SetFrom(tmp) == Takes("set", IF tmp.res = OK THEN tmp ELSE Status(tmp.res, obj))
SetChild    == \E s, c \in Texts : SetFrom(append_child(set(obj, s).t, c))
Append_     == \E s \in Texts : Takes("append", concat(obj, s))
AppendChild == \E s \in Texts : Takes("append_child", append_child(obj, s))
SetLast     == \E s \in Texts : Takes("set_last", set_last(obj, s))
SetParent   == \E s \in Texts : Takes("set_parent", set_parent(obj, s))
RemoveLastName  == Takes("remove_last", remove_last(obj)) \/ Takes("take_last", take_last(obj))
RemoveFirstName == Takes("remove_first", remove_first(obj)) \/ Takes("take_first", take_first(obj))
Root        == Takes("root", root(obj)) \/ Takes("remove_root", remove_root(obj))
Parent      == Takes("parent", parent(obj)) \/ Takes("base", base_name(obj))
RemoveBase  == \E s \in Texts : Takes("remove_base", remove_base(obj, s))
Canonicalize == Takes("canonicalize", canonicalize(obj))
AsRelative  == \E s \in Texts : Takes("as_relative", as_relative(obj, s))

Next == \/ Set \/ SetChild \/ Append_ \/ AppendChild \/ SetLast \/ SetParent \/ RemoveLastName \/ RemoveFirstName
        \/ Root \/ Parent \/ RemoveBase \/ Canonicalize \/ AsRelative
Spec == Init /\ [][Next]_vars

----------------------------------------------------------------------------
\* The place a path stands for: the names from the root, or from a directory
\* "ups" levels above where a relative path starts.
NamesOf(t) == LET Step(s, c) == IF c = "/" THEN Append(s, <<>>) ELSE [s EXCEPT ![Len(s)] = Append(@, c)]
            IN  FoldLeft(Step, <<<<>>>>, t)
Place(t) ==
    LET Step(p, n) ==
            CASE n \in {<<>>, <<".">>} -> p
              [] n = <<".", ".">> -> IF p.names # <<>> THEN [p EXCEPT !.names = Front(@)]
                                    ELSE IF p.abs THEN p ELSE [p EXCEPT !.ups = @ + 1]
              [] OTHER -> [p EXCEPT !.names = Append(@, n)]
    IN  FoldLeft(Step, [abs |-> is_absolute(t), ups |-> 0, names |-> <<>>], NamesOf(t))

\* canonicalize() drops what it has read of a name that ends in dots, does not
\* apply ".." at the end, and forgets how far a relative path climbs.
DotName(n) == n # <<>> /\ Last(n) = "." /\ n \notin {<<".">>, <<".", ".">>, <<".", ".", ".">>}
Plain(t) == Place(t).ups = 0 /\ ~is_dotdot(t) /\ \A i \in DOMAIN NamesOf(t) : ~DotName(NamesOf(t)[i])

\* Whatever has been called, the text holds the separator of the platform only:
\* no operation takes a client's text as it is.
OneSeparator == ~Contains(obj, "\\")

IsCanonicalOf(c, t) == is_canonical(c) /\ canonicalize(c).t = c /\ (Plain(t) => Place(c) = Place(t))
\* canonicalize() gives a canonical path, and the same when it is called again;
\* it stands for the same place but in the cases named above.
CanonicalForm == IsCanonicalOf(canonicalize(obj).t, obj)

\* The parts of a path make the whole: name and parent, name and extension, the
\* first name and the rest; the two forms of a removal leave the same, but for
\* the one name below the root, and remove_first() of a path of one name, which
\* drops a character.  The first name is told of every path that is not empty,
\* but not by the form that gives a Path: of one name it tells none, and with
\* the others its status is not OK (Path.cpp:388-400).
PartsMakeWhole ==
    /\ get_parent(obj).res = OK => obj = get_parent(obj).t \o <<"/">> \o get_last(obj)
    /\ obj = (IF Dot(obj) < 0 THEN get_noext(obj) ELSE get_noext(obj) \o <<".">> \o get_ext(obj))
    /\ IsSuffix(get_last_noext(obj), get_noext(obj)) /\ ~Contains(get_last_noext(obj), "/")
    /\ \A first \in {get_first(obj), get_first_utf8(obj, Len(get_first(obj).t) + 1), get_first_path(obj)} :
           LET rest == take_first(obj).t IN
           first.res \in {OK, "TRUE"} =>
               obj = first.t \o (IF is_absolute(obj) \/ index_of(obj, 0, "/") < 0 THEN <<>> ELSE <<"/">>) \o rest
    /\ get_first_utf8(obj, Len(get_first(obj).t)).res # OK
    /\ get_first_path(obj).res = (IF index_of(obj, 0, "/") < 0 THEN "NOT_FOUND" ELSE "TRUE")
    /\ (get_first(obj).res = OK) = (obj # <<>>)
    /\ (remove_last(obj).t = take_last(obj).t) <=> ~(is_absolute(obj) /\ last_index(obj, "/") = 0)
    /\ (remove_first(obj).res = OK /\ index_of(obj, 0, "/") >= 0) => remove_first(obj).t = take_first(obj).t
    /\ is_dots(obj) <=> (is_dot(obj) \/ is_dotdot(obj))
    /\ valid_file_name(get_last(obj)) <=> (get_last(obj) # <<>> /\ valid_path_name(get_last(obj)))

LeadsThere(r, b) == (r.res = OK /\ Plain(obj) /\ Plain(b)) => Place(b \o <<"/">> \o r.t) = Place(obj)
\* The relative path leads from the base to the path.
RelativeLeadsThere == \A s \in Texts : LeadsThere(as_relative(obj, s), fixup_path(s))

IsFinal(f) == f.res # "" /\ (f.res = OK => f.t \notin DOMAIN Links) /\ (f.res = "OVERFLOW" => f.t \in DOMAIN Links)
\* Following links ends, at a path that is not a link, or tells a loop.
FinalIsFinal == IsFinal(final_path(obj))

IsMade(m, name) == m.res = OK => name \in m.dirs \/ (is_absolute(obj) /\ last_index(name, "/") = 0)
\* A directory exists after mkdir(), with all above it, unless it is one below
\* the root, of which failure is not told.
MadeIsThere ==
    \A dirs \in {{<<"/">>}, {<<"/">>, <<"/", "a">>}} : IsMade(mkdir(dirs, obj), canonicalize(obj).t)

\* A call that fails leaves the path alone.
FailedCallKeepsPathStep == ret'.res # OK => obj' = obj
FailedCallKeepsPath == [][FailedCallKeepsPathStep]_vars
=============================================================================
