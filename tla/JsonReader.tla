------------------------------ MODULE JsonReader -----------------------------
(***************************************************************************)
(* Reading JSON documents event by event with the parser of JsonParser.    *)
(*                                                                         *)
(*   obj   the Parser: open, version, mode, flags, stack and the current   *)
(*         event; t is its Tokenizer with the sequence it reads            *)
(*   ret   what the last call returned                                     *)
(*   abs   events: those the text stands for; at: the last one taken       *)
(***************************************************************************)
EXTENDS JsonParser

CONSTANTS Leaves, Keys,   \* lexemes: the values and the names of members
          Pieces,         \* what strings are made of: a text and its unit
          Digital         \* the characters numbers are made of

VARIABLES obj, ret, abs
vars == <<obj, ret, abs>>

\* Documents: a value is a leaf, an array or an object.  Its lexemes and the
\* events it stands for; "more" is the comma JSON5 allows at the end.
Leaf(s) == [k |-> "leaf", lex |-> s, items |-> <<>>, more |-> FALSE]
Few(S) == {<<>>} \cup {<<x>> : x \in S}
Arrays(seqs) == {[k |-> "array", lex |-> "", items |-> s, more |-> m] : s \in seqs, m \in BOOLEAN} \ {[k |-> "array", lex |-> "", items |-> <<>>, more |-> TRUE]}
Objects(seqs) ==
    {[k |-> "object", lex |-> "", items |-> s, more |-> m] : s \in seqs, m \in BOOLEAN} \ {[k |-> "object", lex |-> "", items |-> <<>>, more |-> TRUE]}
L0 == {Leaf(s) : s \in Leaves}
Entry(k, v) == [key |-> k, v |-> v]
L1 == Arrays(Few(L0)) \cup Objects({<<>>} \cup {<<Entry(k, v)>> : k \in Keys, v \in L0})
Some0 == CHOOSE l \in L0 : TRUE
SomeKey == CHOOSE k \in Keys : TRUE
Trees ==
    L0 \cup L1 \cup Arrays({<<a>> : a \in L1} \cup {<<a, b>> : a, b \in L0} \cup {<<a, Some0>> : a \in L1})
       \cup Objects({<<Entry(SomeKey, a)>> : a \in L1} \cup {<<Entry(k, a), Entry(SomeKey, Some0)>> : k \in Keys, a \in L0})
Identifiers == {"id", "instanceof"}
Json5(s) == s # "" /\ (SubSeq(s, 1, 1) = "'" \/ s \in Identifiers \/ (Len(s) > 1 /\ SubSeq(s, 1, 2) = "0x"))
RECURSIVE Lexemes(_), Fits(_, _), EventsOf(_, _)
Items(x, of(_)) == Join([i \in 1..Len(x.items) |-> (IF i = 1 THEN <<>> ELSE <<",">>) \o of(x.items[i])]) \o (IF x.more THEN <<",">> ELSE <<>>)
Lexemes(x) ==
    LET item(v) == Lexemes(v)
        member(e) == <<e.key, ":">> \o Lexemes(e.v)
    IN  CASE x.k = "leaf" -> <<x.lex>> [] x.k = "array" -> <<"[">> \o Items(x, item) \o <<"]">> [] OTHER -> <<"{">> \o Items(x, member) \o <<"}">>
\* Legacy JSON has neither of JSON5's forms; only a member can be an identifier.
Fits(x, v5) ==
    /\ v5 \/ (~Json5(x.lex) /\ ~x.more)
    /\ \A i \in 1..Len(x.items) :
          IF x.k = "array" THEN Fits(x.items[i], v5) /\ x.items[i].lex \notin Identifiers
          ELSE Fits(x.items[i].v, v5) /\ (v5 \/ ~Json5(x.items[i].key))
\* told: the event of every lexeme alone.
Told == [lex \in Leaves \cup Keys |-> read_primitive([Parser("JSON5") EXCEPT !.t = get_token(Tokenizer(Chars(lex), "EOF"))]).p.cur]
Mark(type) == <<[type |-> type, v |-> <<>>]>>
EventsOf(x, told) ==
    CASE x.k = "leaf" -> <<told[x.lex]>>
      [] x.k = "array" -> Mark("ARRAY_START") \o Join([i \in 1..Len(x.items) |-> EventsOf(x.items[i], told)]) \o Mark("ARRAY_END")
      [] OTHER ->
         Mark("OBJECT_START") \o
         Join([i \in 1..Len(x.items) |-> <<[told[x.items[i].key] EXCEPT !.type = "PROPERTY"]>> \o EventsOf(x.items[i].v, told)]) \o Mark("OBJECT_END")
Legal(v5) == {x \in Trees : Fits(x, v5) /\ x.lex \notin Identifiers}
Comment(k) == IF k = 1 THEN "//c\n" ELSE "/**c*/"
Spaced(lexemes) == Join([i \in 1..Len(lexemes) |-> Chars(lexemes[i]) \o (IF i = Len(lexemes) THEN <<>> ELSE <<" ">>)])
Inserted(s, i, x) == SubSeq(s, 1, i) \o <<x>> \o SubSeq(s, i + 1, Len(s))
Dropped(s, i) == SubSeq(s, 1, i - 1) \o SubSeq(s, i + 1, Len(s))

Init ==
    \E told \in {Told} : \E version \in {"LEGACY", "JSON5"} : \E x \in Legal(version = "JSON5") :
       \E c \in (IF version = "JSON5" THEN {0, 1} ELSE {0}) : LET s == Lexemes(x) IN
          /\ obj = Wrap(Parser(version), Spaced(IF c = 0 THEN s ELSE Inserted(s, Len(s) \div 2, Comment(c))), "EOF", version).p
          /\ ret = "OK"
          /\ abs = [doc |-> IF c = 0 THEN s ELSE <<>>, events |-> EventsOf(x, told), at |-> 0, whole |-> TRUE]
Done(r, at) == obj' = r.p /\ ret' = r.res /\ abs' = [abs EXCEPT !.at = at, !.whole = @ /\ r.res = "OK"]
\* The event that closes what the event at i has opened.
Last1(i) ==
    LET e == abs.events
        first == IF e[i].type = "PROPERTY" THEN i + 1 ELSE i
        count(k, types) == Cardinality({n \in first..k : e[n].type \in types})
    IN  IF i = 0 THEN 0
        ELSE CHOOSE k \in first..Len(e) :
                /\ count(k, {"ARRAY_START", "OBJECT_START"}) = count(k, {"ARRAY_END", "OBJECT_END"})
                /\ \A n \in first..k - 1 : count(n, {"ARRAY_START", "OBJECT_START"}) # count(n, {"ARRAY_END", "OBJECT_END"})
Closing == {"ARRAY_END", "OBJECT_END"}
Skipped(i) == IF i = 0 \/ abs.events[i].type \in Closing THEN i ELSE Last1(i)
Left == abs.whole /\ obj.open /\ abs.at < Len(abs.events)
\* A read of another type takes the event as well; it is tried on the first.
Read ==
    \E type \in Types \cup {"ANY", "SIZE"} :
        abs.whole /\ obj.open /\ (type = "ANY" \/ (abs.at = 0 /\ Left)) /\ Done(read(obj, type), abs.at + (IF Left THEN 1 ELSE 0))
\* skip_current, or skip_next: the value after the current event.
Skip ==
    \E next \in BOOLEAN :
        Left /\ Done(SkipFrom(IF next THEN "PROPERTY" ELSE obj.cur.type, obj), Skipped(abs.at + (IF next THEN 1 ELSE 0)))
Close == obj.open /\ ~abs.whole /\ Done(close(obj), 0)
Opened(r) == obj' = r.p /\ ret' = r.res /\ abs' = [abs EXCEPT !.doc = <<>>, !.events = <<>>, !.at = 0, !.whole = FALSE]
Reopen ==
    \E res \in {"OK", "NULL", "IO_ERROR"} : ~obj.open /\ abs.events # <<>> /\
        Opened(open(obj, [res |-> res, in |-> Chars("{")], "LEGACY"))
Next == Read \/ Skip \/ Close \/ Reopen

----------------------------------------------------------------------------
\* A document is read as the events it stands for, each once and in order, and
\* a skip takes just the value it is asked for: the current event is always the
\* one that reading and skipping should have come to, and after the last there
\* is EOF (Parser::read_next, skip_current).
EventsInOrder ==
    obj.open /\ abs.events # <<>> =>
        /\ abs.at > 0 => obj.cur = abs.events[abs.at]
        /\ ret \notin {"BAD_TOKEN", "CORRUPTED", "BAD_STATE"}
        /\ ret = "EOF" <=> ~abs.whole /\ abs.at = Len(abs.events) /\ ret \notin {"BAD_TYPE", "NULL"}
        /\ Len(obj.stack) = Cardinality({n \in 1..abs.at : abs.events[n].type \in {"ARRAY_START", "OBJECT_START"}})
                          - Cardinality({n \in 1..abs.at : abs.events[n].type \in Closing})

RECURSIVE ReadAll(_)
ReadOn(r) == IF r.res = "OK" THEN ReadAll(r.p) ELSE r.res
ReadAll(p) == ReadOn(read_next(p))
ReadText(s, version) == ReadAll(Wrap(Parser(version), Spaced(s), "EOF", version).p)
Alphabet == {"[", "]", "{", "}", ":", ",", CHOOSE l \in Leaves : ~Json5(l)} \cup Keys
Documents == [version \in {"LEGACY", "JSON5"} |-> {Lexemes(x) : x \in Legal(version = "JSON5")}]
Near(s, legal) ==
    {[text |-> d, ok |-> d \in legal \cup {<<>>}] :
        d \in {e \in {Dropped(s, i) : i \in 1..Len(s)} \cup {Inserted(s, i, a) : i \in 0..Len(s), a \in Alphabet} : Len(e) <= 5}}
Commented(s, ok) == {[text |-> Inserted(s, i, Comment(2)), ok |-> ok] : i \in 0..Len(s)}
\* The reader takes a sequence of lexemes to the end exactly when it is that of
\* a document, with comments anywhere in JSON5: everything else is refused
\* (Parser::read_root, read_array, read_object).
OnlyDocuments ==
    obj.v5 /\ abs.at = 0 /\ Len(abs.doc) \in 1..5 /\ ret = "OK" =>
        \A version \in {"LEGACY", "JSON5"} :
           \A d \in Near(abs.doc, Documents[version]) \cup Commented(abs.doc, version = "JSON5" /\ abs.doc \in Documents[version]) :
              (ReadText(d.text, version) = "EOF") = d.ok

Once == obj.v5 /\ abs.at = 0 /\ ret = "OK" /\ abs.doc = <<CHOOSE l \in Leaves : ~Json5(l)>>
Read1(text, token, value) == [Tokenizer(text, "IO_ERROR") EXCEPT !.pos = Len(text) - 1, !.tok = token, !.val = value]
StringRead(text, told) == \A t \in {Tokenizer(text, "IO_ERROR"), unget(told)} : get_token(t) = told
Written(s) == Join([i \in 1..Len(s) |-> Chars(s[i].text)])
Meant(s) == Utf16([i \in 1..Len(s) |-> s[i].unit])
\* An identifier, of letters and \u escapes, before a string.
WordPieces == {p \in Pieces : Len(p.text) = 1 \/ SubSeq(p.text, 1, 2) = "\\u"}
Waiting(w) == {i \in 1..Len(w) : \A k \in i..Len(w) : Len(w[k].text) > 1}
WordRead(w, n, s, word) ==
    /\ get_token(Tokenizer(Written(w), "EOF")).val = Meant(w)
    /\ word.tok = "IDENTIFIER" /\ word.val = Meant(SubSeq(w, 1, n))
    /\ get_token(word).val = Meant(SubSeq(w, n + 1, Len(w)) \o s)
\* The value of a string is that of the UTF-16 units its pieces stand for, one
\* after the other, however they are written: what waits for the second half of
\* a pair is not lost and keeps its order (Tokenizer::parse_string,
\* add_pending_character, commit_pending_characters).  It is out of its place
\* after an identifier that ends with escapes, other than at the end of the text:
\* they are missing there and come in front of the next string (478).
StringsRead ==
    Once =>
        /\ \A n \in 0..3 : \A s \in [1..n -> Pieces] : \A quote \in {"'", "\""} :
              LET text == <<quote>> \o Written(s) \o <<quote, " ">>
              IN  StringRead(text, Read1(text, IF quote = "'" THEN "SQ_STRING" ELSE "DQ_STRING", Meant(s)))
        /\ \A n \in 1..2 : \A w \in [1..n -> WordPieces] : \A m \in 0..1 : \A s \in [1..m -> Pieces] :
              WordRead(w, n - Cardinality(Waiting(w)), s,
                       get_token(Tokenizer(Written(w) \o <<" ", "\"">> \o Written(s) \o <<"\"">>, "EOF")))

AllDigits(s) == \A i \in 1..Len(s) : Of(s[i], Figures)
Value10(s) == Sum([i \in 1..Len(s) |-> parse_digit(s[i], 10)], 10)
Parts(s) == {<<a, b, c>> \in (0..1) \X (0..Len(s)) \X (0..Len(s)) : a <= b /\ b <= c /\ a <= Len(s)}
Cut(s, x) == [sign |-> SubSeq(s, 1, x[1]), int |-> SubSeq(s, x[1] + 1, x[2]), frac |-> SubSeq(s, x[2] + 1, x[3]), exp |-> SubSeq(s, x[3] + 1, Len(s))]
Power(e) == IF Len(e) > 1 /\ e[2] = "-" THEN SubSeq(e, 3, Len(e)) ELSE SubSeq(e, 2, Len(e))
Proper(c) ==
    /\ c.sign \in {<<>>, <<"-">>} /\ AllDigits(c.int)
    /\ c.frac = <<>> \/ (c.frac[1] = "." /\ AllDigits(Tail(c.frac)))
    /\ c.int # <<>> \/ Len(c.frac) > 1
    /\ c.exp = <<>> \/ (c.exp[1] = "e" /\ AllDigits(Power(c.exp)) /\ c.exp # <<"e", "-">>)
Amount(c) ==
    LET fs == SubSeq(c.frac, 2, Len(c.frac))
        e == Value10(Power(c.exp))
    IN  [m |-> ToString(Value10(c.int \o fs)), e |-> (IF Len(c.exp) > 1 /\ c.exp[2] = "-" THEN 0 - e ELSE e) - Len(fs), neg |-> c.sign # <<>>]
NumberRead(s, cuts, t) ==
    LET taken == t.tok \in {"DECIMAL", "DOUBLE"} /\ t.pos = Len(s)
    IN  (taken <=> cuts # {}) /\ (taken => \A x \in cuts : t.num = Amount(Cut(s, x)))
\* A text is taken as a number to its end exactly when it has the parts of one,
\* and then has their value; the exponent may be empty (Tokenizer::parse_number).
NumbersRead ==
    Once => \A n \in 1..4 : \A s \in [1..n -> Digital] :
        NumberRead(s, {x \in Parts(s) : Proper(Cut(s, x))}, get_token(Tokenizer(s, "EOF")))
=============================================================================
