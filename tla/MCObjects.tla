------------------------------ MODULE MCObjects -----------------------------
(***************************************************************************)
(* The sequential components side by side, for TLC.  Objects has four of   *)
(* them; each of the other modules has the same four variables, so that    *)
(* one module can instantiate them all.  The components do not interact    *)
(* here; every property is that of the component's module.                 *)
(***************************************************************************)
EXTENDS Objects, Sequences, TLC

\* Values of the constants of Objects.
SomeTexts == {<<>>, <<2, 1>>, <<5>>}
TwoProcesses == [a |-> "p", b |-> "p", c |-> "q"]
TwoSlotsAndOne == [p |-> {1, 2}, q |-> {3}]
OpenModes == {{}, {"READ"}, {"READ", "CREATE"}, {"WRITE", "CREATE"}, {"WRITE", "CREATE", "PERSIST"}}

Scanner == INSTANCE ExprTokens
Chars == INSTANCE Charset WITH
    Bytes <- {65, 128, 195, 226, 241},
    Words <- {65, 55357, 56832},
    Points <- {65, 127, 128, 2047, 2048, 4096, 55296, 57344, 65533, 65535, 65536, 1114111, 1114112, 2097152},
    Cased <- (60..130) \union (1020..1330) \union (42555..42660),
    MaxText <- 4,
    Rooms <- {1, 4}
Seqs == INSTANCE CharSequences WITH
    Buf <- 3,
    Sources <- {<<"a", "r", "n", "<", ">", "n", "a", "r">>, <<"a", "<", ">", "!", "a">>, <<"r", "n", "a", "<">>},
    Accepts <- {<<"w", "a", "a">>},
    MaxText <- 5,
    Limits <- {0, 1, 4}
Paths == INSTANCE Path WITH
    Texts <- {<<>>, <<"/">>, <<"/", "a", "/", "b">>, <<"a", ".", "b">>, <<".", ".", "\\", "a">>, <<".">>, <<"b", "/">>, <<"/", "a", "c">>},
    MaxLen <- 5,
    Links <- [t \in {<<"a">>, <<"/", "a">>, <<"/", "b">>, <<"b">>} |-> CASE t = <<"a">> -> <<"b">> [] t = <<"b">> -> <<".", "/", "a">> [] t = <<"/", "a">> -> <<"b">> [] OTHER -> <<"/", "a", "c">>]
Patterns == INSTANCE PathPattern WITH
    Masks <- {<<>>, <<"a">>, <<"!", "a">>, <<"*", "a">>, <<"*", "a", "*", "b">>, <<"(", "a", "|", "A">>, <<"a", "!", "b">>, <<"a", ")">>, <<"*", "*", "/", "a", "*">>, <<"*", "*", "/", "*">>, <<"!", "*", "*", "/", "*">>, <<"!", "(", "a", ")", "*", "b">>, <<"a", "&", "*", "|", "b">>, <<"!", "(", "*", "a", "&", "!", "b", "*", ")">>, <<"*", "(", "a", ")", "(", "b", ")", "*">>, <<"*", "*", "/", "a", "b", "*", "b">>, <<"ESC", "*", "a", "ESC", "b">>, <<"ESC">>, <<"!", "(", "*">>, <<"(">>, <<"a", "?", "/">>, <<"!", "*", "*", "/">>, <<"*", "a", "*", "!", "(", "b", ")", "a">>, <<"a", "ESC", "&", "ESC", "?">>, <<"!", "*", "a", "*", "b", "*", "a">>, <<"*", "!", "(", "b", ")">>, <<"*", "*", "/", "*", "(", "a", "|", "b", ")">>, <<"(", ")">>, <<"!", "(", ")">>, <<"a", "(", "b", "|", "*", ")", "b">>, <<"\\", "*">>, <<"!", "(", "a", "*", "*", "/", "*", "b", ")">>},
    Flags <- {{}, {"MATCH_CASE"}, {"INVERSE", "FULL_PATH"}, {"FULL_PATH", "MATCH_CASE"}},
    Texts <- {<<>>, <<"a">>, <<"b">>, <<"A">>, <<"a", "b">>, <<"a", "/", "b">>, <<"a", "b", "/", "a", "b">>, <<"a", "a", "b">>, <<"a", "\\", "b">>, <<"*", "a", "ESC", "b">>, <<"a", "b", "a">>, <<"ESC">>, <<"/">>, <<"a", "b", "a", "b">>, <<"a", "x", "b">>}
ParamsM == INSTANCE Parameters WITH
    Token <- Scanner!TokenAfter,
    Names <- {"a", "b"},
    Values <- {[t |-> "INT", i |-> 1], [t |-> "STRING", s |-> "2"], [t |-> "STRING", s |-> "x"]},
    Types <- {"INT", "STRING", "UNDEF"},
    Other <- <<[name |-> "b", v |-> [t |-> "UNDEF"]], [name |-> "?", v |-> [t |-> "STRING", s |-> "2"]]>>,
    MaxParams <- 2
Vars == INSTANCE Variables WITH
    Token <- Scanner!TokenAfter,
    Names <- {"a", "a_1", "b"},
    Values <- {[t |-> "INT", i |-> 1]},
    Functions <- {"f", "g"},
    Environment <- [n \in {"b"} |-> "home"],
    Arguments <- {<<>>, <<[t |-> "INT", i |-> 3], [t |-> "STRING", s |-> "-1"], [t |-> "FLOAT", f |-> 1]>>, <<[t |-> "BOOL", b |-> TRUE], [t |-> "STRING", s |-> "1 2"]>>, <<[t |-> "INT", i |-> 3], [t |-> "NULL"], [t |-> "INT", i |-> 1]>>, <<[t |-> "STRING", s |-> "x"]>>, <<[t |-> "STRING", s |-> "1.5"], [t |-> "BOOL", b |-> TRUE]>>, <<[t |-> "UNDEF"], [t |-> "INT", i |-> 1]>>},
    MaxEntries <- 2
Eval == INSTANCE Evaluator WITH
    Token <- Scanner!TokenAfter,
    Leaves <- {[t |-> "INT", i |-> 3], [t |-> "INT", i |-> -2], [t |-> "INT", i |-> 0], [t |-> "FLOAT", f |-> 3], [t |-> "BOOL", b |-> TRUE], [t |-> "BOOL", b |-> FALSE], [t |-> "STRING", s |-> "2"], [t |-> "STRING", s |-> "1 2"], [t |-> "STRING", s |-> "x"], [t |-> "NULL"], [t |-> "UNDEF"]},
    Bound <- 6
Parser == INSTANCE ExprParser WITH
    Token <- Scanner!TokenAfter,
    Terms <- {[op |-> "VALUE", v |-> [t |-> "INT", i |-> 2]], [op |-> "RESOLVE", name |-> "n", items |-> <<>>], [op |-> "RESOLVE", name |-> "m", items |-> <<[op |-> "VALUE", v |-> [t |-> "INT", i |-> 1]], [op |-> "RESOLVE", name |-> "n", items |-> <<>>]>>]},
    Known <- (<<"n", <<>>>> :> [t |-> "INT", i |-> 3]) @@ (<<"m", <<1, 3>>>> :> [t |-> "STRING", s |-> "x"])
Format == INSTANCE ExprFormat WITH
    Token <- Scanner!TokenAfter,
    Pieces <- {"a}", "{}", "{@s%T}", "{[1]%+.1f}", "{%x>:4}", "{^0%b|:6}", "\\{", "\\\\", "\\n", "{%q}", "{@a[0]}", "{@t%Y}", "{%L}", "{@none}"},
    Par <- <<[name |-> "n", v |-> [t |-> "INT", i |-> -10]], [name |-> "s", v |-> [t |-> "STRING", s |-> "25"]], [name |-> "t", v |-> [t |-> "STRING", s |-> "tEXt"]], [name |-> "u", v |-> [t |-> "NULL"]]>>,
    Numbers <- {0, 5, 255, -10, 1000},
    MaxPieces <- 2
ColorM == INSTANCE Color WITH
    Given <- {[home |-> "RGB", c |-> <<3, 0, 15>>], [home |-> "HSL", c |-> <<5, 15, 7>>], [home |-> "XYZ", c |-> <<5, 6, 7>>], [home |-> "LCH", c |-> <<8, 7, 5>>], [home |-> "CMYK", c |-> <<1, 2, 3, 4>>]},
    Alphas <- {6, 17}
PixelsM == INSTANCE Pixels WITH
    Counts <- {5, 15},
    Starts <- {"G8", "A8", "G4", "RGB888", "RGBA8888", "BGRA8888", "PRGBA8888", "PBGRA8888", "BGR888", "G1", "A2"}
JReader == INSTANCE JsonReader WITH
    Leaves <- {"1", "\"a\"", "true", "'b'", "id"},
    Keys <- {"\"a\"", "id"},
    Pieces <- {[text |-> "a", unit |-> 97], [text |-> "\\u0041", unit |-> 65], [text |-> "\\x42", unit |-> 66], [text |-> "\\ud83d", unit |-> 55357], [text |-> "\\uDE00", unit |-> 56832], [text |-> "\\n", unit |-> 10]},
    Digital <- {"0", "1", "-", ".", "e"}
JWriter == INSTANCE JsonWriter WITH
    Settings <- {[version |-> "LEGACY", identifiers |-> FALSE, ident |-> " ", padding |-> 0, separator |-> FALSE, multiline |-> FALSE], [version |-> "JSON5", identifiers |-> TRUE, ident |-> " ", padding |-> 2, separator |-> TRUE, multiline |-> TRUE]},
    Names <- <<<<"a">>, <<"a", "-">>>>,
    Remarks <- {<<"*", "/">>, <<"\n">>},
    Odd <- {[c |-> "a", code |-> 97], [c |-> "\"", code |-> 34], [c |-> "\\", code |-> 92], [c |-> "NUL", code |-> 0], [c |-> "VT", code |-> 11], [c |-> "\n", code |-> 10], [c |-> "U1", code |-> 1], [c |-> "U128512", code |-> 128512]},
    MaxCalls <- 4
JNode == INSTANCE JsonNode WITH
    Token <- Scanner!TokenAfter,
    Handles <- {"a", "b"},
    Keys <- {"k"},
    Ints <- {2},
    Doubles <- {3},
    Texts <- {"-1", "x", "1.5"},
    Given <- {"x"},
    MaxNodes <- 3,
    MaxItems <- 2,
    MaxCalls <- 3
OscM == INSTANCE Osc WITH
    Sizes <- {0, 48},
    Addresses <- {<< <<>>, <<47, 97>> >>, << <<47, 98, 99>>, <<47>> >>},
    Params <- {[ev |-> "s", val |-> <<97>>], [ev |-> "b", val |-> <<1, 2>>], [ev |-> "i", val |-> <<5>>], [ev |-> "T", val |-> <<1>>], [ev |-> "m", val |-> <<144, 60, 100>>], [ev |-> "N", val |-> <<>>]},
    Lists <- {<<[ev |-> "s", val |-> <<98>>], [ev |-> "h", val |-> <<3>>], [ev |-> "S", val |-> <<>>], [ev |-> "r", val |-> <<9>>]>>, <<[ev |-> "open", val |-> <<>>], [ev |-> "c", val |-> <<7>>], [ev |-> "close", val |-> <<>>]>>, <<[ev |-> "I", val |-> <<>>]>>, <<[ev |-> "close", val |-> <<>>]>>},
    MaxForge <- 3,
    MaxParse <- 2
OscP == INSTANCE OscPattern WITH
    Formats <- {"/a", "/?a", "a", "/", "/a//a", "/[a", "/{a", "/a]", "/a,", "/[!]", "/[a-", "/{a[b]}", "/*/a", "/[ab]{b,ba}"},
    Addresses <- {"", "/", "a", "/a", "/b", "/ab", "/ba", "/aba", "/a/b", "/ab/a", "/a/", "//a", "/bab", "/b/ab"},
    Pieces <- {[text |-> "a", star |-> FALSE, texts |-> {"a"}], [text |-> "/", star |-> FALSE, texts |-> {"/"}], [text |-> "*", star |-> TRUE, texts |-> {}], [text |-> "?", star |-> FALSE, texts |-> {"a", "b"}], [text |-> "[ab]", star |-> FALSE, texts |-> {"a", "b"}], [text |-> "[!a]", star |-> FALSE, texts |-> {"b"}], [text |-> "[b-a]", star |-> FALSE, texts |-> {"a", "b"}], [text |-> "{a,ab}", star |-> FALSE, texts |-> {"a", "ab"}], [text |-> "{b,ba}", star |-> FALSE, texts |-> {"b", "ba"}], [text |-> "{ab,b}", star |-> FALSE, texts |-> {"ab", "b"}]},
    MaxPieces <- 3
Bmp == INSTANCE Bitmap WITH
    Bitmaps <- 1..2,
    Formats <- {"A2", "BGR888"},
    Sizes <- {<<1, 2>>, <<2, 2>>},
    Junk <- {255},
    Images <- {[w |-> 2, h |-> 2, fails |-> "", lines |-> <<<<1, 2>>, <<2, 1>>>>, colors |-> <<[mono |-> <<255, 255, 255>>, gray4 |-> <<>>, gray |-> <<1>>, color |-> <<255, 0, 0>>, symbolic |-> <<>>], [mono |-> <<>>, gray4 |-> <<>>, gray |-> <<>>, color |-> <<0>>, symbolic |-> <<>>]>>],
        [w |-> 1, h |-> 2, fails |-> "end", lines |-> <<<<1>>, <<2>>>>, colors |-> <<[mono |-> <<255, 255, 255>>, gray4 |-> <<>>, gray |-> <<1>>, color |-> <<255, 0, 0>>, symbolic |-> <<>>], [mono |-> <<>>, gray4 |-> <<>>, gray |-> <<>>, color |-> <<0>>, symbolic |-> <<>>]>>],
        [w |-> 1, h |-> 1, fails |-> "open", lines |-> <<<<0>>>>, colors |-> <<[mono |-> <<255, 255, 255>>, gray4 |-> <<>>, gray |-> <<1>>, color |-> <<255, 0, 0>>, symbolic |-> <<>>], [mono |-> <<>>, gray4 |-> <<>>, gray |-> <<>>, color |-> <<0>>, symbolic |-> <<>>]>>],
        [w |-> 1, h |-> 1, fails |-> "", lines |-> <<<<0>>>>, colors |-> <<[mono |-> <<255, 255, 255>>, gray4 |-> <<>>, gray |-> <<1>>, color |-> <<255, 0, 0>>, symbolic |-> <<>>], [mono |-> <<>>, gray4 |-> <<>>, gray |-> <<>>, color |-> <<0>>, symbolic |-> <<>>]>>],
        [w |-> 0, h |-> 1, fails |-> "", lines |-> <<<<>>>>, colors |-> <<>>],
        [w |-> 1, h |-> 2, fails |-> "close", lines |-> <<<<2>>, <<1>>>>, colors |-> <<[mono |-> <<255, 255, 255>>, gray4 |-> <<>>, gray |-> <<1>>, color |-> <<255, 0, 0>>, symbolic |-> <<>>], [mono |-> <<>>, gray4 |-> <<>>, gray |-> <<>>, color |-> <<0>>, symbolic |-> <<>>]>>],
        [w |-> 1, h |-> 1, fails |-> "header", lines |-> <<<<1>>>>, colors |-> <<[mono |-> <<255, 255, 255>>, gray4 |-> <<>>, gray |-> <<1>>, color |-> <<255, 0, 0>>, symbolic |-> <<>>], [mono |-> <<>>, gray4 |-> <<>>, gray |-> <<>>, color |-> <<0>>, symbolic |-> <<>>]>>]}

AllInit ==
    \/ Init
    \/ machine = "charset" /\ Chars!Init /\ abs = 0
    \/ machine = "sequences" /\ Seqs!Init
    \/ machine = "path" /\ Paths!Init /\ env = 0 /\ abs = 0
    \/ machine = "pattern" /\ Patterns!Init /\ env = 0 /\ abs = 0
    \/ machine = "parameters" /\ ParamsM!Init /\ env = 0 /\ abs = 0
    \/ machine = "variables" /\ Vars!Init /\ ret = 0
    \/ machine = "evaluator" /\ Eval!Init /\ env = 0 /\ ret = 0 /\ abs = 0
    \/ machine = "parser" /\ Parser!Init /\ env = 0
    \/ machine = "format" /\ Format!Init /\ env = 0 /\ ret = 0 /\ abs = 0
    \/ machine = "color" /\ ColorM!Init /\ env = 0 /\ ret = 0
    \/ machine = "pixels" /\ PixelsM!Init /\ env = 0 /\ ret = 0
    \/ machine = "jsonreader" /\ JReader!Init /\ env = 0
    \/ machine = "jsonwriter" /\ JWriter!Init /\ env = 0
    \/ machine = "jsonnode" /\ JNode!Init /\ env = 0
    \/ machine = "osc" /\ OscM!Init /\ env = 0
    \/ machine = "oscpattern" /\ OscP!Init /\ env = 0 /\ abs = 0
    \/ machine = "bitmap" /\ Bmp!Init

AllNext ==
    \/ Next
    \/ machine = "charset" /\ Chars!Next /\ UNCHANGED <<machine, abs>>
    \/ machine = "sequences" /\ Seqs!Next /\ UNCHANGED machine
    \/ machine = "path" /\ Paths!Next /\ UNCHANGED <<machine, env, abs>>
    \/ machine = "pattern" /\ Patterns!Next /\ UNCHANGED <<machine, env, abs>>
    \/ machine = "parameters" /\ ParamsM!Next /\ UNCHANGED <<machine, env, abs>>
    \/ machine = "variables" /\ Vars!Next /\ UNCHANGED <<machine, ret>>
    \/ machine = "evaluator" /\ Eval!Next /\ UNCHANGED <<machine, env, ret, abs>>
    \/ machine = "parser" /\ Parser!Next /\ UNCHANGED <<machine, env>>
    \/ machine = "format" /\ Format!Next /\ UNCHANGED <<machine, env, ret, abs>>
    \/ machine = "color" /\ ColorM!Next /\ UNCHANGED <<machine, env, ret>>
    \/ machine = "pixels" /\ PixelsM!Next /\ UNCHANGED <<machine, env, ret>>
    \/ machine = "jsonreader" /\ JReader!Next /\ UNCHANGED <<machine, env>>
    \/ machine = "jsonwriter" /\ JWriter!Next /\ UNCHANGED <<machine, env>>
    \/ machine = "jsonnode" /\ JNode!Next /\ UNCHANGED <<machine, env>>
    \/ machine = "osc" /\ OscM!Next /\ UNCHANGED <<machine, env>>
    \/ machine = "oscpattern" /\ OscP!Next /\ UNCHANGED <<machine, env, abs>>
    \/ machine = "bitmap" /\ Bmp!Next /\ UNCHANGED machine

AllSpec == AllInit /\ [][AllNext]_vars

-----------------------------------------------------------------------------


\* Algorithms give what their definition says: matching, searching, ordering,
\* converting and computing, for the inputs of the instance but those that a
\* module names as exceptions.
MatchesDefinition ==
    \* LSPString: to_dos() and to_unix() do in place what rewriting the text would
    \* do.
    /\ machine = "string" => Str!LineEndings
    \* LSPString: searches and comparisons agree with one another, and comparing is
    \* an order.
    /\ machine = "string" => Str!QueriesAgree
    \* charset: to_lower() and to_upper() agree on which letters are the same.
    /\ machine = "charset" => Chars!CaseFolds
    \* Path: canonicalize() gives a canonical path for the same place.
    /\ machine = "path" => Paths!CanonicalForm
    \* Path: the parts of a path make the whole; get_first(Path *) finds what its
    \* line 388 says.
    /\ machine = "path" => Paths!PartsMakeWhole
    \* Path: the relative path leads from the base to the path.
    /\ machine = "path" => Paths!RelativeLeadsThere
    \* Path: following links ends at a path that is not a link, or tells a loop.
    /\ machine = "path" => Paths!FinalIsFinal
    \* PathPattern: the matchers find what the mask means; masks with an inverse
    \* sequence that are twisted find what the module says they find, or are named
    \* as left out.
    /\ machine = "pattern" => Patterns!MaskMeans
    \* Variables: each name has what was last given to it.
    /\ machine = "variables" => Vars!LastGiven
    \* Variables: min() and max() are the argument no other is beyond.
    /\ machine = "variables" => Vars!BestArgument
    \* Evaluator: the operators keep the laws of arithmetic, order and text.
    /\ machine = "evaluator" => Eval!Laws
    \* Expression: without parentheses the tighter operator goes first.
    /\ machine = "parser" => Parser!Grouping
    \* Format: a text is written piece by piece.
    /\ machine = "format" => Format!PieceByPiece
    \* Format: a parameter is padded to its place.
    /\ machine = "format" => Format!PaddedToWidth
    \* Pixels: each pixel means what it meant, as far as the format can tell.
    /\ machine = "pixels" => PixelsM!EachPixel
    \* JSON reader: what is read to its end is a document.
    /\ machine = "jsonreader" => JReader!OnlyDocuments
    \* JSON reader: a number has the value of its parts.
    /\ machine = "jsonreader" => JReader!NumbersRead
    \* OSC: lists of parameters and MIDI events are read as written.
    /\ machine = "osc" => OscM!ListsAgree
    \* OSC patterns: what a pattern matches is what its pieces stand for.
    /\ machine = "oscpattern" => OscP!PatternsMatch

\* A call that reports a failure leaves what it was called on as it was, and
\* what a call says it has changed is what it has changed.
FailureKeepsStateStep ==
    \* charset: a streaming call writes as much as it takes off the room.
    /\ machine = "charset" => Chars!RoomIsKeptStep
    \* Sequences: a write that reports an error has taken nothing.
    /\ machine = "sequences" => Seqs!FailedWriteStep
    \* Path: a call that fails leaves the path alone.
    /\ machine = "path" => Paths!FailedCallKeepsPathStep
    \* PathPattern: a mask that cannot be parsed leaves the pattern alone.
    /\ machine = "pattern" => Patterns!FailedMaskKeepsStep
    \* Parameters: modified() is called by the calls that succeed, and by no other.
    /\ machine = "parameters" => ParamsM!ModifiedTellsStep
    \* JSON writer: a call that is refused has written nothing.
    /\ machine = "jsonwriter" => JWriter!RefusedWritesNothingStep
    \* JSON values: a call that fails changes no value.
    /\ machine = "jsonnode" => JNode!FailsCleanStep
    \* OSC: a call that fails reads nothing.
    /\ machine = "osc" => OscM!RefusedReadsNothingStep
    \* Bitmaps: calls that fail leave them, and memory is only broken in three
    \* ways.
    /\ machine = "bitmap" => Bmp!BitmapFailuresStep
FailureKeepsState == [][FailureKeepsStateStep]_vars
=============================================================================
