------------------------------- MODULE MCFindings -------------------------------
(******************************************************************************)
(* Documents the parser reports differently from what they say.               *)
(******************************************************************************)
EXTENDS Reports, TLC

MCChars == STRING

MCCharCode == ("b" :> 98) @@ ("c" :> 99) @@ ("e" :> 101) @@ ("n" :> 110) @@ ("o" :> 111) @@ ("z" :> 122)

NoOptions == [o \in OptionFields |-> FALSE]
BufferEndTokens == [NoOptions EXCEPT !["end_of_buffer_token"] = TRUE]

NoSpace == {<<>>}

FewWords == <<"o", "n">> :> 1

\* "a\"b": a string with an escaped quote.
EscapedValue == {Str(<<"a", "\\", "\"", "b">>)}

\* {"onc":1} where the trie knows "on" and "once".
NestedWords == (<<"o", "n">> :> 1) @@ (<<"o", "n", "c", "e">> :> 2)
BetweenWords == {Struct(<<Member(<<"o", "n", "c">>, Num(<<"1">>))>>)}

\* {"z":1} where the trie knows "bz".
SuffixWords == <<"b", "z">> :> 1
SuffixKey == {Struct(<<Member(<<"z">>, Num(<<"1">>))>>)}

\* A key whose token does not fit a byte.
LargeToken == <<"o", "n">> :> 300
KnownKey == {Struct(<<Member(<<"o", "n">>, True)>>)}

\* [true,true,true,true]: more bytes than the offsets can tell apart when they
\* are as narrow as the run says.
LongList == {List(<<Item(True), Item(True), Item(True), Item(True)>>)}
================================================================================
