------------------------------ MODULE MCWellFormed ------------------------------
(******************************************************************************)
(* Well-formed documents without escapes, in every split into calls and with  *)
(* every compaction: what the application is told is what the document says.  *)
(******************************************************************************)
EXTENDS Reports, TLC

MCChars == STRING

MCWords == (<<"o", "n", "e">> :> 1) @@ (<<"o", "n">> :> 2) @@ (<<"t">> :> 3)

MCCharCode == ("e" :> 101) @@ ("n" :> 110) @@ ("o" :> 111) @@ ("t" :> 116)

MCOptions == [o \in OptionFields |-> FALSE]

MCSpaces == {<<>>, <<" ">>}

MCValues ==
  { Struct(<<Member(<<"o", "n">>, Num(<<"1">>)), Member(<<"x">>, Str(<<>>))>>),
    Struct(<<BareMember(<<"o", "n">>, Struct(<<>>))>>),
    Struct(<<Member(<<"t">>, List(<<Item(Num(<<"1">>))>>))>>),
    Struct(<<Member(<<"o", "n", "e">>, SStr(<<"\"">>))>>),
    List(<<Item(True), Item(List(<<>>))>>),
    List(<<Item(Struct(<<Member(<<"o">>, False)>>))>>),
    List(<<Item(Struct(<<>>)), Item(Null)>>),
    Num(<<"-", ".">>) }
================================================================================
