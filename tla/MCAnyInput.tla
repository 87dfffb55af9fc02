------------------------------- MODULE MCAnyInput -------------------------------
(******************************************************************************)
(* Every short input over a small alphabet, most of them malformed, behind a  *)
(* few beginnings that lead into each state of the parser.                    *)
(******************************************************************************)
EXTENDS StreamingParser

MCChars == STRING

MCWords == <<"o", "n">> :> 1

MCCharCode == ("o" :> 111) @@ ("n" :> 110)

MCOptions == [o \in OptionFields |-> FALSE]

\* Beginnings, each with the characters that matter behind it.
Openings ==
  { [begin |-> <<>>,                      next |-> {"{", "}", "[", "]", "\"", "1"}],
    [begin |-> <<"[">>,                   next |-> {"{", "}", "[", "]", "1", ","}],
    [begin |-> <<"{", "o", ":">>,         next |-> {"[", "]", "}", "1", "\\", "\""}],
    [begin |-> <<"{", "\"">>,             next |-> {"\"", "\\", "o", ":", "1"}],
    [begin |-> <<"{", "o", "n">>,         next |-> {"\"", "o", ":", "1", " "}],
    [begin |-> <<"[", "n", "l", "l">>,    next |-> {"[", "]", "l", "1"}] }

Behind(begin, next, n) == {begin \o t : t \in [1..n -> next]}

\* Three more characters, whatever they are, and every way to open and close with
\* four, within a list and within a struct that is a member of a list.
MCDocs ==
  UNION {Behind(o.begin, o.next, 3) : o \in Openings}
  \cup Behind(<<"[">>, {"[", "]", "}", "1"}, 4)
  \cup Behind(<<"[", "{", "1">>, {":", "1", "}", "]"}, 4)
================================================================================
