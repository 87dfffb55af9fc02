-------------------------------- MODULE JsonDocs --------------------------------
(******************************************************************************)
(* What a JSON document means to an application: a generator of documents     *)
(* from abstract values, together with the callbacks each promises.           *)
(*                                                                            *)
(* This is the specification side: it knows nothing of buffers, calls or      *)
(* parser states.  It is recursive, so only modules that TLC runs use it.     *)
(******************************************************************************)
EXTENDS Integers, Sequences

\* The value constructors.  text is what stands in the document.
Scalar(type, text) == [type |-> type, text |-> text]
Num(text)  == Scalar("NUMERIC", text)
True       == Scalar("TRUE", <<"t", "r", "u", "e">>)
False      == Scalar("FALSE", <<"f", "a", "l", "s", "e">>)
Null       == Scalar("NULL", <<"n", "u", "l", "l">>)
Str(text)  == Scalar("DOUBLE_QUOTE", <<"\"">> \o text \o <<"\"">>)
SStr(text) == Scalar("QUOTE", <<"'">> \o text \o <<"'">>)

Item(value)        == [key |-> <<>>, quote |-> <<>>, value |-> value]
Member(key, value) == [key |-> key, quote |-> <<"\"">>, value |-> value]
BareMember(key, value) == [key |-> key, quote |-> <<>>, value |-> value]

List(items)     == [type |-> "LIST", items |-> items]
Struct(members) == [type |-> "STRUCT", items |-> members]

\* Where a value stands: inside a list, inside a struct under a key, or alone.
Alone == [within |-> "NONE", key |-> <<>>, token |-> 0, index |-> 0]

RECURSIVE ValueAt(_, _, _, _, _, _)

(******************************************************************************)
(* ValueAt(v, depth, place, at, space, tokens): the text of v when it starts  *)
(* at position at of the document, with the white space space where JSON      *)
(* allows it, and the callbacks it promises; tokens maps the known keys.      *)
(******************************************************************************)
MemberAt(parent, i, depth, at, space, tokens) ==
  LET m     == parent.items[i]
      comma == IF i = 1 THEN <<>> ELSE <<",">> \o space
      start == at + Len(comma)
      label == m.quote \o m.key \o m.quote \o <<":">> \o space
      token == IF m.key \in DOMAIN tokens THEN tokens[m.key] ELSE 0
  IN  IF parent.type = "LIST"
      THEN LET v == ValueAt(m.value, depth,
                            [within |-> "LIST", key |-> <<>>, token |-> 0, index |-> i - 1],
                            start, space, tokens)
           IN  [text |-> comma \o v.text, events |-> v.events]
      ELSE LET v == ValueAt(m.value, depth,
                            [within |-> "STRUCT", key |-> m.key, token |-> token, index |-> 0],
                            start + Len(label), space, tokens)
           IN  [text |-> comma \o label \o v.text,
                events |-> <<[state |-> "PARSE_KEY_COMPLETE", depth |-> depth,
                              token |-> token, key |-> m.key]>> \o v.events]

RECURSIVE MembersAt(_, _, _, _, _, _)
MembersAt(parent, i, depth, at, space, tokens) ==
  IF i > Len(parent.items) THEN [text |-> <<>>, events |-> <<>>]
  ELSE LET m    == MemberAt(parent, i, depth, at, space, tokens)
           rest == MembersAt(parent, i + 1, depth, at + Len(m.text), space, tokens)
       IN  [text |-> m.text \o rest.text, events |-> m.events \o rest.events]

ValueAt(v, depth, place, at, space, tokens) ==
  LET container == v.type \in {"LIST", "STRUCT"}
      start == [state |-> "EXTRACT_VALUE", depth |-> IF container THEN depth + 1 ELSE depth,
                type |-> v.type, token |-> place.token, key |-> place.key,
                index |-> place.index, from |-> at]
  IN  IF ~container
      THEN [text |-> v.text,
            events |-> <<start,
              [state |-> IF place.within = "LIST" THEN "LIST_ITEM_COMPLETE" ELSE "COMPLETE",
               depth |-> depth, type |-> v.type, token |-> place.token, key |-> place.key,
               index |-> place.index, from |-> at, to |-> at + Len(v.text) - 1]>>]
      ELSE LET list == v.type = "LIST"
               body == MembersAt(v, 1, depth + 1, at + 1, space, tokens)
           IN  [text |-> <<IF list THEN "[" ELSE "{">> \o body.text \o space
                           \o <<IF list THEN "]" ELSE "}">>,
                events |-> <<start>> \o body.events \o
                  <<[state |-> IF list THEN "LIST_COMPLETE" ELSE "STRUCT_COMPLETE",
                     depth |-> depth + 1, members |-> IF list THEN Len(v.items) ELSE 0]>>]

\* A whole document: a value and, as in the tests, the '\0' behind it.
Document(v, space, tokens) ==
  LET d == ValueAt(v, 0, Alone, 0, space, tokens)
  IN  [text |-> d.text \o <<"NUL">>, events |-> d.events]
================================================================================
