------------------------------- MODULE MCHelpers --------------------------------
(******************************************************************************)
(* What an application calls in a callback besides the strings: the           *)
(* extraction of values and the growing of arrays.  It is in one call at a    *)
(* time, and the two share nothing, so that one rests at its beginning while  *)
(* the other takes its steps.  An accumulator of 16 bits instead of 64, and   *)
(* lengths below eight where a uint8_t counts to 256, keep the limits near.   *)
(******************************************************************************)
EXTENDS DynamicArray, Extraction, TLC

Spell(s) == [i \in 1..Len(s) |-> SubSeq(s, i, i)]

MCCharCode ==
  [c \in {"NUL"} |-> 0] @@ ("\"" :> 34) @@ ("'" :> 39) @@ ("+" :> 43) @@ ("," :> 44) @@ ("-" :> 45) @@
  ("." :> 46) @@ ("0" :> 48) @@ ("1" :> 49) @@ ("2" :> 50) @@ ("3" :> 51) @@ ("4" :> 52) @@
  ("5" :> 53) @@ ("6" :> 54) @@ ("7" :> 55) @@ ("8" :> 56) @@ ("9" :> 57) @@ (":" :> 58) @@
  ("T" :> 84) @@ ("Z" :> 90) @@ ("[" :> 91) @@ ("a" :> 97) @@ ("e" :> 101) @@ ("f" :> 102) @@ ("l" :> 108) @@
  ("n" :> 110) @@ ("o" :> 111) @@ ("r" :> 114) @@ ("s" :> 115) @@ ("t" :> 116) @@ ("u" :> 117) @@
  ("x" :> 120) @@ ("|" :> 124)

\* Around the limits of 7, 15 and 16 bits, with and without a sign and a fraction, and
\* too long for the accumulator, the length or the value returned.
Unsigned ==
  {"0", "7", "00", "63", "64", "65", "127", "128", "16383", "16384", "16385", "32767", "32768",
   "65535", "65536", "70000", "1234567", "12345678", "123456789", "1.5", "12.", "0.25", "3.0625",
   "1.00001", "65535.9999", "65536.5", "1.2.3", "9.9999"}
Numerics == Unsigned \cup {"-" \o n : n \in Unsigned} \cup {"-"}

Words == {"", "true", "false", "null", "tru", "x", "1x", "+5", "+", ".5", "-.5", "+-1", "only", "nulls"}

Times == {"12:34", "2:05", "2|05", "00|00", "23:59", "1:2", "123:45", "9", "12:3x", "99:99", "12-34", ":30"}

Dates ==
  {"2024-02-29T23:59:58" \o z : z \in {"", "Z", "+0530", "-1100", "+05:30", "+05", "x", "+", "-0000"}}
  \cup {"1999-12-31 00:00:00Z", "2024-02-29", "2024-02-29T", "2024-02-29T23:59", "2024-02", "0001-01-01T00:00:00",
        "2024-02-29T23:59:Z", "4095-10-11T12:13:14+0000", "24-2-9T3:5:7Z", "2024-02-29T23:59:59-0001"}

Value(type, text, start, after) ==
  [type |-> type, start |-> start, text |-> Spell(text), after |-> Spell(after)]

MCValues ==
  {Value("JSON_NUMERIC_VALUE", n, start, ",") : n \in Numerics, start \in {1, 3}}
  \cup {Value("JSON_DOUBLE_QUOTE_VALUE", "\"" \o t \o "\"", 1, after) :
          t \in Numerics \cup Words \cup Times \cup Dates, after \in {",", "\""}}
  \cup {Value("JSON_QUOTE_VALUE", "'" \o t \o "'", start, ",") :
          t \in {"1", "12", "12:34", "2024-02-29T23:59:58Z", "true", "\"", "null"}, start \in {1, 2}}
  \cup {Value("JSON_TRUE_VALUE", "true", 1, ","), Value("JSON_FALSE_VALUE", "false", 1, ","),
        Value("JSON_NULL_VALUE", "null", 1, ","), Value("JSON_LIST_VALUE", "[", 1, "1,2]")}

MCTexts == {Spell(t) : t \in {"null", "123.32", "951", "-123.45", "-951", "1234567890123"}}

MCIntTypes == [signed : BOOLEAN, bits : {7, 15, 16}]

TestValues == MCValues
TestTexts == MCTexts
TestCodes == MCCharCode

Init == ArrayInit /\ ExtractionInit

Next ==
  \/ ExtractionInit /\ ArrayNext /\ UNCHANGED extraction
  \/ ArrayInit /\ ExtractionNext /\ UNCHANGED array

Spec == Init /\ [][Next]_<<array, extraction>> /\ WF_array(Running)
================================================================================
