-------------------------------- MODULE MCTables --------------------------------
(******************************************************************************)
(* The trie of the tests in its three encodings, with one key more that is    *)
(* the beginning of another: on, beside one.  Its token fits the units of the *)
(* table, but not the signed field a value is extracted to.                   *)
(******************************************************************************)
EXTENDS TrieTables, ArrayTrie, TLC

MCChars == STRING

MCWords ==
  (<<"f", "i", "e", "l", "d", "s">> :> 1) @@ (<<"e", "n", "a", "b", "l", "e", "d">> :> 2) @@
  (<<"f", "e", "a", "t", "u", "r", "e", "d">> :> 3) @@ (<<"o", "n", "e">> :> 4) @@
  (<<"t", "w", "o">> :> 5) @@ (<<"t", "h", "r", "e", "e">> :> 6) @@
  (<<"c", "o", "n", "t", "e", "n", "t", "s">> :> 7) @@
  (<<"o", "p", "t", "i", "o", "n", "s">> :> 8) @@ (<<"o", "n">> :> 200) @@
  (<<"d", "e", "g", "r", "e", "e", "s", "_", "c", "e", "l", "s", "i", "u", "s">> :> 100) @@
  (<<"r", "e", "l", "a", "t", "i", "v", "e", "_", "h", "u", "m", "i", "d", "i", "t", "y">> :> 101)

TestTrie == [ArrayTestTrie EXCEPT ![42].token = 200]
MCRows == TestTrie

\* The characters of the keys in the order of their codes, and the others of the texts.
MCCharTable == <<"_", "a", "b", "c", "d", "e", "f", "g", "h", "i", "l", "m", "n", "o", "p",
               "r", "s", "t", "u", "v", "w", "y">>
MCCharCode ==
  ("_" :> 95) @@
  ("a" :> 97) @@ ("b" :> 98) @@ ("c" :> 99) @@ ("d" :> 100) @@ ("e" :> 101) @@ ("f" :> 102) @@
  ("g" :> 103) @@ ("h" :> 104) @@ ("i" :> 105) @@ ("l" :> 108) @@ ("m" :> 109) @@ ("n" :> 110) @@
  ("o" :> 111) @@ ("p" :> 112) @@ ("r" :> 114) @@ ("s" :> 115) @@ ("t" :> 116) @@ ("u" :> 117) @@
  ("v" :> 118) @@ ("w" :> 119) @@ ("y" :> 121) @@ ("*" :> 42) @@ ("NUL" :> 0) @@ ("\n" :> 10) @@
  ("\"" :> 34) @@ ("," :> 44) @@ ("\\" :> 92) @@ ("z" :> 122) @@ ("byte 195" :> 195) @@
  (":" :> 58) @@ ("\r" :> 13) @@ ("\t" :> 9)

MCCharBits == 5
MCSiblingBits == 1
MCChildBits == 7

\* The record of a row (which counts from the root) as a number, and the stream
\* of all records as bytes.
MCRecord(i) ==
  LET row  == TestTrie[i + 2]
      jump(to) == IF to = 0 THEN 0 ELSE to - (i + 1)
      char == IF \E k \in DOMAIN MCCharTable : MCCharTable[k] = row.char
              THEN CHOOSE k \in DOMAIN MCCharTable : MCCharTable[k] = row.char ELSE 0
  IN  (char * 2 + jump(row.sibling)) * 128 + jump(row.child)

MCBit(k) ==
  IF k < 13 * (Len(TestTrie) - 1) THEN (MCRecord(k \div 13) \div 2^(12 - (k % 13))) % 2 ELSE 0

CompactTrie ==
  LET length  == (13 * (Len(TestTrie) - 1) + 7) \div 8
      bit(n, j) == MCBit(8 * (n - 1) + j)
      byte(n) == 128 * bit(n, 0) + 64 * bit(n, 1) + 32 * bit(n, 2) + 16 * bit(n, 3)
                 + 8 * bit(n, 4) + 4 * bit(n, 5) + 2 * bit(n, 6) + bit(n, 7)
  IN  SubSeq([n \in 1..length |-> byte(n)], 1, length)

\* The same bytes, written out (TLC need not compute them for every field it reads).
MCRaw ==
  <<0, 9, 49, 75, 12, 105, 51, 204, 58, 142, 21, 82, 57, 48, 10, 0, 96, 2, 96, 19, 0, 196, 4,
    32, 36, 1, 48, 10, 192, 98, 2, 160, 25, 128, 196, 1, 160, 34, 1, 24, 10, 192, 76, 2, 80, 3,
    67, 40, 4, 192, 43, 1, 40, 12, 64, 4, 3, 32, 25, 128, 192, 4, 192, 37, 0, 108, 59, 192, 100,
    2, 160, 23, 0, 180, 6, 32, 6, 0, 48, 10, 192, 68, 3, 32, 21, 0, 208, 4, 192, 33, 1, 72, 12,
    192, 88, 2, 160, 18, 128, 168, 6, 64, 54, 0, 76, 29, 64, 92, 1, 0, 19, 0, 152, 1, 192, 45,
    1, 144, 9, 128, 90, 3, 32, 24, 128, 0>>

ASSUME RawIsTheTrie == MCRaw = CompactTrie

Quoted(key) == <<"\"">> \o key \o <<"\"">>

\* Keys, keys that are one character too long or too short, that turn off before,
\* behind and between the siblings there are, with escapes, two in a row, a byte
\* that is no character of a key, and on with so much behind it that len, when it wraps,
\* ends there.
MCTexts ==
  {Quoted(<<"o", "n", "e">>) \o <<",">>, Quoted(<<"o", "n", "c">>), Quoted(<<"o", "n">>),
   Quoted(<<"o">>), Quoted(<<"o", "r">>), Quoted(<<"o", "a", "p">>), Quoted(<<"o", "o", "p">>),
   Quoted(<<"o", "\\", "n", "e">>), Quoted(<<"\\", "o", "n", "\\", "\"">>),
   Quoted(<<"y", "t", "w", "o">>), Quoted(<<"t", "byte 195", "w">>),
   Quoted(<<"f", "i", "e", "l", "d", "s">>),
   Quoted(<<"d", "e", "g", "r", "e", "e", "s", "_", "c", "e", "l", "s", "i", "u", "s">>),
   Quoted(<<"o", "n">>) \o Quoted(<<"t", "w", "o">>),
   <<"\"", "t", "w", "o", "NUL">>, Quoted(<<"o", "n">> \o [i \in 1..20 |-> "z"])}

MCDelimiters == {"\"", "NUL"}
MCOptionSets == [{"keep_last_token", "end_of_buffer_token", "hard_delim", "escape_chars"} -> BOOLEAN]
================================================================================
