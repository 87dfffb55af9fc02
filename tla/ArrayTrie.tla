-------------------------------- MODULE ArrayTrie --------------------------------
(******************************************************************************)
(* The trie of the test suite, as trie_gen has written it (support/           *)
(* array_trie.c).                                                             *)
(******************************************************************************)
EXTENDS Naturals, Sequences

\* A row: its character, next sibling and first child; K where a key ends.
K(char, sibling, token) == [char |-> char, sibling |-> sibling, child |-> 0, token |-> token]
N(char, sibling, child) == [char |-> char, sibling |-> sibling, child |-> child, token |-> 0]

\* __internal_array_test_trie_arr.
ArrayTestTrie ==
  <<N("NUL", 0, 0), N("*", 0, 2), N("c", 3, 71), N("d", 4, 9), N("e", 5, 23),
    N("f", 6, 29), N("o", 7, 41), N("r", 8, 49), N("t", 0, 65), N("e", 0, 10),
    N("g", 0, 11), N("r", 0, 12), N("e", 0, 13), N("e", 0, 14), N("s", 0, 15),
    N("_", 0, 16), N("c", 0, 17), N("e", 0, 18), N("l", 0, 19), N("s", 0, 20),
    N("i", 0, 21), N("u", 0, 22), K("s", 0, 100), N("n", 0, 24), N("a", 0, 25),
    N("b", 0, 26), N("l", 0, 27), N("e", 0, 28), K("d", 0, 2), N("e", 30, 35),
    N("i", 0, 31), N("e", 0, 32), N("l", 0, 33), N("d", 0, 34), K("s", 0, 1),
    N("a", 0, 36), N("t", 0, 37), N("u", 0, 38), N("r", 0, 39), N("e", 0, 40),
    K("d", 0, 3), N("n", 42, 48), N("p", 0, 43), N("t", 0, 44), N("i", 0, 45),
    N("o", 0, 46), N("n", 0, 47), K("s", 0, 8), K("e", 0, 4), N("e", 0, 50),
    N("l", 0, 51), N("a", 0, 52), N("t", 0, 53), N("i", 0, 54), N("v", 0, 55),
    N("e", 0, 56), N("_", 0, 57), N("h", 0, 58), N("u", 0, 59), N("m", 0, 60),
    N("i", 0, 61), N("d", 0, 62), N("i", 0, 63), N("t", 0, 64), K("y", 0, 101),
    N("h", 66, 68), N("w", 0, 67), K("o", 0, 5), N("r", 0, 69), N("e", 0, 70),
    K("e", 0, 6), N("o", 0, 72), N("n", 0, 73), N("t", 0, 74), N("e", 0, 75),
    N("n", 0, 76), N("t", 0, 77), K("s", 0, 7)>>

\* trie_length, which is more than there are rows.
ArrayTestTrieLength == 98
================================================================================
