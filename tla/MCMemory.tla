-------------------------------- MODULE MCMemory --------------------------------
(******************************************************************************)
(* Four parsers, three levels below the base, and trie states for two         *)
(* documents of that depth, for they are never given back.                    *)
(******************************************************************************)
EXTENDS ParserMemory, TLC

CONSTANTS r1, r2, r3, r4, t1, t2, t3, t4, t5, t6

MCParsers == {r1, r2, r3, r4}
MCTrieStates == {t1, t2, t3, t4, t5, t6}
MemorySymmetry == Permutations(MCParsers)
================================================================================
