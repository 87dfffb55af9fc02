------------------------------- MODULE MCStrings --------------------------------
(******************************************************************************)
(* Three holders, two heap strings and a field, sizes around every limit of   *)
(* the allocation policy.                                                     *)
(******************************************************************************)
EXTENDS NullableString, TLC

CONSTANTS h1, h2, h3, f1, s1, s2, b1, b2, b3

MCHolders == {h1, h2, h3}
MCFields  == {f1}
MCStructs == {s1, s2}
MCBlocks  == {b1, b2, b3}
HoldersSymmetry == Permutations(MCHolders)
================================================================================
