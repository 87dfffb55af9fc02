------------------------------ MODULE ParserStack ------------------------------
(******************************************************************************)
(* What the chain of json_parsers promises, without a pointer: a stack that   *)
(* stands as deep as the document does, and costs one parser per level that   *)
(* was ever reached, however often it is reached.                             *)
(******************************************************************************)
EXTENDS Naturals

VARIABLES
  made,   \* the parsers allocated
  depth   \* the parser at work, counted from the base

Init == made = 0 /\ depth = 0

Open == made = 0 /\ made' = 1 /\ UNCHANGED depth

Descend ==
  /\ made > 0
  /\ depth' = depth + 1
  /\ made' = IF depth + 1 = made THEN made + 1 ELSE made

Ascend == depth > 0 /\ depth' = depth - 1 /\ UNCHANGED made

\* The base stays, ...
Trim == made > 0 /\ made' = 1 /\ depth' = 0

\* ... or does not.
Close == made' = 0 /\ depth' = 0

Next == Open \/ Descend \/ Ascend \/ Trim \/ Close

Spec == Init /\ [][Next]_<<made, depth>>
================================================================================
