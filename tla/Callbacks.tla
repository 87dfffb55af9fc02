------------------------------- MODULE Callbacks -------------------------------
(******************************************************************************)
(* An application that follows the callbacks and believes them to nest like   *)
(* the containers they announce, and list members to be numbered in order.    *)
(* Any handler that fills nested arrays has to.                               *)
(******************************************************************************)
EXTENDS JsonParser, SequencesExt

\* It keeps one counter per open container: open is the stack of [list, count], ok
\* whether every callback so far made sense to it.  Its counters are as wide as
\* list_index.
NothingHeard == [open |-> <<>>, ok |-> TRUE]

Open(a)  == a.open[Len(a.open)]
Inside(a) == Len(a.open)
Listing(a) == Inside(a) > 0 /\ Open(a).list

Counted(a) ==
  IF Listing(a) THEN [a EXCEPT !.open[Inside(a)].count = (@ + 1) % U16] ELSE a

Expects(a, good) == [a EXCEPT !.ok = @ /\ good]

Index(a) == IF Listing(a) THEN Open(a).count ELSE 0

OpensContainer(e) == e.state = "EXTRACT_VALUE" /\ e.type \in Containers
ClosesContainer(e) == e.state \in {"STRUCT_COMPLETE", "LIST_COMPLETE"}

Opened(a, list) == [a EXCEPT !.open = Append(@, [list |-> list, count |-> 0])]

\* A stray closing character at the top is reported at depth 0 and closes nothing.
Closed(a) == IF Inside(a) = 0 THEN a ELSE Counted([a EXCEPT !.open = Front(@)])

Told(a, e) ==
  CASE OpensContainer(e) ->
         Opened(Expects(a, e.depth = Inside(a) + 1 /\ e.index = Index(a)), e.type = "LIST")
    [] ClosesContainer(e) ->
         Closed(Expects(a, e.depth = Inside(a) /\ e.members = Index(a)))
    [] e.state = "LIST_ITEM_COMPLETE" ->
         Counted(Expects(a, e.depth = Inside(a) /\ Listing(a) /\ e.index = Index(a)))
    [] e.state \in {"COMPLETE", "PARSE_KEY_COMPLETE"} ->
         Expects(a, e.depth = Inside(a) /\ ~Listing(a))
    [] OTHER ->
         Expects(a, e.depth = Inside(a) /\ e.index = Index(a))

================================================================================
