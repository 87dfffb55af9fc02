------------------------------ MODULE ParserMemory ------------------------------
(******************************************************************************)
(* The json_parsers as blocks of memory: allocated one per level when the     *)
(* document first reaches it, kept and used again as long as the base lives,  *)
(* freed by a loop that takes the chain apart.  (src/streaming-parser.c, init,*)
(* spawn, drop, free and top_parser; what they do to the fields the parsing   *)
(* is about is in JsonParser.)                                                *)
(*                                                                            *)
(* The document is abstracted to the levels it opens and closes, and to where *)
(* its buffers end.                                                           *)
(******************************************************************************)
EXTENDS Naturals, FiniteSets

CONSTANTS
  Parsers,     \* blocks that may hold a json_parser
  TrieStates,  \* blocks that may hold a noizu_trie_state
  None,        \* NULL
  DepthWidth,  \* the modulus of uint8_t depth
  Constant     \* definition->constant

ASSUME MemoryAssumption ==
  /\ IsFiniteSet(Parsers) /\ None \notin Parsers \cup TrieStates
  /\ Cardinality(Parsers) <= DepthWidth /\ DepthWidth \in Nat /\ Constant \in BOOLEAN

VARIABLES
  heap,          \* the json_parsers; a block freed keeps what it held
  live,          \* the blocks allocated to them
  states,        \* the trie states allocated
  definition,    \* the trie definition: "intact", "torn" (without its tables) or "freed"
  base,          \* the parser the application holds
  pc,            \* "out" of the library, "in" json_streaming_parser, in the "free" loop,
                 \* "freed" the chain but not the base, "crashed"
  current,       \* parser, of json_streaming_parser
  p, trail, free_pointer,  \* of free_json_parser
  fault          \* has a block been used, or freed, that was not allocated

loop == <<p, trail, free_pointer>>
vars == <<heap, live, states, definition, base, pc, current, loop, fault>>

Zeroed ==
  [child |-> None, parent_p |-> None, trie_state |-> None, depth |-> 0, active |-> FALSE]

Made(state) == [Zeroed EXCEPT !.trie_state = state, !.active = TRUE]

\* What reset_json_parser changes of a parser's place in the chain.
ResetParser(parser) == [parser EXCEPT !.active = TRUE]

Touch(blocks) == fault' = (fault \/ ~(blocks \subseteq live))

\* Mutant: does not look whether the child is in use.
TopParser_Last(parser) ==
  LET top[r \in Parsers] == IF heap[r].child # None THEN top[heap[r].child] ELSE r
  IN  top[parser]

TopParser(parser) ==
  LET top[r \in Parsers] ==
        LET c == heap[r].child IN IF c # None /\ heap[c].active THEN top[c] ELSE r
  IN  top[parser]

--------------------------------------------------------------------------------
Init ==
  /\ heap = [r \in Parsers |-> Zeroed]
  /\ live = {} /\ states = {} /\ definition = "intact"
  /\ base = None /\ pc = "out" /\ current = None
  /\ p = None /\ trail = None /\ free_pointer = FALSE
  /\ fault = FALSE

\* Which block the trie state gets makes no difference.
NextState == {state \in TrieStates \ states : state = CHOOSE t \in TrieStates \ states : TRUE}

\* The two allocations of init_json_parser, which gives the first back when the
\* second fails: then nothing has changed, and there is no parser.
Allocate(r, state) ==
  /\ r \notin live /\ live' = live \cup {r}
  /\ states' = states \cup {state}

InitParser ==
  /\ pc = "out" /\ base = None
  /\ \E r \in Parsers, state \in NextState :
       /\ Allocate(r, state)
       /\ heap' = [heap EXCEPT ![r] = Made(state)]
       /\ base' = r
  /\ fault' = (fault \/ definition # "intact")
  /\ UNCHANGED <<definition, pc, current, loop>>

\* json_streaming_parser is called with a buffer, and returns at its end.
Resume ==
  /\ pc = "out" /\ base # None
  /\ pc' = "in" /\ current' = TopParser(base)
  /\ Touch({base})
  /\ UNCHANGED <<heap, live, states, definition, base, loop>>

Suspend ==
  /\ pc = "in"
  /\ pc' = "out" /\ current' = None
  /\ UNCHANGED <<heap, live, states, definition, base, loop, fault>>

\* spawn_json_parser: the child that is there already, ...
Spawn_Reuse ==
  LET c == heap[current].child IN
  /\ pc = "in" /\ c # None
  /\ heap' = [heap EXCEPT ![c] = [ResetParser(@) EXCEPT !.parent_p = current]]
  /\ current' = c
  /\ Touch({current, c})
  /\ UNCHANGED <<live, states, definition, base, pc, loop>>

\* Mutant: keeps no way back.
Child_OneWay(state, parser) ==
  [Made(state) EXCEPT !.depth = (heap[parser].depth + 1) % DepthWidth]

Child(state, parser) ==
  [Made(state) EXCEPT !.depth = (heap[parser].depth + 1) % DepthWidth, !.parent_p = parser]

\* ... a new one, ...
Spawn_New ==
  /\ pc = "in" /\ heap[current].child = None
  /\ \E r \in Parsers, state \in NextState :
       /\ Allocate(r, state)
       /\ heap' = [heap EXCEPT ![current].child = r, ![r] = Child(state, current)]
       /\ current' = r
  /\ fault' = (fault \/ current \notin live \/ definition # "intact")
  /\ UNCHANGED <<definition, base, pc, loop>>

\* ... or NULL, which is written through.
Spawn_NoMemory ==
  /\ pc = "in" /\ heap[current].child = None
  /\ heap' = heap /\ pc' = "crashed"
  /\ UNCHANGED <<live, states, definition, base, current, loop, fault>>

\* Mutant: the base is dropped like any other.
Drop_Base ==
  LET parent == heap[current].parent_p IN
  /\ pc = "in"
  /\ heap' = [heap EXCEPT ![current].active = FALSE, ![parent] = ResetParser(@)]
  /\ current' = parent
  /\ Touch({current, parent})
  /\ UNCHANGED <<live, states, definition, base, pc, loop>>

\* drop_json_parser, and the reset of the parent by which its callers follow it.
\* The base has no parent to return to, and stays where it is.
Drop ==
  LET parent == heap[current].parent_p IN
  /\ pc = "in" /\ parent # None
  /\ heap' = [heap EXCEPT ![current].active = FALSE, ![parent] = ResetParser(@)]
  /\ current' = parent
  /\ Touch({current, parent})
  /\ UNCHANGED <<live, states, definition, base, pc, loop>>
--------------------------------------------------------------------------------
\* free_json_parser.  The parser before the last is freed when the loop is past it.
FreeParser ==
  /\ pc = "out"
  /\ pc' = "free" /\ p' = base /\ trail' = base /\ free_pointer' \in BOOLEAN
  /\ UNCHANGED <<heap, live, states, definition, base, current, fault>>

\* Mutant: frees the base with the others.
Passed_Base == IF trail # p THEN {trail} ELSE {}

\* Mutant: leaves it to others to free it.
Passed_Kept == {}

Passed == IF trail # base THEN {trail} ELSE {}

Loop_Down ==
  /\ pc = "free" /\ p # None /\ heap[p].child # None
  /\ Touch(Passed \cup {p})
  /\ live' = live \ Passed
  /\ heap' = [heap EXCEPT ![p].child = None]
  /\ trail' = p /\ p' = heap[p].child
  /\ UNCHANGED <<states, definition, base, pc, current, free_pointer>>

Loop_Last ==
  /\ pc = "free" /\ p # None /\ heap[p].child = None
  /\ Touch(Passed \cup {p})
  /\ live' = (live \ Passed) \ ({p} \ {base})
  /\ pc' = "freed"
  /\ UNCHANGED <<heap, states, definition, base, current, loop>>

Loop_Nothing ==
  /\ pc = "free" /\ p = None
  /\ pc' = "freed"
  /\ UNCHANGED <<heap, live, states, definition, base, current, loop, fault>>

\* The modes of noizu_trie__free, as sets of bits.
TRIE_FREE_STATE__INNER == {0}
TRIE_FREE_STATE == {0, 4}
TRIE_FREE_DEFINITION__INNER == {1}
TRIE_FREE_DEFINITION == {1, 5}

\* TRIE_FREE_DEFINITION || TRIE_FREE_STATE, the logical or, is 1.
Mode == {0}

\* noizu_trie__free of the state of a parser, and of the definition.  There is no
\* type_state to be freed: no encoding makes one.
TrieFree(state, mode) ==
  /\ states' = IF TRIE_FREE_STATE \subseteq mode THEN states \ {state} ELSE states
  /\ definition' =
       IF ~(TRIE_FREE_DEFINITION__INNER \subseteq mode) \/ Constant THEN definition
       ELSE IF TRIE_FREE_DEFINITION \subseteq mode THEN "freed" ELSE "torn"

FreeBase ==
  /\ pc = "freed" /\ free_pointer /\ base # None
  /\ Touch({base})
  /\ TrieFree(heap[base].trie_state, Mode)
  /\ live' = live \ {base}
  /\ base' = None /\ pc' = "out"
  /\ UNCHANGED <<heap, current, loop>>

KeepBase ==
  /\ pc = "freed" /\ (~free_pointer \/ base = None)
  /\ pc' = "out"
  /\ UNCHANGED <<heap, live, states, definition, base, current, loop, fault>>

Next ==
  \/ InitParser \/ Resume \/ Suspend
  \/ Spawn_Reuse \/ Spawn_New \/ Spawn_NoMemory \/ Drop
  \/ FreeParser \/ Loop_Down \/ Loop_Last \/ Loop_Nothing \/ FreeBase \/ KeepBase

Spec == Init /\ [][Next]_vars

--------------------------------------------------------------------------------
Freeing == pc \in {"free", "freed"}

\* Every field holds what its type can, and there is a parser at work in a call.
MemoryTypeOK ==
  /\ heap \in [Parsers -> [child : Parsers \cup {None}, parent_p : Parsers \cup {None},
                           trie_state : TrieStates \cup {None}, depth : 0..(DepthWidth - 1),
                           active : BOOLEAN]]
  /\ live \subseteq Parsers /\ states \subseteq TrieStates
  /\ definition \in {"intact", "torn", "freed"}
  /\ {base, current, p, trail} \subseteq Parsers \cup {None}
  /\ pc \in {"out", "in", "free", "freed", "crashed"}
  /\ current = None <=> pc \notin {"in", "crashed"}
  /\ free_pointer \in BOOLEAN /\ fault \in BOOLEAN

\* Whatever document after document does, no parser is used or freed when it is not
\* allocated, and the trie definition is there for every parser that is made with it.
NoDangling == ~fault

\* The allocated parsers are a chain that can be walked both ways, whose depth is what
\* the callbacks are told, whose tokenizers are their own, and behind a parser that is
\* not in use there is none that is.
ChainSound ==
  ~Freeing =>
    /\ base = None => live = {}
    /\ \A r \in live :
         LET c == heap[r].child IN
         /\ r = base <=> heap[r].parent_p = None
         /\ r # base => heap[heap[r].parent_p].child = r
         /\ c # None => /\ c \in live /\ heap[c].parent_p = r
                        /\ heap[c].depth = heap[r].depth + 1
                        /\ heap[c].active => heap[r].active
         /\ heap[r].trie_state \in states
         /\ \A q \in live \ {r} : heap[q].trie_state # heap[r].trie_state

\* While free_json_parser takes the chain apart, every parser not freed yet is the
\* base, the one it has just left, or lies ahead: none is lost on the way.
Ahead(parser) ==
  LET from[r \in Parsers] == {r} \cup IF heap[r].child # None THEN from[heap[r].child] ELSE {}
  IN  IF parser = None THEN {} ELSE from[parser]

NoneLost == pc = "free" => live = ({base, trail} \ {None}) \cup Ahead(p)

\* The parsers of the chain, without those that free_json_parser is about to free, and
\* the depth of the one at work, which is known between calls as well.
ParsersMade ==
  IF Freeing THEN (IF free_pointer \/ base = None THEN 0 ELSE 1) ELSE Cardinality(live)

DepthAtWork ==
  CASE pc \in {"in", "crashed"} -> heap[current].depth
    [] pc = "out" /\ base # None -> heap[TopParser(base)].depth
    [] OTHER -> 0

\* The chain is the stack of ParserStack: parsing resumes where it stopped, a level
\* costs one parser however often it is entered, and free_json_parser leaves the base
\* alone or nothing at all.
Stack == INSTANCE ParserStack WITH made <- ParsersMade, depth <- DepthAtWork

ChainImplementsStack == Stack!Spec
================================================================================
