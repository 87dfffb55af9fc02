------------------------------- MODULE JsonParser -------------------------------
(******************************************************************************)
(* struct json_parser, the chain of parsers a document in progress keeps      *)
(* alive (one per open container plus the one at work), and the helpers of    *)
(* streaming-parser.c that change it: reset, spawn, drop, shift, top.         *)
(*                                                                            *)
(* The chain linked by child/parent_p is a function from depth to parser.     *)
(* A child is never unlinked while parsing, only deactivated and reused, so   *)
(* the allocated parsers are the depths 0..alloc.                             *)
(******************************************************************************)
EXTENDS NoizuTrie

CONSTANTS
  Encoding,  \* the encoding of the trie all parsers tokenize keys with
  U8,        \* the modulus of uint8_t: 256, or less to bring its wrap within reach
  U16,       \* the modulus of uint16_t: 65536, or less likewise
  MaxDepth   \* bound: the deepest parser an instance may spawn

ASSUME EncodingAssumption == Encoding \in Encodings
ASSUME WidthAssumption == U8 \in Nat \ {0, 1} /\ U16 \in Nat \ {0, 1}
ASSUME DepthAssumption == MaxDepth \in Nat

ParseStates ==
  {"ADVANCE_KEY", "PARSE_KEY", "ADVANCE_VALUE", "CAPTURE_VALUE", "ADVANCE_LIST_ITEM",
   "CAPTURE_LIST_ITEM", "LIST_COMPLETE", "STRUCT_COMPLETE", "COMPLETE"}

ValueTypes ==
  {"ERROR", "TRUE", "FALSE", "NUMERIC", "QUOTE", "DOUBLE_QUOTE", "LIST", "STRUCT", "NULL"}

Containers == {"LIST", "STRUCT"}

\* struct json_parser; the callback and its output, previous_value_type and the
\* depth (the index in the chain) are left out.
Parser ==
  [parse_state : ParseStates, value_type : ValueTypes,
   active : Bit, char_skip : Bit, escape_char : Bit, null_track : Bit,
   in_s_quote : Bit, in_d_quote : Bit,
   s_quote_track : 0..(U8 - 1), d_quote_track : 0..(U8 - 1),
   brace_track : 0..(U8 - 1), bracket_track : 0..(U8 - 1),
   list_index : 0..(U16 - 1), list_members : 0..(U16 - 1),
   key_start : 0..(U16 - 1), key_close : 0..(U16 - 1),
   value_start : 0..(U16 - 1), value_close : 0..(U16 - 1),
   token : Nat, parent : Nat,
   trie : TrieState]

\* A parser after os_zalloc or os_memset, but for its trie state.
Zeroed(trie) ==
  [parse_state |-> "ADVANCE_KEY", value_type |-> "ERROR",
   active |-> 0, char_skip |-> 0, escape_char |-> 0, null_track |-> 0,
   in_s_quote |-> 0, in_d_quote |-> 0,
   s_quote_track |-> 0, d_quote_track |-> 0, brace_track |-> 0, bracket_track |-> 0,
   list_index |-> 0, list_members |-> 0,
   key_start |-> 0, key_close |-> 0, value_start |-> 0, value_close |-> 0,
   token |-> 0, parent |-> 0,
   trie |-> trie]

\* init_json_parser, when both allocations succeed.
InitParser(delimiter, buffer_pos) ==
  [Zeroed(TrieReset(delimiter, buffer_pos)) EXCEPT !.active = 1]

--------------------------------------------------------------------------------
\* "parser->parent_p && parser->parent_p->value_type == ..."
InList(chain, d)   == d > 0 /\ chain[d - 1].value_type = "LIST"
InStruct(chain, d) == d > 0 /\ chain[d - 1].value_type = "STRUCT"

ResetParser(p, in_list) ==
  [Zeroed(p.trie) EXCEPT !.active = 1,
                         !.char_skip = p.char_skip,
                         !.parent = p.parent % U8,
                         !.parse_state = IF in_list THEN "ADVANCE_LIST_ITEM" ELSE "ADVANCE_KEY"]

\* Mutant: takes every parent for a list.
ResetAt_AnyParent(chain, d) == [chain EXCEPT ![d] = ResetParser(@, d > 0)]

ResetAt(chain, d) == [chain EXCEPT ![d] = ResetParser(@, InList(chain, d))]

\* Mutant: counts the member in the parser instead of its parent.
CountMember_Own(chain, d) ==
  IF InList(chain, d) THEN [chain EXCEPT ![d].list_members = (@ + 1) % U16] ELSE chain

\* "parser->parent_p->list_members++", when the parent is a list.
CountMember(chain, d) ==
  IF InList(chain, d)
  THEN [chain EXCEPT ![d - 1].list_members = (@ + 1) % U16]
  ELSE chain

\* top_parser: the end of the run of active children below d.
TopParser(chain, alloc, d) ==
  CHOOSE t \in d..alloc :
    /\ \A i \in (d + 1)..t : chain[i].active = 1
    /\ t = alloc \/ chain[t + 1].active = 0

\* shift_json_parser: the host dropped shift bytes from the front of the buffer.
ShiftOffset(o, shift) == IF o = 0 THEN 0 ELSE (o + U16 - shift) % U16

\* Mutant: forgets the ends.
ShiftParser_StartsOnly(p, shift) ==
  [p EXCEPT !.key_start = ShiftOffset(@, shift), !.value_start = ShiftOffset(@, shift)]

ShiftParser(p, shift) ==
  [p EXCEPT !.key_start   = ShiftOffset(@, shift),
            !.key_close   = ShiftOffset(@, shift),
            !.value_start = ShiftOffset(@, shift),
            !.value_close = ShiftOffset(@, shift)]

ShiftChain(chain, alloc, shift) ==
  [d \in DOMAIN chain |-> IF d <= alloc THEN ShiftParser(chain[d], shift) ELSE chain[d]]

\* Mutant: numbers a container by its own members.
NextIndex_Own(chain, d) == chain[d].list_members

\* The list index a value of the parser at depth d gets.
NextIndex(chain, d) == IF d > 0 THEN chain[d - 1].list_members ELSE 0

\* spawn_json_parser on the container d, with the token and the bracket or brace
\* count its caller stores in the child.  A child left over from an earlier
\* container keeps its trie state, a new one starts with d's options.
SpawnParser(chain, alloc, d, buffer_pos) ==
  LET p    == chain[d]
      list == p.value_type = "LIST"
      trie == IF d + 1 <= alloc THEN chain[d + 1].trie
              ELSE TrieReset(p.trie.delimiter, buffer_pos)
  IN  [chain EXCEPT
        ![d].list_index = NextIndex(chain, d),
        ![d + 1] = [Zeroed(trie) EXCEPT
          !.active      = 1,
          !.parse_state = IF list THEN "ADVANCE_LIST_ITEM" ELSE "ADVANCE_KEY",
          !.char_skip   = p.char_skip,
          !.list_index  = NextIndex(chain, d),
          !.key_start   = p.key_start,
          !.key_close   = p.key_close,
          !.value_start = p.value_start,
          !.parent      = p.token,
          !.token       = p.token % U8,
          !.bracket_track = IF list THEN 1 ELSE 0,
          !.brace_track   = IF list THEN 0 ELSE 1]]

\* drop_json_parser: the depth it returns, and the chain it leaves.
DropTo(d) == IF d > 0 THEN d - 1 ELSE 0

\* Mutant: the dropped parser stays active.
DropParser_Active(chain, d) ==
  IF d > 0 THEN [ResetAt(chain, d) EXCEPT ![d].parent = 0, ![d].char_skip = 0]
  ELSE ResetAt(chain, d)

DropParser(chain, d) ==
  IF d > 0
  THEN [ResetAt(chain, d) EXCEPT ![d].parent = 0, ![d].char_skip = 0, ![d].active = 0]
  ELSE ResetAt(chain, d)
================================================================================
