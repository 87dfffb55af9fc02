------------------------- MODULE StreamingParser_proofs -------------------------
(******************************************************************************)
(* The invariants of StreamingParser, for every alphabet, trie, document,     *)
(* depth and field width.                                                     *)
(*                                                                            *)
(* First what the operators of NoizuTrie and JsonParser return, which is a    *)
(* trie state, a parser or a chain again, and what they do to the shape of    *)
(* the chain: which parsers are active, and what each is at work on.          *)
(*                                                                            *)
(* None of TypeOK, ChainIsStack and CursorInBuffer is inductive alone: the    *)
(* depth top_parser returns is one of an allocated parser because the active  *)
(* parsers are the first ones, the position a call puts buffer_pos back to is *)
(* one of the buffer because retrace never passed it, and the character under *)
(* the tokenizer has a type because it is in the buffer.  IInv is all of them *)
(* together with StateFitsParent.                                             *)
(******************************************************************************)
EXTENDS StreamingParser, TLAPS

\* A parse state that a parser below a list, or one below a struct, may be in.
StateFits(in_list, state) ==
  IF in_list THEN state \notin {"ADVANCE_KEY", "PARSE_KEY", "ADVANCE_VALUE", "COMPLETE"}
  ELSE state \notin {"ADVANCE_LIST_ITEM", "CAPTURE_LIST_ITEM"}

\* q is a chain of parsers of which those at the depths 0..c are at work.
Stack(q, c) ==
  /\ q \in [0..MaxDepth -> Parser]
  /\ c \in 0..MaxDepth
  /\ \A d \in 0..MaxDepth : q[d].active = 1 <=> d <= c
  /\ \A d \in 0..(c - 1) : q[d].value_type \in Containers
  /\ \A d \in 1..c : StateFits(q[d - 1].value_type = "LIST", q[d].parse_state)

--------------------------------------------------------------------------------
\* The values of a one-bit field.
LEMMA Bits == 0 \in Bit /\ 1 \in Bit
  BY DEF Bit

\* The values of a field as wide as the instance says.
LEMMA Widths ==
  /\ 0 \in 0..(U8 - 1) /\ 1 \in 0..(U8 - 1) /\ 0 \in 0..(U16 - 1)
  /\ \A n \in Int : n % U8 \in 0..(U8 - 1) /\ n % U16 \in 0..(U16 - 1)
  /\ \A n \in Nat : n % U8 \in Nat /\ n % U16 <= n
  BY WidthAssumption, SMT

\* A depth is that of the base, or one that has a parent.
LEMMA AtOrAbove ==
  ASSUME NEW c \in 0..MaxDepth
  PROVE  c <= c /\ (c = 0 \/ (c \in 1..c /\ c > 0))
  BY DepthAssumption, SMT

\* What can be said of the fields of a parser.
LEMMA ParserFields ==
  ASSUME NEW p \in Parser
  PROVE  /\ p.parse_state \in ParseStates /\ p.value_type \in ValueTypes
         /\ p.active \in Bit /\ p.char_skip \in Bit /\ p.escape_char \in Bit
         /\ p.null_track \in Bit /\ p.in_s_quote \in Bit /\ p.in_d_quote \in Bit
         /\ p.s_quote_track \in 0..(U8 - 1) /\ p.d_quote_track \in 0..(U8 - 1)
         /\ p.brace_track \in 0..(U8 - 1) /\ p.bracket_track \in 0..(U8 - 1)
         /\ p.list_index \in 0..(U16 - 1) /\ p.list_members \in 0..(U16 - 1)
         /\ p.key_start \in 0..(U16 - 1) /\ p.key_close \in 0..(U16 - 1)
         /\ p.value_start \in 0..(U16 - 1) /\ p.value_close \in 0..(U16 - 1)
         /\ p.token \in Nat /\ p.parent \in Nat /\ p.trie \in TrieState
  BY Zenon DEF Parser

\* noizu_trie__reset leaves a trie state.
LEMMA TrieResetTyped ==
  ASSUME NEW delimiter \in Chars, NEW buffer_pos \in Nat
  PROVE  TrieReset(delimiter, buffer_pos) \in TrieState
<1>1. Nul \in Chars
  BY CharsAssumption DEF CodeChars
<1>2. <<>> \in Nodes /\ 0 \in Nat
  BY DEF Nodes
<1> QED
  BY <1>1, <1>2, Bits, Zenon DEF TrieReset, TrieState

\* A cleared parser is a parser.
LEMMA ZeroedTyped ==
  ASSUME NEW trie \in TrieState
  PROVE  /\ Zeroed(trie) \in Parser
         /\ Zeroed(trie).active = 0
         /\ Zeroed(trie).value_type = "ERROR"
         /\ Zeroed(trie).trie = trie
  BY WidthAssumption, SMT DEF Zeroed, Parser, Bit, ParseStates, ValueTypes

\* init_json_parser leaves an active parser.
LEMMA InitTyped ==
  ASSUME NEW delimiter \in Chars, NEW buffer_pos \in Nat
  PROVE  InitParser(delimiter, buffer_pos) \in Parser
<1>1. Zeroed(TrieReset(delimiter, buffer_pos)) \in Parser
  BY TrieResetTyped, ZeroedTyped
<1> QED
  BY <1>1, Bits, Zenon DEF InitParser, Parser

--------------------------------------------------------------------------------
\* noizu_trie__next_char moves at most one byte at a time, and only onto bytes
\* that are in the buffer, and keeps the delimiter.
LEMMA NextCharTyped ==
  ASSUME NEW n \in Nat, NEW buffer \in [0..(n - 1) -> Chars],
         NEW st \in TrieState, st.req_position < n
  PROVE  LET r == NextChar(st, buffer) IN
         /\ r.st \in TrieState /\ r.c \in Chars
         /\ r.st.position = st.position /\ r.st.delimiter = st.delimiter
         /\ r.st.req_position \in st.req_position..(n - 1)
<1>1. \A s \in TrieState :
        /\ s.position \in Nodes /\ s.req_position \in Nat /\ s.skip_next \in Bit
        /\ s.escape \in Bit /\ s.terminator \in Chars /\ s.token \in Nat /\ s.delimiter \in Chars
  BY Zenon DEF TrieState
<1>2. ASSUME NEW s \in TrieState, CanRead(s, buffer)
      PROVE  /\ Skipped(s) \in TrieState
             /\ Skipped(s).position = s.position /\ Skipped(s).delimiter = s.delimiter
             /\ Skipped(s).req_position \in s.req_position..(n - 1)
  <2>1. s.req_position + s.skip_next \in Nat /\ 0 \in Bit
    BY <1>1, <1>2, SMT DEF Bit
  <2>2. Skipped(s) \in TrieState
    BY <1>1, <2>1, Zenon DEF Skipped, TrieState
  <2>3. /\ Skipped(s).position = s.position
        /\ Skipped(s).req_position = s.req_position + s.skip_next
        /\ Skipped(s).delimiter = s.delimiter
    BY <1>2 DEF Skipped, TrieState
  <2> QED
    BY <1>1, <1>2, <2>2, <2>3, SMT DEF CanRead, Bit
<1>3. ASSUME NEW s \in TrieState
      PROVE  /\ Escaping(s) \in TrieState
             /\ Escaping(s).position = s.position /\ Escaping(s).delimiter = s.delimiter
             /\ Escaping(s).req_position = s.req_position
  <2>1. Escaping(s) \in TrieState
    BY <1>1, Bits, Zenon DEF Escaping, TrieState
  <2> QED
    BY <2>1, SMT DEF Escaping, TrieState
<1>4. ASSUME NEW s \in TrieState, s.req_position < n
      PROVE  /\ Read(s, buffer).st \in TrieState /\ Read(s, buffer).c \in Chars
             /\ Read(s, buffer).st.position = s.position
             /\ Read(s, buffer).st.delimiter = s.delimiter
             /\ Read(s, buffer).st.req_position = s.req_position
  <2>1. [s EXCEPT !.escape = 0] \in TrieState
    BY <1>1, Bits, Zenon DEF TrieState
  <2>2. buffer[s.req_position] \in Chars
    BY <1>1, <1>4, SMT
  <2>3. \A c \in Chars : Unescape(c) \in Chars
    <3>1. "\n" \in Chars /\ "\r" \in Chars /\ "\t" \in Chars
      BY CharsAssumption DEF CodeChars
    <3> QED
      BY <3>1, Zenon DEF Unescape
  <2>4. /\ Read(s, buffer).st = [s EXCEPT !.escape = 0]
        /\ Read(s, buffer).c \in Chars
    BY <2>2, <2>3, SMT DEF Read
  <2>5. /\ [s EXCEPT !.escape = 0].position = s.position
        /\ [s EXCEPT !.escape = 0].req_position = s.req_position
        /\ [s EXCEPT !.escape = 0].delimiter = s.delimiter
    BY <2>1, SMT DEF TrieState
  <2> QED
    BY <2>1, <2>4, <2>5
<1>5. ASSUME NEW s \in TrieState, s.req_position < n
      PROVE  /\ Starved(s).st = s /\ Starved(s).c \in Chars
  <2>1. Nul \in Chars
    BY CharsAssumption DEF CodeChars
  <2> QED
    BY <2>1, Zenon DEF Starved
<1>6. CASE ~CanRead(st, buffer)
  BY <1>1, <1>5, <1>6, SMT DEF NextChar
<1>7. CASE CanRead(st, buffer) /\ ~IsEscape(Skipped(st), buffer)
  <2> DEFINE s == Skipped(st)
  <2>1. /\ s \in TrieState /\ s.position = st.position /\ s.delimiter = st.delimiter
        /\ s.req_position \in st.req_position..(n - 1)
    BY <1>2, <1>7
  <2>2. NextChar(st, buffer) = Read(s, buffer)
    BY <1>7, Zenon DEF NextChar
  <2> HIDE DEF s
  <2> QED
    BY <1>1, <1>4, <2>1, <2>2, SMT
<1>8. CASE CanRead(st, buffer) /\ IsEscape(Skipped(st), buffer)
  <2> DEFINE s == Skipped(st)
             e == Escaping(s)
  <2>1. /\ s \in TrieState /\ s.position = st.position /\ s.delimiter = st.delimiter
        /\ s.req_position \in st.req_position..(n - 1)
    BY <1>2, <1>8
  <2>2. /\ e \in TrieState /\ e.position = st.position /\ e.delimiter = st.delimiter
        /\ e.req_position = s.req_position
    BY <1>3, <2>1
  <2>3. NextChar(st, buffer) =
          IF CanRead(e, buffer) THEN Read(Skipped(e), buffer) ELSE Starved(e)
    BY <1>8, Zenon DEF NextChar
  <2>4. CanRead(e, buffer) =>
          /\ Skipped(e) \in TrieState /\ Skipped(e).position = st.position
          /\ Skipped(e).delimiter = st.delimiter
          /\ Skipped(e).req_position \in e.req_position..(n - 1)
    BY <1>2, <2>2
  <2> HIDE DEF s, e
  <2> QED
    BY <1>1, <1>4, <1>5, <2>1, <2>2, <2>3, <2>4, SMT
<1> QED
  BY <1>6, <1>7, <1>8

\* Wherever a mismatch leaves the walk of any encoding, it is a node of the trie.
LEMMA MismatchTyped ==
  ASSUME NEW st \in TrieState, NEW c
  PROVE  Mismatch(Encoding, st, c) \in Nodes
<1>1. st.position \in Nodes /\ NotFound \in Nodes
  BY Zenon DEF TrieState, Nodes
<1> DEFINE l == CHOOSE m \in LastLabels(st.position) : TRUE
<1>2. LastLabels(st.position) # {} => Append(st.position, l) \in Nodes
  <2>1. LastLabels(st.position) # {} => l \in LastLabels(st.position)
    OBVIOUS
  <2> QED
    BY <2>1, Zenon DEF LastLabels, Labels, Nodes
<1>3. \/ Mismatch(Encoding, st, c) \in {NotFound, st.position}
      \/ /\ LastLabels(st.position) # {}
         /\ Mismatch(Encoding, st, c) = Append(st.position, l)
  BY Zenon DEF Mismatch
<1> QED
  BY <1>1, <1>2, <1>3, Zenon

\* What noizu_trie__array__advance answers decides where the tokenizer stands:
\* on a byte it has received, and at the end of the buffer on the last one.
LEMMA AdvanceTyped ==
  ASSUME NEW n \in Nat, NEW buffer \in [0..(n - 1) -> Chars],
         NEW st \in TrieState, st.req_position < n
  PROVE  LET a == Advance(Encoding, st, buffer) IN
         /\ a.st \in TrieState
         /\ a.st.req_position \in st.req_position..(n - 1)
         /\ a.st.delimiter = st.delimiter
         /\ a.code = "BUFFER_END" => a.st.req_position = n - 1
<1> DEFINE r    == NextChar(st, buffer)
           node == IF HardDelim(r.st, r.c) THEN NotFound ELSE ChildOf(r.st.position, r.c)
           in   == Enter(r.st, node)
<1>1. /\ r.st \in TrieState /\ r.c \in Chars /\ r.st.delimiter = st.delimiter
      /\ r.st.req_position \in st.req_position..(n - 1)
  BY NextCharTyped
<1>2. \A s \in TrieState :
        /\ s.position \in Nodes /\ s.req_position \in Nat /\ s.skip_next \in Bit
        /\ s.escape \in Bit /\ s.terminator \in Chars /\ s.token \in Nat /\ s.delimiter \in Chars
  BY Zenon DEF TrieState
<1>3. \A m : TokenAt(m) \in Nat
  BY WordsAssumption, Zenon DEF TokenAt
<1>4. node \in Nodes /\ NotFound \in Nodes
  BY Zenon DEF ChildOf, Nodes
<1>5. ASSUME NEW s \in TrieState, NEW c \in Chars
      PROVE  /\ Leave(Encoding, s, c) \in TrieState
             /\ Leave(Encoding, s, c).req_position = s.req_position
             /\ Leave(Encoding, s, c).delimiter = s.delimiter
  <2>1. Leave(Encoding, s, c) \in TrieState
    BY <1>2, <1>3, MismatchTyped, Zenon DEF Leave, TrieState
  <2> QED
    BY <2>1, SMT DEF Leave, TrieState
<1>6. ASSUME NEW s \in TrieState, NEW m \in Nodes
      PROVE  /\ Enter(s, m) \in TrieState /\ Enter(s, m).req_position = s.req_position
             /\ Enter(s, m).delimiter = s.delimiter
  <2>1. Enter(s, m) \in TrieState
    BY <1>2, <1>3, Zenon DEF Enter, TrieState
  <2> QED
    BY <2>1, SMT DEF Enter, TrieState
<1>7. ASSUME NEW s \in TrieState
      PROVE  /\ AtBufferEnd(s) \in TrieState /\ AtBufferEnd(s).req_position = s.req_position
             /\ AtBufferEnd(s).delimiter = s.delimiter
  <2>1. AtBufferEnd(s) \in TrieState
    BY <1>2, <1>3, Bits, Zenon DEF AtBufferEnd, TrieState
  <2> QED
    BY <2>1, SMT DEF AtBufferEnd, TrieState
<1>8. ASSUME NEW s \in TrieState
      PROVE  /\ [s EXCEPT !.req_position = @ + 1] \in TrieState
             /\ [s EXCEPT !.req_position = @ + 1].req_position = s.req_position + 1
             /\ [s EXCEPT !.req_position = @ + 1].delimiter = s.delimiter
  BY <1>2, SMT DEF TrieState
<1>9. in \in TrieState /\ in.req_position = r.st.req_position /\ in.delimiter = st.delimiter
  BY <1>1, <1>4, <1>6, Zenon
<1>10. \/ Advance(Encoding, st, buffer) = [code |-> "BUFFER_END_ON_SKIP", st |-> r.st]
       \/ Advance(Encoding, st, buffer) = [code |-> "EXIT", st |-> Leave(Encoding, r.st, r.c)]
       \/ /\ in.req_position + 1 \in DOMAIN buffer
          /\ Advance(Encoding, st, buffer) = [code |-> "CONTINUE", st |-> [in EXCEPT !.req_position = @ + 1]]
       \/ /\ ~(in.req_position + 1 \in DOMAIN buffer)
          /\ Advance(Encoding, st, buffer) = [code |-> "BUFFER_END", st |-> AtBufferEnd(in)]
  BY Zenon DEF Advance
<1>11. st.req_position \in Nat /\ DOMAIN buffer = 0..(n - 1)
  BY <1>2
<1> HIDE DEF r, node, in
<1> DEFINE a == Advance(Encoding, st, buffer)
<1>12. CASE a = [code |-> "BUFFER_END_ON_SKIP", st |-> r.st]
  <2>1. a.st = r.st /\ a.code # "BUFFER_END"
    BY <1>12, SMT
  <2> QED
    BY <1>1, <2>1
<1>13. CASE a = [code |-> "EXIT", st |-> Leave(Encoding, r.st, r.c)]
  <2>1. a.st = Leave(Encoding, r.st, r.c) /\ a.code # "BUFFER_END"
    BY <1>13, SMT
  <2> QED
    BY <1>1, <1>5, <2>1
<1>14. CASE /\ in.req_position + 1 \in DOMAIN buffer
            /\ a = [code |-> "CONTINUE", st |-> [in EXCEPT !.req_position = @ + 1]]
  <2>1. a.st = [in EXCEPT !.req_position = @ + 1] /\ a.code # "BUFFER_END"
    BY <1>14, SMT
  <2>2. /\ a.st \in TrieState /\ a.st.req_position = in.req_position + 1
        /\ a.st.delimiter = st.delimiter
    BY <1>8, <1>9, <2>1
  <2>3. a.st.req_position \in st.req_position..(n - 1)
    BY <1>1, <1>9, <1>11, <1>14, <2>2, SMT
  <2> QED
    BY <2>1, <2>2, <2>3
<1>15. CASE /\ ~(in.req_position + 1 \in DOMAIN buffer)
            /\ a = [code |-> "BUFFER_END", st |-> AtBufferEnd(in)]
  <2>1. a.st = AtBufferEnd(in)
    BY <1>15, SMT
  <2>2. /\ a.st \in TrieState /\ a.st.req_position = in.req_position
        /\ a.st.delimiter = st.delimiter
    BY <1>7, <1>9, <2>1
  <2>3. a.st.req_position \in st.req_position..(n - 1) /\ a.st.req_position = n - 1
    BY <1>1, <1>9, <1>11, <1>15, <2>2, SMT
  <2> QED
    BY <2>2, <2>3
<1> QED
  BY <1>10, <1>12, <1>13, <1>14, <1>15, Zenon

--------------------------------------------------------------------------------
\* reset_json_parser leaves a parser, in the parse state its parent calls for.
LEMMA ResetTyped ==
  ASSUME NEW p \in Parser, NEW in_list \in BOOLEAN
  PROVE  LET r == ResetParser(p, in_list) IN
         /\ r \in Parser
         /\ r.active = 1
         /\ r.value_type = "ERROR"
         /\ StateFits(in_list, r.parse_state)
<1> DEFINE z == Zeroed(p.trie)
           s == IF in_list THEN "ADVANCE_LIST_ITEM" ELSE "ADVANCE_KEY"
<1>1. z \in Parser /\ z.value_type = "ERROR"
  BY ParserFields, ZeroedTyped
<1>2. s \in ParseStates /\ StateFits(in_list, s)
  BY DEF ParseStates, StateFits
<1>3. p.char_skip \in Bit /\ p.parent % U8 \in Nat /\ 1 \in Bit
  BY ParserFields, Widths, Bits
<1>4. ResetParser(p, in_list) = [z EXCEPT !.active = 1, !.char_skip = p.char_skip,
                                          !.parent = p.parent % U8, !.parse_state = s]
  BY DEF ResetParser
<1> HIDE DEF z, s
<1>5. ResetParser(p, in_list) \in Parser
  BY <1>1, <1>2, <1>3, <1>4, Zenon DEF Parser
<1> QED
  BY <1>1, <1>2, <1>4, <1>5, SMT DEF Parser

\* Writing the parser at work leaves a stack, if it stays active and its parse
\* state still fits its parent.
LEMMA UpdateTop ==
  ASSUME NEW c, NEW q, Stack(q, c), NEW p \in Parser,
         p.active = 1, StateFits(InList(q, c), p.parse_state) \/ c = 0
  PROVE  Stack([q EXCEPT ![c] = p], c)
  BY DepthAssumption, SMT DEF Stack, InList

\* Writing the parent of the parser at work does, if it keeps its type.
LEMMA UpdateParent ==
  ASSUME NEW c, NEW q, Stack(q, c), c > 0, NEW p \in Parser,
         p.active = 1, p.value_type = q[c - 1].value_type,
         p.parse_state \in {q[c - 1].parse_state, "LIST_COMPLETE", "STRUCT_COMPLETE"}
  PROVE  Stack([q EXCEPT ![c - 1] = p], c)
  BY DepthAssumption, SMT DEF Stack, StateFits

\* Taking the parser above into service does, if the parser at work is a container.
LEMMA UpdateNext ==
  ASSUME NEW c, NEW q, Stack(q, c), c < MaxDepth, q[c].value_type \in Containers,
         NEW p \in Parser, p.active = 1,
         StateFits(q[c].value_type = "LIST", p.parse_state)
  PROVE  Stack([q EXCEPT ![c + 1] = p], c + 1)
  BY DepthAssumption, SMT DEF Stack

\* Deactivating the parser at work does.
LEMMA UpdateDropped ==
  ASSUME NEW c, NEW q, Stack(q, c), c > 0, NEW p \in Parser, p.active = 0
  PROVE  Stack([q EXCEPT ![c] = p], c - 1)
  BY DepthAssumption, SMT DEF Stack

--------------------------------------------------------------------------------
\* Storing into one of the fields that the shape of the chain does not depend on.
LEMMA StackFields ==
  ASSUME NEW c, NEW q, Stack(q, c), NEW d \in 0..MaxDepth
  PROVE  /\ q[d] \in Parser
         /\ q[d].active = (IF d <= c THEN 1 ELSE 0)
         /\ InList(q, d) \in BOOLEAN
         /\ InList(q, d) => d > 0 /\ q[d - 1].value_type = "LIST"
<1>1. q[d] \in Parser
  BY Zenon DEF Stack
<1>2. q[d].active \in Bit
  BY <1>1, ParserFields
<1>3. q[d].active = IF d <= c THEN 1 ELSE 0
  BY <1>2, SMT DEF Stack, Bit
<1>4. /\ InList(q, d) \in BOOLEAN
      /\ InList(q, d) => d > 0 /\ q[d - 1].value_type = "LIST"
  BY Zenon DEF InList
<1> QED
  BY <1>1, <1>3, <1>4

\* Counting a member in the parent.
LEMMA CountTyped ==
  ASSUME NEW c, NEW q, Stack(q, c)
  PROVE  /\ Stack(CountMember(q, c), c)
         /\ CountMember(q, c)[c] = q[c]
         /\ InList(CountMember(q, c), c) = InList(q, c)
<1>1. CASE ~InList(q, c)
  BY <1>1, Zenon DEF CountMember
<1>2. CASE InList(q, c)
  <2> DEFINE n == (q[c - 1].list_members + 1) % U16
             p == [q[c - 1] EXCEPT !.list_members = n]
  <2>1. c \in 0..MaxDepth /\ c > 0 /\ c - 1 \in 0..MaxDepth /\ q \in [0..MaxDepth -> Parser]
    BY <1>2, DepthAssumption, SMT DEF InList, Stack
  <2>2. q[c - 1] \in Parser /\ q[c - 1].active = 1
    <3>1. c - 1 <= c
      BY <2>1, SMT
    <3> QED
      BY <2>1, <3>1, StackFields
  <2>3. n \in 0..(U16 - 1)
    BY <2>2, ParserFields, Widths, SMT
  <2>4. CountMember(q, c) = [q EXCEPT ![c - 1] = p]
    BY <1>2, Zenon DEF CountMember
  <2> HIDE DEF n
  <2>5. p \in Parser
    BY <2>2, <2>3, Zenon DEF Parser
  <2>6. /\ p.active = 1 /\ p.value_type = q[c - 1].value_type
        /\ p.parse_state = q[c - 1].parse_state
    BY <2>2, SMT DEF Parser
  <2> HIDE DEF p
  <2>7. Stack([q EXCEPT ![c - 1] = p], c)
    BY <2>1, <2>5, <2>6, UpdateParent
  <2> QED
    BY <2>1, <2>4, <2>6, <2>7, SMT DEF InList
<1> QED
  BY <1>1, <1>2

\* Resetting the parser at work.
LEMMA ResetAtTyped ==
  ASSUME NEW c, NEW q, Stack(q, c)
  PROVE  /\ Stack(ResetAt(q, c), c)
         /\ \A d \in 0..(c - 1) : ResetAt(q, c)[d] = q[d]
<1> DEFINE p == ResetParser(q[c], InList(q, c))
<1>1. q[c] \in Parser /\ InList(q, c) \in BOOLEAN /\ c \in 0..MaxDepth /\ q \in [0..MaxDepth -> Parser]
  BY StackFields, Zenon DEF Stack
<1>2. p \in Parser /\ p.active = 1 /\ StateFits(InList(q, c), p.parse_state)
  BY <1>1, ResetTyped
<1>3. ResetAt(q, c) = [q EXCEPT ![c] = p]
  BY Zenon DEF ResetAt
<1> HIDE DEF p
<1>4. Stack([q EXCEPT ![c] = p], c)
  BY <1>2, UpdateTop
<1>5. \A d \in 0..(c - 1) : d # c /\ d \in 0..MaxDepth
  BY <1>1, DepthAssumption, SMT
<1> QED
  BY <1>1, <1>3, <1>4, <1>5, Zenon

\* drop_json_parser and the reset of the parser it returns.
LEMMA DropTyped ==
  ASSUME NEW c, NEW q, Stack(q, c)
  PROVE  Stack(DropParser(q, c), DropTo(c))
<1>1. CASE c > 0
  <2> DEFINE r == ResetAt(q, c)
             p == [r[c] EXCEPT !.parent = 0, !.char_skip = 0, !.active = 0]
  <2>1. Stack(r, c)
    BY ResetAtTyped
  <2>2. r[c] \in Parser
    BY <2>1, Zenon DEF Stack
  <2>3. p \in Parser
    BY <2>2, Bits, Zenon DEF Parser
  <2>4. p.active = 0
    BY <2>2, SMT DEF Parser
  <2>5. DropParser(q, c) = [r EXCEPT ![c] = p] /\ DropTo(c) = c - 1
    BY <1>1, Zenon DEF DropParser, DropTo
  <2> HIDE DEF r, p
  <2> QED
    BY <1>1, <2>1, <2>3, <2>4, <2>5, UpdateDropped
<1>2. CASE ~(c > 0)
  <2>1. c = 0
    BY <1>2, DepthAssumption, SMT DEF Stack
  <2> QED
    BY <1>2, <2>1, ResetAtTyped, Zenon DEF DropParser, DropTo
<1> QED
  BY <1>1, <1>2

\* top_parser finds the parser at work, from the base of the chain (as at the
\* start of a call) and from the parser at work (as in every round after it).
LEMMA TopIsCurrent ==
  ASSUME NEW c, NEW q, Stack(q, c), NEW made \in 0..MaxDepth, c <= made, NEW d \in 0..c
  PROVE  TopParser(q, made, d) = c
<1> DEFINE Top(t) == /\ \A i \in (d + 1)..t : q[i].active = 1
                     /\ t = made \/ q[t + 1].active = 0
<1>1. c \in 0..MaxDepth
  BY DEF Stack
<1>2. made \in Nat /\ c \in Nat /\ d \in Nat /\ d <= c /\ MaxDepth \in Nat /\ made <= MaxDepth
  BY <1>1, DepthAssumption, SMT
<1>3. \A i \in 0..MaxDepth : q[i].active = IF i <= c THEN 1 ELSE 0
  BY StackFields
<1>4. c \in d..made /\ Top(c)
  BY <1>2, <1>3, SMT
<1>5. ASSUME NEW t \in d..made, Top(t)
      PROVE  t = c
  <2>1. ~(t < c)
    BY <1>2, <1>3, <1>5, SMT
  <2>2. ~(t > c)
    BY <1>2, <1>3, <1>5, SMT
  <2> QED
    BY <1>2, <2>1, <2>2, SMT
<1>6. TopParser(q, made, d) = CHOOSE t \in d..made : Top(t)
  BY Zenon DEF TopParser
<1> HIDE DEF Top
<1> QED
  BY <1>4, <1>5, <1>6, Zenon

\* A chain that differs in other fields only has the same stack.
LEMMA SameStack ==
  ASSUME NEW c, NEW q, Stack(q, c), NEW r \in [0..MaxDepth -> Parser],
         \A d \in 0..MaxDepth : /\ r[d].active = q[d].active
                                /\ r[d].value_type = q[d].value_type
                                /\ r[d].parse_state = q[d].parse_state
  PROVE  Stack(r, c)
  BY DepthAssumption, SMT DEF Stack

\* shift_json_parser moves offsets only.
LEMMA ShiftTyped ==
  ASSUME NEW c, NEW q, Stack(q, c), NEW made \in 0..MaxDepth, NEW shift \in 0..(U16 - 1)
  PROVE  Stack(ShiftChain(q, made, shift), c)
<1>1. ASSUME NEW o \in 0..(U16 - 1)
      PROVE  ShiftOffset(o, shift) \in 0..(U16 - 1)
  BY WidthAssumption, SMT DEF ShiftOffset
<1>2. ASSUME NEW p \in Parser
      PROVE  /\ ShiftParser(p, shift) \in Parser
             /\ ShiftParser(p, shift).active = p.active
             /\ ShiftParser(p, shift).value_type = p.value_type
             /\ ShiftParser(p, shift).parse_state = p.parse_state
  <2>1. ShiftParser(p, shift) \in Parser
    BY <1>1, ParserFields, Zenon DEF ShiftParser, Parser
  <2> QED
    BY <2>1, SMT DEF ShiftParser, Parser
<1>3. q \in [0..MaxDepth -> Parser]
  BY Zenon DEF Stack
<1>4. ShiftChain(q, made, shift) \in [0..MaxDepth -> Parser]
  BY <1>2, <1>3, Zenon DEF ShiftChain
<1>5. \A d \in 0..MaxDepth :
        /\ ShiftChain(q, made, shift)[d].active = q[d].active
        /\ ShiftChain(q, made, shift)[d].value_type = q[d].value_type
        /\ ShiftChain(q, made, shift)[d].parse_state = q[d].parse_state
  BY <1>2, <1>3, Zenon DEF ShiftChain
<1> QED
  BY <1>4, <1>5, SameStack

\* The list index a container hands down.
LEMMA NextIndexTyped ==
  ASSUME NEW c, NEW q, Stack(q, c)
  PROVE  NextIndex(q, c) \in 0..(U16 - 1)
<1>1. c \in 0..MaxDepth
  BY DEF Stack
<1>2. CASE c > 0
  <2>1. c - 1 \in 0..MaxDepth
    BY <1>1, <1>2, DepthAssumption, SMT
  <2>2. q[c - 1] \in Parser
    BY <2>1, StackFields
  <2> QED
    BY <1>2, <2>2, ParserFields, Zenon DEF NextIndex
<1>3. CASE ~(c > 0)
  BY <1>3, Widths, Zenon DEF NextIndex
<1> QED
  BY <1>2, <1>3

\* spawn_json_parser takes the parser above the container into service, in a
\* parse state that fits the container.
LEMMA SpawnTyped ==
  ASSUME NEW c, NEW q, Stack(q, c), c < MaxDepth, q[c].value_type \in Containers,
         NEW made \in 0..MaxDepth, NEW buffer_pos \in Nat
  PROVE  Stack(SpawnParser(q, made, c, buffer_pos), c + 1)
<1> DEFINE p    == q[c]
           list == p.value_type = "LIST"
           trie == IF c + 1 <= made THEN q[c + 1].trie
                   ELSE TrieReset(p.trie.delimiter, buffer_pos)
           n    == NextIndex(q, c)
           s    == IF list THEN "ADVANCE_LIST_ITEM" ELSE "ADVANCE_KEY"
           z    == Zeroed(trie)
           old  == [p EXCEPT !.list_index = n]
           new  == [z EXCEPT !.active = 1, !.parse_state = s, !.char_skip = p.char_skip,
                             !.list_index = n, !.key_start = p.key_start,
                             !.key_close = p.key_close, !.value_start = p.value_start,
                             !.parent = p.token, !.token = p.token % U8,
                             !.bracket_track = IF list THEN 1 ELSE 0,
                             !.brace_track = IF list THEN 0 ELSE 1]
<1>1. q \in [0..MaxDepth -> Parser] /\ c \in 0..MaxDepth /\ c + 1 \in 0..MaxDepth /\ c # c + 1
  BY DepthAssumption, SMT DEF Stack
<1>2. p \in Parser /\ q[c + 1] \in Parser
  BY <1>1, Zenon
<1>3. p.active = 1
  <2>1. c <= c
    BY <1>1, SMT
  <2> QED
    BY <1>1, <2>1, Zenon DEF Stack
<1>4. trie \in TrieState
  <2>1. p.trie.delimiter \in Chars
    BY <1>2, ParserFields, Zenon DEF TrieState
  <2> QED
    BY <1>2, <2>1, ParserFields, TrieResetTyped, Zenon
<1>5. n \in 0..(U16 - 1)
  BY NextIndexTyped
<1>6. z \in Parser
  BY <1>4, ZeroedTyped
<1>7. p.token % U8 \in Nat /\ 0 \in 0..(U8 - 1) /\ 1 \in 0..(U8 - 1)
  BY <1>2, ParserFields, Widths
<1>8. s \in ParseStates /\ StateFits(list, s)
  BY Zenon DEF ParseStates, StateFits
<1>9. c = 0 \/ StateFits(InList(q, c), p.parse_state)
  <2>1. c = 0 \/ (c \in 1..c /\ c > 0)
    BY <1>1, AtOrAbove
  <2> QED
    BY <2>1, Zenon DEF Stack, InList
<1>10. SpawnParser(q, made, c, buffer_pos) = [q EXCEPT ![c].list_index = n, ![c + 1] = new]
  BY Zenon DEF SpawnParser
<1> HIDE DEF n, s, z, list
<1>11. old \in Parser
  BY <1>2, <1>5, Zenon DEF Parser
<1>12. old.active = 1 /\ old.parse_state = p.parse_state /\ old.value_type = p.value_type
  BY <1>2, <1>3, SMT DEF Parser
<1>13. new \in Parser
  BY <1>2, <1>5, <1>6, <1>7, <1>8, ParserFields, Bits, Zenon DEF Parser
<1>14. new.active = 1 /\ new.parse_state = s
  BY <1>6, SMT DEF Parser
<1> DEFINE r == [q EXCEPT ![c] = old]
<1>15. SpawnParser(q, made, c, buffer_pos) = [r EXCEPT ![c + 1] = new]
  BY <1>10
<1>16. r[c] = old
  BY <1>1, Zenon
<1> HIDE DEF old, new
<1>17. Stack(r, c)
  BY <1>9, <1>11, <1>12, UpdateTop
<1>18. r[c].value_type \in Containers /\ list = (r[c].value_type = "LIST")
  BY <1>12, <1>16 DEF list
<1> HIDE DEF r
<1>19. Stack([r EXCEPT ![c + 1] = new], c + 1)
  BY <1>8, <1>13, <1>14, <1>17, <1>18, UpdateNext
<1> QED
  BY <1>15, <1>19

--------------------------------------------------------------------------------
(* The invariants. *)

\* TypeOK but for the chain.
ScalarsOK ==
  /\ doc \in Seq(Chars)
  /\ base \in Int /\ size \in Nat /\ pos \in Nat
  /\ base + size <= Len(doc)
  /\ previous_buffer_pos \in 0..(U16 - 1) /\ buffer_pos_offset \in 0..(U16 - 1)
  /\ retrace \in 0..(U16 - 1)
  /\ result \in Results
  /\ pc \in {"host", "loop", "token", "scan", "react"}
  /\ alloc \in 0..MaxDepth /\ cur \in 0..alloc

\* The tokenizer only runs for a parser in the middle of a key.
TokenizesKey == pc = "token" => P.parse_state = "PARSE_KEY"

IInv == TypeOK /\ ChainIsStack /\ StateFitsParent /\ CursorInBuffer /\ TokenizesKey

--------------------------------------------------------------------------------
\* The invariant, taken apart along the variables its parts are about.
LEMMA InvParts ==
  ASSUME IInv
  PROVE  ScalarsOK /\ Stack(chain, cur) /\ CursorInBuffer /\ TokenizesKey
<1>1. cur \in 0..MaxDepth
  BY DepthAssumption, SMT DEF IInv, TypeOK
<1>2. \A d \in 1..cur : StateFits(chain[d - 1].value_type = "LIST", chain[d].parse_state)
  BY Zenon DEF IInv, StateFitsParent, StateFits
<1> QED
  BY <1>1, <1>2, Zenon DEF IInv, TypeOK, ScalarsOK, ChainIsStack, Stack

\* And put together again after a step.
LEMMA PartsInv ==
  ASSUME ScalarsOK', Stack(chain', cur'), CursorInBuffer', TokenizesKey'
  PROVE  IInv'
<1>1. StateFitsParent'
  BY Zenon DEF Stack, StateFitsParent, StateFits
<1>2. TypeOK' /\ ChainIsStack'
  BY Zenon DEF TypeOK, ScalarsOK, ChainIsStack, Stack
<1> QED
  BY <1>1, <1>2 DEF IInv

\* What the parser at work is known to be.
LEMMA AtWork ==
  ASSUME Stack(chain, cur)
  PROVE  /\ cur \in 0..MaxDepth
         /\ chain \in [0..MaxDepth -> Parser]
         /\ P \in Parser
         /\ P.active = 1
         /\ InList(chain, cur) \in BOOLEAN
         /\ cur = 0 \/ StateFits(InList(chain, cur), P.parse_state)
<1>1. cur \in 0..MaxDepth /\ chain \in [0..MaxDepth -> Parser]
  BY Zenon DEF Stack
<1>2. cur <= cur /\ (cur = 0 \/ (cur \in 1..cur /\ cur > 0))
  BY <1>1, AtOrAbove
<1>3. P \in Parser /\ P.active = 1 /\ InList(chain, cur) \in BOOLEAN
  BY <1>1, <1>2, StackFields DEF P
<1>4. cur = 0 \/ StateFits(InList(chain, cur), P.parse_state)
  BY <1>2, Zenon DEF Stack, InList, P
<1> QED
  BY <1>1, <1>3, <1>4

\* The buffer holds characters, as many as have been received.
LEMMA BufferTyped ==
  ASSUME ScalarsOK
  PROVE  Buffer \in [0..(size - 1) -> Chars]
<1>0. /\ doc \in Seq(Chars) /\ base \in Int /\ size \in Nat /\ base + size <= Len(doc)
      /\ Nul \in Chars
  BY CharsAssumption DEF ScalarsOK, CodeChars
<1>1. ASSUME NEW i \in 0..(size - 1)
      PROVE  (IF base + i >= 0 THEN doc[base + i + 1] ELSE Nul) \in Chars
  <2>1. CASE base + i >= 0
    <3>1. base + i + 1 \in 1..Len(doc)
      BY <1>0, <2>1, SMT
    <3> QED
      BY <1>0, <2>1, <3>1, SMT
  <2> QED
    BY <1>0, <2>1, Zenon
<1> QED
  BY <1>1, Zenon DEF Buffer

\* The width of a stored position.
LEMMA OffsetTyped ==
  ASSUME pos \in Nat
  PROVE  Offset \in 0..(U16 - 1) /\ Offset <= pos
  BY WidthAssumption, SMT DEF Offset

--------------------------------------------------------------------------------
(* What the ways out of an action of a delegate have in common. *)

\* A delegate that returns leaves the cursors alone.
LEMMA ReturnStep ==
  ASSUME IInv, pc # "host", NEW r \in Results, NEW q, Stack(q, cur), Return(r, q)
  PROVE  IInv'
<1>1. ScalarsOK /\ CursorInBuffer
  BY InvParts
<1>2. ScalarsOK'
  BY <1>1, Zenon DEF ScalarsOK, Return, DelegateFrame, hostVars, globalVars, localVars
<1>3. Stack(chain', cur')
  BY Zenon DEF Return, DelegateFrame, localVars
<1>4. CursorInBuffer'
  BY <1>1, Zenon DEF CursorInBuffer, Return, DelegateFrame, hostVars, globalVars, localVars
<1>5. TokenizesKey'
  BY Zenon DEF TokenizesKey, Return
<1> QED
  BY <1>2, <1>3, <1>4, <1>5, PartsInv

\* One that looks at the next character moves past this one.
LEMMA NextByteStep ==
  ASSUME IInv, pc = "scan", pos < size, NEW p, Stack([chain EXCEPT ![cur] = p], cur), NextByte(p)
  PROVE  IInv'
<1>1. ScalarsOK /\ CursorInBuffer
  BY InvParts
<1>2. pos \in Nat /\ size \in Nat /\ retrace \in 0..(U16 - 1)
  BY <1>1 DEF ScalarsOK
<1>3. pos + 1 \in Nat /\ pos + 1 <= size /\ (retrace <= pos => retrace <= pos + 1 /\ retrace < pos + 1)
  BY <1>2, WidthAssumption, SMT
<1>4. ScalarsOK'
  BY <1>1, <1>3, Zenon DEF ScalarsOK, NextByte, DelegateFrame, hostVars, globalVars, localVars
<1>5. Stack(chain', cur')
  BY Zenon DEF NextByte, DelegateFrame, localVars
<1>6. retrace <= pos
  BY <1>1 DEF CursorInBuffer
<1>7. pos' = pos + 1 /\ size' = size /\ retrace' = retrace /\ pc' = "scan"
  BY Zenon DEF NextByte, DelegateFrame, hostVars, localVars
<1>8. CursorInBuffer'
  BY <1>3, <1>6, <1>7, SMT DEF CursorInBuffer
<1>9. TokenizesKey'
  BY <1>7, Zenon DEF TokenizesKey
<1> QED
  BY <1>4, <1>5, <1>8, <1>9, PartsInv

\* Storing the parser at work.
LEMMA StoreP ==
  ASSUME IInv, NEW p \in Parser, p.active = 1,
         cur = 0 \/ StateFits(InList(chain, cur), p.parse_state)
  PROVE  Stack([chain EXCEPT ![cur] = p], cur)
  BY InvParts, UpdateTop

\* A step of a delegate that returns with a new parser at work.
LEMMA ReturnP ==
  ASSUME IInv, pc # "host", NEW r \in Results, NEW p \in Parser, p.active = 1,
         cur = 0 \/ StateFits(InList(chain, cur), p.parse_state),
         Return(r, [chain EXCEPT ![cur] = p])
  PROVE  IInv'
<1>1. Stack([chain EXCEPT ![cur] = p], cur)
  BY StoreP
<1> QED
  BY <1>1, ReturnStep

\* Track keeps all but quotes, escapes and brackets.
LEMMA TrackTyped ==
  ASSUME NEW p \in Parser, NEW c
  PROVE  /\ Track(p, c) \in Parser
         /\ Track(p, c).active = p.active
         /\ Track(p, c).value_type = p.value_type
         /\ Track(p, c).parse_state = p.parse_state
         /\ Track(p, c).list_members = p.list_members /\ Track(p, c).list_index = p.list_index
         /\ Track(p, c).key_start = p.key_start /\ Track(p, c).key_close = p.key_close
         /\ Track(p, c).value_start = p.value_start /\ Track(p, c).trie = p.trie
         /\ Track(p, c).in_d_quote = p.in_d_quote /\ Track(p, c).in_s_quote = p.in_s_quote
<1> DEFINE Keeps(t) == /\ t \in Parser /\ t.active = p.active
                       /\ t.value_type = p.value_type /\ t.parse_state = p.parse_state
                       /\ t.list_members = p.list_members /\ t.list_index = p.list_index
                       /\ t.key_start = p.key_start /\ t.key_close = p.key_close
                       /\ t.value_start = p.value_start /\ t.trie = p.trie
                       /\ t.in_d_quote = p.in_d_quote /\ t.in_s_quote = p.in_s_quote
<1>1. \A n \in 0..(U8 - 1) : Inc8(n) \in 0..(U8 - 1) /\ Dec8(n) \in 0..(U8 - 1)
  BY WidthAssumption, SMT DEF Inc8, Dec8
<1>2. 1 - p.escape_char \in Bit
  <2>1. p.escape_char \in Bit
    BY ParserFields
  <2> QED
    BY <2>1, SMT DEF Bit
<1>3. ASSUME NEW b \in Bit
      PROVE  Keeps([p EXCEPT !.escape_char = b])
  BY SMT DEF Parser
<1>4. ASSUME NEW n \in 0..(U8 - 1)
      PROVE  Keeps([p EXCEPT !.s_quote_track = n])
  BY SMT DEF Parser
<1>5. ASSUME NEW n \in 0..(U8 - 1)
      PROVE  Keeps([p EXCEPT !.d_quote_track = n])
  BY SMT DEF Parser
<1>6. ASSUME NEW n \in 0..(U8 - 1)
      PROVE  Keeps([p EXCEPT !.bracket_track = n])
  BY SMT DEF Parser
<1>7. ASSUME NEW n \in 0..(U8 - 1)
      PROVE  Keeps([p EXCEPT !.brace_track = n])
  BY SMT DEF Parser
<1>8. Keeps(p)
  OBVIOUS
<1> DEFINE quoted == p.in_s_quote = 1 \/ p.in_d_quote = 1
<1>9. Track(p, c) =
        CASE c = Backslash -> [p EXCEPT !.escape_char = 1 - @]
          [] c \in Quotes /\ p.escape_char = 1 -> [p EXCEPT !.escape_char = 0]
          [] c = SingleQuote /\ p.escape_char = 0 /\ p.in_d_quote = 0 ->
               [p EXCEPT !.s_quote_track = IF p.in_s_quote = 1 THEN Dec8(@) ELSE Inc8(@)]
          [] c = DoubleQuote /\ p.escape_char = 0 /\ p.in_s_quote = 0 ->
               [p EXCEPT !.d_quote_track = IF p.in_d_quote = 1 THEN Dec8(@) ELSE Inc8(@)]
          [] c \in {"[", "]"} /\ ~quoted ->
               [p EXCEPT !.bracket_track = IF c = "[" THEN Inc8(@) ELSE Dec8(@)]
          [] c \in {"{", "}"} /\ ~quoted ->
               [p EXCEPT !.brace_track = IF c = "{" THEN Inc8(@) ELSE Dec8(@)]
          [] c \notin Quotes \cup {Backslash, "[", "]", "{", "}"} -> [p EXCEPT !.escape_char = 0]
          [] OTHER -> p
  BY DEF Track
<1> HIDE DEF Keeps, quoted
<1>10. /\ Keeps([p EXCEPT !.escape_char = 1 - @]) /\ Keeps([p EXCEPT !.escape_char = 0])
       /\ Keeps([p EXCEPT !.s_quote_track = IF p.in_s_quote = 1 THEN Dec8(@) ELSE Inc8(@)])
       /\ Keeps([p EXCEPT !.d_quote_track = IF p.in_d_quote = 1 THEN Dec8(@) ELSE Inc8(@)])
       /\ Keeps([p EXCEPT !.bracket_track = IF c = "[" THEN Inc8(@) ELSE Dec8(@)])
       /\ Keeps([p EXCEPT !.brace_track = IF c = "{" THEN Inc8(@) ELSE Dec8(@)])
  BY <1>1, <1>2, <1>3, <1>4, <1>5, <1>6, <1>7, Bits, ParserFields, Zenon
<1>11. Keeps(Track(p, c))
  BY <1>8, <1>9, <1>10, ZenonT(60)
<1> QED
  BY <1>11 DEF Keeps

\* The value types and parse states, results and characters the actions name.
LEMMA Named ==
  /\ ParseStates \subseteq Results
  /\ {"PARSE_KEY_COMPLETE", "ADVANCE_VALUE_COMPLETE", "LIST_ITEM_COMPLETE",
      "END_OF_BUFFER", "ERROR", "PARSE_KEY", "STRUCT_COMPLETE", "LIST_COMPLETE",
      "COMPLETE"} \subseteq Results
  /\ {"PARSE_KEY", "ADVANCE_VALUE", "CAPTURE_VALUE", "ADVANCE_LIST_ITEM", "CAPTURE_LIST_ITEM",
      "LIST_COMPLETE", "STRUCT_COMPLETE", "COMPLETE"} \subseteq ParseStates
  /\ \A c : ValueTypeOf(c) \in ValueTypes
  /\ ":" \in Chars /\ "ERROR" \in ValueTypes
<1>1. \A c : ValueTypeOf(c) \in ValueTypes
  BY Zenon DEF ValueTypeOf, ValueTypes
<1> QED
  BY <1>1, CharsAssumption, Zenon DEF Results, ParseStates, CodeChars, ValueTypes

\* The character under buffer_pos.
LEMMA CharTyped ==
  ASSUME IInv, pos < size
  PROVE  Char \in Chars
<1>1. ScalarsOK
  BY InvParts
<1>2. pos \in 0..(size - 1)
  BY <1>1, SMT DEF ScalarsOK
<1> QED
  BY <1>1, <1>2, BufferTyped, Zenon DEF Char

\* json_process__ADVANCE_KEY.
LEMMA InvAdvanceKey ==
  ASSUME IInv, AdvanceKey_Start \/ AdvanceKey_Close \/ AdvanceKey_Skip
  PROVE  IInv'
<1>1. /\ pc = "scan" /\ pc # "host" /\ pos < size
      /\ P.parse_state = "ADVANCE_KEY"
  BY Zenon DEF AdvanceKey_Start, AdvanceKey_Close, AdvanceKey_Skip, Scanning
<1>2. /\ P \in Parser /\ P.active = 1
      /\ cur = 0 \/ StateFits(InList(chain, cur), P.parse_state)
      /\ chain \in [0..MaxDepth -> Parser] /\ cur \in 0..MaxDepth
  BY InvParts, AtWork
<1>3. pos \in Nat
  BY InvParts DEF ScalarsOK
<1>4. CASE AdvanceKey_Start
  <2> DEFINE delimiter == IF Char \in Quotes THEN Char ELSE ":"
             p == StartKey(delimiter)
  <2>1. delimiter \in Chars
    BY <1>1, CharTyped, Named
  <2> HIDE DEF delimiter
  <2>2. TrieReset(delimiter, pos) \in TrieState
    BY <1>3, <2>1, TrieResetTyped
  <2>3. p \in Parser
    BY <1>2, <1>3, <2>2, Bits, Widths, Named, OffsetTyped, ParserFields, Zenon DEF StartKey, Parser
  <2>4. p.active = 1 /\ p.parse_state = "PARSE_KEY"
    BY <1>2, SMT DEF StartKey, Parser
  <2>5. cur = 0 \/ StateFits(InList(chain, cur), p.parse_state)
    BY <1>1, <1>2, <2>4, Zenon DEF StateFits
  <2>6. Return("PARSE_KEY", [chain EXCEPT ![cur] = p])
    BY <1>4 DEF AdvanceKey_Start, delimiter
  <2> HIDE DEF p
  <2> QED
    BY <1>1, <2>3, <2>4, <2>5, <2>6, Named, ReturnP
<1>5. CASE AdvanceKey_Close
  <2> DEFINE p == [P EXCEPT !.char_skip = 1]
             r == IF Char = "}" THEN "STRUCT_COMPLETE" ELSE "LIST_COMPLETE"
  <2>0. p \in Parser
    BY <1>2, Bits, Zenon DEF Parser
  <2>1. p \in Parser /\ p.active = 1 /\ p.parse_state = P.parse_state
    BY <1>2, <2>0, SMT DEF Parser
  <2>2. [chain EXCEPT ![cur].char_skip = 1] = [chain EXCEPT ![cur] = p]
    BY DEF P
  <2>3. r \in Results
    BY Named
  <2>4. Return(r, [chain EXCEPT ![cur] = p])
    BY <1>5, <2>2, Zenon DEF AdvanceKey_Close
  <2> HIDE DEF p, r
  <2> QED
    BY <1>1, <1>2, <2>1, <2>3, <2>4, ReturnP
<1>6. CASE AdvanceKey_Skip
  <2>1. NextByte(P)
    BY <1>6 DEF AdvanceKey_Skip
  <2>2. Stack([chain EXCEPT ![cur] = P], cur)
    BY <1>2, StoreP
  <2> QED
    BY <1>1, <2>1, <2>2, NextByteStep
<1> QED
  BY <1>4, <1>5, <1>6

\* The end of a key.
LEMMA KeyDoneTyped ==
  ASSUME NEW p \in Parser
  PROVE  /\ KeyDone(p) \in Parser
         /\ KeyDone(p).active = p.active
         /\ KeyDone(p).parse_state = "ADVANCE_VALUE"
<1>1. KeyDone(p) \in Parser
  BY Bits, Widths, Named, Zenon DEF KeyDone, Parser
<1> QED
  BY <1>1, SMT DEF KeyDone, Parser

\* The scan for the end of an unknown key.
LEMMA InvParseKey ==
  ASSUME IInv, ParseKey_End \/ ParseKey_Next
  PROVE  IInv'
<1>1. /\ pc = "scan" /\ pc # "host" /\ pos < size
      /\ P.parse_state = "PARSE_KEY"
  BY Zenon DEF ParseKey_End, ParseKey_Next, Scanning
<1>2. /\ P \in Parser /\ P.active = 1
      /\ cur = 0 \/ StateFits(InList(chain, cur), P.parse_state)
      /\ chain \in [0..MaxDepth -> Parser] /\ cur \in 0..MaxDepth
  BY InvParts, AtWork
<1>3. pos \in Nat
  BY InvParts DEF ScalarsOK
<1>4. CASE ParseKey_End
  <2> DEFINE skip  == IF EndsQuotedKey THEN 1 ELSE 0
             close == IF EndsBareKey /\ pos > 0 THEN (pos - 1) % U16 ELSE Offset
             k     == KeyDone(P)
             p     == [k EXCEPT !.char_skip = skip, !.key_close = close]
  <2>1. skip \in Bit
    BY Bits, Zenon
  <2>2. close \in 0..(U16 - 1)
    <3>1. pos - 1 \in Int
      BY <1>3, SMT
    <3> QED
      BY <1>3, <3>1, OffsetTyped, Widths, Zenon
  <2>3. k \in Parser /\ k.active = 1 /\ k.parse_state = "ADVANCE_VALUE"
    BY <1>2, KeyDoneTyped
  <2>4. Return("PARSE_KEY_COMPLETE", [chain EXCEPT ![cur] = p])
    BY <1>4, Zenon DEF ParseKey_End, P
  <2> HIDE DEF skip, close, k
  <2>5. p \in Parser
    BY <2>1, <2>2, <2>3, Zenon DEF Parser
  <2>6. p.active = 1 /\ p.parse_state = "ADVANCE_VALUE"
    BY <2>3, SMT DEF Parser
  <2>7. cur = 0 \/ StateFits(InList(chain, cur), p.parse_state)
    BY <1>1, <1>2, <2>6, Zenon DEF StateFits
  <2> HIDE DEF p
  <2> QED
    BY <1>1, <2>4, <2>5, <2>6, <2>7, Named, ReturnP
<1>5. CASE ParseKey_Next
  <2> DEFINE b == IF P.escape_char = 0 /\ Char = Backslash THEN 1 ELSE 0
             p == [P EXCEPT !.escape_char = b]
  <2>1. b \in Bit
    BY Bits, Zenon
  <2>2. NextByte(p)
    BY <1>5, Zenon DEF ParseKey_Next
  <2> HIDE DEF b
  <2>3. p \in Parser
    BY <1>2, <2>1, Zenon DEF Parser
  <2>4. p.active = 1 /\ p.parse_state = P.parse_state
    BY <1>2, SMT DEF Parser
  <2> HIDE DEF p
  <2>5. Stack([chain EXCEPT ![cur] = p], cur)
    BY <1>2, <2>3, <2>4, StoreP
  <2> QED
    BY <1>1, <2>2, <2>5, NextByteStep
<1> QED
  BY <1>4, <1>5

\* noizu_trie__tokenize: whatever it answers, the tokenizer stands on a byte of
\* the buffer, and buffer_pos is put there or stays.
LEMMA InvTokenize ==
  ASSUME IInv, Tokenize
  PROVE  IInv'
<1>0. pc = "token" /\ pc # "host" /\ pc # "scan"
  BY Zenon DEF Tokenize, Tokenize_Continue, Tokenize_BufferEnd, Tokenize_Unknown, Tokenize_Key
<1>1. ScalarsOK /\ CursorInBuffer /\ Stack(chain, cur) /\ P.parse_state = "PARSE_KEY"
  BY <1>0, InvParts DEF TokenizesKey
<1>2. /\ P \in Parser /\ P.active = 1
      /\ cur = 0 \/ StateFits(InList(chain, cur), P.parse_state)
      /\ chain \in [0..MaxDepth -> Parser] /\ cur \in 0..MaxDepth
  BY <1>1, AtWork
<1>3. /\ pos \in Nat /\ size \in Nat /\ retrace \in Nat
      /\ pos <= size /\ retrace <= pos
      /\ P.trie.req_position \in pos..(size - 1)
  BY <1>0, <1>1, WidthAssumption, SMT DEF ScalarsOK, CursorInBuffer
<1>4. P.trie \in TrieState
  BY <1>2, ParserFields
<1> DEFINE at == Advanced.st.req_position
<1>5. /\ Advanced.st \in TrieState
      /\ at \in P.trie.req_position..(size - 1)
  <2>1. P.trie.req_position < size
    BY <1>3, SMT
  <2> QED
    BY <1>1, <1>3, <1>4, <2>1, BufferTyped, AdvanceTyped DEF Advanced
<1>6. at \in Nat /\ at >= pos /\ at < size
  BY <1>3, <1>5, SMT
<1> DEFINE t == Token(P)
<1>7. /\ t \in Parser /\ t.active = 1 /\ t.parse_state = P.parse_state
      /\ t.trie = Advanced.st
  <2>1. t \in Parser
    BY <1>2, <1>5, Zenon DEF Token, Parser
  <2> QED
    BY <1>2, <2>1, SMT DEF Token, Parser
<1>8. Stack([chain EXCEPT ![cur] = t], cur)
  BY <1>2, <1>7, StoreP
<1>9. [chain EXCEPT ![cur] = t][cur] = t
  BY <1>2, Zenon
<1>10. CASE Tokenize_Continue
  <2>1. chain' = [chain EXCEPT ![cur] = t] /\ DelegateFrame /\ UNCHANGED <<pos, result, pc>>
    BY <1>10, Zenon DEF Tokenize_Continue, P
  <2>2. ScalarsOK'
    BY <1>1, <2>1, Zenon DEF ScalarsOK, DelegateFrame, hostVars, globalVars, localVars
  <2>3. /\ P'.trie.req_position = at /\ P'.parse_state = "PARSE_KEY"
        /\ cur' = cur /\ pos' = pos /\ size' = size /\ retrace' = retrace /\ pc' = "token"
    BY <1>0, <1>1, <1>7, <1>9, <2>1, Zenon DEF P, DelegateFrame, hostVars, localVars
  <2>4. CursorInBuffer'
    BY <1>3, <1>6, <2>3, SMT DEF CursorInBuffer
  <2>5. TokenizesKey'
    BY <2>3 DEF TokenizesKey
  <2> QED
    BY <1>8, <2>1, <2>2, <2>3, <2>4, <2>5, PartsInv
<1>11. CASE Tokenize_BufferEnd
  <2>1. /\ chain' = [chain EXCEPT ![cur] = t] /\ DelegateFrame
        /\ pos' = at /\ result' = "END_OF_BUFFER" /\ pc' = "react"
    BY <1>11, Zenon DEF Tokenize_BufferEnd, P
  <2>2. ScalarsOK'
    BY <1>1, <1>6, <2>1, Named, Zenon DEF ScalarsOK, DelegateFrame, hostVars, globalVars, localVars
  <2>3. cur' = cur /\ size' = size /\ retrace' = retrace
    BY <2>1, Zenon DEF DelegateFrame, hostVars, localVars
  <2>4. CursorInBuffer'
    BY <1>3, <1>6, <2>1, <2>3, SMT DEF CursorInBuffer
  <2>5. TokenizesKey'
    BY <2>1, Zenon DEF TokenizesKey
  <2> QED
    BY <1>8, <2>1, <2>2, <2>3, <2>4, <2>5, PartsInv
<1>12. CASE Tokenize_Unknown
  <2>1. /\ chain' = [chain EXCEPT ![cur] = t] /\ DelegateFrame
        /\ pc' = "scan" /\ pos' = pos /\ result' = result
    BY <1>12, Zenon DEF Tokenize_Unknown, P
  <2>2. ScalarsOK'
    BY <1>1, <2>1, Zenon DEF ScalarsOK, DelegateFrame, hostVars, globalVars, localVars
  <2>3. cur' = cur /\ size' = size /\ retrace' = retrace
    BY <2>1, Zenon DEF DelegateFrame, hostVars, localVars
  <2>4. CursorInBuffer'
    BY <1>3, <1>6, <2>1, <2>3, SMT DEF CursorInBuffer
  <2>5. TokenizesKey'
    BY <2>1, Zenon DEF TokenizesKey
  <2> QED
    BY <1>8, <2>1, <2>2, <2>3, <2>4, <2>5, PartsInv
<1>13. CASE Tokenize_Key
  <2> DEFINE k == KeyDone(t)
             close == at % U16
             p == [k EXCEPT !.key_close = close, !.token = Advanced.st.token,
                            !.char_skip = IF P.in_d_quote = 1 \/ P.in_s_quote = 1 THEN 1 ELSE @]
  <2>1. /\ chain' = [chain EXCEPT ![cur] = p] /\ DelegateFrame
        /\ pos' = at /\ result' = "PARSE_KEY_COMPLETE" /\ pc' = "react"
    BY <1>13 DEF Tokenize_Key, P
  <2>2. k \in Parser /\ k.active = 1 /\ k.parse_state = "ADVANCE_VALUE"
    BY <1>7, KeyDoneTyped
  <2>3. close \in 0..(U16 - 1)
    <3>1. at \in Int
      BY <1>6, SMT
    <3> QED
      BY <3>1, Widths
  <2>4. Advanced.st.token \in Nat
    BY <1>5, Zenon DEF TrieState
  <2> HIDE DEF k, close
  <2>5. p \in Parser
    BY <2>2, <2>3, <2>4, Bits, Zenon DEF Parser
  <2>6. p.active = 1 /\ p.parse_state = "ADVANCE_VALUE"
    BY <2>2, SMT DEF Parser
  <2>7. cur = 0 \/ StateFits(InList(chain, cur), p.parse_state)
    BY <1>1, <1>2, <2>6, Zenon DEF StateFits
  <2> HIDE DEF p
  <2>8. Stack([chain EXCEPT ![cur] = p], cur)
    BY <2>5, <2>6, <2>7, StoreP
  <2>9. ScalarsOK'
    BY <1>1, <1>6, <2>1, Named, Zenon DEF ScalarsOK, DelegateFrame, hostVars, globalVars, localVars
  <2>10. cur' = cur /\ size' = size /\ retrace' = retrace
    BY <2>1, Zenon DEF DelegateFrame, hostVars, localVars
  <2>11. CursorInBuffer'
    BY <1>3, <1>6, <2>1, <2>10, SMT DEF CursorInBuffer
  <2>12. TokenizesKey'
    BY <2>1, Zenon DEF TokenizesKey
  <2> QED
    BY <2>1, <2>8, <2>9, <2>10, <2>11, <2>12, PartsInv
<1> QED
  BY <1>10, <1>11, <1>12, <1>13 DEF Tokenize

\* Storing the parser at work and, below it, its parent.
LEMMA StoreBoth ==
  ASSUME IInv, cur > 0,
         NEW p \in Parser, p.active = 1, StateFits(InList(chain, cur), p.parse_state),
         NEW o \in Parser, o.active = 1, o.value_type = chain[cur - 1].value_type,
         o.parse_state \in {chain[cur - 1].parse_state, "LIST_COMPLETE", "STRUCT_COMPLETE"}
  PROVE  Stack([[chain EXCEPT ![cur] = p] EXCEPT ![cur - 1] = o], cur)
<1> DEFINE q == [chain EXCEPT ![cur] = p]
<1>1. Stack(q, cur)
  BY StoreP
<1>2. chain \in [0..MaxDepth -> Parser] /\ cur \in 0..MaxDepth
  BY InvParts, AtWork
<1>3. cur - 1 # cur /\ cur - 1 \in 0..MaxDepth
  BY <1>2, DepthAssumption, SMT
<1>4. q[cur - 1] = chain[cur - 1]
  BY <1>2, <1>3, Zenon
<1> HIDE DEF q
<1>5. Stack([q EXCEPT ![cur - 1] = o], cur)
  BY <1>1, <1>4, UpdateParent
<1> QED
  BY <1>5 DEF q

\* What is known of the parent.
LEMMA Below ==
  ASSUME IInv, cur > 0
  PROVE  chain[cur - 1] \in Parser /\ chain[cur - 1].active = 1 /\ cur - 1 # cur
<1>1. cur \in 0..MaxDepth
  BY InvParts, AtWork
<1>2. cur - 1 \in 0..MaxDepth /\ cur - 1 <= cur /\ cur - 1 # cur
  BY <1>1, DepthAssumption, SMT
<1> QED
  BY <1>2, InvParts, StackFields

\* json_process__ADVANCE_VALUE.
LEMMA InvAdvanceValue ==
  ASSUME IInv, AdvanceValue_Close \/ AdvanceValue_Start \/ AdvanceValue_Skip
  PROVE  IInv'
<1>1. /\ pc = "scan" /\ pc # "host" /\ pos < size
      /\ P.parse_state \in ValueAdvance
  BY Zenon DEF AdvanceValue_Close, AdvanceValue_Start, AdvanceValue_Skip, Scanning
<1>2. /\ P \in Parser /\ P.active = 1
      /\ cur = 0 \/ StateFits(InList(chain, cur), P.parse_state)
      /\ chain \in [0..MaxDepth -> Parser] /\ cur \in 0..MaxDepth
  BY InvParts, AtWork
<1>3. pos \in Nat /\ Offset \in 0..(U16 - 1)
  BY InvParts, OffsetTyped DEF ScalarsOK
<1>4. CASE AdvanceValue_Close
  <2> DEFINE list == Char = "]"
             r    == IF list THEN "LIST_COMPLETE" ELSE "STRUCT_COMPLETE"
             p    == [P EXCEPT !.value_close = Offset, !.char_skip = 1]
             q    == [chain EXCEPT ![cur] = p]
             fits == IF list THEN InList(chain, cur) ELSE InStruct(chain, cur)
             o    == [chain[cur - 1] EXCEPT !.parse_state = r, !.value_close = Offset]
             both == [q EXCEPT ![cur - 1] = o]
  <2>1. r \in Results /\ r \in ParseStates
    BY Named
  <2>2. p \in Parser
    BY <1>2, <1>3, Bits, Zenon DEF Parser
  <2>3. p.active = 1 /\ p.parse_state = P.parse_state
    BY <1>2, <2>2, SMT DEF Parser
  <2>4. cur > 0 => cur - 1 # cur
    BY <1>2, DepthAssumption, SMT
  <2>5. fits => cur > 0
    BY Zenon DEF InList, InStruct
  <2>7. cur > 0 => q[cur - 1] = chain[cur - 1]
    <3>1. cur > 0 => cur - 1 \in 0..MaxDepth
      BY <1>2, DepthAssumption, SMT
    <3> QED
      BY <1>2, <2>4, <3>1, Zenon
  <2>8. cur > 0 =>
          [q EXCEPT ![cur - 1] = [@ EXCEPT !.parse_state = r, !.value_close = Offset]] = both
    <3> HIDE DEF q
    <3> QED
      BY <2>7
  <2>9. Return(r, IF fits
                  THEN [q EXCEPT ![cur - 1] = [@ EXCEPT !.parse_state = r, !.value_close = Offset]]
                  ELSE q)
    BY <1>4 DEF AdvanceValue_Close, P
  <2>10. CASE ~fits
    <3>1. Return(r, [chain EXCEPT ![cur] = p])
      BY <2>9, <2>10, Zenon
    <3> HIDE DEF p, r
    <3> QED
      BY <1>1, <1>2, <2>1, <2>2, <2>3, <3>1, ReturnP
  <2>11. CASE fits
    <3>1. Return(r, both)
      BY <2>5, <2>8, <2>9, <2>11, Zenon
    <3>2. chain[cur - 1] \in Parser /\ chain[cur - 1].active = 1
      BY <2>5, <2>11, Below
    <3>3. o \in Parser
      BY <1>3, <2>1, <3>2, Zenon DEF Parser
    <3>4. /\ o.active = 1 /\ o.value_type = chain[cur - 1].value_type
          /\ o.parse_state \in {"LIST_COMPLETE", "STRUCT_COMPLETE"}
      BY <3>2, <3>3, SMT DEF Parser
    <3>5. StateFits(InList(chain, cur), p.parse_state)
      <4>1. cur # 0
        BY <1>2, <2>5, <2>11, DepthAssumption, SMT
      <4> QED
        BY <1>2, <2>3, <4>1
    <3> HIDE DEF p, o, fits
    <3>6. Stack(both, cur)
      BY <2>2, <2>3, <2>5, <2>11, <3>3, <3>4, <3>5, StoreBoth
    <3> HIDE DEF both, r
    <3> QED
      BY <1>1, <2>1, <3>1, <3>6, ReturnStep
  <2> QED
    BY <2>10, <2>11
<1>5. CASE AdvanceValue_Start
  <2> DEFINE type == IF ValueTypeOf(Char) # "ERROR" THEN ValueTypeOf(Char) ELSE P.value_type
             brace   == IF Char = "{" THEN Inc8(P.brace_track) ELSE P.brace_track
             bracket == IF Char = "[" THEN Inc8(P.bracket_track) ELSE P.bracket_track
             d_track == IF Char = DoubleQuote THEN Inc8(P.d_quote_track) ELSE P.d_quote_track
             d_quote == IF Char = DoubleQuote THEN 1 ELSE P.in_d_quote
             s_track == IF Char = SingleQuote THEN Inc8(P.s_quote_track) ELSE P.s_quote_track
             s_quote == IF Char = SingleQuote THEN 1 ELSE P.in_s_quote
             p == [P EXCEPT
                     !.value_type    = type,
                     !.parse_state   = "CAPTURE_VALUE",
                     !.char_skip     = 1,
                     !.value_start   = Offset,
                     !.brace_track   = brace,
                     !.bracket_track = bracket,
                     !.d_quote_track = d_track,
                     !.in_d_quote    = d_quote,
                     !.s_quote_track = s_track,
                     !.in_s_quote    = s_quote]
  <2>1. type \in ValueTypes
    BY <1>2, Named, ParserFields, Zenon
  <2>2. Return("ADVANCE_VALUE_COMPLETE", [chain EXCEPT ![cur] = p])
    BY <1>5 DEF AdvanceValue_Start
  <2>3. /\ brace \in 0..(U8 - 1) /\ bracket \in 0..(U8 - 1)
        /\ d_track \in 0..(U8 - 1) /\ s_track \in 0..(U8 - 1)
        /\ d_quote \in Bit /\ s_quote \in Bit
    <3>1. \A n \in 0..(U8 - 1) : Inc8(n) \in 0..(U8 - 1)
      BY WidthAssumption, SMT DEF Inc8
    <3> QED
      BY <1>2, <3>1, Bits, ParserFields, Zenon
  <2> HIDE DEF type, brace, bracket, d_track, s_track, d_quote, s_quote
  <2>4. p \in Parser
    <3>1. "CAPTURE_VALUE" \in ParseStates /\ 1 \in Bit
      BY Named, Bits
    <3> QED
      BY <1>2, <1>3, <2>1, <2>3, <3>1, ZenonT(60) DEF Parser
  <2>5. p.active = 1 /\ p.parse_state = "CAPTURE_VALUE"
    BY <1>2, SMT DEF Parser
  <2> HIDE DEF p
  <2>6. cur = 0 \/ StateFits(InList(chain, cur), p.parse_state)
    BY <1>2, <2>5, Zenon DEF StateFits
  <2> QED
    BY <1>1, <2>2, <2>4, <2>5, <2>6, Named, ReturnP
<1>6. CASE AdvanceValue_Skip
  <2>1. NextByte(P)
    BY <1>6 DEF AdvanceValue_Skip
  <2>2. Stack([chain EXCEPT ![cur] = P], cur)
    BY <1>2, StoreP
  <2> QED
    BY <1>1, <2>1, <2>2, NextByteStep
<1> QED
  BY <1>4, <1>5, <1>6

\* json_process__CAPTURE_VALUE.
LEMMA InvCaptureValue ==
  ASSUME IInv, \/ CaptureValue_BracketExit \/ CaptureValue_Error
               \/ CaptureValue_Complete \/ CaptureValue_Next
  PROVE  IInv'
<1>1. /\ pc = "scan" /\ pc # "host" /\ pos < size
      /\ P.parse_state \in ValueCapture
  BY Zenon DEF CaptureValue_BracketExit, CaptureValue_Error, CaptureValue_Complete,
               CaptureValue_Next, Scanning
<1>2. /\ P \in Parser /\ P.active = 1
      /\ cur = 0 \/ StateFits(InList(chain, cur), P.parse_state)
      /\ chain \in [0..MaxDepth -> Parser] /\ cur \in 0..MaxDepth
  BY InvParts, AtWork
<1>3. pos \in Nat /\ Offset \in 0..(U16 - 1)
  BY InvParts, OffsetTyped DEF ScalarsOK
<1> DEFINE t == Track(P, Char)
<1>4. t \in Parser /\ t.active = 1 /\ t.parse_state = P.parse_state
  BY <1>2, TrackTyped
<1>5. t = Track(P, Char)
  OBVIOUS
<1> HIDE DEF t
<1>6. CASE CaptureValue_BracketExit
  <2> DEFINE p == [t EXCEPT !.parse_state = "LIST_COMPLETE"]
  <2>1. p \in Parser
    BY <1>4, Named, Zenon DEF Parser
  <2>2. p.active = 1 /\ p.parse_state = "LIST_COMPLETE"
    BY <1>4, SMT DEF Parser
  <2>3. Return("LIST_COMPLETE", [chain EXCEPT ![cur] = p])
    BY <1>5, <1>6 DEF CaptureValue_BracketExit
  <2> HIDE DEF p
  <2>4. cur = 0 \/ StateFits(InList(chain, cur), p.parse_state)
    BY <2>2, Zenon DEF StateFits
  <2> QED
    BY <1>1, <2>1, <2>2, <2>3, <2>4, Named, ReturnP
<1>7. CASE CaptureValue_Error
  <2> DEFINE p == [t EXCEPT !.value_type = "ERROR"]
  <2>1. p \in Parser
    BY <1>4, Named, Zenon DEF Parser
  <2>2. p.active = 1 /\ p.parse_state = P.parse_state
    BY <1>4, SMT DEF Parser
  <2>3. Return("ERROR", [chain EXCEPT ![cur] = p])
    BY <1>5, <1>7 DEF CaptureValue_Error
  <2> HIDE DEF p
  <2> QED
    BY <1>1, <1>2, <2>1, <2>2, <2>3, Named, ReturnP
<1>8. CASE CaptureValue_Complete
  <2> DEFINE after == Judged = "complete"
             known == after \/ pos > 0
             close == IF after THEN Offset ELSE (pos - 1) % U16
             member == InList(chain, cur)
             skip  == IF after THEN 1 ELSE t.char_skip
             ended == IF known THEN close ELSE t.value_close
             s     == IF member THEN "ADVANCE_LIST_ITEM" ELSE "COMPLETE"
             r     == IF member THEN "LIST_ITEM_COMPLETE" ELSE "COMPLETE"
             p     == [t EXCEPT !.char_skip = skip, !.value_close = ended, !.parse_state = s]
             q     == [chain EXCEPT ![cur] = p]
             o     == [chain[cur - 1] EXCEPT !.value_close = close]
  <2>1. close \in 0..(U16 - 1)
    <3>1. pos - 1 \in Int
      BY <1>3, SMT
    <3> QED
      BY <1>3, <3>1, Widths, Zenon
  <2>2. skip \in Bit /\ ended \in 0..(U16 - 1)
    BY <1>4, <2>1, Bits, ParserFields, Zenon
  <2>3. s \in ParseStates /\ StateFits(member, s) /\ r \in Results
    <3>1. member \in BOOLEAN
      BY Zenon DEF InList
    <3> QED
      BY <3>1, Named, Zenon DEF StateFits
  <2>4. Return(r, IF known /\ cur > 0 THEN [q EXCEPT ![cur - 1].value_close = close] ELSE q)
    BY <1>5, <1>8 DEF CaptureValue_Complete
  <2> HIDE DEF close, known, after, skip, ended, s, r, member
  <2>5. p \in Parser
    BY <1>4, <2>2, <2>3, Zenon DEF Parser
  <2>6. p.active = 1 /\ p.parse_state = s
    BY <1>4, SMT DEF Parser
  <2>7. StateFits(InList(chain, cur), p.parse_state)
    BY <2>3, <2>6 DEF member
  <2>8. CASE ~(known /\ cur > 0)
    <3>1. Return(r, [chain EXCEPT ![cur] = p])
      BY <2>4, <2>8, Zenon
    <3> HIDE DEF p
    <3> QED
      BY <1>1, <2>3, <2>5, <2>6, <2>7, <3>1, ReturnP
  <2>9. CASE known /\ cur > 0
    <3>1. chain[cur - 1] \in Parser /\ chain[cur - 1].active = 1 /\ cur - 1 # cur
      BY <2>9, Below
    <3>2. q[cur - 1] = chain[cur - 1]
      <4>1. cur - 1 \in 0..MaxDepth
        BY <1>2, <2>9, DepthAssumption, SMT
      <4> QED
        BY <1>2, <3>1, <4>1, Zenon
    <3>3. o \in Parser
      BY <2>1, <3>1, Zenon DEF Parser
    <3>4. /\ o.active = 1 /\ o.value_type = chain[cur - 1].value_type
          /\ o.parse_state = chain[cur - 1].parse_state
      BY <3>1, <3>3, SMT DEF Parser
    <3>5. [q EXCEPT ![cur - 1].value_close = close] = [q EXCEPT ![cur - 1] = o]
      <4> HIDE DEF q
      <4> QED
        BY <3>2
    <3>6. Return(r, [q EXCEPT ![cur - 1] = o])
      BY <2>4, <2>9, <3>5, Zenon
    <3> HIDE DEF p, o
    <3>7. Stack([q EXCEPT ![cur - 1] = o], cur)
      BY <2>5, <2>6, <2>7, <2>9, <3>3, <3>4, StoreBoth
    <3> QED
      BY <1>1, <2>3, <3>6, <3>7, ReturnStep
  <2> QED
    BY <2>8, <2>9
<1>9. CASE CaptureValue_Next
  <2> DEFINE track == IF Judged = "first_l" THEN 1 ELSE t.null_track
             skip  == IF Judged = "first_l" THEN 1 ELSE t.char_skip
             p     == [t EXCEPT !.value_close = Offset, !.null_track = track, !.char_skip = skip]
  <2>1. NextByte(p)
    BY <1>5, <1>9 DEF CaptureValue_Next
  <2>2. track \in Bit /\ skip \in Bit
    BY <1>4, Bits, ParserFields, Zenon
  <2> HIDE DEF track, skip
  <2>3. p \in Parser
    BY <1>3, <1>4, <2>2, Zenon DEF Parser
  <2>4. p.active = 1 /\ p.parse_state = P.parse_state
    BY <1>4, SMT DEF Parser
  <2> HIDE DEF p
  <2>5. Stack([chain EXCEPT ![cur] = p], cur)
    BY <1>2, <2>3, <2>4, StoreP
  <2> QED
    BY <1>1, <2>1, <2>5, NextByteStep
<1> QED
  BY <1>6, <1>7, <1>8, <1>9

\* Out of input: buffer_pos steps back, but not behind retrace.
LEMMA InvScanEnd ==
  ASSUME IInv, ScanEnd
  PROVE  IInv'
<1>1. ScalarsOK /\ CursorInBuffer /\ Stack(chain, cur)
  BY InvParts
<1>2. /\ pc = "scan" /\ pos >= size
      /\ pos' = (IF pos > 0 /\ pos = size THEN pos - 1 ELSE pos)
      /\ result' = "END_OF_BUFFER" /\ pc' = "react" /\ chain' = chain /\ DelegateFrame
  BY Zenon DEF ScanEnd
<1>3. cur' = cur /\ size' = size /\ retrace' = retrace
  BY <1>2, Zenon DEF DelegateFrame, hostVars, localVars
<1>4. pos \in Nat /\ size \in Nat /\ retrace \in Nat /\ pos <= size /\ retrace < pos
  BY <1>1, <1>2, WidthAssumption, SMT DEF ScalarsOK, CursorInBuffer
<1>5. pos' \in Nat /\ pos' <= size /\ retrace <= pos'
  BY <1>2, <1>4, SMT
<1>6. ScalarsOK'
  BY <1>1, <1>2, <1>5, Named, Zenon DEF ScalarsOK, DelegateFrame, hostVars, globalVars, localVars
<1>7. CursorInBuffer'
  BY <1>2, <1>3, <1>5, SMT DEF CursorInBuffer
<1>8. TokenizesKey'
  BY <1>2, Zenon DEF TokenizesKey
<1> QED
  BY <1>1, <1>2, <1>3, <1>6, <1>7, <1>8, PartsInv

--------------------------------------------------------------------------------
\* The host and the ends of a call.

\* A parser fresh from init_json_parser, before the first call.
LEMMA InvInit ==
  ASSUME Init
  PROVE  IInv
<1>1. \A n \in Leads : -(-n) = n /\ n \in Nat /\ -n \in Int
  BY LeadsAssumption, SMT
<1>2. PICK n \in Leads : base = -n
  BY Zenon DEF Init
<1>3. n \in Nat /\ -(-n) = n
  BY <1>1
<1>4. base \in Int /\ -base = n /\ size = n /\ pos = n
  BY <1>2, <1>3, SMT DEF Init
<1>5. doc \in Seq(Chars) /\ Nul \in Chars
  BY DocsAssumption, CharsAssumption, Zenon DEF Init, CodeChars
<1>6. Len(doc) \in Nat
  BY <1>5, SMT
<1> DEFINE zero == Zeroed(TrieReset(Nul, n))
           init == InitParser(Nul, n)
           top  == [init EXCEPT !.parse_state = "ADVANCE_VALUE"]
<1>7. TrieReset(Nul, n) \in TrieState
  BY <1>3, <1>5, TrieResetTyped
<1>8. zero \in Parser /\ zero.active = 0
  BY <1>7, ZeroedTyped
<1>9. init \in Parser /\ init.active = 1
  <2>1. init \in Parser
    BY <1>3, <1>5, InitTyped
  <2>2. init = [zero EXCEPT !.active = 1]
    BY DEF InitParser
  <2> HIDE DEF zero, init
  <2> QED
    BY <1>8, <2>1, <2>2, SMT DEF Parser
<1> HIDE DEF zero, init
<1>10. top \in Parser
  BY <1>9, Named, Zenon DEF Parser
<1>11. top.active = 1
  BY <1>9, SMT DEF Parser
<1>12. chain = [d \in 0..MaxDepth |-> IF d = 0 THEN top ELSE zero]
  BY <1>4, Zenon DEF Init, zero, init
<1>13. cur = 0 /\ alloc = 0 /\ 0 \in 0..MaxDepth /\ 0 \in 0..alloc
  BY DepthAssumption, SMT DEF Init
<1> HIDE DEF top
<1>14. ChainIsStack
  <2>1. \A d \in 0..MaxDepth : chain[d].active = 1 <=> d <= 0
    BY <1>8, <1>11, <1>12, DepthAssumption, SMT
  <2>2. 0..(cur - 1) = {}
    BY <1>13, SMT
  <2> QED
    BY <1>13, <2>1, <2>2, Zenon DEF ChainIsStack
<1>15. StateFitsParent
  <2>1. 1..cur = {}
    BY <1>13, SMT
  <2> QED
    BY <2>1, Zenon DEF StateFitsParent
<1>16. chain \in [0..MaxDepth -> Parser]
  BY <1>8, <1>10, <1>12, Zenon
<1>17. base + size <= Len(doc)
  BY <1>2, <1>3, <1>4, <1>6, SMT
<1>18. TypeOK
  BY <1>3, <1>4, <1>5, <1>13, <1>16, <1>17, Widths, Named, Zenon DEF Init, TypeOK
<1>19. pc = "host" /\ buffer_pos_offset = 0
  BY Zenon DEF Init
<1>20. CursorInBuffer /\ TokenizesKey
  BY <1>3, <1>4, <1>19, SMT DEF CursorInBuffer, TokenizesKey
<1> QED
  BY <1>14, <1>15, <1>18, <1>20 DEF IInv

\* Receiving and compacting keep the position of the next byte to read inside
\* what has been received.
LEMMA InvHost ==
  ASSUME IInv, Receive \/ Compact
  PROVE  IInv'
<1>1. ScalarsOK /\ CursorInBuffer /\ Stack(chain, cur)
  BY InvParts
<1>2. pc = "host" /\ pc' = "host" /\ UNCHANGED <<doc, globalVars, localVars, result, chain, alloc>>
  BY Zenon DEF Receive, Compact
<1>3. /\ base \in Int /\ size \in Nat /\ pos \in Nat /\ base + size <= Len(doc)
      /\ Len(doc) \in Nat /\ buffer_pos_offset \in Nat
      /\ pos <= size /\ pos + buffer_pos_offset <= size
  BY <1>1, <1>2, WidthAssumption, SMT DEF ScalarsOK, CursorInBuffer
<1>4. /\ base' \in Int /\ size' \in Nat /\ pos' \in Nat /\ base' + size' <= Len(doc)
      /\ pos' <= size' /\ pos' + buffer_pos_offset <= size'
  <2>1. CASE Receive
    BY <1>3, <2>1, SMT DEF Receive
  <2>2. CASE Compact
    BY <1>3, <2>2, SMT DEF Compact
  <2> QED
    BY <2>1, <2>2
<1>5. ScalarsOK'
  BY <1>1, <1>2, <1>4, Zenon DEF ScalarsOK, globalVars, localVars
<1>6. CursorInBuffer' /\ TokenizesKey'
  BY <1>2, <1>4, Zenon DEF CursorInBuffer, TokenizesKey, globalVars
<1> QED
  BY <1>1, <1>2, <1>5, <1>6, PartsInv, Zenon DEF localVars

\* A call starts behind retrace, with the parser at work found from the base.
LEMMA InvCall ==
  ASSUME IInv, Call
  PROVE  IInv'
<1>1. ScalarsOK /\ CursorInBuffer /\ Stack(chain, cur)
  BY InvParts
<1>2. /\ base \in Int /\ size \in Nat /\ pos \in Nat /\ buffer_pos_offset \in Nat
      /\ pos + buffer_pos_offset <= size
      /\ alloc \in 0..MaxDepth /\ cur \in 0..alloc /\ cur <= alloc /\ 0 \in 0..cur
      /\ previous_buffer_pos \in Int
  BY <1>1, WidthAssumption, DepthAssumption, SMT DEF ScalarsOK, CursorInBuffer, Call
<1>3. TopParser(chain, alloc, 0) = cur
  BY <1>1, <1>2, TopIsCurrent
<1>4. Offset \in 0..(U16 - 1) /\ Offset <= pos
  BY <1>2, OffsetTyped
<1>5. (previous_buffer_pos - pos) % U16 \in 0..(U16 - 1)
  <2>1. previous_buffer_pos - pos \in Int
    BY <1>2, SMT
  <2> QED
    BY <2>1, Widths
<1>6. Stack(chain', cur')
  BY <1>1, <1>2, <1>3, <1>5, ShiftTyped, Zenon DEF Call
<1>7. /\ cur' = cur /\ pos' = pos + buffer_pos_offset /\ retrace' = Offset
      /\ previous_buffer_pos' \in {Offset, previous_buffer_pos}
      /\ pc' = "loop" /\ UNCHANGED <<hostVars, buffer_pos_offset, result, alloc>>
  BY <1>3, Zenon DEF Call
<1>8. pos' \in Nat /\ pos' <= size /\ retrace' <= pos'
  <2>1. Offset \in Nat
    BY <1>4, WidthAssumption, SMT
  <2> QED
    BY <1>2, <1>4, <1>7, <2>1, SMT
<1>9. ScalarsOK'
  BY <1>1, <1>4, <1>7, <1>8, Zenon DEF ScalarsOK, hostVars
<1>10. CursorInBuffer' /\ TokenizesKey'
  BY <1>7, <1>8, Zenon DEF CursorInBuffer, TokenizesKey, hostVars
<1> QED
  BY <1>6, <1>9, <1>10, PartsInv

\* A call ends with the offset that leads back from retrace to buffer_pos.
LEMMA InvReturnToHost ==
  ASSUME IInv, pc # "host", ReturnToHost
  PROVE  IInv'
<1>1. ScalarsOK /\ CursorInBuffer /\ Stack(chain, cur)
  BY InvParts
<1>2. pos \in Nat /\ size \in Nat /\ retrace \in Nat /\ retrace <= pos /\ pos <= size
  BY <1>1, WidthAssumption, SMT DEF ScalarsOK, CursorInBuffer
<1>3. pos - retrace \in Nat /\ pos - retrace \in Int
  BY <1>2, SMT
<1> DEFINE offset == (pos - retrace) % U16
<1>4. offset \in 0..(U16 - 1) /\ offset <= pos - retrace
  BY <1>3, Widths
<1>5. /\ pos' = retrace /\ buffer_pos_offset' = offset /\ pc' = "host"
      /\ UNCHANGED <<hostVars, previous_buffer_pos, localVars, result, chain, alloc>>
  BY Zenon DEF ReturnToHost
<1> HIDE DEF offset
<1>6. retrace <= size /\ retrace + offset <= size
  <2>1. offset \in Nat
    BY <1>4, WidthAssumption, SMT
  <2> QED
    BY <1>2, <1>4, <2>1, SMT
<1>7. ScalarsOK'
  BY <1>1, <1>2, <1>4, <1>5, Zenon DEF ScalarsOK, hostVars, localVars
<1>8. CursorInBuffer' /\ TokenizesKey'
  BY <1>5, <1>6, Zenon DEF CursorInBuffer, TokenizesKey, hostVars
<1> QED
  BY <1>1, <1>5, <1>7, <1>8, PartsInv, Zenon DEF localVars

\* The main loop hands the parser at work to its delegate.
LEMMA InvDispatch ==
  ASSUME IInv, Dispatch
  PROVE  IInv'
<1>1. ScalarsOK /\ CursorInBuffer /\ Stack(chain, cur)
  BY InvParts
<1>2. /\ P \in Parser /\ P.active = 1
      /\ cur = 0 \/ StateFits(InList(chain, cur), P.parse_state)
      /\ chain \in [0..MaxDepth -> Parser] /\ cur \in 0..MaxDepth
  BY <1>1, AtWork
<1>3. /\ pos \in Nat /\ size \in Nat /\ retrace \in Nat /\ retrace <= pos /\ pos < size
      /\ alloc \in 0..MaxDepth /\ cur \in 0..alloc /\ cur <= alloc /\ cur \in 0..cur
  BY <1>1, WidthAssumption, DepthAssumption, SMT DEF ScalarsOK, CursorInBuffer, Dispatch
<1>4. cur' = cur
  <2>1. TopParser(chain, alloc, cur) = cur
    BY <1>1, <1>3, TopIsCurrent
  <2> QED
    BY <2>1, Zenon DEF Dispatch
<1> DEFINE here == pos + P.char_skip
           p == [P EXCEPT !.char_skip = 0,
                          !.trie.req_position = IF P.parse_state = "PARSE_KEY" THEN here ELSE @]
<1>5. UNCHANGED <<hostVars, globalVars, retrace, alloc>>
  BY Zenon DEF Dispatch
<1>6. here \in Nat /\ here >= pos
  <2>1. P.char_skip \in {0, 1}
    BY <1>2, ParserFields, SMT DEF Bit
  <2> QED
    BY <1>3, <2>1, SMT
<1>7. \/ /\ MustWait(here) /\ result' = "END_OF_BUFFER" /\ pc' = "react"
         /\ pos' = pos /\ chain' = chain
      \/ /\ ~MustWait(here) /\ pos' = here
         /\ chain' = [chain EXCEPT ![cur] = p]
         /\ \/ /\ P.parse_state = "PARSE_KEY" /\ pc' = "token" /\ result' = result
            \/ /\ pc' \in {"scan", "react"} /\ result' \in Results
  <2>1. chain[cur'] = P
    BY <1>4 DEF P
  <2>2. result \in Results
    BY <1>1 DEF ScalarsOK
  <2>3. CASE MustWait(here)
    BY <2>1, <2>3, Zenon DEF Dispatch
  <2>4. CASE ~MustWait(here)
    <3>1. pos' = here /\ chain' = [chain EXCEPT ![cur'] = p]
      BY <2>1, <2>4 DEF Dispatch
    <3>2. (CASE P.parse_state = "PARSE_KEY" -> pc' = "token" /\ UNCHANGED result
             [] P.parse_state \in {"ADVANCE_KEY", "ADVANCE_VALUE", "ADVANCE_LIST_ITEM",
                                   "CAPTURE_VALUE", "CAPTURE_LIST_ITEM"} ->
                  pc' = "scan" /\ UNCHANGED result
             [] P.parse_state \in {"LIST_COMPLETE", "COMPLETE"} ->
                  pc' = "react" /\ result' = P.parse_state
             [] OTHER -> pc' = "react" /\ result' = "ERROR")
      BY <2>1, <2>4, Zenon DEF Dispatch
    <3>3. \/ P.parse_state = "PARSE_KEY" /\ pc' = "token" /\ result' = result
          \/ pc' = "scan" /\ result' = result
          \/ pc' = "react" /\ result' = P.parse_state
          \/ pc' = "react" /\ result' = "ERROR"
      BY <3>2, Zenon
    <3>4. P.parse_state \in Results /\ "ERROR" \in Results
      BY <1>2, Named, ParserFields, Zenon
    <3>5. \/ P.parse_state = "PARSE_KEY" /\ pc' = "token" /\ result' = result
          \/ pc' \in {"scan", "react"} /\ result' \in Results
      BY <2>2, <3>3, <3>4, Zenon
    <3> QED
      BY <1>4, <2>4, <3>1, <3>5, Zenon
  <2> QED
    BY <2>3, <2>4
<1>8. p \in Parser
  <2>1. P.trie \in TrieState /\ 0 \in Bit
    BY <1>2, Bits, ParserFields
  <2>2. P.trie.req_position \in Nat
    BY <2>1, Zenon DEF TrieState
  <2> HIDE DEF here
  <2> DEFINE at == IF P.parse_state = "PARSE_KEY" THEN here ELSE P.trie.req_position
             t  == [P.trie EXCEPT !.req_position = at]
  <2>3. at \in Nat
    BY <1>6, <2>2, Zenon
  <2>4. p = [P EXCEPT !.char_skip = 0, !.trie = t]
    BY SMT
  <2> HIDE DEF at
  <2>5. t \in TrieState
    BY <2>1, <2>3, Zenon DEF TrieState
  <2> HIDE DEF t, p
  <2> QED
    BY <1>2, <2>1, <2>4, <2>5, Zenon DEF Parser
<1>9. /\ p.active = 1 /\ p.parse_state = P.parse_state
      /\ P.parse_state = "PARSE_KEY" => p.trie.req_position = here
  <2> HIDE DEF here
  <2>1. P.trie \in TrieState
    BY <1>2, ParserFields
  <2> QED
    BY <1>2, <2>1, SMT DEF Parser, TrieState
<1>10. Stack([chain EXCEPT ![cur] = p], cur)
  <2> HIDE DEF p
  <2> QED
    BY <1>2, <1>8, <1>9, StoreP
<1>11. [chain EXCEPT ![cur] = p][cur] = p
  <2> HIDE DEF p
  <2> QED
    BY <1>2, Zenon
<1> HIDE DEF p
<1>12. Stack(chain', cur')
  BY <1>1, <1>4, <1>7, <1>10, Zenon
<1>13. /\ pos' \in Nat /\ pos' < size /\ retrace <= pos'
       /\ pc' \in {"token", "scan", "react"} /\ result' \in Results
       /\ pc' = "token" => /\ P'.trie.req_position = pos'
                           /\ P'.parse_state = "PARSE_KEY"
  <2>1. CASE MustWait(here) /\ result' = "END_OF_BUFFER" /\ pc' = "react" /\ pos' = pos
    BY <1>3, <2>1, Named, Zenon
  <2>2. CASE /\ ~MustWait(here) /\ pos' = here /\ chain' = [chain EXCEPT ![cur] = p]
             /\ P.parse_state = "PARSE_KEY" /\ pc' = "token" /\ result' = result
    <3>1. P' = p
      BY <1>4, <1>11, <2>2 DEF P
    <3>2. result \in Results
      BY <1>1 DEF ScalarsOK
    <3>3. here < size /\ retrace <= here
      BY <1>3, <1>6, <2>2, SMT DEF MustWait
    <3> HIDE DEF here
    <3> QED
      BY <1>6, <1>9, <2>2, <3>1, <3>2, <3>3, Zenon
  <2>3. CASE /\ ~MustWait(here) /\ pos' = here
             /\ pc' \in {"scan", "react"} /\ result' \in Results
    <3>1. here < size /\ retrace <= here
      BY <1>3, <1>6, <2>3, SMT DEF MustWait
    <3> HIDE DEF here
    <3> QED
      BY <1>6, <2>3, <3>1, SMT
  <2> QED
    BY <1>7, <2>1, <2>2, <2>3, Zenon
<1>14. ScalarsOK'
  BY <1>1, <1>4, <1>5, <1>13, Zenon DEF ScalarsOK, hostVars, globalVars
<1>15. CursorInBuffer'
  <2>1. size' = size /\ retrace' = retrace
    BY <1>5, Zenon DEF hostVars
  <2> QED
    BY <1>3, <1>13, <2>1, SMT DEF CursorInBuffer
<1>16. TokenizesKey'
  BY <1>13 DEF TokenizesKey
<1> QED
  BY <1>12, <1>14, <1>15, <1>16, PartsInv

--------------------------------------------------------------------------------
\* The switch of json_streaming_parser.

\* Back to the main loop, with retrace left alone or moved up to buffer_pos.
LEMMA ProceedStep ==
  ASSUME IInv, pc = "react", Proceed, Keep \/ Release,
         Stack(chain', cur'), alloc' \in 0..MaxDepth, cur' \in 0..alloc'
  PROVE  IInv'
<1>1. ScalarsOK /\ CursorInBuffer
  BY InvParts
<1>2. /\ pos \in Nat /\ pos <= size /\ retrace <= pos
      /\ retrace \in 0..(U16 - 1) /\ previous_buffer_pos \in 0..(U16 - 1)
      /\ Offset \in 0..(U16 - 1) /\ Offset <= pos
  BY <1>1, OffsetTyped, Zenon DEF ScalarsOK, CursorInBuffer
<1>3. pc' = "loop" /\ UNCHANGED <<hostVars, pos, buffer_pos_offset, result>>
  BY Zenon DEF Proceed
<1>4. /\ retrace' \in 0..(U16 - 1) /\ retrace' <= pos
      /\ previous_buffer_pos' \in 0..(U16 - 1)
  BY <1>2, Zenon DEF Keep, Release
<1>5. ScalarsOK'
  BY <1>1, <1>3, <1>4, Zenon DEF ScalarsOK, hostVars
<1>6. CursorInBuffer' /\ TokenizesKey'
  BY <1>2, <1>3, <1>4, Zenon DEF CursorInBuffer, TokenizesKey, hostVars
<1> QED
  BY <1>5, <1>6, PartsInv

\* A parser set up to capture the value found.
LEMMA CaptureTyped ==
  ASSUME NEW p \in Parser, NEW in_list \in BOOLEAN, NEW index \in 0..(U16 - 1)
  PROVE  /\ CaptureParser(p, in_list, index) \in Parser
         /\ CaptureParser(p, in_list, index).active = 1
         /\ StateFits(in_list, CaptureParser(p, in_list, index).parse_state)
<1> DEFINE r == ResetParser(p, in_list)
           s == IF in_list THEN "CAPTURE_LIST_ITEM" ELSE "CAPTURE_VALUE"
           token   == p.token % U8
           d_track == IF p.value_type = "DOUBLE_QUOTE" THEN 1 ELSE r.d_quote_track
           d_quote == IF p.value_type = "DOUBLE_QUOTE" THEN 1 ELSE r.in_d_quote
           s_track == IF p.value_type = "QUOTE" THEN 1 ELSE r.s_quote_track
           s_quote == IF p.value_type = "QUOTE" THEN 1 ELSE r.in_s_quote
           c == [r EXCEPT !.key_start = p.key_start, !.key_close = p.key_close,
                          !.token = token, !.value_start = p.value_start,
                          !.value_type = p.value_type, !.list_index = index,
                          !.d_quote_track = d_track, !.in_d_quote = d_quote,
                          !.s_quote_track = s_track, !.in_s_quote = s_quote,
                          !.parse_state = s]
<1>1. CaptureParser(p, in_list, index) = c
  BY DEF CaptureParser
<1>2. r \in Parser /\ r.active = 1
  BY ResetTyped
<1> HIDE DEF r
<1>3. s \in ParseStates /\ StateFits(in_list, s)
  BY Named, Zenon DEF StateFits
<1>4. token \in Nat
  BY ParserFields, Widths
<1>5. /\ d_track \in 0..(U8 - 1) /\ s_track \in 0..(U8 - 1)
      /\ d_quote \in Bit /\ s_quote \in Bit
  BY <1>2, ParserFields, Widths, Bits, Zenon
<1> HIDE DEF s, token, d_track, d_quote, s_track, s_quote
<1>6. /\ p.key_start \in 0..(U16 - 1) /\ p.key_close \in 0..(U16 - 1)
      /\ p.value_start \in 0..(U16 - 1) /\ p.value_type \in ValueTypes
  BY ParserFields
<1>7. c \in Parser
  BY <1>2, <1>3, <1>4, <1>5, <1>6, ZenonT(60) DEF Parser
<1>8. c.active = 1 /\ c.parse_state = s
  BY <1>2, SMT DEF Parser
<1> HIDE DEF c
<1> QED
  BY <1>1, <1>3, <1>7, <1>8

\* The switch of json_streaming_parser on the result.
LEMMA InvReact ==
  ASSUME IInv, React
  PROVE  IInv'
<1>1. ScalarsOK /\ CursorInBuffer /\ Stack(chain, cur)
  BY InvParts
<1>2. /\ P \in Parser /\ P.active = 1 /\ InList(chain, cur) \in BOOLEAN
      /\ chain \in [0..MaxDepth -> Parser] /\ cur \in 0..MaxDepth
  BY <1>1, AtWork
<1>3. pc = "react" /\ pc # "host"
  BY Zenon DEF React, Reacting, React_EndOfBuffer, React_Nothing, React_KeyComplete,
               React_ContainerStart, React_ValueStart, React_ListItemComplete,
               React_Complete, React_ContainerComplete
<1>4. /\ alloc \in 0..MaxDepth /\ cur \in 0..alloc /\ pos \in Nat
      /\ alloc \in Nat /\ cur \in Nat /\ MaxDepth \in Nat /\ cur <= alloc /\ alloc <= MaxDepth
  BY <1>1, DepthAssumption, SMT DEF ScalarsOK
<1>5. CASE React_EndOfBuffer
  BY <1>3, <1>5, InvReturnToHost DEF React_EndOfBuffer
<1>6. CASE React_Nothing \/ React_KeyComplete
  <2>1. Proceed /\ Keep /\ cur' = cur /\ chain' = chain /\ alloc' = alloc
    BY <1>6, Zenon DEF React_Nothing, React_KeyComplete
  <2> QED
    BY <1>1, <1>3, <1>4, <2>1, ProceedStep
<1>7. CASE React_ContainerStart
  <2>1. /\ P.value_type \in Containers /\ cur < MaxDepth
        /\ chain' = SpawnParser(chain, alloc, cur, pos)
        /\ alloc' = (IF cur + 1 > alloc THEN cur + 1 ELSE alloc)
        /\ cur' = cur + 1 /\ Proceed /\ Keep
    BY <1>7, Zenon DEF React_ContainerStart
  <2>2. Stack(chain', cur')
    BY <1>1, <1>4, <2>1, SpawnTyped DEF P
  <2>3. alloc' \in 0..MaxDepth /\ cur' \in 0..alloc'
    BY <1>4, <2>1, SMT
  <2> QED
    BY <1>3, <2>1, <2>2, <2>3, ProceedStep
<1>8. CASE React_ValueStart
  <2> DEFINE member == InList(chain, cur)
             index  == IF member THEN chain[cur - 1].list_members ELSE 0
             p      == CaptureParser(P, member, index)
  <2>1. /\ chain' = [chain EXCEPT ![cur] = p]
        /\ cur' = cur /\ alloc' = alloc /\ Proceed /\ Keep
    BY <1>8, Zenon DEF React_ValueStart, P
  <2>2. index \in 0..(U16 - 1)
    <3>1. CASE member
      <4>1. cur > 0
        BY <3>1, Zenon DEF InList
      <4> QED
        BY <3>1, <4>1, Below, ParserFields, Zenon
    <3>2. CASE ~member
      BY <3>2, Widths, Zenon
    <3> QED
      BY <3>1, <3>2
  <2>3. member \in BOOLEAN
    BY <1>2
  <2> HIDE DEF member, index
  <2>4. p \in Parser /\ p.active = 1 /\ StateFits(member, p.parse_state)
    BY <1>2, <2>2, <2>3, CaptureTyped
  <2>5. Stack(chain', cur')
    BY <2>1, <2>4, StoreP DEF member
  <2> QED
    BY <1>3, <1>4, <2>1, <2>5, ProceedStep
<1>9. CASE React_ListItemComplete
  <2>1. /\ chain' = ResetAt(CountMember(chain, cur), cur)
        /\ cur' = cur /\ alloc' = alloc /\ Proceed /\ Release
    BY <1>9, Zenon DEF React_ListItemComplete
  <2>2. Stack(chain', cur')
    BY <1>1, <2>1, CountTyped, ResetAtTyped
  <2> QED
    BY <1>3, <1>4, <2>1, <2>2, ProceedStep
<1>10. CASE React_Complete
  <2>1. /\ chain' = CountMember(ResetAt(chain, cur), cur)
        /\ cur' = cur /\ alloc' = alloc /\ Proceed /\ Release
    BY <1>10, Zenon DEF React_Complete
  <2>2. Stack(chain', cur')
    BY <1>1, <2>1, CountTyped, ResetAtTyped
  <2> QED
    BY <1>3, <1>4, <2>1, <2>2, ProceedStep
<1>11. CASE React_ContainerComplete
  <2> DEFINE e == DropTo(cur)
             q == CountMember(ResetAt(DropParser(chain, cur), e), e)
             p == [q[e] EXCEPT !.char_skip = P.char_skip]
  <2>1. cur' = e /\ alloc' = alloc /\ Proceed /\ Release
    BY <1>11, Zenon DEF React_ContainerComplete
  <2>2. chain' = [q EXCEPT ![e] = p]
    BY <1>11, <2>1 DEF React_ContainerComplete
  <2>3. e \in 0..alloc
    BY <1>4, SMT DEF DropTo
  <2>4. Stack(q, e)
    BY <1>1, CountTyped, ResetAtTyped, DropTyped
  <2> HIDE DEF q, e
  <2>5. e \in 0..MaxDepth /\ e <= e /\ (e = 0 \/ (e \in 1..e /\ e > 0))
    <3>1. e \in 0..MaxDepth
      BY <2>4 DEF Stack
    <3> QED
      BY <3>1, AtOrAbove
  <2>6. q[e] \in Parser /\ q[e].active = 1
    BY <2>4, <2>5, StackFields
  <2>7. e = 0 \/ StateFits(InList(q, e), q[e].parse_state)
    BY <2>4, <2>5, Zenon DEF Stack, InList
  <2>8. p \in Parser
    BY <1>2, <2>6, ParserFields, Zenon DEF Parser
  <2>9. p.active = 1 /\ p.parse_state = q[e].parse_state
    BY <2>6, SMT DEF Parser
  <2> HIDE DEF p
  <2>10. Stack([q EXCEPT ![e] = p], e)
    BY <2>4, <2>7, <2>8, <2>9, UpdateTop
  <2> QED
    BY <1>3, <1>4, <2>1, <2>2, <2>3, <2>10, ProceedStep
<1> QED
  BY <1>5, <1>6, <1>7, <1>8, <1>9, <1>10, <1>11 DEF React

--------------------------------------------------------------------------------
\* Every step of the system keeps the invariant.
LEMMA InvNext ==
  ASSUME IInv, [Next]_vars
  PROVE  IInv'
<1>1. CASE Receive \/ Compact
  BY <1>1, InvHost
<1>2. CASE Call
  BY <1>2, InvCall
<1>3. CASE LoopExit
  <2>1. pc # "host" /\ ReturnToHost
    BY <1>3, Zenon DEF LoopExit
  <2> QED
    BY <2>1, InvReturnToHost
<1>4. CASE Dispatch
  BY <1>4, InvDispatch
<1>5. CASE Scan
  BY <1>5, InvAdvanceKey, InvParseKey, InvAdvanceValue, InvCaptureValue, InvScanEnd DEF Scan
<1>6. CASE Tokenize
  BY <1>6, InvTokenize
<1>7. CASE React
  BY <1>7, InvReact
<1>8. CASE UNCHANGED vars
  <2>1. ScalarsOK /\ CursorInBuffer /\ TokenizesKey /\ Stack(chain, cur)
    BY InvParts
  <2>2. UNCHANGED <<doc, base, size, pos, previous_buffer_pos, buffer_pos_offset, retrace,
                    cur, result, pc, chain, alloc>>
    BY <1>8, Zenon DEF vars, hostVars, globalVars, localVars
  <2>3. ScalarsOK'
    BY <2>1, <2>2, Zenon DEF ScalarsOK
  <2>4. CursorInBuffer' /\ TokenizesKey'
    BY <2>1, <2>2, Zenon DEF CursorInBuffer, TokenizesKey, P
  <2>5. Stack(chain', cur')
    BY <2>1, <2>2, Zenon
  <2> QED
    BY <2>3, <2>4, <2>5, PartsInv
<1> QED
  BY <1>1, <1>2, <1>3, <1>4, <1>5, <1>6, <1>7, <1>8 DEF Next, Running

\* The inductive invariant holds in every behaviour, fair or not.
THEOREM Invariance == Spec => []IInv
<1>1. Init => IInv
  BY InvInit
<1>2. IInv /\ [Next]_vars => IInv'
  BY InvNext
<1> QED
  BY <1>1, <1>2, PTL DEF Spec

\* TypeOK: no field, offset or counter leaves the range of its C type, whatever
\* the document, its split into calls and the bytes dropped in between.
THEOREM TypeCorrect == Spec => []TypeOK
<1>1. IInv => TypeOK
  BY DEF IInv
<1> QED
  BY <1>1, Invariance, PTL

\* ChainIsStack: top_parser always finds the parser at work, at every depth.
THEOREM StackCorrect == Spec => []ChainIsStack
<1>1. IInv => ChainIsStack
  BY DEF IInv
<1> QED
  BY <1>1, Invariance, PTL

\* StateFitsParent: members of lists and of structs are never confused.
THEOREM MembersCorrect == Spec => []StateFitsParent
<1>1. IInv => StateFitsParent
  BY DEF IInv
<1> QED
  BY <1>1, Invariance, PTL

\* CursorInBuffer: neither buffer_pos nor the tokenizer leaves what has been
\* received, in buffers longer than the 16-bit offsets can tell as well.
THEOREM CursorCorrect == Spec => []CursorInBuffer
<1>1. IInv => CursorInBuffer
  BY DEF IInv
<1> QED
  BY <1>1, Invariance, PTL
================================================================================
