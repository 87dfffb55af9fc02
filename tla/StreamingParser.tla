---------------------------- MODULE StreamingParser ----------------------------
(******************************************************************************)
(* json_streaming_parser and its delegates (src/streaming-parser.c), driven   *)
(* by a host that owns the buffer.                                            *)
(*                                                                            *)
(* The host appends the bytes of a document in pieces of any size, may drop   *)
(* bytes in front of buffer_pos between two calls, and calls the parser with  *)
(* or without news.  One action is one round of a loop of the code: of the    *)
(* main loop, of the scan loop of a delegate, or of the tokenizer.            *)
(******************************************************************************)
EXTENDS Integers, Callbacks

CONSTANTS
  Docs,   \* the documents the host may be receiving, sequences of characters
  Leads   \* how many foreign bytes (headers, say) may precede one in the buffer

ASSUME DocsAssumption == \A d \in Docs : d \in Seq(Chars)
ASSUME LeadsAssumption == Leads \subseteq Nat

Results ==
  ParseStates \cup {"PARSE_KEY_COMPLETE", "ADVANCE_VALUE_COMPLETE", "LIST_ITEM_COMPLETE",
                    "END_OF_BUFFER", "ERROR"}

VARIABLES
  doc,      \* the document on its way
  base,     \* the position in doc of the first byte of the buffer
  size,     \* req->buffer_size: the end of the received bytes in the buffer
  pos,      \* req->buffer_pos
  previous_buffer_pos, buffer_pos_offset,   \* the static variables
  retrace,  \* buffer_pos_retrace, a local of json_streaming_parser
  cur,      \* the depth of its local parser
  result,   \* the value of its local r
  pc,       \* where the call stands: host, loop, token, scan or react
  chain,    \* the parsers by depth
  alloc,    \* the depth of the last parser allocated
  events,   \* what the callback has been told so far (a history variable)
  app       \* what the application has understood of it

hostVars   == <<doc, base, size>>
globalVars == <<previous_buffer_pos, buffer_pos_offset>>
localVars  == <<retrace, cur>>
vars == <<hostVars, pos, globalVars, localVars, result, pc, chain, alloc, events, app>>

--------------------------------------------------------------------------------
DoubleQuote == "\""
SingleQuote == "'"
Backslash   == "\\"
Quotes      == {DoubleQuote, SingleQuote}
Digits      == {"0", "1", "2", "3", "4", "5", "6", "7", "8", "9"}
Letters     ==
  {"a", "b", "c", "d", "e", "f", "g", "h", "i", "j", "k", "l", "m", "n", "o", "p", "q", "r",
   "s", "t", "u", "v", "w", "x", "y", "z",
   "A", "B", "C", "D", "E", "F", "G", "H", "I", "J", "K", "L", "M", "N", "O", "P", "Q", "R",
   "S", "T", "U", "V", "W", "X", "Y", "Z"}

\* The characters of a key without quotes.
KeyChars == Digits \cup Letters \cup {"_"}

\* req->buffer: the bytes before buffer_size; those before the document are not ours.
Buffer == [i \in 0..(size - 1) |-> IF base + i >= 0 THEN doc[base + i + 1] ELSE Nul]

\* The n bytes from offset s on; past buffer_size there is stale memory.
Bytes(s, n) == [i \in 1..n |-> IF s + i - 1 \in DOMAIN Buffer THEN Buffer[s + i - 1] ELSE Nul]

Char == Buffer[pos]
P    == chain[cur]

\* buffer_pos as the uint16_t fields of a parser store it.
Offset == pos % U16

--------------------------------------------------------------------------------
(* What a callback can see: the state it is called with, the parser, and what *)
(* the extract functions would read through it.  Positions are positions in   *)
(* the document, so that they mean the same however the buffer was moved.     *)

\* json_parser__extract_key.
ExtractKey(p) ==
  IF p.key_close <= p.key_start THEN <<>>
  ELSE LET quoted == IF Bytes(p.key_start, 1)[1] \in Quotes THEN 1 ELSE 0
       IN  Bytes(p.key_start + quoted, p.key_close - p.key_start - quoted)

KeyEvent(d) ==
  [state |-> "PARSE_KEY_COMPLETE", depth |-> d, token |-> chain[d].token, key |-> ExtractKey(chain[d])]

\* PS_EXTRACT_VALUE for the value opened at depth d; q is the chain the callback
\* sees and e the depth it is called at, d + 1 when the value is a container.
\* Key and token are the application's business only inside a struct.
ExtractEvent(q, d, e) ==
  LET member == InStruct(q, d) IN
  [state |-> "EXTRACT_VALUE", depth |-> e, type |-> q[d].value_type,
   token |-> IF member THEN q[e].token ELSE 0, key |-> IF member THEN ExtractKey(q[e]) ELSE <<>>,
   index |-> q[e].list_index, from |-> base + q[e].value_start]

\* PS_COMPLETE and PS_LIST_ITEM_COMPLETE.
ValueEvent(state, d) ==
  LET member == InStruct(chain, d) IN
  [state |-> state, depth |-> d, type |-> chain[d].value_type,
   token |-> IF member THEN chain[d].token ELSE 0,
   key |-> IF member THEN ExtractKey(chain[d]) ELSE <<>>,
   index |-> chain[d].list_index,
   from |-> base + chain[d].value_start, to |-> base + chain[d].value_close]

\* PS_STRUCT_COMPLETE and PS_LIST_COMPLETE, with the number of list members.
CloseEvent(state, d) ==
  [state |-> state, depth |-> d,
   members |-> IF InList(chain, d) THEN chain[d - 1].list_members ELSE 0]

--------------------------------------------------------------------------------
\* init_json_parser with the static variables reset; the application then sets
\* parse_state as every test of the repository does.
Init ==
  /\ doc \in Docs
  /\ base \in {-n : n \in Leads}
  /\ size = -base
  /\ pos = -base
  /\ previous_buffer_pos = 0
  /\ buffer_pos_offset = 0
  /\ retrace = 0
  /\ cur = 0
  /\ result = "END_OF_BUFFER"
  /\ pc = "host"
  /\ chain = [d \in 0..MaxDepth |->
                IF d = 0 THEN [InitParser(Nul, -base) EXCEPT !.parse_state = "ADVANCE_VALUE"]
                ELSE Zeroed(TrieReset(Nul, -base))]
  /\ alloc = 0
  /\ events = <<>>
  /\ app = NothingHeard

\* The transport appends the next n bytes of the document to the buffer.
Receive ==
  /\ pc = "host"
  /\ \E n \in 1..(Len(doc) - (base + size)) : size' = size + n
  /\ UNCHANGED <<doc, base, pos, globalVars, localVars, result, pc, chain, alloc, events, app>>

\* The buffer manager drops n bytes that lie before buffer_pos.
Compact ==
  /\ pc = "host"
  /\ \E n \in 1..pos :
       /\ base' = base + n
       /\ size' = size - n
       /\ pos' = pos - n
  /\ UNCHANGED <<doc, globalVars, localVars, result, pc, chain, alloc, events, app>>

\* json_streaming_parser is called: account for what the host dropped, then go
\* on where the last call stopped.
Call ==
  /\ pc = "host"
  /\ chain' = IF previous_buffer_pos # pos
              THEN ShiftChain(chain, alloc, (previous_buffer_pos - pos) % U16) ELSE chain
  /\ previous_buffer_pos' = IF previous_buffer_pos # pos THEN Offset ELSE previous_buffer_pos
  /\ retrace' = Offset
  /\ pos' = pos + buffer_pos_offset
  /\ cur' = TopParser(chain, alloc, 0)
  /\ pc' = "loop"
  /\ UNCHANGED <<hostVars, buffer_pos_offset, result, alloc, events, app>>

\* Mutant: keeps the buffer from the current value on rather than from retrace.
ReturnToHost_FromValue ==
  /\ buffer_pos_offset' = (pos - P.value_start) % U16
  /\ pos' = P.value_start
  /\ pc' = "host"
  /\ UNCHANGED <<hostVars, previous_buffer_pos, localVars, result, chain, alloc, events, app>>

\* The way out of the call, keeping hold of everything since retrace.
ReturnToHost ==
  /\ buffer_pos_offset' = (pos - retrace) % U16
  /\ pos' = retrace
  /\ pc' = "host"
  /\ UNCHANGED <<hostVars, previous_buffer_pos, localVars, result, chain, alloc, events, app>>

LoopExit == pc = "loop" /\ pos >= size /\ ReturnToHost

\* Mutants: the buffer taken to end one byte early, or one byte late.
MustWait_Early(here) == here + 1 >= size
MustWait_Late(here)  == here > size

\* The byte that a pending char_skip leads to is not there yet.
MustWait(here) == here >= size

\* top_parser, then json_process up to its switch: honour a pending char_skip
\* and pick the delegate of the parse state.  PARSE_KEY first sets the tokenizer
\* to buffer_pos.
Dispatch ==
  /\ pc = "loop" /\ pos < size
  /\ cur' = TopParser(chain, alloc, cur)
  /\ LET p    == chain[cur']
         skip == p.char_skip
         here == pos + skip
     IN  IF MustWait(here)
         THEN /\ result' = "END_OF_BUFFER"
              /\ pc' = "react"
              /\ UNCHANGED <<pos, chain>>
         ELSE /\ pos' = here
              /\ chain' = [chain EXCEPT ![cur'] =
                   [p EXCEPT !.char_skip = 0,
                             !.trie.req_position = IF p.parse_state = "PARSE_KEY" THEN here ELSE @]]
              /\ CASE p.parse_state = "PARSE_KEY" -> pc' = "token" /\ UNCHANGED result
                   [] p.parse_state \in {"ADVANCE_KEY", "ADVANCE_VALUE", "ADVANCE_LIST_ITEM",
                                         "CAPTURE_VALUE", "CAPTURE_LIST_ITEM"} ->
                        pc' = "scan" /\ UNCHANGED result
                   [] p.parse_state \in {"LIST_COMPLETE", "COMPLETE"} ->
                        pc' = "react" /\ result' = p.parse_state
                   [] OTHER -> pc' = "react" /\ result' = "ERROR"
  /\ UNCHANGED <<hostVars, globalVars, retrace, alloc, events, app>>

--------------------------------------------------------------------------------
(* The delegates.  Scanning(S): the scan loop of the delegate for the parse   *)
(* states S has a character to look at.                                       *)

Scanning(S) == pc = "scan" /\ pos < size /\ P.parse_state \in S

\* What a round of a delegate never touches.
DelegateFrame == UNCHANGED <<hostVars, globalVars, localVars, alloc, events, app>>

\* The next character, with the parser left as p.
NextByte(p) ==
  /\ pos' = pos + 1
  /\ chain' = [chain EXCEPT ![cur] = p]
  /\ UNCHANGED <<result, pc>>
  /\ DelegateFrame

\* return r, with the chain left as q and buffer_pos where it is.
Return(r, q) ==
  /\ result' = r
  /\ pc' = "react"
  /\ chain' = q
  /\ UNCHANGED pos
  /\ DelegateFrame

\* The scan loop of any delegate ran out of input: step back onto the last
\* character, which the next call then reads again.
ScanEnd ==
  /\ pc = "scan" /\ pos >= size
  /\ pos' = IF pos > 0 /\ pos = size THEN pos - 1 ELSE pos
  /\ result' = "END_OF_BUFFER"
  /\ pc' = "react"
  /\ UNCHANGED chain
  /\ DelegateFrame

\* json_process__ADVANCE_KEY
StartKey(delimiter) ==
  [P EXCEPT !.parse_state   = "PARSE_KEY",
            !.key_start     = Offset,
            !.token         = 0,
            !.char_skip     = IF delimiter \in Quotes THEN 1 ELSE 0,
            !.in_d_quote    = IF delimiter = DoubleQuote THEN 1 ELSE @,
            !.d_quote_track = IF delimiter = DoubleQuote THEN 1 ELSE @,
            !.in_s_quote    = IF delimiter = SingleQuote THEN 1 ELSE @,
            !.s_quote_track = IF delimiter = SingleQuote THEN 1 ELSE @,
            !.trie          = TrieReset(delimiter, pos)]

AdvanceKey_Start ==
  /\ Scanning({"ADVANCE_KEY"}) /\ Char \in Quotes \cup KeyChars
  /\ Return("PARSE_KEY", [chain EXCEPT ![cur] =
        StartKey(IF Char \in Quotes THEN Char ELSE ":")])

AdvanceKey_Close ==
  /\ Scanning({"ADVANCE_KEY"}) /\ Char \in {"}", "]"}
  /\ Return(IF Char = "}" THEN "STRUCT_COMPLETE" ELSE "LIST_COMPLETE",
            [chain EXCEPT ![cur].char_skip = 1])

AdvanceKey_Skip ==
  /\ Scanning({"ADVANCE_KEY"}) /\ Char \notin Quotes \cup KeyChars \cup {"}", "]"}
  /\ NextByte(P)

--------------------------------------------------------------------------------
\* json_process__PARSE_KEY: noizu_trie__tokenize advances until something other
\* than CONTINUE, and what follows depends on why it stopped.
KeyDone(p) ==
  [p EXCEPT !.parse_state = "ADVANCE_VALUE", !.escape_char = 0,
            !.in_d_quote = 0, !.in_s_quote = 0, !.d_quote_track = 0, !.s_quote_track = 0]

Advanced == Advance(Encoding, P.trie, Buffer)
Token(p) == [p EXCEPT !.trie = Advanced.st]
OnDelimiter == Advanced.st.terminator = Advanced.st.delimiter

Tokenize_Continue ==
  /\ pc = "token" /\ Advanced.code = "CONTINUE"
  /\ chain' = [chain EXCEPT ![cur] = Token(@)]
  /\ UNCHANGED <<pos, result, pc>> /\ DelegateFrame

\* The key still may be a known one, but the buffer ends here.
Tokenize_BufferEnd ==
  /\ pc = "token" /\ Advanced.code = "BUFFER_END" /\ ~OnDelimiter
  /\ chain' = [chain EXCEPT ![cur] = Token(@)]
  /\ pos' = Advanced.st.req_position
  /\ result' = "END_OF_BUFFER" /\ pc' = "react"
  /\ DelegateFrame

\* Not a key of the trie: scan for its end from where the tokenizer started.
Tokenize_Unknown ==
  /\ pc = "token" /\ Advanced.code \notin {"CONTINUE", "BUFFER_END"} /\ ~OnDelimiter
  /\ chain' = [chain EXCEPT ![cur] = Token(@)]
  /\ pc' = "scan"
  /\ UNCHANGED <<pos, result>> /\ DelegateFrame

\* The tokenizer stopped on the delimiter of the key.
Tokenize_Key ==
  /\ pc = "token" /\ Advanced.code # "CONTINUE" /\ OnDelimiter
  /\ LET at == Advanced.st.req_position IN
     /\ pos' = at
     /\ chain' = [chain EXCEPT ![cur] =
          [KeyDone(Token(P)) EXCEPT
             !.key_close = at % U16,
             !.token     = Advanced.st.token,
             !.char_skip = IF P.in_d_quote = 1 \/ P.in_s_quote = 1 THEN 1 ELSE @]]
  /\ result' = "PARSE_KEY_COMPLETE" /\ pc' = "react"
  /\ DelegateFrame

\* The scan for the end of an unknown key.
KeyQuoted == P.in_d_quote = 1 \/ P.in_s_quote = 1

EndsQuotedKey ==
  \/ Char = DoubleQuote /\ P.in_s_quote = 0
  \/ Char = SingleQuote /\ P.in_d_quote = 0

EndsBareKey == ~KeyQuoted /\ Char \notin Quotes \cup KeyChars \cup {Backslash}

ParseKey_End ==
  /\ Scanning({"PARSE_KEY"}) /\ P.escape_char = 0 /\ (EndsQuotedKey \/ EndsBareKey)
  /\ Return("PARSE_KEY_COMPLETE", [chain EXCEPT ![cur] =
        [KeyDone(@) EXCEPT
           !.char_skip = IF EndsQuotedKey THEN 1 ELSE 0,
           !.key_close = IF EndsBareKey /\ pos > 0 THEN (pos - 1) % U16 ELSE Offset]])

ParseKey_Next ==
  /\ Scanning({"PARSE_KEY"}) /\ ~(P.escape_char = 0 /\ (EndsQuotedKey \/ EndsBareKey))
  /\ NextByte([P EXCEPT !.escape_char = IF @ = 0 /\ Char = Backslash THEN 1 ELSE 0])

--------------------------------------------------------------------------------
\* json_process__ADVANCE_VALUE: skip to the first character of a value.
ValueAdvance == {"ADVANCE_VALUE", "ADVANCE_LIST_ITEM"}

ValueTypeOf(c) ==
  CASE c = "{" -> "STRUCT"
    [] c = "[" -> "LIST"
    [] c = DoubleQuote -> "DOUBLE_QUOTE"
    [] c = SingleQuote -> "QUOTE"
    [] c = "t" -> "TRUE"
    [] c = "f" -> "FALSE"
    [] c = "n" -> "NULL"
    [] c \in Digits \cup {"-"} -> "NUMERIC"
    [] OTHER -> "ERROR"

Inc8(n) == (n + 1) % U8

\* Mutant: counts below zero instead of wrapping.
Dec8_Signed(n) == n - 1

Dec8(n) == (n + U8 - 1) % U8

\* The parent learns where it ended only when the closing character fits it.
AdvanceValue_Close ==
  /\ Scanning(ValueAdvance) /\ Char \in {"]", "}"}
  /\ LET list   == Char = "]"
         r      == IF list THEN "LIST_COMPLETE" ELSE "STRUCT_COMPLETE"
         q      == [chain EXCEPT ![cur] = [@ EXCEPT !.value_close = Offset, !.char_skip = 1]]
         fits   == IF list THEN InList(chain, cur) ELSE InStruct(chain, cur)
     IN  Return(r, IF fits
                   THEN [q EXCEPT ![cur - 1] = [@ EXCEPT !.parse_state = r, !.value_close = Offset]]
                   ELSE q)

\* A value type left from before this scan would be taken for the one found.
AdvanceValue_Start ==
  /\ Scanning(ValueAdvance) /\ Char \notin {"]", "}"}
  /\ ValueTypeOf(Char) # "ERROR" \/ P.value_type # "ERROR"
  /\ LET type == IF ValueTypeOf(Char) # "ERROR" THEN ValueTypeOf(Char) ELSE P.value_type IN
     Return("ADVANCE_VALUE_COMPLETE", [chain EXCEPT ![cur] =
       [P EXCEPT !.value_type    = type,
                 !.parse_state   = "CAPTURE_VALUE",
                 !.char_skip     = 1,
                 !.value_start   = Offset,
                 !.brace_track   = IF Char = "{" THEN Inc8(@) ELSE @,
                 !.bracket_track = IF Char = "[" THEN Inc8(@) ELSE @,
                 !.d_quote_track = IF Char = DoubleQuote THEN Inc8(@) ELSE @,
                 !.in_d_quote    = IF Char = DoubleQuote THEN 1 ELSE @,
                 !.s_quote_track = IF Char = SingleQuote THEN Inc8(@) ELSE @,
                 !.in_s_quote    = IF Char = SingleQuote THEN 1 ELSE @]])

AdvanceValue_Skip ==
  /\ Scanning(ValueAdvance) /\ Char \notin {"]", "}"}
  /\ ValueTypeOf(Char) = "ERROR" /\ P.value_type = "ERROR"
  /\ NextByte(P)

--------------------------------------------------------------------------------
\* json_process__CAPTURE_VALUE: follow quotes, escapes and brackets ...
ValueCapture == {"CAPTURE_VALUE", "CAPTURE_LIST_ITEM"}

Track(p, c) ==
  LET quoted == p.in_s_quote = 1 \/ p.in_d_quote = 1 IN
  CASE c = Backslash ->
         [p EXCEPT !.escape_char = 1 - @]
    [] c \in Quotes /\ p.escape_char = 1 ->
         [p EXCEPT !.escape_char = 0]
    [] c = SingleQuote /\ p.escape_char = 0 /\ p.in_d_quote = 0 ->
         [p EXCEPT !.s_quote_track = IF p.in_s_quote = 1 THEN Dec8(@) ELSE Inc8(@)]
    [] c = DoubleQuote /\ p.escape_char = 0 /\ p.in_s_quote = 0 ->
         [p EXCEPT !.d_quote_track = IF p.in_d_quote = 1 THEN Dec8(@) ELSE Inc8(@)]
    [] c \in {"[", "]"} /\ ~quoted ->
         [p EXCEPT !.bracket_track = IF c = "[" THEN Inc8(@) ELSE Dec8(@)]
    [] c \in {"{", "}"} /\ ~quoted ->
         [p EXCEPT !.brace_track = IF c = "{" THEN Inc8(@) ELSE Dec8(@)]
    [] c \notin Quotes \cup {Backslash, "[", "]", "{", "}"} ->
         [p EXCEPT !.escape_char = 0]
    [] OTHER -> p

\* ... and decide after each character whether the value ends with it.
\* buffer_pos - value_start is unsigned: a start beyond buffer_pos is far away.
Farther(p, n) == pos < p.value_start \/ pos - p.value_start > n
Spells(p, word) ==
  /\ pos = p.value_start + Len(word) - 1
  /\ Bytes(p.value_start, Len(word)) = word

LiteralVerdict(p, c, word) ==
  CASE c # word[Len(word)] -> "next"
    [] c = word[Len(word)] /\ Spells(p, word) -> "complete"
    [] OTHER -> "error"

Verdict(p, c) ==
  CASE p.value_type \in {"TRUE", "FALSE"} ->
         IF Farther(p, 4) THEN "error"
         ELSE LiteralVerdict(p, c, IF p.value_type = "TRUE" THEN <<"t", "r", "u", "e">>
                                   ELSE <<"f", "a", "l", "s", "e">>)
    [] p.value_type = "NULL" ->
         IF Farther(p, 3) THEN "error"
         ELSE IF c = "l" /\ p.null_track = 0 THEN "first_l"
         ELSE LiteralVerdict(p, c, <<"n", "u", "l", "l">>)
    [] p.value_type = "NUMERIC" -> IF c \in Digits \cup {"."} THEN "next" ELSE "before"
    [] p.value_type = "QUOTE" -> IF p.s_quote_track = 0 THEN "complete" ELSE "next"
    [] p.value_type = "DOUBLE_QUOTE" -> IF p.d_quote_track = 0 THEN "complete" ELSE "next"
    [] p.value_type = "LIST" -> IF p.bracket_track = 0 THEN "complete" ELSE "next"
    [] p.value_type = "STRUCT" -> IF p.brace_track = 0 THEN "complete" ELSE "next"
    [] OTHER -> "next"

\* An unquoted ] that balances the brackets of a list member ends the list.
BracketExit == Char = "]" /\ InList(chain, cur) /\ Track(P, Char).bracket_track = 0
               /\ P.in_s_quote = 0 /\ P.in_d_quote = 0

Judged == Verdict(Track(P, Char), Char)

CaptureValue_BracketExit ==
  /\ Scanning(ValueCapture) /\ BracketExit
  /\ Return("LIST_COMPLETE", [chain EXCEPT ![cur] =
        [Track(P, Char) EXCEPT !.parse_state = "LIST_COMPLETE"]])

\* Mutant: the value keeps the type that its text does not fit.
CaptureValue_Error_Typed ==
  /\ Scanning(ValueCapture) /\ ~BracketExit /\ Judged = "error"
  /\ Return("ERROR", [chain EXCEPT ![cur] = Track(P, Char)])

CaptureValue_Error ==
  /\ Scanning(ValueCapture) /\ ~BracketExit /\ Judged = "error"
  /\ Return("ERROR", [chain EXCEPT ![cur] =
        [Track(P, Char) EXCEPT !.value_type = "ERROR"]])

\* "before": a number ends in front of the character that ends it.
CaptureValue_Complete ==
  /\ Scanning(ValueCapture) /\ ~BracketExit /\ Judged \in {"complete", "before"}
  /\ LET after == Judged = "complete"
         known == after \/ pos > 0
         close == IF after THEN Offset ELSE (pos - 1) % U16
         p == [Track(P, Char) EXCEPT
                 !.char_skip   = IF after THEN 1 ELSE @,
                 !.value_close = IF known THEN close ELSE @,
                 !.parse_state = IF InList(chain, cur) THEN "ADVANCE_LIST_ITEM" ELSE "COMPLETE"]
         q == [chain EXCEPT ![cur] = p]
     IN  Return(IF InList(chain, cur) THEN "LIST_ITEM_COMPLETE" ELSE "COMPLETE",
                IF known /\ cur > 0 THEN [q EXCEPT ![cur - 1].value_close = close] ELSE q)

CaptureValue_Next ==
  /\ Scanning(ValueCapture) /\ ~BracketExit /\ Judged \in {"next", "first_l"}
  /\ NextByte([Track(P, Char) EXCEPT
       !.value_close = Offset,
       !.null_track  = IF Judged = "first_l" THEN 1 ELSE @,
       !.char_skip   = IF Judged = "first_l" THEN 1 ELSE @])

--------------------------------------------------------------------------------
(* The switch of json_streaming_parser on the result. *)
Reacting(S) == pc = "react" /\ result \in S

\* Back to the main loop; unless the buffer may be dropped up to here.
Proceed == pc' = "loop" /\ UNCHANGED <<hostVars, pos, buffer_pos_offset, result>>
Keep    == UNCHANGED <<previous_buffer_pos, retrace>>
Release == previous_buffer_pos' = Offset /\ retrace' = Offset

\* The callback is called.
Tell(e) ==
  /\ events' = Append(events, e)
  /\ app' = Told(app, e)

React_EndOfBuffer == Reacting({"END_OF_BUFFER"}) /\ ReturnToHost

\* Results that need nothing done, and errors, which are only logged.
React_Nothing ==
  /\ Reacting({"PARSE_KEY", "ERROR"})
  /\ Proceed /\ Keep
  /\ UNCHANGED <<cur, chain, alloc, events, app>>

React_KeyComplete ==
  /\ Reacting({"PARSE_KEY_COMPLETE"})
  /\ Tell(KeyEvent(cur))
  /\ Proceed /\ Keep
  /\ UNCHANGED <<cur, chain, alloc>>

React_ContainerStart ==
  /\ Reacting({"ADVANCE_VALUE_COMPLETE"}) /\ P.value_type \in Containers
  /\ cur < MaxDepth
  /\ LET q == SpawnParser(chain, alloc, cur, pos) IN
     /\ chain' = q
     /\ Tell(ExtractEvent(q, cur, cur + 1))
  /\ alloc' = IF cur + 1 > alloc THEN cur + 1 ELSE alloc
  /\ cur' = cur + 1
  /\ Proceed /\ Keep

\* Start over as a parser that captures the value found.
CaptureParser(p, in_list, index) ==
  [ResetParser(p, in_list) EXCEPT
     !.key_start   = p.key_start,
     !.key_close   = p.key_close,
     !.token       = p.token % U8,
     !.value_start = p.value_start,
     !.value_type  = p.value_type,
     !.list_index  = index,
     !.d_quote_track = IF p.value_type = "DOUBLE_QUOTE" THEN 1 ELSE @,
     !.in_d_quote    = IF p.value_type = "DOUBLE_QUOTE" THEN 1 ELSE @,
     !.s_quote_track = IF p.value_type = "QUOTE" THEN 1 ELSE @,
     !.in_s_quote    = IF p.value_type = "QUOTE" THEN 1 ELSE @,
     !.parse_state   = IF in_list THEN "CAPTURE_LIST_ITEM" ELSE "CAPTURE_VALUE"]

React_ValueStart ==
  /\ Reacting({"ADVANCE_VALUE_COMPLETE"}) /\ P.value_type \notin Containers
  /\ LET member == InList(chain, cur)
         q == [chain EXCEPT ![cur] =
                 CaptureParser(@, member, IF member THEN chain[cur - 1].list_members ELSE 0)]
     IN  /\ chain' = q
         /\ Tell(ExtractEvent(q, cur, cur))
  /\ Proceed /\ Keep
  /\ UNCHANGED <<cur, alloc>>

React_ListItemComplete ==
  /\ Reacting({"LIST_ITEM_COMPLETE"})
  /\ Tell(ValueEvent("LIST_ITEM_COMPLETE", cur))
  /\ chain' = ResetAt(CountMember(chain, cur), cur)
  /\ Proceed /\ Release
  /\ UNCHANGED <<cur, alloc>>

React_Complete ==
  /\ Reacting({"COMPLETE"})
  /\ Tell(ValueEvent("COMPLETE", cur))
  /\ chain' = CountMember(ResetAt(chain, cur), cur)
  /\ Proceed /\ Release
  /\ UNCHANGED <<cur, alloc>>

\* PS_LIST_COMPLETE and PS_STRUCT_COMPLETE: hand the work back to the parent,
\* which is reset as well and goes on with the skip of the parser dropped.
React_ContainerComplete ==
  /\ Reacting({"LIST_COMPLETE", "STRUCT_COMPLETE"})
  /\ Tell(CloseEvent(result, cur))
  /\ cur' = DropTo(cur)
  /\ chain' = [CountMember(ResetAt(DropParser(chain, cur), cur'), cur')
                 EXCEPT ![cur'].char_skip = P.char_skip]
  /\ Proceed /\ Release
  /\ UNCHANGED alloc

--------------------------------------------------------------------------------
Scan ==
  \/ AdvanceKey_Start \/ AdvanceKey_Close \/ AdvanceKey_Skip
  \/ ParseKey_End \/ ParseKey_Next
  \/ AdvanceValue_Close \/ AdvanceValue_Start \/ AdvanceValue_Skip
  \/ CaptureValue_BracketExit \/ CaptureValue_Error
  \/ CaptureValue_Complete \/ CaptureValue_Next
  \/ ScanEnd

Tokenize ==
  \/ Tokenize_Continue \/ Tokenize_BufferEnd \/ Tokenize_Unknown \/ Tokenize_Key

React ==
  \/ React_EndOfBuffer \/ React_Nothing \/ React_KeyComplete
  \/ React_ContainerStart \/ React_ValueStart
  \/ React_ListItemComplete \/ React_Complete \/ React_ContainerComplete

\* The steps of a call in progress.
Running == LoopExit \/ Dispatch \/ Scan \/ Tokenize \/ React

Next == Receive \/ Compact \/ Call \/ Running

Spec == Init /\ [][Next]_vars

\* A call that was started runs, the host calls again whenever it has the
\* control, and the transport delivers the rest of the document.
FairSpec ==
  /\ Spec
  /\ WF_vars(Running)
  /\ WF_vars(Call)
  /\ SF_vars(Receive)

--------------------------------------------------------------------------------
\* Every variable holds what its C type and the code that writes it allow; in
\* particular the local parser is one that has been allocated.
TypeOK ==
  /\ doc \in Seq(Chars)
  /\ base \in Int /\ size \in Nat /\ pos \in Nat
  /\ base + size <= Len(doc)
  /\ previous_buffer_pos \in 0..(U16 - 1) /\ buffer_pos_offset \in 0..(U16 - 1)
  /\ retrace \in 0..(U16 - 1)
  /\ result \in Results
  /\ pc \in {"host", "loop", "token", "scan", "react"}
  /\ chain \in [0..MaxDepth -> Parser]
  /\ alloc \in 0..MaxDepth /\ cur \in 0..alloc

\* The chain is a stack: exactly the parsers down to the one at work are active,
\* and every one above it is an open list or struct.  So top_parser finds the
\* parser at work from the base and from the local parser alike, and a parser
\* left over from a closed container is never mistaken for it.
ChainIsStack ==
  /\ \A d \in 0..MaxDepth : chain[d].active = 1 <=> d <= cur
  /\ \A d \in 0..(cur - 1) : chain[d].value_type \in Containers

\* A parser below a list advances and captures list items and never looks for a
\* key; one below a struct never collects list items.  What a member is reported
\* as, and which list counts it, depends on this.
StateFitsParent ==
  \A d \in 1..cur :
    IF chain[d - 1].value_type = "LIST"
    THEN chain[d].parse_state \notin {"ADVANCE_KEY", "PARSE_KEY", "ADVANCE_VALUE", "COMPLETE"}
    ELSE chain[d].parse_state \notin {"ADVANCE_LIST_ITEM", "CAPTURE_LIST_ITEM"}

\* The cursors of a call stay inside the received bytes and behind one another:
\* buffer_pos never passes buffer_size, not even when it is put back to where the
\* last call stopped in a buffer compacted since; retrace never passes
\* buffer_pos, so the offset remembered for the next call is not negative; and
\* the tokenizer only ever stands on a byte that has been received.
CursorInBuffer ==
  /\ pos <= size
  /\ pc = "host" => pos + buffer_pos_offset <= size
  /\ pc # "host" => retrace <= pos
  /\ pc = "scan" /\ pos = size => retrace < pos
  /\ pc = "token" => P.trie.req_position \in pos..(size - 1)

\* The host may drop everything before buffer_pos once the call has returned, so
\* what the parser at work still needs has to lie at or behind retrace; and the
\* offsets that survived earlier drops still point at what they were set for:
\* the first character of the value being captured, and the two ends of its key.
LiveKeyStart ==
  /\ P.key_start \in retrace..(size - 1)
  /\ Buffer[P.key_start] \in IF P.trie.delimiter \in Quotes THEN {P.trie.delimiter} ELSE KeyChars

LiveKey ==
  /\ LiveKeyStart
  /\ P.key_close \in P.key_start..(size - 1)

LiveValue ==
  /\ P.value_start \in retrace..(size - 1)
  /\ ValueTypeOf(Buffer[P.value_start]) = P.value_type

LiveOffsets ==
  pc # "host" =>
    /\ P.parse_state = "PARSE_KEY" => LiveKeyStart
    /\ P.parse_state \in {"ADVANCE_VALUE", "CAPTURE_VALUE"} /\ InStruct(chain, cur) => LiveKey
    /\ P.parse_state \in ValueCapture /\ P.value_type # "ERROR" => LiveValue

\* Every callback comes at the depth of the containers announced and not yet
\* closed, members of a list and only those come as list items with consecutive
\* indices, the end of a list tells their number; and the parsers alive are the
\* containers the application believes to be open.
CallbacksNest == app.ok /\ Inside(app) = cur

\* A call comes back only when it has looked at every byte received, the last
\* one at most being left to be looked at again.
CallReadsAll ==
  [][pc # "host" /\ pc' = "host" => pos' + buffer_pos_offset' + 1 >= size']_vars

\* What a call gave up is never asked for again: the point up to which the host
\* may drop bytes, as a position in the document, only moves forward.
ReleasedUpTo == IF pc = "host" THEN base + pos ELSE base + retrace
ReleaseIsFinal == [][ReleasedUpTo' >= ReleasedUpTo]_vars

\* No input makes a call spin: each one hands the control back to the host.
CallReturns == pc # "host" ~> pc = "host"
================================================================================
