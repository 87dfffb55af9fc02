------------------------------- MODULE TrieTables -------------------------------
(******************************************************************************)
(* The tokenizer on its three tables: src/noizu_trie/trie_array, trie_struct  *)
(* and trie_compact.  A position is a row of a table; the compact table is a  *)
(* stream of bits.  It implements Tokenizer, where a position is a prefix of  *)
(* keys.                                                                      *)
(******************************************************************************)
EXTENDS Integers, Sequences, SequencesExt

CONSTANTS
  Chars, Words, CharCode, Texts, Delimiters, OptionSets,  \* as in Tokenizer
  SignedChar,   \* is char signed, as on x86, or unsigned, as on the target
  Rows,         \* the table of the array encoding; row 0 is the first
  TrieLength,   \* the trie_length given with it
  CharTable,    \* char_map: the characters of the keys
  CharBits, SiblingBits, ChildBits,  \* the widths of the fields of a compact record
  Raw,          \* trie_raw: the bytes of the compact table
  ByteIndex,    \* the modulus of the uint16_t EXTRACT_BIN_FIELD counts bytes with
  U8,           \* the modulus of the uint8_t len of json_parser__extract_token
  TokenSigned, TokenModulus  \* the bit-field nullable_token_t.value

VARIABLES encoding, options, text, received, from, resumed, state, code

vars == <<encoding, options, text, received, from, resumed, state, code>>

Trie == INSTANCE NoizuTrie WITH Options <- options

Row(i) == Rows[i + 1]
RecordBits == CharBits + SiblingBits + ChildBits

\* What a generator has to deliver: links that lead on in the table, rows that fit
\* the units of the array encoding, bits whose bytes can be counted, and no key
\* that a signed char cannot hold.
ASSUME TablesAssumption ==
  /\ Rows \in Seq([char : Chars, sibling : Nat, child : Nat, token : Nat])
  /\ CharTable \in Seq(Chars) /\ SignedChar \in BOOLEAN /\ TrieLength \in Nat
  /\ \A i \in DOMAIN Rows : {Rows[i].sibling, Rows[i].child} \subseteq {0} \cup (i..(Len(Rows) - 1))
  /\ Len(Rows) <= TrieLength /\ TrieLength < 256
  /\ Len(Rows) * RecordBits < 8 * ByteIndex
  /\ SignedChar => \A i \in DOMAIN CharTable : CharCode[CharTable[i]] < 128

--------------------------------------------------------------------------------
(* The walks: where the character c leads from a position, 0 for nowhere.     *)

\* A byte passed as a char.
Promoted(c) == IF SignedChar /\ CharCode[c] >= 128 THEN CharCode[c] - 256 ELSE CharCode[c]

\* Mutant: looks at the first child only.
ArrayChild_First(c, position) ==
  LET first == Row(position).child
  IN  IF position # 0 /\ first # 0 /\ CharCode[Row(first).char] = Promoted(c) THEN first ELSE 0

\* noizu_trie_a_advance: along the siblings as long as they are sorted before c.
ArrayChild(c, position) ==
  LET Search[i \in 0..(Len(Rows) - 1)] ==
        IF i = 0 \/ CharCode[Row(i).char] = Promoted(c) THEN i
        ELSE IF CharCode[Row(i).char] < Promoted(c) THEN Search[Row(i).sibling] ELSE 0
  IN  IF position = 0 THEN 0 ELSE Search[Row(position).child]

\* The table of the struct encoding.
Struct(i) ==
  [key |-> CharCode[Row(i).char], next_sibling |-> Row(i).sibling,
   first_child |-> Row(i).child, termination_code |-> Row(i).token]

\* noizu_trie_s_advance.
StructChild(c, position) ==
  LET Search[i \in 0..(Len(Rows) - 1)] ==
        IF i = 0 \/ Struct(i).key = Promoted(c) THEN i
        ELSE IF Struct(i).key < Promoted(c) THEN Search[Struct(i).next_sibling] ELSE 0
  IN  IF position = 0 THEN 0 ELSE Search[Struct(position).first_child]

\* EXTRACT_BIN_FIELD: the first byte from bit_offset on, whole bytes until there
\* are enough bits, and the excess shifted out.  Behind the table it reads zeros.
BlobAt(byte) == IF byte < Len(Raw) THEN Raw[byte + 1] ELSE 0

ExtractField(byte, bit_offset, bits) ==
  LET first  == 8 - bit_offset
      more   == IF first < bits THEN (bits - first + 7) \div 8 ELSE 0
      Scrape[k \in 0..more] ==
        IF k = 0 THEN BlobAt(byte) % 2^first
                 ELSE Scrape[k - 1] * 256 + BlobAt((byte + k) % ByteIndex)
  IN  Scrape[more] \div 2^(first + 8 * more - bits)

\* EXTRACT_TRIE_VALUE and the three macros that use it.
ExtractValue(index, gap, run) ==
  LET bit == index * RecordBits + gap
  IN  ExtractField((bit \div 8) % ByteIndex, bit % 8, run)

CharAt(index)      == ExtractValue(index, 0, CharBits)
SiblingJump(index) == ExtractValue(index, CharBits, SiblingBits)
ChildJump(index)   == ExtractValue(index, CharBits + SiblingBits, ChildBits)

\* char_code, generated with a table: the number of a character, 0 if it is in no key.
CodeOf(c) == IF \E i \in DOMAIN CharTable : CharTable[i] = c
             THEN CHOOSE i \in DOMAIN CharTable : CharTable[i] = c ELSE 0

\* Mutant: a mismatch that runs out of siblings falls into the well, too.
CompactSearch_Well(c, position) ==
  LET Search[i \in 0..(Len(Rows) - 2)] ==
        CASE CharAt(i) = CodeOf(c) -> [index |-> i, found |-> TRUE]
          [] CharAt(i) # CodeOf(c) /\ CharCode[CharTable[CharAt(i)]] < CharCode[c]
               /\ SiblingJump(i) # 0 -> Search[i + SiblingJump(i)]
          [] OTHER -> [index |-> 0, found |-> FALSE]
  IN  IF ChildJump(position) = 0 THEN [index |-> position, found |-> FALSE]
      ELSE Search[position + ChildJump(position)]

\* The walk inside noizu_trie__compact__advance, by relative jumps: where it ends
\* and whether it has found c.
CompactSearch(c, position) ==
  LET Stay(i) == [index |-> i, found |-> FALSE]
      Search[i \in 0..(Len(Rows) - 2)] ==
        IF CharAt(i) \notin 1..Len(CharTable) THEN Stay(i)
        ELSE IF CharAt(i) = CodeOf(c) THEN [index |-> i, found |-> TRUE]
        ELSE IF CharCode[CharTable[CharAt(i)]] >= CharCode[c] THEN Stay(0)
        ELSE IF SiblingJump(i) = 0 THEN Stay(i)
        ELSE Search[i + SiblingJump(i)]
  IN  IF ChildJump(position) = 0 THEN Stay(position)
      ELSE Search[position + ChildJump(position)]

--------------------------------------------------------------------------------
(* The part of the three advance functions behind the walk, the same in all   *)
(* but for their tables: s has read c, the walk ended at the row index.       *)

LeaveTable(s, c, index, token) ==
  [s EXCEPT !.position = index, !.terminator = c,
            !.token = IF options.keep_last_token \/ token = 0 THEN @ ELSE token]

EnterRow(s, index, token) ==
  [s EXCEPT !.position = index, !.token = IF options.keep_last_token THEN token ELSE @]

EndOfBuffer(s, token) ==
  [s EXCEPT !.skip_next = 1,
            !.token = IF options.end_of_buffer_token /\ ~options.keep_last_token THEN token ELSE @]

\* tokens are those of the rows of the table at hand, length what it says its length is.
Conclude(s, c, walk, tokens, length) ==
  LET in == EnterRow(s, walk.index, tokens[walk.index])
  IN  CASE walk.index >= length -> [code |-> "NO_MATCH", st |-> s]
        [] walk.index < length /\ ~walk.found ->
             [code |-> "EXIT", st |-> LeaveTable(s, c, walk.index, tokens[s.position])]
        [] walk.index < length /\ walk.found /\ s.req_position + 1 < received ->
             [code |-> "CONTINUE", st |-> [in EXCEPT !.req_position = @ + 1]]
        [] OTHER -> [code |-> "BUFFER_END", st |-> EndOfBuffer(in, tokens[walk.index])]

Found(index) == [index |-> index, found |-> index # 0]

ArrayAdvance(s, c) ==
  LET tokens == [i \in 0..(Len(Rows) - 1) |-> Row(i).token]
  IN  Conclude(s, c, Found(IF Trie!HardDelim(s, c) THEN 0 ELSE ArrayChild(c, s.position)),
               tokens, TrieLength)

StructAdvance(s, c) ==
  LET tokens == [i \in 0..(Len(Rows) - 1) |-> Struct(i).termination_code]
  IN  Conclude(s, c, Found(IF Trie!HardDelim(s, c) THEN 0 ELSE StructChild(c, s.position)),
               tokens, TrieLength)

\* The compact table starts with the root, which is also where the well is: after
\* the first walk, initialized tells them apart.  token_code is generated.
CompactAdvance(s, c) ==
  LET tokens == [i \in 0..(Len(Rows) - 2) |-> Row(i + 1).token]
      well   == s.position = 0 /\ s.initialized
      walks  == ~Trie!HardDelim(s, c) /\ ~well /\ CodeOf(c) # 0
  IN  Conclude([s EXCEPT !.initialized = @ \/ walks], c,
               IF walks THEN CompactSearch(c, s.position)
                        ELSE [index |-> s.position, found |-> FALSE],
               tokens, Len(Rows) - 1)

Buffer == [i \in 0..(received - 1) |-> text[i + 1]]

\* One call of the advance function of the encoding.  noizu_trie__next_char is
\* shared and taken from NoizuTrie.
TableAdvance(s) ==
  LET n == Trie!NextChar(s, Buffer)
  IN  CASE ~n.ok -> [code |-> "BUFFER_END_ON_SKIP", st |-> n.st]
        [] n.ok /\ encoding = "array"   -> ArrayAdvance(n.st, n.c)
        [] n.ok /\ encoding = "struct"  -> StructAdvance(n.st, n.c)
        [] n.ok /\ encoding = "compact" -> CompactAdvance(n.st, n.c)

\* What nullable_token_t.value keeps of a token, a uint32_t: its lower bits, of which the
\* highest may be a sign.
TokenValue(token) ==
  LET kept == token % TokenModulus
  IN  IF TokenSigned /\ kept >= TokenModulus \div 2 THEN kept - TokenModulus ELSE kept

\* Mutant: takes a beginning of the value that is a key for the value.
ExtractedToken_Any(start, close) ==
  IF state.token # 0 THEN [null |-> FALSE, value |-> TokenValue(state.token)]
                     ELSE [null |-> TRUE, value |-> 0]

\* json_parser__extract_token, of a value from start to close: what it leaves in out.
\* It has reset the state to the character behind start and tokenized.
ExtractedToken(start, close) ==
  IF state.req_position = start + ((close - start) % U8) /\ state.token # 0
  THEN [null |-> FALSE, value |-> TokenValue(state.token)]
  ELSE [null |-> TRUE, value |-> 0]

\* noizu_trie__init and noizu_trie__reset with the init function of the encoding.
TableReset(delimiter, position) ==
  [position     |-> IF encoding = "compact" THEN 0 ELSE 1,
   req_position |-> position, skip_next |-> 0, escape |-> 0, terminator |-> Trie!Nul,
   token |-> 0, delimiter |-> delimiter, initialized |-> FALSE]

--------------------------------------------------------------------------------
Init ==
  /\ encoding \in Trie!Encodings /\ options \in OptionSets
  /\ text \in Texts /\ received \in 2..Len(text)
  /\ from = 1 /\ resumed = FALSE
  /\ \E delimiter \in Delimiters : state = TableReset(delimiter, 1)
  /\ code = "CONTINUE"

\* One round of the loop of noizu_trie__tokenize.
Step ==
  /\ code # "EXIT"
  /\ LET a == TableAdvance(state) IN state' = a.st /\ code' = a.code
  /\ UNCHANGED <<encoding, options, text, received, from, resumed>>

Receive ==
  /\ code # "CONTINUE"
  /\ \E n \in (received + 1)..Len(text) : received' = n
  /\ UNCHANGED <<encoding, options, text, from, resumed, state, code>>

\* json_process__PARSE_KEY goes on at buffer_pos, behind a mismatch or not.
Resume ==
  /\ code = "EXIT" /\ resumed' = TRUE
  /\ state' = [state EXCEPT !.req_position = received - 1] /\ code' = "CONTINUE"
  /\ UNCHANGED <<encoding, options, text, received, from>>

Reset ==
  /\ code = "EXIT" /\ state.req_position + 1 < received
  /\ from' = state.req_position + 1 /\ resumed' = FALSE
  /\ \E delimiter \in Delimiters : state' = TableReset(delimiter, from')
  /\ code' = "CONTINUE"
  /\ UNCHANGED <<encoding, options, text, received>>

Next == Step \/ Receive \/ Resume \/ Reset
Spec == Init /\ [][Next]_vars

--------------------------------------------------------------------------------
\* The prefix of keys that leads to a row.
Path ==
  LET To[i \in 1..(Len(Rows) - 1)] ==
        IF i = 1 THEN <<>>
        ELSE IF \E j \in 1..(i - 1) : Row(j).child = i
        THEN Append(To[CHOOSE j \in 1..(i - 1) : Row(j).child = i], Row(i).char)
        ELSE Append(Front(To[CHOOSE j \in 1..(i - 1) : Row(j).sibling = i]), Row(i).char)
  IN  SubSeq(To, 1, Len(Rows) - 1)

TrieRows == 1..(Len(Rows) - 1)
CodeAt(i) == CharCode[Row(i).char]
Children(i) == {j \in TrieRows : Path[j] = Append(Path[i], Row(j).char)}
FirstOf(rows) ==
  IF rows = {} THEN 0 ELSE CHOOSE i \in rows : \A j \in rows : CodeAt(i) <= CodeAt(j)

\* What a generator makes of the keys: one row for each beginning of a key, with its
\* token; from each row a link to the first child, from that to its siblings in the
\* order of their characters.
ASSUME RowsAssumption ==
  /\ Path[1] = <<>> /\ Row(0).token = 0
  /\ {Path[i] : i \in TrieRows} = Trie!KeyPrefixes
  /\ \A i, j \in TrieRows : Path[i] = Path[j] => i = j
  /\ TrieRows \ {1} = UNION {Children(i) : i \in TrieRows}
  /\ \A i \in TrieRows :
       /\ Row(i).token = Trie!TokenAt(Path[i])
       /\ Row(i).child = FirstOf(Children(i))
       /\ \A j \in Children(i) : Row(j).sibling = FirstOf({k \in Children(i) : CodeAt(j) < CodeAt(k)})

\* The compact table has a record for each row but the first, with the same links as jumps.
ASSUME RawAssumption ==
  LET jump(to, i) == IF to = 0 THEN 0 ELSE to - i
  IN  \A i \in TrieRows : /\ CharAt(i - 1) = CodeOf(Row(i).char)
                          /\ SiblingJump(i - 1) = jump(Row(i).sibling, i)
                          /\ ChildJump(i - 1) = jump(Row(i).child, i)

\* Bytes are told apart by their codes, and char_map has the characters of the keys.
ASSUME CodesAssumption ==
  /\ \A c \in DOMAIN CharCode : CharCode[c] \in 0..255
  /\ \A c, d \in DOMAIN CharCode : CharCode[c] = CharCode[d] => c = d
  /\ \A i \in DOMAIN Rows : Rows[i].char \in DOMAIN CharCode
  /\ Range(CharTable) = Trie!CharMap /\ Trie!CharMap \subseteq DOMAIN CharCode
  /\ \A t \in Texts : Range(t) \cup Trie!CodeChars \subseteq DOMAIN CharCode

Node ==
  IF encoding = "compact"
  THEN IF state.position = 0 /\ state.initialized THEN Trie!NotFound ELSE Path[state.position + 1]
  ELSE IF state.position = 0 THEN Trie!NotFound ELSE Path[state.position]

\* The state as the abstract trie has it.
AbstractState ==
  [position |-> Node, req_position |-> state.req_position, skip_next |-> state.skip_next,
   escape |-> state.escape, terminator |-> state.terminator, token |-> state.token,
   delimiter |-> state.delimiter]

Tokens == INSTANCE Tokenizer WITH st <- AbstractState

ASSUME TokensAssumption == Tokens!Typed

\* README.md, "Supports different trie implementations": each table, walked as
\* its encoding is, steps from key prefix to key prefix like the abstract trie,
\* whatever the options, the pieces the text arrives in, and the calls between.
TablesImplementTrie == Tokens!Spec

\* However a key arrived and whatever encodes the trie, the match ends at the
\* first character no key goes on with, and the token is that of the key read.
LongestMatch == Tokens!LongestMatch

Quote == "\""

\* A text starts with the quote of a value, and no key goes on with a quote where another ends.
ASSUME ValuesAssumption ==
  /\ U8 \in Nat \ {0} /\ TokenModulus \in Nat \ {0} /\ TokenSigned \in BOOLEAN
  /\ \A t \in Texts : Len(t) > 0 /\ t[1] = Quote
  /\ \A w \in DOMAIN Words : Append(w, Quote) \notin Trie!KeyPrefixes

\* Is the i-th character escaped by a backslash in front of it that is not?
Escaped[i \in 1..Len(text)] == i > 1 /\ text[i - 1] = "\\" /\ ~Escaped[i - 1]

\* The quote that closes a value that starts at 0, for a parser that has read that far;
\* 0 if there is none.
Closing ==
  LET quotes == {i \in 2..Len(text) : text[i] = Quote /\ ~Escaped[i]}
  IN  IF quotes = {} THEN 0 ELSE (CHOOSE i \in quotes : \A j \in quotes : i <= j) - 1

\* How many of the letters the text says stand in front of a position.
Inside(close) ==
  CHOOSE n \in 0..Len(Tokens!Decoded) :
    \A i \in 1..Len(Tokens!Decoded) : i <= n <=> Tokens!Decoded[i].at < close

\* Is it a key that has a token, and that the delimiter does not cut?
Known(word) ==
  /\ word \in DOMAIN Words /\ Words[word] # 0
  /\ options.hard_delim => \A i \in DOMAIN word : word[i] # state.delimiter

\* The tokens the field can hold.
Holdable == 0..((IF TokenSigned THEN TokenModulus \div 2 ELSE TokenModulus) - 1)

IsTokenOf(out, word) == ~out.null /\ (Words[word] \in Holdable => out.value = Words[word])

\* The text was tokenized from its second character on, without a call in between.
Tokenized == code = "EXIT" /\ from = 1 /\ ~resumed /\ Tokens!NoInterim

\* TestStreamingParser.c:80-98: a string is extracted as the token of the key it is, where
\* the field can hold that, and as nothing if it is none, be it longer than a key or
\* shorter, with its escapes resolved.  A string too long for len is taken for nothing but a key it
\* begins with, and that only if what len says ends right behind the key.
TokensAsWritten ==
  Tokenized /\ Closing > 0 =>
    LET out  == ExtractedToken(0, Closing)
        word == Tokens!Spelled(Inside(Closing))
    IN  /\ Closing < U8 => IF Known(word) THEN IsTokenOf(out, word) ELSE out.null
        /\ Closing >= U8 /\ ~out.null =>
             \E n \in 0..(Len(Tokens!Decoded) - 1) :
               /\ Tokens!Decoded[n + 1].at = Closing % U8
               /\ Known(Tokens!Spelled(n)) /\ IsTokenOf(out, Tokens!Spelled(n))
================================================================================
