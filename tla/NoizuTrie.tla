------------------------------- MODULE NoizuTrie -------------------------------
(******************************************************************************)
(* The key tokenizer (src/noizu_trie): a trie compiled from the keys of the   *)
(* application, and the state of one match against the input buffer.         *)
(*                                                                            *)
(* A node of the trie is the prefix of keys that leads to it, so the table    *)
(* walk of the array, struct and compact encodings is abstracted to "is the   *)
(* longer prefix still a prefix of some key" (TrieTables has the tables).     *)
(* The control (pending skip, escape handling, what is recorded when the walk *)
(* leaves the trie and when it reaches the end of the buffer) is that of the  *)
(* code, for each of the options the application may set; it is the same for  *)
(* the three encodings but for the node a mismatch leaves them at.            *)
(******************************************************************************)
EXTENDS Naturals, Sequences

CONSTANTS
  Chars,     \* the characters of keys and documents
  Words,     \* the compiled keys: a function from sequences of characters to tokens
  CharCode,  \* the characters of the keys as bytes, by which siblings are sorted
  Options    \* the one-bit fields of noizu_trie_options

Bit == 0..1

\* The character '\0', which no key and no JSON text contains.
Nul == "NUL"

\* TRIE_NOT_FOUND, the well every mismatch falls into: no key starts with it.
NotFound == <<"TRIE_NOT_FOUND">>

OptionFields == {"keep_last_token", "end_of_buffer_token", "hard_delim", "escape_chars"}

\* The characters the code itself brings in: delimiters, and what escapes stand for.
CodeChars == {Nul, ":", "\n", "\r", "\t"}

ASSUME CharsAssumption == CodeChars \subseteq Chars

ASSUME WordsAssumption ==
  /\ \A w \in DOMAIN Words : w \in Seq(Chars) /\ w # <<>> /\ w[1] # NotFound[1]
  /\ \A w \in DOMAIN Words : Words[w] \in Nat \ {0}

\* The characters that occur in keys, the char_map of the compact encoding.
CharMap == UNION {{w[i] : i \in DOMAIN w} : w \in DOMAIN Words}

ASSUME CharCodeAssumption ==
  CharMap \subseteq DOMAIN CharCode /\ \A c \in CharMap : CharCode[c] \in Nat

ASSUME OptionsAssumption == Options \in [OptionFields -> BOOLEAN]

KeyPrefixes == UNION {{SubSeq(w, 1, n) : n \in 0..Len(w)} : w \in DOMAIN Words}

Nodes == {<<>>, NotFound} \cup KeyPrefixes

\* The token stored at a node; 0 where no key ends.
TokenAt(node) == IF node \in DOMAIN Words THEN Words[node] ELSE 0

\* noizu_trie_a_advance: the child of node labelled c.
ChildOf(node, c) == IF Append(node, c) \in KeyPrefixes THEN Append(node, c) ELSE NotFound

\* enum TRIE_TYPE: how the table of the trie is stored.
Encodings == {"array", "struct", "compact"}

\* The labels of the children of a node, and the one the sibling list ends with.
Labels(node) == {l \in CharMap : Append(node, l) \in KeyPrefixes}
LastLabels(node) == {l \in Labels(node) : \A m \in Labels(node) : CharCode[m] <= CharCode[l]}

--------------------------------------------------------------------------------
\* struct noizu_trie_state.  The token positions, match_type and error_code are
\* left out: nothing in the parser reads them.
TrieState ==
  [position     : Nodes,
   req_position : Nat,
   skip_next    : Bit,
   escape       : Bit,
   terminator   : Chars,
   token        : Nat,
   delimiter    : Chars]

\* noizu_trie__init and noizu_trie__reset: everything but the options (of which
\* only the delimiter ever changes) starts again from the root.
TrieReset(delimiter, buffer_pos) ==
  [position     |-> <<>>,
   req_position |-> buffer_pos,
   skip_next    |-> 0,
   escape       |-> 0,
   terminator   |-> Nul,
   token        |-> 0,
   delimiter    |-> delimiter]

Unescape(c) ==
  CASE c = "n" -> "\n"
    [] c = "r" -> "\r"
    [] c = "t" -> "\t"
    [] OTHER   -> c

\* The state after a pending skip, if the buffer already holds the next character.
CanRead(st, buffer) == st.req_position + st.skip_next \in DOMAIN buffer
Skipped(st) == [st EXCEPT !.req_position = @ + st.skip_next, !.skip_next = 0]

\* A backslash the options say to interpret: remember it and ask for one more.
IsEscape(st, buffer) ==
  Options.escape_chars /\ st.escape = 0 /\ buffer[st.req_position] = "\\"
Escaping(st) == [st EXCEPT !.skip_next = 1, !.escape = 1]

\* noizu_trie__next_char: the next character, or ok = FALSE
\* (TRIE_BUFFER_END_ON_SKIP) with the state the failed attempt leaves behind.
Read(st, buffer) ==
  [ok |-> TRUE,
   st |-> [st EXCEPT !.escape = 0],
   c  |-> IF st.escape = 1 THEN Unescape(buffer[st.req_position])
                           ELSE buffer[st.req_position]]
Starved(st) == [ok |-> FALSE, st |-> st, c |-> Nul]

NextChar(st, buffer) ==
  IF ~CanRead(st, buffer) THEN Starved(st)
  ELSE LET s == Skipped(st) IN
       IF ~IsEscape(s, buffer) THEN Read(s, buffer)
       ELSE LET e == Escaping(s) IN
            IF CanRead(e, buffer) THEN Read(Skipped(e), buffer) ELSE Starved(e)

--------------------------------------------------------------------------------
\* The delimiter ends the key even where the trie goes on with it.
HardDelim(st, c) == Options.hard_delim /\ st.delimiter = c

\* Mutant: the compact walk falls into the well like the others.
Mismatch_Well(encoding, st, c) == NotFound

\* Where the walk stands after a character that leads nowhere.  The array and
\* struct encodings fall into the well.  The compact one does when it meets a
\* sibling sorted behind c; else it stays at the sibling it looked at last, or
\* does not move if there was nothing to look at or c is in no key.
Mismatch(encoding, st, c) ==
  LET node   == st.position
      walks  == encoding = "compact" /\ ~HardDelim(st, c) /\ c \in CharMap
      beyond == \E l \in Labels(node) : CharCode[l] > CharCode[c]
  IN  CASE encoding # "compact" -> NotFound
        [] walks /\ beyond -> NotFound
        [] walks /\ ~beyond /\ LastLabels(node) # {} ->
             Append(node, CHOOSE l \in LastLabels(node) : TRUE)
        [] OTHER -> node

\* The walk leaves the trie on character c: the token of the node it leaves is
\* the result unless tokens were being recorded all along.
Leave(encoding, st, c) ==
  [st EXCEPT !.position   = Mismatch(encoding, st, c),
             !.terminator = c,
             !.token      = IF Options.keep_last_token \/ TokenAt(st.position) = 0
                            THEN @ ELSE TokenAt(st.position)]

Enter(st, node) ==
  [st EXCEPT !.position = node,
             !.token    = IF Options.keep_last_token THEN TokenAt(node) ELSE @]

\* Mutant: the last character would be read again.
AtBufferEnd_Again(st) ==
  [st EXCEPT !.token = IF Options.end_of_buffer_token /\ ~Options.keep_last_token
                       THEN TokenAt(st.position) ELSE @]

AtBufferEnd(st) ==
  [st EXCEPT !.skip_next = 1,
             !.token     = IF Options.end_of_buffer_token /\ ~Options.keep_last_token
                           THEN TokenAt(st.position) ELSE @]

\* noizu_trie__array__advance and its twins: one character.  "CONTINUE" asks to
\* be called again, "EXIT" is any of the exits on a character that is not in the
\* trie.
Advance(encoding, st, buffer) ==
  LET n    == NextChar(st, buffer)
      node == IF HardDelim(n.st, n.c) THEN NotFound ELSE ChildOf(n.st.position, n.c)
      in   == Enter(n.st, node)
  IN  CASE ~n.ok -> [code |-> "BUFFER_END_ON_SKIP", st |-> n.st]
        [] n.ok /\ node = NotFound -> [code |-> "EXIT", st |-> Leave(encoding, n.st, n.c)]
        [] n.ok /\ node # NotFound /\ in.req_position + 1 \in DOMAIN buffer ->
             [code |-> "CONTINUE", st |-> [in EXCEPT !.req_position = @ + 1]]
        [] OTHER -> [code |-> "BUFFER_END", st |-> AtBufferEnd(in)]
================================================================================
