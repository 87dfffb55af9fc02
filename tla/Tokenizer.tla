-------------------------------- MODULE Tokenizer --------------------------------
(******************************************************************************)
(* What the three encodings of a trie have to do: noizu_trie__tokenize over a *)
(* text that arrives in pieces, on the abstract trie of NoizuTrie, where a    *)
(* node is a prefix of keys.  TrieTables has the tables.                      *)
(******************************************************************************)
EXTENDS Integers, Sequences

CONSTANTS
  Chars, Words, CharCode,  \* as in NoizuTrie
  Texts,      \* the texts tokenized, each with a quote in front
  Delimiters, \* the delimiters the callers set
  OptionSets  \* the options they set

VARIABLES
  encoding,  \* which encoding the application has linked
  options,   \* state->options
  text,      \* all of the text
  received,  \* how much of it is in the buffer
  from,      \* where the current match started
  resumed,   \* has the caller gone on behind a mismatch without a reset
  st,        \* struct noizu_trie_state
  code       \* what advance returned last; "CONTINUE" while tokenize loops

vars == <<encoding, options, text, received, from, resumed, st, code>>

Trie == INSTANCE NoizuTrie WITH Options <- options

\* What the constants have to be: there are keys, none is empty or begins like the
\* well, and all consists of characters.
Typed ==
  /\ Texts \subseteq Seq(Chars) /\ Delimiters \subseteq Chars
  /\ OptionSets \subseteq [Trie!OptionFields -> BOOLEAN]
  /\ Trie!CodeChars \subseteq Chars
  /\ DOMAIN Words # {}
  /\ \A w \in DOMAIN Words : w \in Seq(Chars) /\ w # <<>> /\ Words[w] \in Nat
  /\ \A w \in DOMAIN Words : w[1] # Trie!NotFound[1]

\* The bytes of the buffer, from position 0.
Buffer == [i \in 0..(received - 1) |-> text[i + 1]]

Init ==
  /\ encoding \in Trie!Encodings /\ options \in OptionSets
  /\ text \in Texts /\ received \in 2..Len(text)
  /\ from = 1 /\ resumed = FALSE
  /\ \E delimiter \in Delimiters : st = Trie!TrieReset(delimiter, 1)
  /\ code = "CONTINUE"

\* One round of the loop of noizu_trie__tokenize; after the end of the buffer,
\* the first round of another call.
Step ==
  /\ code # "EXIT"
  /\ LET a == Trie!Advance(encoding, st, Buffer) IN st' = a.st /\ code' = a.code
  /\ UNCHANGED <<encoding, options, text, received, from, resumed>>

\* More of the text arrives between two calls of tokenize.
Receive ==
  /\ code # "CONTINUE"
  /\ \E n \in (received + 1)..Len(text) : received' = n
  /\ UNCHANGED <<encoding, options, text, from, resumed, st, code>>

\* json_process__PARSE_KEY: tokenize goes on at buffer_pos, which has moved to
\* the end of the buffer in search of the end of an unknown key.
Resume ==
  /\ code = "EXIT" /\ resumed' = TRUE
  /\ st' = [st EXCEPT !.req_position = received - 1] /\ code' = "CONTINUE"
  /\ UNCHANGED <<encoding, options, text, received, from>>

\* noizu_trie__reset for the key or value behind the one just tokenized.
Reset ==
  /\ code = "EXIT" /\ st.req_position + 1 < received
  /\ from' = st.req_position + 1 /\ resumed' = FALSE
  /\ \E delimiter \in Delimiters : st' = Trie!TrieReset(delimiter, from')
  /\ code' = "CONTINUE"
  /\ UNCHANGED <<encoding, options, text, received>>

Next == Step \/ Receive \/ Resume \/ Reset
Spec == Init /\ [][Next]_vars

--------------------------------------------------------------------------------
\* What the text says from position p on, its escapes resolved: characters and
\* where each of them stands.
Said[p \in 0..(Len(text) + 1)] ==
  IF p >= Len(text) THEN <<>>
  ELSE IF ~options.escape_chars \/ text[p + 1] # "\\"
  THEN <<[c |-> text[p + 1], at |-> p]>> \o Said[p + 1]
  ELSE IF p + 1 = Len(text) THEN <<>>
  ELSE <<[c |-> Trie!Unescape(text[p + 2]), at |-> p + 1]>> \o Said[p + 2]

\* What it says from the start of the current match on.
Decoded == Said[from]

Spelled(n) == [i \in 1..n |-> Decoded[i].c]

\* The longest beginning that is one of keys.
Matched ==
  CHOOSE n \in 0..Len(Decoded) :
    LET fits(k) == /\ Spelled(k) \in Trie!KeyPrefixes
                   /\ options.hard_delim => \A i \in 1..k : Decoded[i].c # st.delimiter
    IN  fits(n) /\ \A k \in (n + 1)..Len(Decoded) : ~fits(k)

\* A token recorded at the end of a buffer may be that of a shorter key.
NoInterim == options.end_of_buffer_token => options.keep_last_token

\* However the text arrived and whatever encodes the trie, the match ends at the
\* first character no key goes on with, which becomes the terminator, and the
\* token is that of the key that ends there.
LongestMatch ==
  code = "EXIT" /\ ~resumed /\ NoInterim =>
    /\ Matched < Len(Decoded)
    /\ st.terminator = Decoded[Matched + 1].c
    /\ st.req_position = Decoded[Matched + 1].at
    /\ st.token = Trie!TokenAt(Spelled(Matched))
================================================================================
