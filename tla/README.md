# A TLA+ model of the Noizu streaming JSON parser

The program is a C library (`streaming-parser.c`, about 1900 lines, and the trie tokenizer in
`noizu_trie/`) for a small chip: JSON is parsed as it arrives over HTTP, in a buffer that a host
fills, reallocates and compacts, and the application is told about keys and values through a
callback. The modules here model the parser, the chain of parser structures it keeps and their
memory, the tokenizer of keys with its three kinds of table, the host, and what an application
calls in the callback (strings, values, arrays). TLC checks them on small instances and TLAPS
proves the central invariants for every value of the constants.

Source lines below are of `src/streaming-parser.c` unless another file is named.

## 1. Inventory

| Component | State | Operations | Where |
|---|---|---|---|
| Main loop | `req->buffer_pos`, static `previous_buffer_pos` and `buffer_pos_offset`, locals `buffer_pos_retrace`, `parser`, `r` | `json_streaming_parser` | 56-241 |
| Dispatch and delegates | the parser at work, `buffer_pos` | `json_process`, `ADVANCE_KEY`, `PARSE_KEY`, `ADVANCE_VALUE`, `CAPTURE_VALUE` | 246-797 |
| Parser chain | `struct json_parser` linked by `child`/`parent_p`, `active` | init, reset, spawn, drop, shift, top, free | 803-1029, `streaming-parser.h` 549-597 |
| Key tokenizer | `struct noizu_trie_state`, the compiled table | `next_char`, `init`, `reset`, `advance`, `tokenize`; array, struct and compact encodings | `noizu_trie/` |
| Extraction | none of its own, reads buffer offsets | `extract_nullable`, `json_parser__extract_*` | 1160-1675, 1871-1883 |
| Nullable strings | a reference counter, a lock, an allocation | free, copy, recycle, allocate | 1681-1836 |
| Dynamic arrays | pointer, size, allocated | `resize_dynamic_array` | 1839-1869 |
| Host | the buffer: `buffer_size`, `buffer_pos`, its bytes | append, compact | not in the repository: known from `offset_buffer` (`noizu_trie.h` 45-50), lines 68-75 and 237-240 |

How they interact. The host calls `json_streaming_parser` whenever bytes have come in. The call
first moves the offsets of every parser in the chain by what the host has dropped since
(`shift_json_parser`), goes on at `buffer_pos + buffer_pos_offset`, and loops: find the parser at
work (`top_parser`), let the delegate of its parse state scan, react to the result (callback,
spawn a child for `{` and `[`, reset or drop a parser). On return `buffer_pos` is put back to the
end of the last completed value, which tells the host what it may drop. Keys go through the
tokenizer, which keeps its own position in the same buffer and its own state across calls.

What is hard about it:

- Every scan loop that runs out of input *steps back onto the last character*, which the next
  call sees a second time, with whatever state the first look left.
- All offsets are relative to a buffer that moves between calls, in 16 bits, with 0 for "unset".
- A pending skip (`char_skip`, and `skip_next` of the tokenizer) has to survive the end of a
  buffer and be honoured once.
- Children are reused after their container closed; only `active` tells them from parsers at work.
- Members are counted in the parent, at four places, around resets that clear the counter.
- Errors are only logged: whether the loop ends at all rests on the delegates.
- The same tokenizer runs on three tables, one of them a stream of bits with relative jumps.
- The chain outlives documents; it is freed by a loop that cuts the links it walks on.
- The helpers count in 8, 14 and 16 bits, and read on until a character stops them.

What makes each part correct: the application is told exactly what the document says, however it
was split (main loop, delegates, tokenizer together); the chain is a stack that mirrors the open
containers; no cursor leaves the received bytes, and what a call gave up is never needed again;
every call returns, having looked at all it was given; the three tables are one trie; no parser is
used after it was freed, or lost; a value is extracted as what its text says, or as null.

`PROJECT.json` lists every hazard at its line with the properties that would catch it.

## 2. Modules

```
NoizuTrie          the tokenizer: options, state, next_char, advance
  JsonParser       struct json_parser, the chain, reset/spawn/drop/shift/top
    Callbacks         an application that follows the nesting (no parser state)
    StreamingParser   the state machine: host, main loop, delegates; invariants  -> MCAnyInput
      Reports           callbacks against what the document promises   -> MCWellFormed, MCFindings
        JsonDocs          documents and their promised callbacks (no parser state at all)
      StreamingParser_proofs > Offsets_proofs, Callbacks_proofs        (TLAPS)
  Tokenizer        noizu_trie__tokenize on the abstract trie
    TrieTables       the same on the tables of the three encodings    -> MCTables
      ArrayTrie        the trie of the test suite, row by row
    Tokenizer_proofs > TrieTables_proofs                               (TLAPS)

ParserStack        what the chain of parsers promises
  ParserMemory     the chain as blocks of memory                      -> MCMemory
    ParserMemory_proofs                                                (TLAPS)

NullableString     strings extracted from a document, on a heap       -> MCStrings
DynamicArray       resize_dynamic_array, step by step                 \ MCHelpers
Extraction         numbers, booleans, times and dates                 /
NullableString_proofs, DynamicArray_proofs                             (TLAPS)
```

**NoizuTrie.** A node of the trie is the prefix of keys that leads to it, so the table walk
(`noizu_trie_a_advance`) is `ChildOf`, membership in `KeyPrefixes`. The three encodings differ in
one thing, the node a mismatch leaves them at (`Mismatch`): the well, or, with a compact table whose
siblings are all before the character, the last of them. `Encoding` says which one is linked. `NextChar` and `Advance`
keep the control of `noizu_trie__next_char` and `noizu_trie__array__advance`: the pending skip,
the escape that asks for one more byte, what is recorded on leaving the trie and at the end of the
buffer, for all values of the options. `json_delim` is not there: it chooses between exit
codes and match types only, and the parser looks at neither.

**Tokenizer / TrieTables / ArrayTrie.** `Tokenizer` is the loop of `noizu_trie__tokenize` on that
trie, for a text that arrives in pieces, with what the parser does between calls: reset, and going
on behind a mismatch (`Resume`). `TrieTables` is the same loop on tables: rows of numbers for the
array and the struct encoding (`ArrayChild`, `StructChild`, with the signedness of `char`), and bytes
from which `ExtractField` scrapes character, sibling jump and child jump for the compact one
(`CompactSearch`, `CompactAdvance` with `initialized`). It implements `Tokenizer`
(`TablesImplementTrie`) under the mapping `Node`, which sends a row to the path from the root to it.
The options and the encoding are variables that never change, so that one run has them all. The tables
are those of the test suite (`ArrayTrie`), and the same trie as MCTables encodes it in 13-bit records.
`ExtractedToken` is what `json_parser__extract_token` makes of the state it finds: the length in a `uint8_t`,
and `TokenValue`, what the bit-field `nullable_token_t.value` keeps of a token, with or without a sign.

**JsonParser.** A parser is a record with the fields of the struct; the chain is a function from
depth to parser, `alloc` the depth of the last one allocated (`child` is never cleared while
parsing). `U8` and `U16` are the moduli of `uint8_t` and `uint16_t`, so that wrap-around can be
brought within reach. One operator per helper of the code.

**StreamingParser.** `pc` says where a call stands: `host` (not in a call), `loop` (head of the
main loop), `scan` (in the loop of a delegate), `token` (in `noizu_trie__tokenize`), `react` (a
delegate has returned `result`).

| Actions | Code |
|---|---|
| `Receive`, `Compact` | the host appends bytes; drops bytes in front of `buffer_pos` |
| `Call` | 65-79 |
| `LoopExit`, `React_EndOfBuffer` | 237-240, 95-99 |
| `Dispatch` | 84-85, 246-278 (with 358) |
| `AdvanceKey_*` | 280-343 |
| `Tokenize_*`, `ParseKey_*` | 350-422, 431-446, `noitu_trie.c` 115-128 |
| `AdvanceValue_*` | 449-548 |
| `CaptureValue_*` | 555-792 |
| `ScanEnd` | 344-347, 425-428, 549-552, 793-796 |
| `React_*` | 86-234 |

One action is one round of a loop. Nothing else runs during a call, so the split into rounds adds
no interleaving; it makes every intermediate state subject to the invariants. `events` is a history
variable: what the callback is called with and what `extract_key` would give it then, with
positions counted in the document so that they mean the same in every buffer. The key and token of
a value are recorded only inside a struct: elsewhere the fields hold leftovers that the tests do
not look at. The result of the callback is ignored by the code and so here.

**JsonDocs / Reports.** The abstract specification of the library: `Document(v, space, tokens)` is
the text of an abstract value together with the sequence of callbacks it promises. `Reports`
says that `events` is a prefix of the promised sequence in every state and becomes all of it.

**Callbacks.** An application that keeps a counter per open container, for inputs that need not be
JSON at all. `Told` is what it makes of a callback; `app`, a second history variable of
`StreamingParser`, is what it has made of all so far. `Tell` is a callback: it adds to both.

**NullableString.** A string is the struct (1-bit and 14-bit fields included) plus the length of the
text its `value` points to; a block of memory has a size and the string it was allocated for. Each
helper maps the memory it finds to the one it leaves, with an argument that says whether
`os_zalloc` succeeds; freeing what is not allocated, or writing beyond a block, sets `fault`. The
actions are an application that counts its pointers: `New` and `Share` (`copy_nullable_string`),
`ExtractToField` and `ExtractToHeld` (`json_parser__extract_string` of a text, of null and of
another type), `Recycle` and `Recycle_Shared`, `Release` and `FreeField` (`free_nullable_string`
with the flags that let go of the pointer; `_contents`), and `Lend`, which sets `free_lock`: no
code in the repository does, lines 1702-1703 say what it is for.

**ParserMemory / ParserStack.** `ParserStack` has two numbers: the parsers made and the depth of
the one at work. `ParserMemory` has the blocks, `child` and `parent_p`, the trie state of each, and
the locals of `free_json_parser`, one action per round of its loop. The document is abstracted to the
levels it opens and closes (`Spawn_*`, `Drop`) and to where its buffers end (`Suspend`, `Resume`, which
finds the parser at work again with `top_parser`). Using or freeing a block that is not allocated sets
`fault`; a block that is freed keeps what it held, as it does in the code. Allocation may fail at any
time: `init_json_parser` then returns NULL, which `spawn_json_parser` writes through (`crashed`,
where nothing goes on). A document may be parsed again with the same base after
`free_json_parser(base, FALSE)`, or with a new one. `ChainImplementsStack` is the refinement.

**DynamicArray.** `resize_dynamic_array` with its loop, one step at a time, and its five ways to
return, the callback and the failing allocation included; sizes count entries. `AddEntry` is an
application that believes `allocated`.

**Extraction.** `extract_nullable` and the `json_parser__extract_` functions over it, one action per
function; the reading itself is written as operators (`ReadInt`, `ReadDecimal`, `ReadBool`,
`ReadTime`, `ReadDateTime`) over sequences of characters with the codes `os_strncmp` subtracts. A
decimal is kept as its sign, the two accumulators and the divisor, instead of the floating-point
number they are divided to. Against it stand reference definitions that do not read at all: `Worth`
values digits by place, times and dates are *printed* and compared with the text. The module was
compared with the compiled functions on 3053 calls (the states of a run with the real `ReturnWidth` and
`AutoLength`): the same results.

## 3. Runs

| Run | Question | Result |
|---|---|---|
| `wellformed` | `ReportsDocument`, `ReportsAll` for eight documents, with and without white space, behind 0 or 1 foreign bytes, in **every** split into calls and with **every** compaction | holds, about 341 000 states |
| `anyinput` | the invariants, `CallbacksNest`, `CallReadsAll`, `ReleaseIsFinal`, `CallReturns` for all inputs of three characters behind six beginnings, and of four that open and close containers behind two (about 1 470 documents, mostly malformed), again in every split | holds, about 406 000 states |
| `strings` | three holders, two heap strings, a field: `NoFault`, `CountsHolders`, `NoLeak`, `TextFits`, `HoldersIndependent` in every order of calls, with allocation failing at any time | holds, about 303 000 states |
| `tables` | `TablesImplementTrie`, `LongestMatch`, `TokensAsWritten` for 16 texts, 16 sets of options, 2 delimiters and 3 encodings, in every split | holds, about 377 000 states |
| `memory` | `NoDangling`, `ChainSound`, `NoneLost`, `ChainImplementsStack` for four parsers and six trie states | holds, about 86 000 states |
| `helpers` | arrays: `EntriesFit`, `ResizedAsAsked`, `ResizeReturns`; values: `NumbersExact`, `QuotedNumbersWhole`, `BoolsAsWritten`, `TimesAsWritten`, `DatesAsWritten` | holds, about 49 000 states |
| `string_lock` | `FreedFieldHasNoBlock` | violated: section 5 |
| `split_escape`, `split_token`, `token_width`, `offset_width`, `compact_position` | `ReportsDocument` for one document each | violated: section 5 |

Bounds. `Receive` appends any number of bytes and `Compact` drops any number, so splits are not
bounded, only the documents are. Those of `wellformed` hold every kind of value and of quote,
known keys of which one is a prefix of another, an unknown key, a bare key, empty containers, and
each container inside each. Two levels of nesting exercise spawn, reuse of a child left over,
and drop to a parent that is itself a member. The beginnings of `anyinput` lead into each parse
state, and three more characters reach every pair of neighbouring actions; four that open and close,
in a list or in a struct in a list, close more containers than were opened, before and after a
member. `U8 = 8` lets the bracket and quote counters wrap within those inputs; no document opens
more than `MaxDepth` containers (5, and 4 in `wellformed`), so the guard in `React_ContainerStart`
cuts nothing off. `Leads` stands for headers in the same buffer: with a lead no offset is 0, without
one the special case of `shift_json_parser` occurs.

`strings` scales the sizes of `streaming-parser.h` 19-33 so that lengths 0, 2 and 4 meet every
case of the policy: below the minimum, upsized to the default, as asked for, reused, too large to
be reused, and wrapping `allocated` (modulus 5 for 2^14). Three holders are the fewest with which one
may leave while two still share. One block per string is enough unless a block leaks; then
allocation fails, which it may do anyway. The holders are interchangeable (`SYMMETRY`).

`tables`: texts that are keys, that turn off before, behind and between siblings, one character too
short or too long, with escapes, with a byte above 127, and two keys in a row; `on` is added to the
keys of the tests so that one key begins another, with the token 200, which a signed `value` of eight bits
(`TokenModulus = 256`, `TokenSigned`) does not hold. `U8 = 20` is above the length of the longest key and
below that of one text, `on` and twenty more, for which `len` wraps to the place right behind `on`. Records of 13 bits put fields at every offset in a
byte. `memory`: four parsers are a base and three levels, the fewest with which the loop of
`free_json_parser` has a parser that is neither the base nor the last nor the one before; six trie
states, never given back, are enough for a second document. A level beyond that fails as an allocation
may. The parsers are interchangeable (`SYMMETRY`); deadlock is not checked there, nor in `tables`, where
the text ends. `helpers`: `Width = 16` for 2^16 lets `new_size` wrap; an accumulator of 16
bits, integers of 7, 15 and 16, and a `ReturnWidth` of 8 bring every limit within the reach of short
texts, which lie on both sides of each. The two parts share nothing, so one rests while the other
runs.

Properties. Which of them are proved as well is said in section 4. `LiveOffsets`: after any drops, the offsets of the parser at work still point at the
first character of its value and at the ends of its key, and lie where the host may not drop.
`CallbacksNest`: depth, index and number of members are what an application counting for itself
would expect. `CallReadsAll`: a call returns with at most one byte left to look at again.
`ReleaseIsFinal`: what was given up is never asked for again. `CallReturns`: no input makes a
call spin. `CountsHolders`: the counter is the number of holders, and
a string exists as long as there is one. `HoldersIndependent`: the pointer of a holder and what it
reads change only when this pointer moves and no other does, or, with no pointer moving, when a text is
extracted into the string it has, by it or by one that shares it, or that string is recycled: no share, release,
recycling of a shared string, allocation or call for another string is ever noticed. `NoLeak`: a block allocated for a heap string is its text as long as
it is allocated. `TextFits`: a text and its terminator lie in the block `value` points to.
`LongestMatch`: the match ends where no key goes on, with the token of the key that ends there, however
the text came. `TokensAsWritten`: a string is extracted as a token exactly when it is a key, with the token of that key
where the field holds it; one too long for `len` only as a key it begins with, that ends where `len` says.
`NoDangling`, `NoneLost`: nothing freed is used, and nothing is left behind by the loop that frees.
`ChainSound`: the chain can be walked both ways, its depths count, and behind an inactive parser none is
active. `EntriesFit`, `ResizedAsAsked`: whatever calls failed before, the entries an application may
write lie in the block, and "resized" means as long as asked. `NumbersExact` and its siblings: a value
is what its text says if the type holds it; a text with digits that is no whole number is null, and nothing is
made of a part of it; a time is the two numbers its text begins with, in six bits each (`99:99` is 35:35), or
null; a date is read with the whole offset it is written with, or is null. A boolean in quotes that begins with digits is null or
these digits, with at most one character behind them. Both quotes are asked about; what is asked of double quotes
alone is that a time of day, or a date, is read at all. Exceptions are in section 5. Each has a mutant in the modules (operators commented `Mutant:`), a plausible slip in
one helper that the run detects.

Fairness (`FairSpec`). `WF(Running)`: a call in progress is an ordinary C function and runs on.
`WF(Call)`: the host calls again whenever it has the control, as the event loop of the chip does.
`SF(Receive)`: a connection that stays up delivers the rest of the document; strong, because
`Receive` is disabled during every call. No fairness on `Compact`: the host need not compact.
`CallReturns` needs only the first, `ReportsAll` all three. Deadlock is checked: the host can
always call. `ArraySpec` has `WF(Running)` for the same reason: a call of
`resize_dynamic_array` runs on. `ResizeReturns` needs that the loop can get past what is required without
passing 2^16; beyond, `new_size` wraps and the loop may run forever.

## 4. Proofs

All theorems are for arbitrary values of the constants, from the assumptions that the modules name.
For the parser (`CharsAssumption`, `WordsAssumption`, `CharCodeAssumption`, `OptionsAssumption`,
`EncodingAssumption`, `WidthAssumption`, `DepthAssumption`, `DocsAssumption`, `LeadsAssumption`): keys
are non-empty and have non-zero tokens, widths are at least 2, the rest are types. TLC evaluates each of
them, and those below, in the runs of its module.

**The parser** (`StreamingParser_proofs`, over lemmas on the helpers of `JsonParser`).

- `Invariance`: `Spec => []IInv`. `IInv` is `TypeOK /\ ChainIsStack /\ StateFitsParent /\
  CursorInBuffer /\ TokenizesKey`. None of the four is inductive alone: that `cur'` in `Dispatch`
  is the parser it was needs the stack; that a dropped or reset parser gets a parse state fitting
  its parent needs that the parent is a container, hence the stack again; and that the tokenizer
  stands on a received byte needs `TokenizesKey`, that `pc = "token"` only in parse state `PARSE_KEY`.
  The proof has one lemma per delegate, for the host, the call and the switch (`InvAdvanceKey`,
  `InvParseKey`, `InvTokenize`, `InvAdvanceValue`, `InvCaptureValue`, `InvScanEnd`, `InvHost`,
  `InvCall`, `InvReact`).
- `TypeCorrect`, `StackCorrect`, `MembersCorrect`, `CursorCorrect` state its parts.

**What a call gives up** (`Offsets_proofs`), under `FitsOffsets`, that a document
with its lead is shorter than `U16`. The assumption is needed: `buffer_pos_retrace` and
`buffer_pos_offset` are `uint16_t`, and in a longer buffer a call hands `buffer_pos` back truncated
(section 5). `CursorCorrect` needs no such assumption.

- `ReleaseCorrect`, `CallReadsCorrect`: the two action properties of a call.
- `OffsetsCorrect`: `Spec => []LiveOffsets`. `LiveOffsets` says nothing between two calls, which is
  when bytes are dropped. `OffsetInv` states it for offsets *less a drop*: none during a call,
  `previous_buffer_pos - pos` between two, and `Call` turns the one into the other
  (`shift_json_parser`). It is stated of the parser at work alone, as a parent is reset before it reads
  an offset again. `Untyped` says that a parser that looks for a key or a value has been cleared, so that
  no old type is taken for that of the value to come, and `Found` that a value is announced by the
  parser that found it. `shift_json_parser` leaves an offset of 0 alone, as if it were not set: that does no
  harm because an offset in use is at least the drop.

**Callbacks** (`Callbacks_proofs`). `CallbacksCorrect`: `Spec => []CallbacksNest`. `HeardInv` is
`IInv` and four conjuncts: the stack of the application is the chain above the parser at work, kind and
count for each level (`Follows`); a parser that is no list, and the one at work, have counted nothing
(`Countless`); the index in the parser at work is the count of the list above, from finding a
member to counting it (`Numbered`), although it is stored by one delegate and counted several rounds
later at one of four places; and a result fits the container (`Answered`).

**The tokenizer** (`Tokenizer_proofs`, from `Typed`: keys are not empty, the rest are types).

- `TokenizerInvariance`: `Spec => []TokInv`; `MatchesLongest`: `Spec => []LongestMatch`. `LongestMatch`
  speaks of the end of a match only. `Underway` says what holds until then: what the text says from the
  start of the match (`Decoded`) is what has been read, followed by what it says from the place read
  next (`Said[Unread(st)]`), and the node is what has been read. That place is not `req_position`: a
  skip may be pending, or an escape whose second character has not arrived (`EscapeFits`).
  `NextCharReads` shows that `next_char` takes one character off `Said`, whatever is pending. `Said` is
  recursive, from the end of the text backwards; that it is defined at all and typed is shown by the
  least counterexample (`Least`, `Backwards`), as the library's induction rules are out of reach.

**The tables** (`TrieTables_proofs`). `RowsAssumption` says what a generator makes of the keys: one row
for each beginning of a key, with its token, and links to the first child and from sibling to sibling in
the order of the characters. `RawAssumption` says that the fields extracted from the bytes of the compact
table are these links as jumps, `CodesAssumption` that bytes are told apart by their codes. TLC
evaluates them on the tables of `tables`: that `ExtractField` finds its bits is thus checked there, and
not proved for other tables.

- `TablesRefinement`: `Spec => TablesImplementTrie`, under the mapping `Node`, with the invariant that the
  position is a row (`TablesInvariance`). The walk over siblings is a recursive function
  over rows; `WalkIs` says what such a function returns when links lead forward, and `SiblingWalk`
  that it stops at the sibling sought, at the first behind it in order, or at the last
  (`ArrayFinds`, `StructFinds`, `CompactFinds`). `CompactMismatch` relates the last two to where
  `NoizuTrie` says a compact table is left. Behind the walk the three encodings share `Conclude`
  (`Concluded`), in front of it `next_char` (`NextCharAlike`).
- `MatchCorrect`: `Spec => []LongestMatch`, from `TablesRefinement` and `MatchesLongest`.
- `TokensCorrect`: `Spec => []TokensAsWritten`, in any state with the longest match (`ValueRead`), from
  `ValuesAssumption`: a value starts with its quote, and no key goes on with a quote where another ends. It
  leaves out options with `end_of_buffer_token` and without `keep_last_token`, where a token seen at a split
  may be left over (section 5, `split_token`), and says of tokens wider than the field only that they are not
  null; of values longer than `len` counts, that they are taken for a key only if they begin with it.
  `QuoteSaid` shows that a quote no backslash escapes is said as itself, with or without `escape_chars`, and
  `TokenOfValue` what a match that ends in front of it, at it or behind it yields. `Escaped` and `Said` run
  through a text in opposite directions; `E[p + 1] = 0` in `QuoteSaid` is what they have in common.

**Memory of the chain** (`ParserMemory_proofs`, from `MemoryAssumption`: finitely many blocks, no more
than `depth` can count).

- `MemoryTypeCorrect`, `NothingDangles`, `ChainCorrect`, `NoneIsLost`, all from `MemoryInv`. It numbers
  the parsers by `depth`: a child is one deeper and points back (`Linked`), so no two parsers are at one depth
  and none is its own descendant; trie states are not shared (`OwnTries`); outside `free_json_parser`
  the chain has no gap (`Whole`); inside, everything from `p` on is as it was and only the base and
  the parser last left are behind it (`Torn`). `NoneLost` speaks of reachability, by induction over depth;
  the induction rules of the library are out of reach, so it goes by the least counterexample (`Least`).
- `ChainIsStack`: `Spec => ChainImplementsStack`, the refinement of `ParserStack` with the mapping
  `ParsersMade`, `DepthAtWork`. `Mapped` says what the two numbers are in each part of the code; every
  action is then a step of the stack or leaves both alone (`Suspend`, `Resume` and the rounds of the freeing
  loop are stutters).

**Nullable strings** (`NullableString_proofs`, from `StringsAssumption`: pointers, blocks and lent
memory are told apart, and there are fewer holders than `counter` can count: it is a `uint8_t` and not
checked, 1827).

- `StringTypeCorrect`, `NothingFaults`, `CountsCorrect`, `NothingLeaks`, `TextsFit` from `StringInv`, and
  the action property `HoldersApart` (`HoldersIndependent`) step by step: `MovesAlone` is for the steps of
  one pointer, `StaysApart` for those that leave every pointer, which show that only the string worked on
  changes. `StringInv` adds to what the run
  checks that a block in use belongs to the string that points to it and is at least as large as
  `allocated` says, and that lent memory is locked and never a heap string's. Each helper
  (`FreeIs`, `Discard`, `Obtain`, `Allocate`, ...) is shown to change one string and its own blocks; `OneString`
  lifts that to the memory; `Joined` and `Left` relate a counter to the cardinality of its holders.

**Dynamic arrays** (`DynamicArray_proofs`, from `ArrayAssumption`: everything fits the width).

- `ArrayTypeCorrect`, `EntriesCorrect`, `ResizeCorrect`. The invariant adds `LoopInv`: a call in the loop
  asks for more than there is and for no more than the maximum, and `new_size` is past it by at most one
  increment, also when it has wrapped.

Only model-checked:

- liveness (`CallReturns`, `ReportsAll`, `ResizeReturns`), which is outside what TLAPS proves;
- `ReportsDocument`: the documents and what they promise are defined by recursion over a value;
- the properties of `Extraction`: the value of a text is a fold over its digits, an induction
  over data.

## 5. Disagreements found

For the parser, the README of the library promises to parse "JSON data as it arrives" (line 11). Each of its runs ends in a
state where `events` is no prefix of the promised callbacks; the documents and splits were replayed
on the compiled code, with the same result.

- **A backslash as the last byte of a buffer.** `CAPTURE_VALUE` steps back onto it (793) and
  toggles `escape_char` again (564): the escaped quote behind it closes the string. The scan of an
  unknown key does the same (425, 379).
- **A compact trie is not where it should be after a mismatch.** The walk leaves the position at the
  last sibling it looked at (`noizu_trie_c.c` 105-121, 135). When the buffer ends in an unknown key,
  the key is tokenized again from there: `z` becomes `bz`. The README of the library says that it
  "Supports different trie implementations" (line 13); the other two do not do this.
- **A known key that is a prefix, at the end of a buffer.** With `end_of_buffer_token` the token
  recorded at a split (`noizu_trie_a.c` 124-128) is not cleared: `onc` is reported with the token
  of `on`.
- **Tokens above 255** are announced in full with the key and truncated with the value (114, 119, 135).
- **Buffers of 64 KB and more**: 16-bit offsets against a 32-bit `buffer_pos` (56-57, 69, 74).
  The run scales 2^16 down to 16.

For strings, line 1756 says that `free_nullable_string_contents` will "Free inner string if allocated
and counter fully dereferenced".

- **A locked string that outgrew its loan.** `allocate_nullable_string` gives a field its own block but
  leaves `free_lock` set (1795); the free that follows takes the block for lent memory and drops
  it (1703-1712). The helpers, compiled alone and called in that order, leave one
  block allocated.

What the properties allow for, as the code does it; no run is spent on these, but each shows in the states of
`tables` or `helpers`:

- **Tokens in eight bits.** `json_parser__extract_token` stores a `uint32_t` in an 8-bit field (1587,
  `streaming-parser.h` 334-351), signed in one layout: 200 is -56, 256 a non-null 0. `TokensAsWritten` asks for
  the token of the key only where the field holds it, and for not null otherwise.
- **Values of more than 255 characters.** `len` is a `uint8_t` (1578): a string that begins with a key is taken
  for it where its length, modulo 256, is that of the key in its quotes. `TokensAsWritten` asks that it is taken
  for nothing else.
- **Digits in quotes as a boolean.** The closing quote is looked for one too far (1466): `"1"` is null,
  `"1x"` is true, although the comment says that an entry "must terminate" (1465). `BoolsAsWritten` allows both
  one character more and null.
- **Times and dates in single quotes.** `value_close` is compared with `JSON_QUOTE_VALUE` (1654, 1670): only what
  ends at offset 4 is read, which is too short for either. `TimesAsWritten` and `DatesAsWritten`
  allow it to be null or to be read as what it is.
- **Offsets of dates.** A date with an offset `+05:30` is null (1543, a comparison for an assignment).
  `DatesAsWritten` allows it to be null or to be read whole.

Other quirks the model has and the properties leave alone, because nothing says otherwise: closers are
not matched (`[}` closes); a number ends at anything but a digit or a point; after a whole
document a further one is parsed as members at depth 0; the `token` seen by `STRUCT_COMPLETE` and
by list items, and `parent`, are leftovers; a bare known key followed by a blank is reported as
unknown, and `extract_key` drops the last character of an unknown bare key (403 against 385, 433);
an empty string whose allocation failed is still marked as there (1635-1636), and lent memory that has
been let go of leaves `null` as it was (1711); a 257th holder would wrap the counter (1827; excluded by
`StringsAssumption`). With `escape_chars` and a known key that ends in an escaped quote the
terminator is taken for the delimiter (363). The trie states of parsers are never freed, and a definition
that is not constant is kept, because `TRIE_FREE_DEFINITION || TRIE_FREE_STATE` is 1 (909). Words in
quotes are booleans with return value 0, and other texts in quotes are false instead of null (1463-1472).
A text whose first character is above `n`, or just one above, is a null boolean, depending on what `os_strncmp` returns (1449). A date is never *said* to have been read, its
return value being 0 (1519 shadows `p`, and the code returned is that of a time). A number of 256 characters
would return 0, and a quoted one of the length of `uint8_t` look for its quote at the wrong place.

## 6. Not modelled, and the plan

Not modelled at all: printing, `main.c`, the bodies of the tests, the two functions a generator
writes for a compact table (`char_code`, `token_code`: only what they return), and
`extract_nullable_token`, which nothing calls. Left out of what is modelled: allocation failure in
`JsonParser` (it ends everything: see `ParserMemory`), `match_type`, the token positions and the sentinel
of the tokenizer (not used by the parser), `noizu_trie__validate` (not called), the union types of
integers (not compiled in by default), and floating-point rounding. Two parsers at once, which would share
`previous_buffer_pos` and `buffer_pos_offset` (56-57): no code or document of the repository
runs two, and `json_parser_globals_reset` is there to run one after another.

Order of work:

1. *done* `NoizuTrie`, `JsonParser`, `StreamingParser`, the two passing runs, the first theorems.
2. *done* `Tokenizer`, `TrieTables`: the three table walks against the abstract trie.
3. *done* `ParserMemory` against `ParserStack`.
4. *done* `NullableString`. Left: the forced flags and `FREE_LOCKED`, which no code here passes.
5. *done* `DynamicArray` and `Extraction`.
6. *done* Proofs: the invariants and action properties of `StreamingParser` and `Callbacks`, of
   `ParserMemory`, `NullableString` and `DynamicArray`; that `ParserMemory` implements `ParserStack`; the
   longest match of `Tokenizer`; that `TrieTables` implements `Tokenizer` on each kind of table, and the
   tokens of values.
7. Left to prove: that `ExtractField` returns the bits a generator has packed, for
   records of any width; the properties of `Extraction` and `ReportsDocument`.
