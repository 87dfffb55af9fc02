----------------------------- MODULE Offsets_proofs -----------------------------
(******************************************************************************)
(* What a call has given up is not asked for again, and a call looks at all   *)
(* it was given; what the parser at work still needs of the buffer is there,  *)
(* and its offsets point at it, whatever the host dropped in between.         *)
(*                                                                            *)
(* All need the buffer to be no longer than the uint16_t offsets can tell: in *)
(* a longer one retrace and the remembered offset come out modulo 65536.      *)
(*                                                                            *)
(* Between two calls the offsets are those of the last call, and off by what  *)
(* has been dropped since.  So the invariant speaks of the offsets less a     *)
(* drop: none during a call, previous_buffer_pos - buffer_pos before the next *)
(* one.  It also needs that the parser at work was cleared before it looks    *)
(* for a key or a value: a type left over would be taken for that of the      *)
(* value to come.                                                             *)
(******************************************************************************)
EXTENDS StreamingParser_proofs

\* Every document fits a buffer of less than U16 bytes, with what precedes it.
FitsOffsets == \A d \in Docs, n \in Leads : Len(d) + n < U16

\* What the host has put into the buffer.
Received == doc \in Docs /\ \E n \in Leads : base >= -n

\* The steps of a call leave the buffer alone, those of the host only ever move
\* its front forward.
LEMMA BufferStep ==
  ASSUME IInv, [Next]_vars
  PROVE  doc' = doc /\ base' \in Int /\ base' >= base
<1>1. base \in Int /\ pos \in Nat
  BY InvParts DEF ScalarsOK
<1>2. CASE Compact
  BY <1>1, <1>2, SMT DEF Compact
<1>3. CASE Receive \/ Call
  BY <1>1, <1>3, SMT DEF Receive, Call, hostVars
<1>4. CASE LoopExit \/ Dispatch
  <2>1. UNCHANGED hostVars
    BY <1>4, Zenon DEF LoopExit, ReturnToHost, Dispatch
  <2> QED
    BY <1>1, <2>1, SMT DEF hostVars
<1>5. CASE Scan \/ Tokenize
  <2>1. DelegateFrame
    BY <1>5, Zenon DEF Scan, AdvanceKey_Start, AdvanceKey_Close, AdvanceKey_Skip,
       ParseKey_End, ParseKey_Next, AdvanceValue_Close, AdvanceValue_Start, AdvanceValue_Skip,
       CaptureValue_BracketExit, CaptureValue_Error, CaptureValue_Complete, CaptureValue_Next,
       ScanEnd, Return, NextByte, Tokenize, Tokenize_Continue, Tokenize_BufferEnd,
       Tokenize_Unknown, Tokenize_Key
  <2> QED
    BY <1>1, <2>1, SMT DEF DelegateFrame, hostVars
<1>6. CASE React
  <2>1. UNCHANGED hostVars
    BY <1>6, Zenon DEF React, React_EndOfBuffer, ReturnToHost, React_Nothing, React_KeyComplete,
       React_ContainerStart, React_ValueStart, React_ListItemComplete, React_Complete,
       React_ContainerComplete, Proceed
  <2> QED
    BY <1>1, <2>1, SMT DEF hostVars
<1>7. CASE UNCHANGED vars
  BY <1>1, <1>7, SMT DEF vars, hostVars
<1> QED
  BY <1>2, <1>3, <1>4, <1>5, <1>6, <1>7, Zenon DEF Next, Running

\* It stays the beginning of a document, behind a lead.
LEMMA ReceivedNext ==
  ASSUME IInv, Received, [Next]_vars
  PROVE  Received'
<1>1. PICK n \in Leads : base >= -n
  BY Zenon DEF Received
<1>2. base \in Int /\ n \in Nat /\ doc' = doc /\ base' \in Int /\ base' >= base
  BY InvParts, BufferStep, LeadsAssumption DEF ScalarsOK
<1>3. base' >= -n
  BY <1>1, <1>2, SMT
<1> QED
  BY <1>2, <1>3, Zenon DEF Received

\* Then positions are stored as they are.
LEMMA Narrow ==
  ASSUME FitsOffsets, IInv, Received
  PROVE  /\ size \in Nat /\ pos \in Nat /\ retrace \in Nat /\ base \in Int
         /\ size < U16 /\ pos <= size
         /\ Offset = pos
         /\ pc # "host" => retrace <= pos /\ (pos - retrace) % U16 = pos - retrace
<1>1. PICK n \in Leads : base >= -n
  BY Zenon DEF Received
<1>2. /\ n \in Nat /\ doc \in Docs /\ Len(doc) \in Nat
      /\ base \in Int /\ size \in Nat /\ pos \in Nat /\ retrace \in Nat
      /\ base + size <= Len(doc) /\ pos <= size
      /\ pc # "host" => retrace <= pos
  <2>1. n \in Nat /\ doc \in Docs /\ doc \in Seq(Chars)
    BY InvParts, LeadsAssumption, Zenon DEF ScalarsOK, Received
  <2>2. Len(doc) \in Nat
    BY <2>1, SMT
  <2>3. retrace \in Nat
    <3>1. retrace \in 0..(U16 - 1)
      BY InvParts DEF ScalarsOK
    <3> QED
      BY <3>1, WidthAssumption, SMT
  <2> QED
    BY <2>1, <2>2, <2>3, InvParts, Zenon DEF ScalarsOK, CursorInBuffer
<1>3. Len(doc) + n < U16
  BY <1>2, Zenon DEF FitsOffsets
<1>4. size < U16
  BY <1>1, <1>2, <1>3, WidthAssumption, SMT
<1>5. \A m \in 0..(U16 - 1) : m % U16 = m
  BY WidthAssumption, SMT
<1>6. pos \in 0..(U16 - 1) /\ (retrace <= pos => pos - retrace \in 0..(U16 - 1))
  BY <1>2, <1>4, WidthAssumption, SMT
<1> QED
  BY <1>2, <1>4, <1>5, <1>6, Zenon DEF Offset

--------------------------------------------------------------------------------
\* What the steps of a call do to the cursors the host sees.
LEMMA DelegateStep ==
  ASSUME Dispatch \/ Scan \/ Tokenize
  PROVE  pc # "host" /\ pc' # "host" /\ base' = base /\ retrace' = retrace
<1>1. CASE Dispatch
  <2>1. pc = "loop" /\ pc' \in {"react", "token", "scan"} /\ UNCHANGED <<hostVars, retrace>>
    <3>1. pc = "loop" /\ UNCHANGED <<hostVars, retrace>>
      BY <1>1, Zenon DEF Dispatch
    <3>2. CASE MustWait(pos + chain[cur'].char_skip)
      BY <1>1, <3>1, <3>2, Zenon DEF Dispatch
    <3>3. CASE ~MustWait(pos + chain[cur'].char_skip)
      BY <1>1, <3>1, <3>3, Zenon DEF Dispatch
    <3> QED
      BY <3>2, <3>3
  <2> QED
    BY <2>1, Zenon DEF hostVars
<1>2. CASE Scan
  <2>1. pc = "scan" /\ pc' \in {"scan", "react"} /\ DelegateFrame
    BY <1>2, Zenon DEF Scan, AdvanceKey_Start, AdvanceKey_Close, AdvanceKey_Skip,
       ParseKey_End, ParseKey_Next, AdvanceValue_Close, AdvanceValue_Start, AdvanceValue_Skip,
       CaptureValue_BracketExit, CaptureValue_Error, CaptureValue_Complete, CaptureValue_Next,
       ScanEnd, Return, NextByte, Scanning
  <2> QED
    BY <2>1, Zenon DEF DelegateFrame, hostVars, localVars
<1>3. CASE Tokenize
  <2>1. pc = "token" /\ pc' \in {"token", "scan", "react"} /\ DelegateFrame
    BY <1>3, Zenon DEF Tokenize, Tokenize_Continue, Tokenize_BufferEnd,
       Tokenize_Unknown, Tokenize_Key
  <2> QED
    BY <2>1, Zenon DEF DelegateFrame, hostVars, localVars
<1> QED
  BY <1>1, <1>2, <1>3

\* And those of the switch: the call ends, or goes on.
LEMMA SwitchStep ==
  ASSUME React
  PROVE  /\ pc = "react"
         /\ \/ result = "END_OF_BUFFER" /\ ReturnToHost
            \/ pc' = "loop" /\ base' = base /\ retrace' \in {retrace, Offset}
<1>1. CASE React_EndOfBuffer
  BY <1>1, Zenon DEF React_EndOfBuffer, Reacting
<1>2. CASE ~React_EndOfBuffer
  <2>1. pc = "react" /\ Proceed /\ (Keep \/ Release)
    BY <1>2, Zenon DEF React, Reacting, React_Nothing, React_KeyComplete,
       React_ContainerStart, React_ValueStart, React_ListItemComplete, React_Complete,
       React_ContainerComplete
  <2> QED
    BY <2>1, Zenon DEF Proceed, Keep, Release, hostVars
<1> QED
  BY <1>1, <1>2

\* No step takes back what a call gave up.
LEMMA ReleaseStep ==
  ASSUME FitsOffsets, IInv, Received, [Next]_vars
  PROVE  ReleasedUpTo' >= ReleasedUpTo
<1>1. /\ size \in Nat /\ pos \in Nat /\ retrace \in Nat /\ base \in Int
      /\ Offset = pos /\ (pc # "host" => retrace <= pos)
  BY Narrow
<1>2. CASE Receive
  BY <1>1, <1>2, SMT DEF Receive, ReleasedUpTo
<1>3. CASE Compact
  BY <1>1, <1>3, SMT DEF Compact, ReleasedUpTo
<1>4. CASE Call
  <2>1. pc = "host" /\ pc' # "host" /\ base' = base /\ retrace' = pos
    BY <1>1, <1>4, Zenon DEF Call, hostVars
  <2> QED
    BY <1>1, <2>1, SMT DEF ReleasedUpTo
<1>5. CASE pc # "host" /\ ReturnToHost
  <2>1. pc' = "host" /\ base' = base /\ pos' = retrace
    BY <1>5, Zenon DEF ReturnToHost, hostVars
  <2> QED
    BY <1>1, <1>5, <2>1, SMT DEF ReleasedUpTo
<1>6. CASE Dispatch \/ Scan \/ Tokenize
  BY <1>1, <1>6, DelegateStep, SMT DEF ReleasedUpTo
<1>7. CASE React
  <2>1. pc # "host"
    BY <1>7, SwitchStep
  <2>2. CASE pc' = "loop" /\ base' = base /\ retrace' \in {retrace, Offset}
    <3>1. retrace' \in Nat /\ retrace' >= retrace
      <4>1. CASE retrace' = retrace
        BY <1>1, <4>1, SMT
      <4>2. CASE retrace' = Offset
        BY <1>1, <2>1, <4>2, Zenon
      <4> QED
        BY <2>2, <4>1, <4>2
    <3>2. pc' # "host"
      BY <2>2
    <3>3. ReleasedUpTo = base + retrace /\ ReleasedUpTo' = base + (retrace')
      BY <2>1, <2>2, <3>2, Zenon DEF ReleasedUpTo
    <3>4. \A b \in Int, r \in Nat, s \in Nat : s >= r => b + s >= b + r
      BY SMT
    <3> QED
      BY <1>1, <3>1, <3>3, <3>4, Zenon
  <2> QED
    BY <1>5, <1>7, <2>1, <2>2, SwitchStep
<1>8. CASE UNCHANGED vars
  BY <1>1, <1>8, SMT DEF vars, hostVars, localVars, ReleasedUpTo
<1>9. LoopExit => pc # "host" /\ ReturnToHost
  BY Zenon DEF LoopExit
<1> QED
  BY <1>2, <1>3, <1>4, <1>5, <1>6, <1>7, <1>8, <1>9, Zenon DEF Next, Running

--------------------------------------------------------------------------------
\* A delegate says END_OF_BUFFER only with at most one byte left to look at.
EndSeen == pc = "react" /\ result = "END_OF_BUFFER" => pos + 1 >= size

\* Every delegate keeps to it: the ends of the scan loops, of the tokenizer, and
\* the check of a pending char_skip.
LEMMA EndSeenNext ==
  ASSUME IInv, EndSeen, [Next]_vars
  PROVE  EndSeen'
<1>1. ScalarsOK /\ CursorInBuffer /\ Stack(chain, cur)
  BY InvParts
<1>2. pos \in Nat /\ size \in Nat /\ pos <= size
  BY <1>1 DEF ScalarsOK, CursorInBuffer
<1>3. CASE Receive \/ Compact \/ Call \/ LoopExit
  <2>1. pc' # "react"
    BY <1>3, Zenon DEF Receive, Compact, Call, LoopExit, ReturnToHost
  <2> QED
    BY <2>1 DEF EndSeen
<1>4. CASE Dispatch
  <2> DEFINE here == pos + chain[cur'].char_skip
  <2>1. chain[cur'].char_skip \in {0, 1}
    <3>1. cur' \in 0..alloc /\ alloc \in 0..MaxDepth
      BY <1>1, <1>4, InvDispatch, InvParts, Zenon DEF IInv, TypeOK, ScalarsOK, Dispatch
    <3>2. cur' \in 0..MaxDepth
      BY <3>1, DepthAssumption, SMT
    <3>3. chain[cur'] \in Parser
      BY <1>1, <3>2, Zenon DEF Stack
    <3> QED
      BY <3>3, ParserFields, SMT DEF Bit
  <2>2. CASE MustWait(here)
    <3>1. pos' = pos /\ size' = size
      BY <1>4, <2>2, Zenon DEF Dispatch, hostVars
    <3>2. pos + 1 >= size
      BY <1>2, <2>1, <2>2, SMT DEF MustWait
    <3> QED
      BY <3>1, <3>2 DEF EndSeen
  <2>3. CASE ~MustWait(here)
    <3>1. (CASE chain[cur'].parse_state = "PARSE_KEY" -> pc' = "token" /\ UNCHANGED result
             [] chain[cur'].parse_state \in {"ADVANCE_KEY", "ADVANCE_VALUE", "ADVANCE_LIST_ITEM",
                                             "CAPTURE_VALUE", "CAPTURE_LIST_ITEM"} ->
                  pc' = "scan" /\ UNCHANGED result
             [] chain[cur'].parse_state \in {"LIST_COMPLETE", "COMPLETE"} ->
                  pc' = "react" /\ result' = chain[cur'].parse_state
             [] OTHER -> pc' = "react" /\ result' = "ERROR")
      BY <1>4, <2>3, Zenon DEF Dispatch
    <3>2. \/ pc' \in {"token", "scan"}
          \/ result' \in {"LIST_COMPLETE", "COMPLETE", "ERROR"}
      BY <3>1, Zenon
    <3> QED
      BY <3>2 DEF EndSeen
  <2> QED
    BY <2>2, <2>3
<1>5. CASE ScanEnd
  <2>1. pos' = (IF pos > 0 /\ pos = size THEN pos - 1 ELSE pos) /\ size' = size /\ pos >= size
    BY <1>5, Zenon DEF ScanEnd, DelegateFrame, hostVars
  <2> QED
    BY <1>2, <2>1, SMT DEF EndSeen
<1>6. CASE Scan /\ ~ScanEnd
  <2>1. pc = "scan"
    BY <1>6, Zenon DEF Scan, Scanning, AdvanceKey_Start, AdvanceKey_Close, AdvanceKey_Skip,
       ParseKey_End, ParseKey_Next, AdvanceValue_Close, AdvanceValue_Start, AdvanceValue_Skip,
       CaptureValue_BracketExit, CaptureValue_Error, CaptureValue_Complete, CaptureValue_Next
  <2>2. \/ pc' = pc
        \/ result' \in {"PARSE_KEY", "STRUCT_COMPLETE", "LIST_COMPLETE", "PARSE_KEY_COMPLETE",
                        "ADVANCE_VALUE_COMPLETE", "ERROR", "LIST_ITEM_COMPLETE", "COMPLETE"}
    BY <1>6, Zenon DEF Scan, AdvanceKey_Start, AdvanceKey_Close, AdvanceKey_Skip,
       ParseKey_End, ParseKey_Next, AdvanceValue_Close, AdvanceValue_Start, AdvanceValue_Skip,
       CaptureValue_BracketExit, CaptureValue_Error, CaptureValue_Complete, CaptureValue_Next,
       Return, NextByte
  <2> QED
    BY <2>1, <2>2 DEF EndSeen
<1>7. CASE Tokenize_Continue \/ Tokenize_Unknown \/ Tokenize_Key
  <2>1. pc' \in {"token", "scan"} \/ result' = "PARSE_KEY_COMPLETE"
    BY <1>7, Zenon DEF Tokenize_Continue, Tokenize_Unknown, Tokenize_Key
  <2> QED
    BY <2>1 DEF EndSeen
<1>8. CASE Tokenize_BufferEnd
  <2>1. /\ pc = "token" /\ Advanced.code = "BUFFER_END"
        /\ pos' = Advanced.st.req_position /\ size' = size
    BY <1>8, Zenon DEF Tokenize_BufferEnd, DelegateFrame, hostVars
  <2>2. P.trie.req_position \in pos..(size - 1)
    BY <1>1, <2>1 DEF CursorInBuffer
  <2>3. P.trie \in TrieState
    BY <1>1, AtWork, ParserFields
  <2>4. P.trie.req_position < size
    BY <1>2, <2>2, SMT
  <2>5. Advanced.st.req_position = size - 1
    BY <1>1, <1>2, <2>1, <2>3, <2>4, BufferTyped, AdvanceTyped DEF Advanced
  <2> QED
    BY <1>2, <2>1, <2>5, SMT DEF EndSeen
<1>9. CASE React
  <2>1. pc' # "react"
    BY <1>9, SwitchStep, Zenon DEF ReturnToHost
  <2> QED
    BY <2>1 DEF EndSeen
<1>10. CASE UNCHANGED vars
  BY <1>10, Zenon DEF vars, hostVars, EndSeen
<1> QED
  BY <1>3, <1>4, <1>5, <1>6, <1>7, <1>8, <1>9, <1>10, Zenon DEF Next, Running, Tokenize

\* The step that ends a call leaves at most one byte to look at again.
LEMMA CallReadsStep ==
  ASSUME FitsOffsets, IInv, Received, EndSeen, [Next]_vars, pc # "host", pc' = "host"
  PROVE  pos' + buffer_pos_offset' + 1 >= size'
<1>1. ReturnToHost /\ pos + 1 >= size
  <2>1. /\ ~Receive /\ ~Compact /\ ~Call /\ ~UNCHANGED vars /\ ~(Dispatch \/ Scan \/ Tokenize)
    BY DelegateStep, Zenon DEF Receive, Compact, Call, vars
  <2>2. CASE LoopExit
    <3>1. pos \in Nat /\ size \in Nat
      BY Narrow
    <3>2. pos >= size /\ ReturnToHost
      BY <2>2, Zenon DEF LoopExit
    <3> QED
      BY <3>1, <3>2, SMT
  <2>3. CASE React
    <3>1. pc = "react" /\ result = "END_OF_BUFFER" /\ ReturnToHost
      BY <2>3, SwitchStep, Zenon
    <3> QED
      BY <3>1 DEF EndSeen
  <2> QED
    BY <2>1, <2>2, <2>3, Zenon DEF Next, Running
<1>2. /\ size \in Nat /\ pos \in Nat /\ retrace \in Nat
      /\ (pos - retrace) % U16 = pos - retrace
  BY Narrow
<1>3. pos' = retrace /\ buffer_pos_offset' = (pos - retrace) % U16 /\ size' = size
  BY <1>1, Zenon DEF ReturnToHost, hostVars
<1> QED
  BY <1>1, <1>2, <1>3, SMT

--------------------------------------------------------------------------------
\* Both facts hold throughout.
LEMMA ReceivedAlways == Spec => [](Received /\ EndSeen)
<1>1. Init => Received /\ EndSeen
  <2> SUFFICES ASSUME Init
               PROVE  Received /\ EndSeen
    OBVIOUS
  <2>1. doc \in Docs /\ pc = "host"
    BY Zenon DEF Init
  <2>2. PICK n \in Leads : base = -n
    BY Zenon DEF Init
  <2>3. base >= -n
    BY <2>2, LeadsAssumption, SMT
  <2> QED
    BY <2>1, <2>3, Zenon DEF Received, EndSeen
<1>2. IInv /\ Received /\ EndSeen /\ [Next]_vars => (Received /\ EndSeen)'
  BY ReceivedNext, EndSeenNext
<1> QED
  BY <1>1, <1>2, Invariance, PTL DEF Spec

\* ReleaseIsFinal: what the host may drop after a call, it may drop for good.
THEOREM ReleaseCorrect ==
  ASSUME FitsOffsets
  PROVE  Spec => ReleaseIsFinal
<1>1. IInv /\ Received /\ EndSeen /\ [Next]_vars => [ReleasedUpTo' >= ReleasedUpTo]_vars
  BY ReleaseStep
<1> QED
  BY <1>1, Invariance, ReceivedAlways, PTL DEF Spec, ReleaseIsFinal

\* CallReadsAll: no call leaves more than one received byte for the next.
THEOREM CallReadsCorrect ==
  ASSUME FitsOffsets
  PROVE  Spec => CallReadsAll
<1>1. IInv /\ Received /\ EndSeen /\ [Next]_vars =>
        [pc # "host" /\ pc' = "host" => pos' + buffer_pos_offset' + 1 >= size']_vars
  BY CallReadsStep
<1> QED
  BY <1>1, Invariance, ReceivedAlways, PTL DEF Spec, CallReadsAll

--------------------------------------------------------------------------------
(* The offsets of the parser at work. *)

\* In the n bytes of the buffer b, drop less than it says, the key of p starts on
\* a character that can start it, not before r.
StartsAt(b, n, p, drop, r) ==
  /\ p.key_start - drop \in r..(n - 1)
  /\ b[p.key_start - drop] \in IF p.trie.delimiter \in Quotes THEN {p.trie.delimiter} ELSE KeyChars

\* What a parser needs that has read up to at: in the middle of a key,
KeyBegun(b, n, p, drop, r, at) ==
  p.parse_state = "PARSE_KEY" =>
    /\ StartsAt(b, n, p, drop, r) /\ p.key_start - drop <= at
    /\ p.trie.delimiter \in Quotes => p.in_d_quote = 1 \/ p.in_s_quote = 1

\* between the key of a struct member and the end of its value,
KeyKnown(b, n, p, member, drop, r) ==
  p.parse_state \in {"ADVANCE_VALUE", "CAPTURE_VALUE"} /\ member =>
    /\ StartsAt(b, n, p, drop, r)
    /\ p.key_close - drop \in (p.key_start - drop)..(n - 1)

\* and in the middle of a value.
ValueBegun(b, n, p, drop, r) ==
  p.parse_state \in ValueCapture /\ p.value_type # "ERROR" =>
    /\ p.value_start - drop \in r..(n - 1)
    /\ ValueTypeOf(b[p.value_start - drop]) = p.value_type

Points(b, n, p, member, drop, r, at) ==
  /\ KeyBegun(b, n, p, drop, r, at)
  /\ KeyKnown(b, n, p, member, drop, r)
  /\ ValueBegun(b, n, p, drop, r)

\* The parse states of a parser that needs nothing.
Idle ==
  {"ADVANCE_KEY", "ADVANCE_LIST_ITEM", "LIST_COMPLETE", "STRUCT_COMPLETE", "COMPLETE"}

Needy(p, member) ==
  \/ p.parse_state = "PARSE_KEY"
  \/ p.parse_state \in {"ADVANCE_VALUE", "CAPTURE_VALUE"} /\ member
  \/ p.parse_state \in ValueCapture /\ p.value_type # "ERROR"

Member == InStruct(chain, cur)

PointsInCall ==
  /\ previous_buffer_pos = retrace
  /\ Points(Buffer, size, P, Member, 0, retrace, pos)

PointsBetween ==
  /\ Needy(P, Member) => previous_buffer_pos >= pos
  /\ Points(Buffer, size, P, Member, previous_buffer_pos - pos, pos, pos + buffer_pos_offset)

Pointing == IF pc = "host" THEN PointsBetween ELSE PointsInCall

\* A parser that looks for a key or a value has no value type yet, but for one
\* that has just delivered a list item.
Searching == {"ADVANCE_KEY", "PARSE_KEY", "ADVANCE_VALUE", "ADVANCE_LIST_ITEM"}
Untyped ==
  P.parse_state \in Searching =>
    P.value_type = "ERROR" \/ (pc = "react" /\ result = "LIST_ITEM_COMPLETE")

\* The parser that is told of a value is the one that found it.
Found == pc = "react" /\ result = "ADVANCE_VALUE_COMPLETE" => P.parse_state = "CAPTURE_VALUE"

Sound == Pointing /\ Untyped /\ Found
OffsetInv == IInv /\ Received /\ Sound

--------------------------------------------------------------------------------
\* A parser that needs nothing needs nothing of the buffer.
LEMMA IdlePoints ==
  ASSUME NEW b, NEW n, NEW p, NEW member, NEW drop, NEW r, NEW at, p.parse_state \in Idle
  PROVE  Points(b, n, p, member, drop, r, at)
  BY Zenon DEF Points, KeyBegun, KeyKnown, ValueBegun, Idle, ValueCapture

\* q needs no more than p: it is no further, and its offsets are the same.
NoMore(q, p) ==
  /\ q.parse_state = p.parse_state /\ q.value_type \in {p.value_type, "ERROR"}
  /\ q.key_start = p.key_start /\ q.key_close = p.key_close /\ q.value_start = p.value_start
  /\ q.trie.delimiter = p.trie.delimiter
  /\ q.in_d_quote = p.in_d_quote /\ q.in_s_quote = p.in_s_quote

\* What serves p serves q as well.
LEMMA NoMorePoints ==
  ASSUME NEW b, NEW n, NEW p, NEW q, NEW member, NEW drop \in Int, NEW r, NEW at \in Int,
         NEW to \in Int, at <= to, p.key_start \in Int,
         NoMore(q, p), Points(b, n, p, member, drop, r, at)
  PROVE  Points(b, n, q, member, drop, r, to)
<1>1. KeyBegun(b, n, q, drop, r, to)
  <2>1. p.key_start - drop <= at => p.key_start - drop <= to
    BY SMT
  <2> QED
    BY <2>1, Zenon DEF NoMore, Points, KeyBegun, StartsAt
<1>2. KeyKnown(b, n, q, member, drop, r)
  BY Zenon DEF NoMore, Points, KeyKnown, StartsAt
<1>3. ValueBegun(b, n, q, drop, r)
  BY Zenon DEF NoMore, Points, ValueBegun
<1> QED
  BY <1>1, <1>2, <1>3 DEF Points

\* A step within a call leaves the buffer alone.
LEMMA SameBuffer ==
  ASSUME UNCHANGED hostVars
  PROVE  Buffer' = Buffer /\ size' = size
  BY DEF Buffer, hostVars

\* What a step within a call has to show.
LEMMA Arrive ==
  ASSUME UNCHANGED hostVars, pc' # "host", previous_buffer_pos' = retrace',
         NEW p, P' = p, NEW m, Member' = m,
         Points(Buffer, size, p, m, 0, retrace', pos')
  PROVE  Pointing'
<1>1. Buffer' = Buffer /\ size' = size
  BY SameBuffer
<1>2. Points(Buffer, size, P, Member, 0, retrace, pos)'
  BY <1>1
<1> QED
  BY <1>2 DEF Pointing, PointsInCall

\* Nothing, for one that leaves a parser that needs nothing,
LEMMA ArriveIdle ==
  ASSUME UNCHANGED hostVars, pc' # "host", previous_buffer_pos' = retrace',
         P'.parse_state \in Idle
  PROVE  Pointing'
<1>1. Points(Buffer, size, P', Member', 0, retrace', pos')
  BY IdlePoints
<1> QED
  BY <1>1, Arrive

\* little, for one that leaves a parser that needs no more,
LEMMA ArriveNoMore ==
  ASSUME IInv, Pointing, pc # "host", pc' # "host", UNCHANGED hostVars,
         UNCHANGED <<previous_buffer_pos, retrace>>,
         NoMore(P', P), Member' = Member, pos <= pos', pos' \in Int
  PROVE  Pointing'
<1>1. previous_buffer_pos = retrace /\ Points(Buffer, size, P, Member, 0, retrace, pos)
  BY DEF Pointing, PointsInCall
<1>2. pos \in Int /\ P.key_start \in Int
  <2>1. P \in Parser /\ pos \in Nat
    BY InvParts, AtWork DEF ScalarsOK
  <2> QED
    BY <2>1, ParserFields, WidthAssumption, SMT
<1>3. Points(Buffer, size, P', Member, 0, retrace, pos')
  BY <1>1, <1>2, NoMorePoints
<1> QED
  BY <1>1, <1>3, Arrive

--------------------------------------------------------------------------------
\* What is known during a call, and of the parser at work.
LEMMA Known ==
  ASSUME OffsetInv, pc # "host"
  PROVE  /\ IInv /\ P \in Parser /\ cur \in 0..MaxDepth /\ chain \in [0..MaxDepth -> Parser]
         /\ pos \in Nat /\ size \in Nat /\ retrace \in Nat /\ pos <= size /\ retrace <= pos
         /\ cur = 0 \/ StateFits(InList(chain, cur), P.parse_state)
         /\ P.key_start \in Nat /\ P.key_close \in Nat /\ P.value_start \in Nat
         /\ previous_buffer_pos = retrace
         /\ Points(Buffer, size, P, Member, 0, retrace, pos)
<1>1. IInv /\ previous_buffer_pos = retrace /\ Points(Buffer, size, P, Member, 0, retrace, pos)
  BY DEF OffsetInv, Sound, Pointing, PointsInCall
<1>2. /\ P \in Parser /\ cur \in 0..MaxDepth /\ chain \in [0..MaxDepth -> Parser]
      /\ cur = 0 \/ StateFits(InList(chain, cur), P.parse_state)
      /\ ScalarsOK /\ CursorInBuffer
  BY <1>1, InvParts, AtWork
<1>3. /\ pos \in Nat /\ size \in Nat /\ retrace \in 0..(U16 - 1) /\ pos <= size /\ retrace <= pos
  BY <1>2 DEF ScalarsOK, CursorInBuffer
<1>4. /\ P.key_start \in 0..(U16 - 1) /\ P.key_close \in 0..(U16 - 1)
      /\ P.value_start \in 0..(U16 - 1)
  BY <1>2, ParserFields
<1>5. \A o \in 0..(U16 - 1) : o \in Nat
  BY WidthAssumption, SMT
<1> QED
  BY <1>1, <1>2, <1>3, <1>4, <1>5

\* A delegate that goes on, or returns, with a parser that needs no more.
LEMMA KeepsNoMore ==
  ASSUME OffsetInv, pc # "host", pc # "react", pc' # "host", DelegateFrame,
         NEW p, P' = p, NoMore(p, P), Member' = Member, pos' \in Int, pos <= pos',
         pc' = "react" => result' # "ADVANCE_VALUE_COMPLETE"
  PROVE  Sound'
<1>1. UNCHANGED hostVars /\ UNCHANGED <<previous_buffer_pos, retrace>>
  BY DEF DelegateFrame, globalVars, localVars
<1>2. IInv /\ Pointing /\ Untyped
  BY DEF OffsetInv, Sound
<1>3. Pointing'
  BY <1>1, <1>2, ArriveNoMore
<1>4. Untyped'
  BY <1>2, Zenon DEF Untyped, NoMore
<1>5. Found'
  BY DEF Found
<1> QED
  BY <1>3, <1>4, <1>5 DEF Sound

\* One that returns with a parser that needs nothing.
LEMMA KeepsNothing ==
  ASSUME OffsetInv, pc # "host", pc' = "react", DelegateFrame,
         NEW p, P' = p, p.parse_state \in Idle,
         p.parse_state \in Searching => p.value_type = "ERROR" \/ result' = "LIST_ITEM_COMPLETE",
         result' # "ADVANCE_VALUE_COMPLETE"
  PROVE  Sound'
<1>1. UNCHANGED hostVars /\ previous_buffer_pos' = retrace' /\ pc' # "host"
  BY Known DEF DelegateFrame, globalVars, localVars
<1>2. Pointing'
  BY <1>1, ArriveIdle
<1>3. Untyped' /\ Found'
  BY Zenon DEF Untyped, Found
<1> QED
  BY <1>2, <1>3 DEF Sound

\* One that returns with any other parser.
LEMMA KeepsPoints ==
  ASSUME OffsetInv, pc # "host", pc' # "host", DelegateFrame, NEW p, P' = p, Member' = Member,
         Points(Buffer, size, p, Member, 0, retrace, pos'),
         p.parse_state \in Searching => p.value_type = "ERROR",
         pc' = "react" /\ result' = "ADVANCE_VALUE_COMPLETE" => p.parse_state = "CAPTURE_VALUE"
  PROVE  Sound'
<1>1. UNCHANGED hostVars /\ previous_buffer_pos' = retrace' /\ retrace' = retrace
  BY Known DEF DelegateFrame, globalVars, localVars
<1>2. Pointing'
  BY <1>1, Arrive
<1>3. Untyped' /\ Found'
  BY Zenon DEF Untyped, Found
<1> QED
  BY <1>2, <1>3 DEF Sound

\* Storing the parser at work.
Stores(p) == chain' = [chain EXCEPT ![cur] = p] /\ cur' = cur

\* Then that is the parser at work, of the same container.
LEMMA StoresIt ==
  ASSUME IInv, NEW p, Stores(p)
  PROVE  P' = p /\ Member' = Member
<1>1. chain \in [0..MaxDepth -> Parser] /\ cur \in 0..MaxDepth
  BY InvParts, AtWork
<1>2. chain'[cur'] = p
  BY <1>1, Zenon DEF Stores
<1>3. cur > 0 => cur - 1 # cur /\ cur - 1 \in 0..MaxDepth
  BY <1>1, DepthAssumption
<1>4. cur > 0 => chain'[cur - 1] = chain[cur - 1]
  BY <1>1, <1>3, Zenon DEF Stores
<1> QED
  BY <1>2, <1>4, Zenon DEF P, Member, InStruct, Stores

\* Storing it and, below it, its parent.
LEMMA StoresBoth ==
  ASSUME IInv, cur > 0, NEW p, NEW o, o.value_type = chain[cur - 1].value_type,
         chain' = [[chain EXCEPT ![cur] = p] EXCEPT ![cur - 1] = o], cur' = cur
  PROVE  P' = p /\ Member' = Member
<1> DEFINE q == [chain EXCEPT ![cur] = p]
<1>1. chain \in [0..MaxDepth -> Parser] /\ cur \in 0..MaxDepth
  BY InvParts, AtWork
<1>2. cur - 1 # cur /\ cur - 1 \in 0..MaxDepth
  BY <1>1, DepthAssumption
<1>3. q[cur] = p /\ DOMAIN q = 0..MaxDepth
  BY <1>1, Zenon
<1> HIDE DEF q
<1>4. chain'[cur] = p /\ chain'[cur - 1] = o
  BY <1>1, <1>2, <1>3, Zenon DEF q
<1> QED
  BY <1>4, Zenon DEF P, Member, InStruct

--------------------------------------------------------------------------------
\* json_process__ADVANCE_KEY sets key_start on the character it has found.
LEMMA SoundAdvanceKey ==
  ASSUME FitsOffsets, OffsetInv, AdvanceKey_Start \/ AdvanceKey_Close \/ AdvanceKey_Skip
  PROVE  Sound'
<1>1. /\ pc = "scan" /\ pc # "react" /\ pc # "host" /\ pos < size
      /\ P.parse_state = "ADVANCE_KEY"
  BY Zenon DEF AdvanceKey_Start, AdvanceKey_Close, AdvanceKey_Skip, Scanning
<1>2. /\ IInv /\ P \in Parser /\ pos \in Nat /\ size \in Nat /\ retrace \in Nat
      /\ retrace <= pos /\ P.value_type = "ERROR"
  BY <1>1, Known DEF OffsetInv, Sound, Untyped, Searching
<1>3. CASE AdvanceKey_Start
  <2> DEFINE delimiter == IF Char \in Quotes THEN Char ELSE ":"
             p == StartKey(delimiter)
  <2>1. Return("PARSE_KEY", [chain EXCEPT ![cur] = p])
    BY <1>3 DEF AdvanceKey_Start
  <2>2. /\ delimiter \in Quotes => Char = delimiter
        /\ delimiter \notin Quotes => Char \in KeyChars
    <3>1. ":" \notin Quotes
      BY DEF Quotes, DoubleQuote, SingleQuote
    <3>2. Char \in Quotes \cup KeyChars
      BY <1>3 DEF AdvanceKey_Start
    <3> QED
      BY <3>1, <3>2, Zenon
  <2> HIDE DEF delimiter
  <2>3. /\ p.parse_state = "PARSE_KEY" /\ p.key_start = Offset /\ p.value_type = P.value_type
        /\ p.trie = TrieReset(delimiter, pos)
        /\ delimiter = DoubleQuote => p.in_d_quote = 1
        /\ delimiter = SingleQuote => p.in_s_quote = 1
    BY <1>2, SMT DEF StartKey, Parser
  <2>4. p.trie.delimiter = delimiter /\ Offset = pos
    BY <1>1, <2>3, Narrow DEF TrieReset, OffsetInv
  <2> HIDE DEF p
  <2>5. /\ pc' = "react" /\ result' = "PARSE_KEY" /\ pos' = pos /\ DelegateFrame /\ Stores(p)
    BY <2>1, Zenon DEF Return, Stores, DelegateFrame, localVars
  <2>6. P' = p /\ Member' = Member
    BY <1>2, <2>5, StoresIt
  <2>7. pos - 0 = pos /\ pos \in retrace..(size - 1)
    BY <1>1, <1>2
  <2>8. KeyBegun(Buffer, size, p, 0, retrace, pos)
    BY <2>2, <2>3, <2>4, <2>7, <1>2 DEF KeyBegun, StartsAt, Char, Quotes
  <2>9. Points(Buffer, size, p, Member, 0, retrace, pos)
    BY <2>3, <2>8 DEF Points, KeyKnown, ValueBegun, ValueCapture
  <2> QED
    BY <1>1, <1>2, <2>3, <2>5, <2>6, <2>9, KeepsPoints
<1>4. CASE AdvanceKey_Close
  <2> DEFINE p == [P EXCEPT !.char_skip = 1]
             r == IF Char = "}" THEN "STRUCT_COMPLETE" ELSE "LIST_COMPLETE"
  <2>1. p.parse_state = "ADVANCE_KEY" /\ p.value_type = P.value_type
    BY <1>1, <1>2, SMT DEF Parser
  <2>2. [chain EXCEPT ![cur].char_skip = 1] = [chain EXCEPT ![cur] = p]
    BY DEF P
  <2>3. Return(r, [chain EXCEPT ![cur] = p]) /\ r # "ADVANCE_VALUE_COMPLETE"
    BY <1>4, <2>2, Zenon DEF AdvanceKey_Close
  <2> HIDE DEF p, r
  <2>4. pc' = "react" /\ result' = r /\ DelegateFrame /\ Stores(p)
    BY <2>3, Zenon DEF Return, Stores, DelegateFrame, localVars
  <2>5. P' = p
    BY <1>2, <2>4, StoresIt
  <2> QED
    BY <1>1, <1>2, <2>1, <2>3, <2>4, <2>5, KeepsNothing DEF Idle
<1>5. CASE AdvanceKey_Skip
  <2>1. pc' = "scan" /\ pos' = pos + 1 /\ DelegateFrame /\ Stores(P)
    BY <1>1, <1>5, Zenon DEF AdvanceKey_Skip, NextByte, Stores, DelegateFrame, localVars
  <2>2. P' = P /\ Member' = Member
    BY <1>2, <2>1, StoresIt
  <2>3. NoMore(P, P) /\ pos' \in Int /\ pos <= pos'
    BY <1>2, <2>1 DEF NoMore
  <2> QED
    BY <1>1, <2>1, <2>2, <2>3, KeepsNoMore
<1> QED
  BY <1>3, <1>4, <1>5

\* The end of a key keeps where it starts and what delimits it.
LEMMA KeyDoneKeeps ==
  ASSUME NEW p \in Parser
  PROVE  /\ KeyDone(p) \in Parser /\ KeyDone(p).parse_state = "ADVANCE_VALUE"
         /\ KeyDone(p).key_start = p.key_start /\ KeyDone(p).trie = p.trie
         /\ KeyDone(p).value_type = p.value_type
<1>1. KeyDone(p) \in Parser
  BY KeyDoneTyped
<1> QED
  BY <1>1, SMT DEF KeyDone, Parser

\* Then the value is looked for with the ends of the key known.
LEMMA KeyEnds ==
  ASSUME NEW b, NEW n, NEW r, NEW at, NEW close \in Int, NEW p, NEW q, NEW member,
         p.parse_state = "PARSE_KEY", KeyBegun(b, n, p, 0, r, at),
         q.parse_state = "ADVANCE_VALUE", q.key_start = p.key_start, p.key_start \in Int,
         q.trie.delimiter = p.trie.delimiter, q.key_close = close,
         p.key_start <= close, close <= n - 1, n \in Int
  PROVE  Points(b, n, q, member, 0, r, close)
<1>1. StartsAt(b, n, q, 0, r)
  BY Zenon DEF KeyBegun, StartsAt
<1>2. q.key_close - 0 \in (q.key_start - 0)..(n - 1)
  BY SMT
<1> QED
  BY <1>1, <1>2 DEF Points, KeyBegun, KeyKnown, ValueBegun, ValueCapture

\* json_process__PARSE_KEY, in the scan for the end of an unknown key: it is not
\* in front of the key, for the character a bare key ends with is none it can
\* start with.
LEMMA SoundParseKey ==
  ASSUME FitsOffsets, OffsetInv, ParseKey_End \/ ParseKey_Next
  PROVE  Sound'
<1>1. /\ pc = "scan" /\ pc # "react" /\ pc # "host" /\ pos < size
      /\ P.parse_state = "PARSE_KEY"
  BY Zenon DEF ParseKey_End, ParseKey_Next, Scanning
<1>2. /\ IInv /\ P \in Parser /\ pos \in Nat /\ size \in Nat /\ retrace \in Nat
      /\ retrace <= pos /\ P.value_type = "ERROR" /\ P.key_start \in Nat
      /\ KeyBegun(Buffer, size, P, 0, retrace, pos)
  BY <1>1, Known DEF OffsetInv, Sound, Untyped, Searching, Points
<1>3. CASE ParseKey_End
  <2> DEFINE skip  == IF EndsQuotedKey THEN 1 ELSE 0
             close == IF EndsBareKey /\ pos > 0 THEN (pos - 1) % U16 ELSE Offset
             k     == KeyDone(P)
             p     == [k EXCEPT !.char_skip = skip, !.key_close = close]
  <2>1. /\ k \in Parser /\ k.parse_state = "ADVANCE_VALUE" /\ k.key_start = P.key_start
        /\ k.trie = P.trie /\ k.value_type = P.value_type
    BY <1>2, KeyDoneKeeps
  <2>2. Return("PARSE_KEY_COMPLETE", [chain EXCEPT ![cur] = p])
    BY <1>3, Zenon DEF ParseKey_End, P
  <2>3. Offset = pos /\ size < U16
    BY Narrow DEF OffsetInv
  <2>4. close \in Int /\ P.key_start <= close /\ close <= size - 1
    <3>1. P.key_start <= pos /\ P.key_start - 0 = P.key_start
      BY <1>1, <1>2 DEF KeyBegun
    <3>2. CASE EndsBareKey /\ pos > 0
      <4>1. close = pos - 1
        <5>1. close = (pos - 1) % U16
          BY <3>2
        <5>2. pos - 1 \in 0..(U16 - 1)
          BY <1>1, <1>2, <2>3, <3>2, WidthAssumption
        <5>3. \A m \in 0..(U16 - 1) : m % U16 = m
          BY WidthAssumption, SMT
        <5> QED
          BY <5>1, <5>2, <5>3
      <4>2. P.key_start # pos
        <5>1. ~KeyQuoted /\ Buffer[pos] \notin KeyChars
          BY <3>2, Zenon DEF EndsBareKey, Char
        <5>2. Buffer[P.key_start] \in KeyChars
          BY <1>1, <1>2, <3>1, <5>1 DEF KeyBegun, StartsAt, KeyQuoted
        <5> QED
          BY <5>1, <5>2
      <4> QED
        BY <1>1, <1>2, <3>1, <4>1, <4>2
    <3>3. CASE ~(EndsBareKey /\ pos > 0)
      <4>1. close = pos
        BY <2>3, <3>3
      <4> QED
        BY <1>1, <1>2, <3>1, <4>1
    <3> QED
      BY <3>2, <3>3
  <2> HIDE DEF skip, close, k
  <2>5. /\ p.parse_state = "ADVANCE_VALUE" /\ p.key_start = P.key_start /\ p.trie = P.trie
        /\ p.value_type = P.value_type /\ p.key_close = close
    BY <2>1, SMT DEF Parser
  <2> HIDE DEF p
  <2>6. Points(Buffer, size, p, Member, 0, retrace, close)
    BY <1>1, <1>2, <2>4, <2>5, KeyEnds
  <2>7. Points(Buffer, size, p, Member, 0, retrace, pos)
    BY <2>5, <2>6 DEF Points, KeyBegun
  <2>8. /\ pc' = "react" /\ result' = "PARSE_KEY_COMPLETE" /\ pos' = pos /\ DelegateFrame /\ Stores(p)
    BY <2>2, Zenon DEF Return, Stores, DelegateFrame, localVars
  <2>9. P' = p /\ Member' = Member
    BY <1>2, <2>8, StoresIt
  <2> QED
    BY <1>1, <1>2, <2>5, <2>7, <2>8, <2>9, KeepsPoints
<1>4. CASE ParseKey_Next
  <2> DEFINE b == IF P.escape_char = 0 /\ Char = Backslash THEN 1 ELSE 0
             p == [P EXCEPT !.escape_char = b]
  <2>1. NextByte(p)
    BY <1>4, Zenon DEF ParseKey_Next
  <2> HIDE DEF b
  <2>2. NoMore(p, P)
    BY <1>2, SMT DEF Parser, NoMore
  <2> HIDE DEF p
  <2>3. pc' = "scan" /\ pos' = pos + 1 /\ DelegateFrame /\ Stores(p)
    BY <1>1, <2>1, Zenon DEF NextByte, Stores, DelegateFrame, localVars
  <2>4. P' = p /\ Member' = Member
    BY <1>2, <2>3, StoresIt
  <2>5. pos' \in Int /\ pos <= pos'
    BY <1>2, <2>3
  <2> QED
    BY <1>1, <2>2, <2>3, <2>4, <2>5, KeepsNoMore
<1> QED
  BY <1>3, <1>4

\* The tokenizer only moves on, with the delimiter it was given.
LEMMA SoundTokenize ==
  ASSUME FitsOffsets, OffsetInv, Tokenize
  PROVE  Sound'
<1>1. pc = "token" /\ pc # "host" /\ pc # "react"
  BY Zenon DEF Tokenize, Tokenize_Continue, Tokenize_BufferEnd, Tokenize_Unknown, Tokenize_Key
<1>2. /\ IInv /\ P \in Parser /\ pos \in Nat /\ size \in Nat /\ retrace \in Nat
      /\ P.parse_state = "PARSE_KEY" /\ P.value_type = "ERROR" /\ P.key_start \in Nat
      /\ KeyBegun(Buffer, size, P, 0, retrace, pos)
  <2>1. P.parse_state = "PARSE_KEY"
    BY <1>1 DEF OffsetInv, IInv, TokenizesKey
  <2> QED
    BY <1>1, <2>1, Known DEF OffsetInv, Sound, Untyped, Searching, Points
<1> DEFINE a == Advanced.st
           p == Token(P)
<1>3. /\ a \in TrieState /\ a.delimiter = P.trie.delimiter
      /\ a.req_position \in Int /\ pos <= a.req_position /\ a.req_position <= size - 1
  <2>1. P.trie.req_position \in pos..(size - 1) /\ P.trie \in TrieState
    BY <1>1, <1>2, ParserFields DEF IInv, CursorInBuffer
  <2>2. Buffer \in [0..(size - 1) -> Chars]
    BY <1>2, InvParts, BufferTyped
  <2>3. P.trie.req_position < size
    BY <1>2, <2>1
  <2>4. /\ a \in TrieState /\ a.delimiter = P.trie.delimiter
        /\ a.req_position \in P.trie.req_position..(size - 1)
    BY <1>2, <2>1, <2>2, <2>3, AdvanceTyped DEF Advanced
  <2> HIDE DEF a
  <2> QED
    BY <1>2, <2>1, <2>4
<1>4. p \in Parser /\ p.trie = a /\ NoMore(p, P)
  <2>1. p \in Parser
    BY <1>2, <1>3, Zenon DEF Token, Parser
  <2>2. /\ p.trie = a /\ p.parse_state = P.parse_state /\ p.value_type = P.value_type
        /\ p.key_start = P.key_start /\ p.key_close = P.key_close
        /\ p.value_start = P.value_start
        /\ p.in_d_quote = P.in_d_quote /\ p.in_s_quote = P.in_s_quote
    BY <1>2, SMT DEF Token, Parser
  <2> QED
    BY <1>3, <2>1, <2>2 DEF NoMore
<1>5. [chain EXCEPT ![cur] = Token(@)] = [chain EXCEPT ![cur] = p]
  BY DEF P
<1>6. a = Advanced.st /\ p = Token(P)
  OBVIOUS
<1> HIDE DEF a, p
<1>7. CASE Tokenize_Continue \/ Tokenize_BufferEnd \/ Tokenize_Unknown
  <2>1. /\ pc' \in {"token", "scan", "react"} /\ (pc' = "react" => result' = "END_OF_BUFFER")
        /\ pos' \in {pos, a.req_position} /\ DelegateFrame
        /\ chain' = [chain EXCEPT ![cur] = Token(@)]
    BY <1>1, <1>6, <1>7, Zenon DEF Tokenize_Continue, Tokenize_BufferEnd, Tokenize_Unknown
  <2>2. Stores(p)
    BY <1>5, <2>1, Zenon DEF Stores, DelegateFrame, localVars
  <2>3. P' = p /\ Member' = Member
    BY <1>2, <2>2, StoresIt
  <2>4. pos' \in Int /\ pos <= pos'
    BY <1>2, <1>3, <2>1
  <2> QED
    BY <1>1, <1>4, <2>1, <2>3, <2>4, KeepsNoMore
<1>8. CASE Tokenize_Key
  <2> DEFINE at   == a.req_position
             k    == KeyDone(p)
             skip == IF P.in_d_quote = 1 \/ P.in_s_quote = 1 THEN 1 ELSE k.char_skip
             close == at % U16
             q    == [k EXCEPT !.key_close = close, !.token = a.token, !.char_skip = skip]
  <2>1. /\ pos' = at /\ result' = "PARSE_KEY_COMPLETE" /\ pc' = "react" /\ DelegateFrame
        /\ chain' = [chain EXCEPT ![cur] = q]
    BY <1>6, <1>8 DEF Tokenize_Key
  <2>2. /\ k \in Parser /\ k.parse_state = "ADVANCE_VALUE" /\ k.key_start = p.key_start
        /\ k.trie = p.trie /\ k.value_type = p.value_type
    BY <1>4, KeyDoneKeeps
  <2>3. close = at
    <3>1. size < U16
      BY Narrow DEF OffsetInv
    <3>2. at \in 0..(U16 - 1)
      BY <1>2, <1>3, <3>1, WidthAssumption
    <3>3. \A m \in 0..(U16 - 1) : m % U16 = m
      BY WidthAssumption, SMT
    <3> QED
      BY <3>2, <3>3
  <2> HIDE DEF k, skip, close, at
  <2>4. /\ q.parse_state = "ADVANCE_VALUE" /\ q.key_start = p.key_start /\ q.trie = p.trie
        /\ q.value_type = p.value_type /\ q.key_close = close
    BY <2>2, SMT DEF Parser
  <2> HIDE DEF q
  <2>5. P.key_start <= close /\ close <= size - 1 /\ close \in Int
    <3>1. P.key_start <= pos
      BY <1>2 DEF KeyBegun
    <3> QED
      BY <1>2, <1>3, <2>3, <3>1 DEF at
  <2>6. Points(Buffer, size, q, Member, 0, retrace, close)
    <3>1. q.key_start = P.key_start /\ q.trie.delimiter = P.trie.delimiter
      BY <1>3, <1>4, <2>4 DEF NoMore
    <3> QED
      BY <1>2, <2>4, <2>5, <3>1, KeyEnds
  <2>7. Stores(q)
    BY <2>1, Zenon DEF Stores, DelegateFrame, localVars
  <2>8. P' = q /\ Member' = Member
    BY <1>2, <2>7, StoresIt
  <2>9. q.value_type = "ERROR"
    BY <1>2, <1>4, <2>4 DEF NoMore
  <2> QED
    BY <1>1, <2>1, <2>3, <2>4, <2>6, <2>8, <2>9, KeepsPoints
<1> QED
  BY <1>7, <1>8 DEF Tokenize

--------------------------------------------------------------------------------
\* json_process__ADVANCE_VALUE: the value starts on the character that gives it
\* its type, for the parser had none.
LEMMA SoundAdvanceValue ==
  ASSUME FitsOffsets, OffsetInv, AdvanceValue_Close \/ AdvanceValue_Start \/ AdvanceValue_Skip
  PROVE  Sound'
<1>1. /\ pc = "scan" /\ pc # "react" /\ pc # "host" /\ pos < size
      /\ P.parse_state \in ValueAdvance
  BY Zenon DEF AdvanceValue_Close, AdvanceValue_Start, AdvanceValue_Skip, Scanning
<1>2. /\ IInv /\ P \in Parser /\ pos \in Nat /\ size \in Nat /\ retrace \in Nat
      /\ retrace <= pos /\ P.value_type = "ERROR"
      /\ cur \in 0..MaxDepth /\ chain \in [0..MaxDepth -> Parser]
      /\ Points(Buffer, size, P, Member, 0, retrace, pos)
  BY <1>1, Known DEF OffsetInv, Sound, Untyped, Searching, ValueAdvance
<1>3. CASE AdvanceValue_Close
  <2> DEFINE list == Char = "]"
             r    == IF list THEN "LIST_COMPLETE" ELSE "STRUCT_COMPLETE"
             p    == [P EXCEPT !.value_close = Offset, !.char_skip = 1]
             q    == [chain EXCEPT ![cur] = p]
             fits == IF list THEN InList(chain, cur) ELSE InStruct(chain, cur)
             o    == [chain[cur - 1] EXCEPT !.parse_state = r, !.value_close = Offset]
             both == [q EXCEPT ![cur - 1] = o]
  <2>1. r # "ADVANCE_VALUE_COMPLETE"
    OBVIOUS
  <2>2. NoMore(p, P)
    BY <1>2, SMT DEF Parser, NoMore
  <2>3. Return(r, IF fits
                  THEN [q EXCEPT ![cur - 1] = [@ EXCEPT !.parse_state = r, !.value_close = Offset]]
                  ELSE q)
    BY <1>3 DEF AdvanceValue_Close, P
  <2>4. pc' = "react" /\ result' = r /\ pos' = pos /\ DelegateFrame /\ cur' = cur
    BY <2>3, Zenon DEF Return, DelegateFrame, localVars
  <2>5. P' = p /\ Member' = Member
    <3>1. CASE ~fits
      <4>1. Stores(p)
        BY <2>3, <2>4, <3>1, Zenon DEF Return, Stores
      <4> HIDE DEF p
      <4> QED
        BY <1>2, <4>1, StoresIt
    <3>2. CASE fits
      <4>1. cur > 0
        BY <3>2, Zenon DEF InList, InStruct
      <4>2. chain[cur - 1] \in Parser /\ cur - 1 # cur /\ cur - 1 \in 0..MaxDepth
        BY <1>2, <4>1, Below, DepthAssumption
      <4>3. q[cur - 1] = chain[cur - 1]
        BY <1>2, <4>2, Zenon
      <4>4. chain' = both
        <5> HIDE DEF q, fits
        <5> QED
          BY <2>3, <3>2, <4>3 DEF Return
      <4>5. o.value_type = chain[cur - 1].value_type
        BY <4>2, SMT DEF Parser
      <4> HIDE DEF p, o
      <4> QED
        BY <1>2, <2>4, <4>1, <4>4, <4>5, StoresBoth
    <3> QED
      BY <3>1, <3>2
  <2> HIDE DEF p, r
  <2>6. pos' \in Int /\ pos <= pos'
    BY <1>2, <2>4
  <2> QED
    BY <1>1, <2>1, <2>2, <2>4, <2>5, <2>6, KeepsNoMore
<1>4. CASE AdvanceValue_Start
  <2> DEFINE type == IF ValueTypeOf(Char) # "ERROR" THEN ValueTypeOf(Char) ELSE P.value_type
             brace   == IF Char = "{" THEN Inc8(P.brace_track) ELSE P.brace_track
             bracket == IF Char = "[" THEN Inc8(P.bracket_track) ELSE P.bracket_track
             d_track == IF Char = DoubleQuote THEN Inc8(P.d_quote_track) ELSE P.d_quote_track
             d_quote == IF Char = DoubleQuote THEN 1 ELSE P.in_d_quote
             s_track == IF Char = SingleQuote THEN Inc8(P.s_quote_track) ELSE P.s_quote_track
             s_quote == IF Char = SingleQuote THEN 1 ELSE P.in_s_quote
             p == [P EXCEPT
                     !.value_type    = type,
                     !.parse_state   = "CAPTURE_VALUE",
                     !.char_skip     = 1,
                     !.value_start   = Offset,
                     !.brace_track   = brace,
                     !.bracket_track = bracket,
                     !.d_quote_track = d_track,
                     !.in_d_quote    = d_quote,
                     !.s_quote_track = s_track,
                     !.in_s_quote    = s_quote]
  <2>1. Return("ADVANCE_VALUE_COMPLETE", [chain EXCEPT ![cur] = p])
    BY <1>4 DEF AdvanceValue_Start
  <2>2. type = ValueTypeOf(Char)
    BY <1>2, <1>4, Zenon DEF AdvanceValue_Start
  <2> HIDE DEF type, brace, bracket, d_track, s_track, d_quote, s_quote
  <2>3. /\ p.parse_state = "CAPTURE_VALUE" /\ p.value_type = type /\ p.value_start = Offset
        /\ p.key_start = P.key_start /\ p.key_close = P.key_close /\ p.trie = P.trie
    BY <1>2, SMT DEF Parser
  <2> HIDE DEF p
  <2>4. Offset = pos
    BY Narrow DEF OffsetInv
  <2>5. ValueBegun(Buffer, size, p, 0, retrace)
    <3>1. pos - 0 = pos /\ pos \in retrace..(size - 1)
      BY <1>1, <1>2
    <3> QED
      BY <2>2, <2>3, <2>4, <3>1 DEF ValueBegun, Char
  <2>6. Member => P.parse_state = "ADVANCE_VALUE"
    <3>1. cur = 0 \/ StateFits(InList(chain, cur), P.parse_state)
      BY <1>1, Known
    <3>2. Member => cur # 0 /\ ~InList(chain, cur)
      BY <1>2, DepthAssumption DEF Member, InStruct, InList
    <3> QED
      BY <1>1, <3>1, <3>2 DEF StateFits, ValueAdvance
  <2>7. KeyKnown(Buffer, size, p, Member, 0, retrace)
    <3>1. KeyKnown(Buffer, size, P, Member, 0, retrace)
      BY <1>2 DEF Points
    <3> QED
      BY <2>3, <2>6, <3>1, Zenon DEF KeyKnown, StartsAt
  <2>8. Points(Buffer, size, p, Member, 0, retrace, pos)
    BY <2>3, <2>5, <2>7 DEF Points, KeyBegun
  <2>9. /\ pc' = "react" /\ pos' = pos /\ DelegateFrame /\ Stores(p)
    BY <2>1, Zenon DEF Return, Stores, DelegateFrame, localVars
  <2>10. P' = p /\ Member' = Member
    BY <1>2, <2>9, StoresIt
  <2> QED
    BY <1>1, <2>3, <2>8, <2>9, <2>10, KeepsPoints DEF Searching
<1>5. CASE AdvanceValue_Skip
  <2>1. pc' = "scan" /\ pos' = pos + 1 /\ DelegateFrame /\ Stores(P)
    BY <1>1, <1>5, Zenon DEF AdvanceValue_Skip, NextByte, Stores, DelegateFrame, localVars
  <2>2. P' = P /\ Member' = Member
    BY <1>2, <2>1, StoresIt
  <2>3. NoMore(P, P) /\ pos' \in Int /\ pos <= pos'
    BY <1>2, <2>1 DEF NoMore
  <2> QED
    BY <1>1, <2>1, <2>2, <2>3, KeepsNoMore
<1> QED
  BY <1>3, <1>4, <1>5

\* Following quotes, escapes and brackets asks for nothing more.
LEMMA TrackNoMore ==
  ASSUME NEW p \in Parser, NEW c
  PROVE  NoMore(Track(p, c), p)
  BY TrackTyped, Zenon DEF NoMore

\* json_process__CAPTURE_VALUE keeps hold of the value and its key while the
\* value goes on, and of neither when it ends or fails.
LEMMA SoundCaptureValue ==
  ASSUME FitsOffsets, OffsetInv,
         \/ CaptureValue_BracketExit \/ CaptureValue_Error
         \/ CaptureValue_Complete \/ CaptureValue_Next
  PROVE  Sound'
<1>1. /\ pc = "scan" /\ pc # "react" /\ pc # "host" /\ pos < size
      /\ P.parse_state \in ValueCapture
  BY Zenon DEF CaptureValue_BracketExit, CaptureValue_Error, CaptureValue_Complete,
               CaptureValue_Next, Scanning
<1>2. /\ IInv /\ P \in Parser /\ pos \in Nat
      /\ cur \in 0..MaxDepth /\ chain \in [0..MaxDepth -> Parser]
  BY <1>1, Known
<1> DEFINE t == Track(P, Char)
<1>3. t \in Parser /\ NoMore(t, P)
  BY <1>2, TrackTyped, TrackNoMore
<1>4. t = Track(P, Char)
  OBVIOUS
<1> HIDE DEF t
<1>5. CASE CaptureValue_BracketExit
  <2> DEFINE p == [t EXCEPT !.parse_state = "LIST_COMPLETE"]
  <2>1. p.parse_state = "LIST_COMPLETE"
    BY <1>3, SMT DEF Parser
  <2>2. Return("LIST_COMPLETE", [chain EXCEPT ![cur] = p])
    BY <1>4, <1>5 DEF CaptureValue_BracketExit
  <2> HIDE DEF p
  <2>3. pc' = "react" /\ result' = "LIST_COMPLETE" /\ DelegateFrame /\ Stores(p)
    BY <2>2, Zenon DEF Return, Stores, DelegateFrame, localVars
  <2>4. P' = p
    BY <1>2, <2>3, StoresIt
  <2> QED
    BY <1>1, <2>1, <2>3, <2>4, KeepsNothing DEF Idle, Searching
<1>6. CASE CaptureValue_Error
  <2> DEFINE p == [t EXCEPT !.value_type = "ERROR"]
  <2>1. NoMore(p, P)
    BY <1>3, SMT DEF Parser, NoMore
  <2>2. Return("ERROR", [chain EXCEPT ![cur] = p])
    BY <1>4, <1>6 DEF CaptureValue_Error
  <2> HIDE DEF p
  <2>3. pc' = "react" /\ result' = "ERROR" /\ pos' = pos /\ DelegateFrame /\ Stores(p)
    BY <2>2, Zenon DEF Return, Stores, DelegateFrame, localVars
  <2>4. P' = p /\ Member' = Member
    BY <1>2, <2>3, StoresIt
  <2>5. pos' \in Int /\ pos <= pos'
    BY <1>2, <2>3
  <2> QED
    BY <1>1, <2>1, <2>3, <2>4, <2>5, KeepsNoMore
<1>7. CASE CaptureValue_Complete
  <2> DEFINE after == Judged = "complete"
             known == after \/ pos > 0
             close == IF after THEN Offset ELSE (pos - 1) % U16
             member == InList(chain, cur)
             skip  == IF after THEN 1 ELSE t.char_skip
             ended == IF known THEN close ELSE t.value_close
             s     == IF member THEN "ADVANCE_LIST_ITEM" ELSE "COMPLETE"
             r     == IF member THEN "LIST_ITEM_COMPLETE" ELSE "COMPLETE"
             p     == [t EXCEPT !.char_skip = skip, !.value_close = ended, !.parse_state = s]
             q     == [chain EXCEPT ![cur] = p]
             o     == [chain[cur - 1] EXCEPT !.value_close = close]
  <2>1. Return(r, IF known /\ cur > 0 THEN [q EXCEPT ![cur - 1].value_close = close] ELSE q)
    BY <1>4, <1>7 DEF CaptureValue_Complete
  <2>2. /\ r # "ADVANCE_VALUE_COMPLETE" /\ s \in Idle
        /\ s \in Searching => r = "LIST_ITEM_COMPLETE"
    BY DEF Idle, Searching
  <2> HIDE DEF close, known, after, skip, ended, s, r, member
  <2>3. p.parse_state = s
    BY <1>3, SMT DEF Parser
  <2>4. pc' = "react" /\ result' = r /\ DelegateFrame /\ cur' = cur
    BY <2>1, Zenon DEF Return, DelegateFrame, localVars
  <2>5. P' = p
    <3>1. CASE ~(known /\ cur > 0)
      <4>1. Stores(p)
        BY <2>1, <2>4, <3>1, Zenon DEF Return, Stores
      <4> HIDE DEF p
      <4> QED
        BY <1>2, <4>1, StoresIt
    <3>2. CASE known /\ cur > 0
      <4>1. chain[cur - 1] \in Parser /\ cur - 1 # cur /\ cur - 1 \in 0..MaxDepth
        BY <1>2, <3>2, Below, DepthAssumption
      <4>2. q[cur - 1] = chain[cur - 1]
        BY <1>2, <4>1, Zenon
      <4>3. [q EXCEPT ![cur - 1].value_close = close] = [q EXCEPT ![cur - 1] = o]
        <5> HIDE DEF q
        <5> QED
          BY <4>2
      <4>4. chain' = [q EXCEPT ![cur - 1] = o]
        BY <2>1, <3>2, <4>3, Zenon DEF Return
      <4>5. o.value_type = chain[cur - 1].value_type
        BY <4>1, SMT DEF Parser
      <4> HIDE DEF p, o
      <4> QED
        BY <1>2, <2>4, <3>2, <4>4, <4>5, StoresBoth
    <3> QED
      BY <3>1, <3>2
  <2> HIDE DEF p
  <2> QED
    BY <1>1, <2>2, <2>3, <2>4, <2>5, KeepsNothing
<1>8. CASE CaptureValue_Next
  <2> DEFINE track == IF Judged = "first_l" THEN 1 ELSE t.null_track
             skip  == IF Judged = "first_l" THEN 1 ELSE t.char_skip
             p     == [t EXCEPT !.value_close = Offset, !.null_track = track, !.char_skip = skip]
  <2>1. NextByte(p)
    BY <1>4, <1>8 DEF CaptureValue_Next
  <2> HIDE DEF track, skip
  <2>2. NoMore(p, P)
    BY <1>3, SMT DEF Parser, NoMore
  <2> HIDE DEF p
  <2>3. pc' = "scan" /\ pos' = pos + 1 /\ DelegateFrame /\ Stores(p)
    BY <1>1, <2>1, Zenon DEF NextByte, Stores, DelegateFrame, localVars
  <2>4. P' = p /\ Member' = Member
    BY <1>2, <2>3, StoresIt
  <2>5. pos' \in Int /\ pos <= pos'
    BY <1>2, <2>3
  <2> QED
    BY <1>1, <2>2, <2>3, <2>4, <2>5, KeepsNoMore
<1> QED
  BY <1>5, <1>6, <1>7, <1>8

\* Stepping back from the end of the buffer does not step back over the start of
\* a key.
LEMMA SoundScanEnd ==
  ASSUME FitsOffsets, OffsetInv, ScanEnd
  PROVE  Sound'
<1>1. /\ pc = "scan" /\ pc # "host" /\ pc # "react" /\ pc' = "react" /\ pos >= size
      /\ pos' = (IF pos > 0 /\ pos = size THEN pos - 1 ELSE pos)
      /\ result' = "END_OF_BUFFER" /\ chain' = chain /\ DelegateFrame /\ cur' = cur
  BY Zenon DEF ScanEnd, DelegateFrame, localVars
<1>2. /\ pos \in Nat /\ size \in Nat /\ pos <= size /\ retrace \in Nat /\ P.key_start \in Nat
      /\ Points(Buffer, size, P, Member, 0, retrace, pos)
  BY <1>1, Known
<1>3. P' = P /\ Member' = Member
  BY <1>1 DEF P, Member
<1>4. KeyBegun(Buffer, size, P, 0, retrace, pos')
  <2>1. KeyBegun(Buffer, size, P, 0, retrace, pos)
    BY <1>2 DEF Points
  <2>2. StartsAt(Buffer, size, P, 0, retrace) => P.key_start - 0 <= pos'
    BY <1>1, <1>2 DEF StartsAt
  <2> QED
    BY <2>1, <2>2, Zenon DEF KeyBegun
<1>5. Points(Buffer, size, P, Member, 0, retrace, pos')
  BY <1>2, <1>4 DEF Points
<1>6. P.parse_state \in Searching => P.value_type = "ERROR"
  BY <1>1 DEF OffsetInv, Sound, Untyped
<1> QED
  BY <1>1, <1>3, <1>5, <1>6, KeepsPoints

--------------------------------------------------------------------------------
\* json_process up to its switch: buffer_pos only moves on.
LEMMA SoundDispatch ==
  ASSUME FitsOffsets, OffsetInv, IInv', Dispatch
  PROVE  Sound'
<1>1. pc = "loop" /\ pc # "host" /\ UNCHANGED <<hostVars, globalVars, retrace, alloc>>
  BY Zenon DEF Dispatch
<1>2. /\ IInv /\ P \in Parser /\ pos \in Nat /\ cur \in 0..MaxDepth
      /\ chain \in [0..MaxDepth -> Parser]
      /\ P.key_start \in Nat /\ previous_buffer_pos = retrace
      /\ Points(Buffer, size, P, Member, 0, retrace, pos)
  BY <1>1, Known
<1>3. cur' = cur
  <2>1. Stack(chain, cur) /\ alloc \in 0..MaxDepth /\ cur \in 0..alloc
    BY <1>2, InvParts DEF ScalarsOK
  <2>2. cur <= alloc /\ cur \in 0..cur
    BY <2>1, DepthAssumption
  <2>3. TopParser(chain, alloc, cur) = cur
    BY <2>1, <2>2, TopIsCurrent
  <2> QED
    BY <2>3 DEF Dispatch
<1> DEFINE here == pos + P.char_skip
           at   == IF P.parse_state = "PARSE_KEY" THEN here ELSE P.trie.req_position
           p    == [P EXCEPT !.char_skip = 0, !.trie.req_position = at]
<1>4. chain[cur'] = P
  BY <1>3 DEF P
<1>5. NoMore(p, P)
  <2>1. P.trie \in TrieState
    BY <1>2, ParserFields
  <2> HIDE DEF at
  <2> QED
    BY <1>2, <2>1, SMT DEF Parser, TrieState, NoMore
<1>6. NoMore(P, P)
  BY DEF NoMore
<1>7. \/ /\ result' = "END_OF_BUFFER" /\ pc' = "react" /\ pos' = pos /\ chain' = chain
      \/ /\ pos' = here /\ chain' = [chain EXCEPT ![cur] = p]
         /\ pc' \in {"token", "scan", "react"}
         /\ pc' = "react" => result' \in {"LIST_COMPLETE", "COMPLETE", "ERROR"}
  <2>1. CASE MustWait(here)
    BY <1>4, <2>1, Zenon DEF Dispatch
  <2>2. CASE ~MustWait(here)
    <3>1. pos' = here /\ chain' = [chain EXCEPT ![cur] = p]
      BY <1>3, <1>4, <2>2 DEF Dispatch
    <3>2. (CASE P.parse_state = "PARSE_KEY" -> pc' = "token" /\ UNCHANGED result
             [] P.parse_state \in {"ADVANCE_KEY", "ADVANCE_VALUE", "ADVANCE_LIST_ITEM",
                                   "CAPTURE_VALUE", "CAPTURE_LIST_ITEM"} ->
                  pc' = "scan" /\ UNCHANGED result
             [] P.parse_state \in {"LIST_COMPLETE", "COMPLETE"} ->
                  pc' = "react" /\ result' = P.parse_state
             [] OTHER -> pc' = "react" /\ result' = "ERROR")
      BY <1>4, <2>2, Zenon DEF Dispatch
    <3>3. /\ pc' \in {"token", "scan", "react"}
          /\ pc' = "react" => result' \in {"LIST_COMPLETE", "COMPLETE", "ERROR"}
      BY <3>2
    <3> HIDE DEF here, p
    <3> QED
      BY <3>1, <3>3
  <2> QED
    BY <2>1, <2>2
<1>8. P.char_skip \in Nat
  <2>1. P.char_skip \in Bit
    BY <1>2, ParserFields
  <2> QED
    BY <2>1 DEF Bit
<1> HIDE DEF p
<1>9. NoMore(P', P) /\ Member' = Member /\ pos' \in Int /\ pos <= pos'
  <2>1. CASE chain' = chain /\ pos' = pos
    <3>1. P' = P /\ Member' = Member
      BY <1>3, <2>1 DEF P, Member
    <3> QED
      BY <1>2, <1>6, <2>1, <3>1
  <2>2. CASE chain' = [chain EXCEPT ![cur] = p] /\ pos' = here
    <3>1. P' = p /\ Member' = Member
      BY <1>2, <1>3, <2>2, StoresIt DEF Stores
    <3> QED
      BY <1>2, <1>5, <1>8, <2>2, <3>1
  <2> QED
    BY <1>7, <2>1, <2>2
<1>10. /\ pc' # "host" /\ pc' \in {"token", "scan", "react"}
       /\ pc' = "react" => result' \notin {"ADVANCE_VALUE_COMPLETE"}
  BY <1>7
<1>11. Pointing'
  BY <1>1, <1>2, <1>9, <1>10, ArriveNoMore DEF globalVars, OffsetInv, Sound
<1>12. Untyped'
  <2>1. P.parse_state \in Searching => P.value_type = "ERROR"
    BY <1>1 DEF OffsetInv, Sound, Untyped
  <2> QED
    BY <1>9, <2>1, Zenon DEF Untyped, NoMore
<1>13. Found'
  BY <1>10 DEF Found
<1> QED
  BY <1>11, <1>12, <1>13 DEF Sound

--------------------------------------------------------------------------------
(* The switch of json_streaming_parser. *)

\* A parser as reset_json_parser leaves it.
Cleared(p) == p.parse_state \in {"ADVANCE_KEY", "ADVANCE_LIST_ITEM"} /\ p.value_type = "ERROR"

\* reset_json_parser does that to any parser,
LEMMA ResetClears ==
  ASSUME NEW p \in Parser, NEW in_list \in BOOLEAN
  PROVE  Cleared(ResetParser(p, in_list))
<1> DEFINE z == Zeroed(p.trie)
           s == IF in_list THEN "ADVANCE_LIST_ITEM" ELSE "ADVANCE_KEY"
<1>1. z \in Parser /\ z.value_type = "ERROR"
  BY ParserFields, ZeroedTyped
<1>2. s \in {"ADVANCE_KEY", "ADVANCE_LIST_ITEM"}
  OBVIOUS
<1>3. ResetParser(p, in_list) = [z EXCEPT !.active = 1, !.char_skip = p.char_skip,
                                          !.parent = p.parent % U8, !.parse_state = s]
  BY DEF ResetParser
<1> HIDE DEF z, s
<1> QED
  BY <1>1, <1>2, <1>3, SMT DEF Parser, Cleared

\* wherever it stands in the chain.
LEMMA ResetAtClears ==
  ASSUME NEW c, NEW q, Stack(q, c)
  PROVE  Cleared(ResetAt(q, c)[c])
<1>1. q[c] \in Parser /\ InList(q, c) \in BOOLEAN /\ c \in 0..MaxDepth /\ q \in [0..MaxDepth -> Parser]
  BY StackFields, Zenon DEF Stack
<1> DEFINE p == ResetParser(q[c], InList(q, c))
<1>2. Cleared(p)
  BY <1>1, ResetClears
<1>3. ResetAt(q, c) = [q EXCEPT ![c] = p]
  BY Zenon DEF ResetAt
<1> HIDE DEF p
<1> QED
  BY <1>1, <1>2, <1>3, Zenon

\* The parser spawned is as clear as one that was reset.
LEMMA SpawnClears ==
  ASSUME NEW c, NEW q, Stack(q, c), c < MaxDepth, NEW last \in 0..MaxDepth, NEW buffer_pos \in Nat
  PROVE  Cleared(SpawnParser(q, last, c, buffer_pos)[c + 1])
<1> DEFINE p    == q[c]
           list == p.value_type = "LIST"
           trie == IF c + 1 <= last THEN q[c + 1].trie
                   ELSE TrieReset(p.trie.delimiter, buffer_pos)
           n    == NextIndex(q, c)
           s    == IF list THEN "ADVANCE_LIST_ITEM" ELSE "ADVANCE_KEY"
           z    == Zeroed(trie)
           new  == [z EXCEPT !.active = 1, !.parse_state = s, !.char_skip = p.char_skip,
                             !.list_index = n, !.key_start = p.key_start,
                             !.key_close = p.key_close, !.value_start = p.value_start,
                             !.parent = p.token, !.token = p.token % U8,
                             !.bracket_track = IF list THEN 1 ELSE 0,
                             !.brace_track = IF list THEN 0 ELSE 1]
<1>1. q \in [0..MaxDepth -> Parser] /\ c \in 0..MaxDepth /\ c + 1 \in 0..MaxDepth /\ c # c + 1
  BY DepthAssumption, SMT DEF Stack
<1>2. p \in Parser /\ q[c + 1] \in Parser
  BY <1>1, Zenon
<1>3. trie \in TrieState
  <2>1. p.trie.delimiter \in Chars
    BY <1>2, ParserFields, Zenon DEF TrieState
  <2> QED
    BY <1>2, <2>1, ParserFields, TrieResetTyped, Zenon
<1>4. z \in Parser /\ z.value_type = "ERROR"
  BY <1>3, ZeroedTyped
<1>5. s \in {"ADVANCE_KEY", "ADVANCE_LIST_ITEM"}
  OBVIOUS
<1>6. SpawnParser(q, last, c, buffer_pos) = [q EXCEPT ![c].list_index = n, ![c + 1] = new]
  BY Zenon DEF SpawnParser
<1> HIDE DEF n, s, z, list, p
<1>7. Cleared(new)
  BY <1>4, <1>5, SMT DEF Parser, Cleared
<1> DEFINE r == [q EXCEPT ![c].list_index = n]
<1>8. SpawnParser(q, last, c, buffer_pos) = [r EXCEPT ![c + 1] = new] /\ DOMAIN r = 0..MaxDepth
  BY <1>1, <1>6
<1> HIDE DEF new, r
<1>9. [r EXCEPT ![c + 1] = new][c + 1] = new
  BY <1>1, <1>8, Zenon
<1> QED
  BY <1>7, <1>8, <1>9

\* Back in the main loop with a parser that starts over.
LEMMA ClearedSound ==
  ASSUME OffsetInv, pc = "react", Proceed, Keep \/ Release, Cleared(P')
  PROVE  Sound'
<1>1. UNCHANGED hostVars /\ pc' = "loop" /\ pc' # "host"
  BY Zenon DEF Proceed
<1>2. previous_buffer_pos' = retrace'
  BY Known DEF Keep, Release
<1>3. Pointing'
  BY <1>1, <1>2, ArriveIdle DEF Cleared, Idle
<1>4. Untyped' /\ Found'
  BY <1>1 DEF Untyped, Found, Cleared
<1> QED
  BY <1>3, <1>4 DEF Sound

\* A parser that starts over to capture the value it found keeps hold of the
\* value and of its key.
LEMMA CaptureKeeps ==
  ASSUME NEW p \in Parser, NEW in_list \in BOOLEAN, NEW index \in 0..(U16 - 1),
         NEW b, NEW n, NEW member, NEW r, NEW at,
         p.parse_state = "CAPTURE_VALUE", Points(b, n, p, member, 0, r, at)
  PROVE  LET q == CaptureParser(p, in_list, index) IN
         /\ Points(b, n, q, member, 0, r, at)
         /\ q.parse_state \in ValueCapture
<1> DEFINE z  == ResetParser(p, in_list)
           s  == IF in_list THEN "CAPTURE_LIST_ITEM" ELSE "CAPTURE_VALUE"
           dt == IF p.value_type = "DOUBLE_QUOTE" THEN 1 ELSE z.d_quote_track
           dq == IF p.value_type = "DOUBLE_QUOTE" THEN 1 ELSE z.in_d_quote
           st == IF p.value_type = "QUOTE" THEN 1 ELSE z.s_quote_track
           sq == IF p.value_type = "QUOTE" THEN 1 ELSE z.in_s_quote
           q  == CaptureParser(p, in_list, index)
<1>1. z \in Parser /\ z.trie = p.trie
  <2>1. z \in Parser
    BY ResetTyped
  <2> DEFINE y == Zeroed(p.trie)
  <2>2. y \in Parser /\ y.trie = p.trie
    BY ParserFields, ZeroedTyped
  <2>3. z = [y EXCEPT !.active = 1, !.char_skip = p.char_skip, !.parent = p.parent % U8,
                      !.parse_state = IF in_list THEN "ADVANCE_LIST_ITEM" ELSE "ADVANCE_KEY"]
    BY DEF ResetParser
  <2> HIDE DEF z, y
  <2>4. z.trie = y.trie
    BY <2>2, <2>3, SMT DEF Parser
  <2> QED
    BY <2>1, <2>2, <2>4
<1>2. q = [z EXCEPT !.key_start = p.key_start, !.key_close = p.key_close, !.token = p.token % U8,
                    !.value_start = p.value_start, !.value_type = p.value_type,
                    !.list_index = index, !.d_quote_track = dt, !.in_d_quote = dq,
                    !.s_quote_track = st, !.in_s_quote = sq, !.parse_state = s]
  BY DEF CaptureParser
<1>3. s \in ValueCapture
  BY DEF ValueCapture
<1> HIDE DEF z, s, dt, dq, st, sq, q
<1>4. /\ q.key_start = p.key_start /\ q.key_close = p.key_close
      /\ q.value_start = p.value_start /\ q.value_type = p.value_type
      /\ q.trie = p.trie /\ q.parse_state = s
  BY <1>1, <1>2, SMT DEF Parser
<1>5. KeyBegun(b, n, q, 0, r, at)
  BY <1>3, <1>4 DEF KeyBegun, ValueCapture
<1>6. KeyKnown(b, n, q, member, 0, r)
  BY <1>4, Zenon DEF Points, KeyKnown, StartsAt
<1>7. ValueBegun(b, n, q, 0, r)
  BY <1>4, Zenon DEF Points, ValueBegun, ValueCapture
<1> QED
  BY <1>3, <1>4, <1>5, <1>6, <1>7 DEF Points, q

\* The call comes back, with buffer_pos where everything still needed begins.
LEMMA SoundReturn ==
  ASSUME FitsOffsets, OffsetInv, pc # "host", ReturnToHost,
         pc = "react" => result = "END_OF_BUFFER"
  PROVE  Sound'
<1>1. /\ pc' = "host" /\ UNCHANGED hostVars /\ previous_buffer_pos' = previous_buffer_pos
      /\ pos' = retrace /\ buffer_pos_offset' = (pos - retrace) % U16
      /\ chain' = chain /\ cur' = cur
  BY Zenon DEF ReturnToHost, localVars
<1>2. /\ pos \in Nat /\ retrace \in Nat /\ previous_buffer_pos = retrace
      /\ Points(Buffer, size, P, Member, 0, retrace, pos)
  BY Known
<1>3. (pos - retrace) % U16 = pos - retrace
  BY Narrow DEF OffsetInv
<1>4. P' = P /\ Member' = Member
  BY <1>1 DEF P, Member
<1>5. Buffer' = Buffer /\ size' = size
  BY <1>1, SameBuffer
<1>6. /\ previous_buffer_pos' - pos' = 0 /\ pos' + buffer_pos_offset' = pos
      /\ previous_buffer_pos' >= pos'
  BY <1>1, <1>2, <1>3
<1>7. PointsBetween'
  <2>1. Points(Buffer', size', P', Member', previous_buffer_pos' - pos', pos',
               pos' + buffer_pos_offset')
    BY <1>1, <1>2, <1>4, <1>5, <1>6
  <2> QED
    BY <1>6, <2>1 DEF PointsBetween
<1>8. Untyped' /\ Found'
  BY <1>1, <1>4 DEF Untyped, Found, OffsetInv, Sound
<1> QED
  BY <1>1, <1>7, <1>8 DEF Sound, Pointing

\* The switch on the result.
LEMMA SoundReact ==
  ASSUME FitsOffsets, OffsetInv, React
  PROVE  Sound'
<1>1. pc = "react" /\ pc # "host"
  BY Zenon DEF React, Reacting, React_EndOfBuffer, React_Nothing, React_KeyComplete,
               React_ContainerStart, React_ValueStart, React_ListItemComplete,
               React_Complete, React_ContainerComplete
<1>2. /\ IInv /\ P \in Parser /\ pos \in Nat /\ cur \in 0..MaxDepth
      /\ chain \in [0..MaxDepth -> Parser] /\ previous_buffer_pos = retrace
      /\ Points(Buffer, size, P, Member, 0, retrace, pos)
  BY <1>1, Known
<1>3. Stack(chain, cur) /\ alloc \in 0..MaxDepth /\ InList(chain, cur) \in BOOLEAN
  BY <1>2, InvParts, AtWork DEF ScalarsOK
<1>4. CASE React_EndOfBuffer
  BY <1>1, <1>4, SoundReturn DEF React_EndOfBuffer, Reacting
<1>5. CASE React_Nothing \/ React_KeyComplete
  <2>1. /\ Proceed /\ Keep /\ cur' = cur /\ chain' = chain
        /\ result \in {"PARSE_KEY", "ERROR", "PARSE_KEY_COMPLETE"}
    BY <1>5, Zenon DEF React_Nothing, React_KeyComplete, Reacting
  <2>2. /\ pc' = "loop" /\ pos' = pos /\ UNCHANGED hostVars
        /\ UNCHANGED <<previous_buffer_pos, retrace>>
    BY <2>1 DEF Proceed, Keep
  <2>3. P' = P /\ Member' = Member /\ NoMore(P', P) /\ pos' \in Int /\ pos <= pos'
    BY <1>2, <2>1, <2>2 DEF P, Member, NoMore
  <2>4. Pointing'
    BY <1>1, <1>2, <2>2, <2>3, ArriveNoMore DEF OffsetInv, Sound
  <2>5. P.parse_state \in Searching => P.value_type = "ERROR"
    BY <2>1 DEF OffsetInv, Sound, Untyped
  <2>6. Untyped' /\ Found'
    BY <2>2, <2>3, <2>5 DEF Untyped, Found
  <2> QED
    BY <2>4, <2>6 DEF Sound
<1>6. CASE React_ContainerStart
  <2>1. /\ cur < MaxDepth /\ chain' = SpawnParser(chain, alloc, cur, pos)
        /\ cur' = cur + 1 /\ Proceed /\ Keep
    BY <1>6, Zenon DEF React_ContainerStart
  <2>2. Cleared(P')
    BY <1>2, <1>3, <2>1, SpawnClears DEF P
  <2> QED
    BY <1>1, <2>1, <2>2, ClearedSound
<1>7. CASE React_ValueStart
  <2> DEFINE member == InList(chain, cur)
             index  == IF member THEN chain[cur - 1].list_members ELSE 0
             p      == CaptureParser(P, member, index)
  <2>1. /\ chain' = [chain EXCEPT ![cur] = p] /\ cur' = cur /\ Proceed /\ Keep
        /\ result = "ADVANCE_VALUE_COMPLETE"
    BY <1>7, Zenon DEF React_ValueStart, P, Reacting
  <2>2. index \in 0..(U16 - 1)
    <3>1. CASE member
      <4>1. cur > 0
        BY <3>1, Zenon DEF InList
      <4> QED
        BY <1>2, <3>1, <4>1, Below, ParserFields, Zenon
    <3>2. CASE ~member
      BY <3>2, Widths, Zenon
    <3> QED
      BY <3>1, <3>2
  <2>3. P.parse_state = "CAPTURE_VALUE"
    BY <1>1, <2>1 DEF OffsetInv, Sound, Found
  <2>4. member \in BOOLEAN
    BY <1>3
  <2> HIDE DEF member, index
  <2>5. Points(Buffer, size, p, Member, 0, retrace, pos) /\ p.parse_state \in ValueCapture
    BY <1>2, <2>2, <2>3, <2>4, CaptureKeeps
  <2> HIDE DEF p
  <2>6. P' = p /\ Member' = Member
    BY <1>2, <2>1, StoresIt DEF Stores
  <2>7. /\ pc' = "loop" /\ pc' # "host" /\ pos' = pos /\ UNCHANGED hostVars
        /\ previous_buffer_pos' = retrace' /\ retrace' = retrace
    BY <1>2, <2>1 DEF Proceed, Keep
  <2>8. Pointing'
    BY <2>5, <2>6, <2>7, Arrive
  <2>9. Untyped' /\ Found'
    BY <2>5, <2>6, <2>7 DEF Untyped, Found, Searching, ValueCapture
  <2> QED
    BY <2>8, <2>9 DEF Sound
<1>8. CASE React_ListItemComplete
  <2>1. chain' = ResetAt(CountMember(chain, cur), cur) /\ cur' = cur /\ Proceed /\ Release
    BY <1>8, Zenon DEF React_ListItemComplete
  <2>2. Cleared(P')
    BY <1>3, <2>1, CountTyped, ResetAtClears DEF P
  <2> QED
    BY <1>1, <2>1, <2>2, ClearedSound
<1>9. CASE React_Complete
  <2>1. chain' = CountMember(ResetAt(chain, cur), cur) /\ cur' = cur /\ Proceed /\ Release
    BY <1>9, Zenon DEF React_Complete
  <2>2. Cleared(P')
    <3>1. Stack(ResetAt(chain, cur), cur) /\ Cleared(ResetAt(chain, cur)[cur])
      BY <1>3, ResetAtTyped, ResetAtClears
    <3>2. CountMember(ResetAt(chain, cur), cur)[cur] = ResetAt(chain, cur)[cur]
      BY <3>1, CountTyped
    <3> QED
      BY <2>1, <3>1, <3>2 DEF P
  <2> QED
    BY <1>1, <2>1, <2>2, ClearedSound
<1>10. CASE React_ContainerComplete
  <2> DEFINE e == DropTo(cur)
             r == ResetAt(DropParser(chain, cur), e)
             q == CountMember(r, e)
             p == [q[e] EXCEPT !.char_skip = P.char_skip]
  <2>1. cur' = e /\ Proceed /\ Release
    BY <1>10, Zenon DEF React_ContainerComplete
  <2>2. chain' = [q EXCEPT ![e] = p]
    BY <1>10, <2>1 DEF React_ContainerComplete
  <2>3. Stack(r, e) /\ Cleared(r[e])
    BY <1>3, DropTyped, ResetAtTyped, ResetAtClears
  <2> HIDE DEF r, e
  <2>4. Stack(q, e) /\ q[e] = r[e]
    BY <2>3, CountTyped
  <2> HIDE DEF q
  <2>5. e \in 0..MaxDepth /\ q \in [0..MaxDepth -> Parser] /\ q[e] \in Parser
    BY <2>4 DEF Stack
  <2>6. Cleared(p)
    BY <2>3, <2>4, <2>5, SMT DEF Cleared, Parser
  <2> HIDE DEF p
  <2>7. P' = p
    BY <2>1, <2>2, <2>5, Zenon DEF P
  <2> QED
    BY <1>1, <2>1, <2>6, <2>7, ClearedSound
<1> QED
  BY <1>4, <1>5, <1>6, <1>7, <1>8, <1>9, <1>10 DEF React

--------------------------------------------------------------------------------
(* The host. *)

\* The offsets of a parser are integers.
OffsetsInt(p) == p.key_start \in Int /\ p.key_close \in Int /\ p.value_start \in Int

\* A buffer that only grew at its end and lost k bytes at its front serves as well.
LEMMA MovedPoints ==
  ASSUME NEW b, NEW n \in Int, NEW b2, NEW n2 \in Int, NEW k \in Nat, n - k <= n2,
         NEW r \in Int, NEW at \in Int, k <= r,
         \A i \in k..(n - 1) : b2[i - k] = b[i],
         NEW p, OffsetsInt(p), NEW member, NEW drop \in Int, Points(b, n, p, member, drop, r, at)
  PROVE  Points(b2, n2, p, member, drop + k, r - k, at - k)
<1>1. p.key_start \in Int /\ p.key_close \in Int /\ p.value_start \in Int
  BY DEF OffsetsInt
<1>2. ASSUME NEW o \in Int, o - drop \in r..(n - 1)
      PROVE  /\ o - (drop + k) \in (r - k)..(n2 - 1)
             /\ b2[o - (drop + k)] = b[o - drop]
  <2>1. o - drop \in k..(n - 1) /\ o - (drop + k) = (o - drop) - k
    BY <1>2
  <2>2. b2[(o - drop) - k] = b[o - drop]
    BY <2>1
  <2> QED
    BY <1>2, <2>1, <2>2
<1>3. StartsAt(b, n, p, drop, r) => StartsAt(b2, n2, p, drop + k, r - k)
  BY <1>1, <1>2, Zenon DEF StartsAt
<1>4. p.key_start - drop <= at => p.key_start - (drop + k) <= at - k
  BY <1>1
<1>5. KeyBegun(b2, n2, p, drop + k, r - k, at - k)
  BY <1>3, <1>4, Zenon DEF Points, KeyBegun
<1>6. p.key_close - drop \in (p.key_start - drop)..(n - 1) =>
        p.key_close - (drop + k) \in (p.key_start - (drop + k))..(n2 - 1)
  BY <1>1
<1>7. KeyKnown(b2, n2, p, member, drop + k, r - k)
  BY <1>3, <1>6, Zenon DEF Points, KeyKnown
<1>8. ValueBegun(b2, n2, p, drop + k, r - k)
  BY <1>1, <1>2, Zenon DEF Points, ValueBegun
<1> QED
  BY <1>5, <1>7, <1>8 DEF Points

\* What is known between two calls.
LEMMA KnownBetween ==
  ASSUME FitsOffsets, OffsetInv, pc = "host"
  PROVE  /\ IInv /\ P \in Parser /\ OffsetsInt(P)
         /\ base \in Int /\ pos \in Nat /\ size \in Nat /\ buffer_pos_offset \in Nat
         /\ previous_buffer_pos \in 0..(U16 - 1) /\ pos <= size /\ size < U16
         /\ Needy(P, Member) => previous_buffer_pos >= pos
         /\ Points(Buffer, size, P, Member, previous_buffer_pos - pos, pos, pos + buffer_pos_offset)
<1>1. IInv /\ PointsBetween
  BY DEF OffsetInv, Sound, Pointing
<1>2. P \in Parser /\ ScalarsOK /\ pos <= size /\ size < U16
  BY <1>1, InvParts, AtWork, Narrow DEF OffsetInv
<1>3. OffsetsInt(P)
  <2>1. /\ P.key_start \in 0..(U16 - 1) /\ P.key_close \in 0..(U16 - 1)
        /\ P.value_start \in 0..(U16 - 1)
    BY <1>2, ParserFields
  <2> QED
    BY <2>1, WidthAssumption, SMT DEF OffsetsInt
<1>4. buffer_pos_offset \in 0..(U16 - 1) => buffer_pos_offset \in Nat
  BY WidthAssumption, SMT
<1> QED
  BY <1>1, <1>2, <1>3, <1>4 DEF PointsBetween, ScalarsOK

\* Bytes that arrive change none that are there, and bytes dropped take the rest
\* to the front by as much as buffer_pos moves.
LEMMA SoundHost ==
  ASSUME FitsOffsets, OffsetInv, Receive \/ Compact
  PROVE  Sound'
<1>1. /\ pc = "host" /\ pc' = "host"
      /\ UNCHANGED <<doc, globalVars, localVars, result, chain>>
  BY Zenon DEF Receive, Compact
<1>2. /\ P \in Parser /\ OffsetsInt(P)
      /\ base \in Int /\ pos \in Nat /\ size \in Nat /\ buffer_pos_offset \in Nat
      /\ previous_buffer_pos \in Int
      /\ Needy(P, Member) => previous_buffer_pos >= pos
      /\ Points(Buffer, size, P, Member, previous_buffer_pos - pos, pos, pos + buffer_pos_offset)
  <2>1. \A o \in 0..(U16 - 1) : o \in Int
    BY WidthAssumption, SMT
  <2> QED
    BY <1>1, <2>1, KnownBetween
<1>3. P' = P /\ Member' = Member
  BY <1>1 DEF P, Member, localVars
<1>4. UNCHANGED <<previous_buffer_pos, buffer_pos_offset>>
  BY <1>1 DEF globalVars
<1>5. PICK k \in Nat : /\ k <= pos /\ base' = base + k /\ pos' = pos - k
                       /\ size' \in Int /\ size - k <= size'
  <2>1. CASE Receive
    <3>1. PICK n \in 1..(Len(doc) - (base + size)) : size' = size + n
      BY <2>1 DEF Receive
    <3>2. base' = base /\ pos' = pos
      BY <2>1, Zenon DEF Receive
    <3>3. n \in Nat
      <4>1. doc \in Seq(Chars)
        BY <1>1, KnownBetween, InvParts DEF ScalarsOK
      <4>2. Len(doc) \in Nat
        BY <4>1
      <4> QED
        BY <1>2, <4>2
    <3>4. 0 <= pos /\ base' = base + 0 /\ pos' = pos - 0 /\ size' \in Int /\ size - 0 <= size'
      BY <1>2, <3>1, <3>2, <3>3
    <3> QED
      BY <3>4
  <2>2. CASE Compact
    <3>1. PICK n \in 1..pos : base' = base + n /\ size' = size - n /\ pos' = pos - n
      BY <2>2 DEF Compact
    <3>2. n \in Nat /\ n <= pos /\ size' \in Int /\ size - n <= size'
      BY <1>2, <3>1
    <3> QED
      BY <3>1, <3>2
  <2> QED
    BY <2>1, <2>2
<1>6. \A i \in k..(size - 1) : Buffer'[i - k] = Buffer[i]
  <2> SUFFICES ASSUME NEW i \in k..(size - 1)
               PROVE  Buffer'[i - k] = Buffer[i]
    OBVIOUS
  <2>1. i \in 0..(size - 1) /\ i - k \in 0..(size' - 1) /\ base' + (i - k) = base + i
    <3>1. /\ base \in Int /\ size \in Nat /\ k \in Nat /\ size' \in Int
          /\ base' = base + k /\ size - k <= size'
      BY <1>2, <1>5, Zenon
    <3>2. \A n \in Nat, m \in Int, d \in Int :
            n - k <= m /\ i \in k..(n - 1) =>
              i \in 0..(n - 1) /\ i - k \in 0..(m - 1) /\ (d + k) + (i - k) = d + i
      BY <3>1, SMT
    <3> QED
      BY <3>1, <3>2, Zenon
  <2>2. Buffer[i] = IF base + i >= 0 THEN doc[base + i + 1] ELSE Nul
    BY <2>1, Zenon DEF Buffer
  <2>3. Buffer'[i - k] = IF base' + (i - k) >= 0 THEN doc'[base' + (i - k) + 1] ELSE Nul
    BY <2>1, Zenon DEF Buffer
  <2> QED
    BY <1>1, <2>1, <2>2, <2>3
<1>7. Points(Buffer', size', P, Member, (previous_buffer_pos - pos) + k, pos - k,
             (pos + buffer_pos_offset) - k)
  <2>1. /\ pos + buffer_pos_offset \in Int /\ previous_buffer_pos - pos \in Int
        /\ pos \in Int /\ size \in Int
    BY <1>2
  <2>2. size - k <= size' /\ size' \in Int /\ k <= pos
    BY <1>5
  <2> QED
    BY <1>2, <1>6, <2>1, <2>2, MovedPoints, Zenon
<1>8. /\ previous_buffer_pos' - pos' = (previous_buffer_pos - pos) + k
      /\ pos' + buffer_pos_offset' = (pos + buffer_pos_offset) - k
      /\ previous_buffer_pos >= pos => previous_buffer_pos' >= pos'
  BY <1>2, <1>4, <1>5
<1>9. PointsBetween'
  <2>1. Points(Buffer', size', P', Member', previous_buffer_pos' - pos', pos',
               pos' + buffer_pos_offset')
    BY <1>3, <1>5, <1>7, <1>8
  <2>2. Needy(P', Member') => previous_buffer_pos' >= pos'
    BY <1>2, <1>3, <1>8
  <2> QED
    BY <2>1, <2>2 DEF PointsBetween
<1>10. Untyped' /\ Found'
  BY <1>1, <1>3 DEF Untyped, Found, OffsetInv, Sound
<1> QED
  BY <1>1, <1>9, <1>10 DEF Sound, Pointing

\* An offset that lies in the buffer once less the drop is what the shift makes it.
LEMMA ShiftOffsetExact ==
  ASSUME NEW o \in 0..(U16 - 1), NEW drop \in 0..(U16 - 1), o - drop >= 0
  PROVE  ShiftOffset(o, drop) - 0 = o - drop
<1>1. CASE o = 0
  BY <1>1, WidthAssumption, SMT DEF ShiftOffset
<1>2. CASE o # 0
  <2>1. ShiftOffset(o, drop) = (o + U16 - drop) % U16
    BY <1>2 DEF ShiftOffset
  <2>2. o + U16 - drop = (o - drop) + U16 /\ o - drop \in 0..(U16 - 1)
    BY WidthAssumption, SMT
  <2>3. \A m \in 0..(U16 - 1) : (m + U16) % U16 = m
    BY WidthAssumption, SMT
  <2> QED
    BY <2>1, <2>2, <2>3
<1> QED
  BY <1>1, <1>2

\* What shift_json_parser leaves of a parser.
LEMMA ShiftKeeps ==
  ASSUME NEW p \in Parser, NEW drop \in 0..(U16 - 1)
  PROVE  LET q == ShiftParser(p, drop) IN
         /\ q.key_start = ShiftOffset(p.key_start, drop)
         /\ q.key_close = ShiftOffset(p.key_close, drop)
         /\ q.value_start = ShiftOffset(p.value_start, drop)
         /\ q.parse_state = p.parse_state /\ q.value_type = p.value_type /\ q.trie = p.trie
         /\ q.in_d_quote = p.in_d_quote /\ q.in_s_quote = p.in_s_quote
  BY SMT DEF ShiftParser, Parser

\* So it takes the offsets to where the bytes have gone.
LEMMA ShiftPoints ==
  ASSUME NEW p \in Parser, NEW drop \in 0..(U16 - 1), NEW r \in Nat, NEW n \in Int,
         NEW b, NEW member, NEW at \in Int, Points(b, n, p, member, drop, r, at)
  PROVE  Points(b, n, ShiftParser(p, drop), member, 0, r, at)
<1> DEFINE q == ShiftParser(p, drop)
<1>1. /\ p.key_start \in 0..(U16 - 1) /\ p.key_close \in 0..(U16 - 1)
      /\ p.value_start \in 0..(U16 - 1)
  BY ParserFields
<1>2. /\ q.key_start = ShiftOffset(p.key_start, drop)
      /\ q.key_close = ShiftOffset(p.key_close, drop)
      /\ q.value_start = ShiftOffset(p.value_start, drop)
      /\ q.parse_state = p.parse_state /\ q.value_type = p.value_type /\ q.trie = p.trie
      /\ q.in_d_quote = p.in_d_quote /\ q.in_s_quote = p.in_s_quote
  BY ShiftKeeps
<1> HIDE DEF q
<1>3. \A o \in 0..(U16 - 1) : o - drop \in r..(n - 1) => o - drop >= 0
  BY WidthAssumption, SMT
<1>4. \A o \in 0..(U16 - 1) : o - drop \in r..(n - 1) => ShiftOffset(o, drop) - 0 = o - drop
  BY <1>3, ShiftOffsetExact
<1>5. StartsAt(b, n, p, drop, r) =>
        StartsAt(b, n, q, 0, r) /\ q.key_start - 0 = p.key_start - drop
  BY <1>1, <1>2, <1>4, Zenon DEF StartsAt
<1>6. KeyBegun(b, n, q, 0, r, at)
  BY <1>2, <1>5, Zenon DEF Points, KeyBegun
<1>7. p.key_start - drop \in r..(n - 1) /\ p.key_close - drop \in (p.key_start - drop)..(n - 1) =>
        q.key_close - 0 = p.key_close - drop
  <2>1. p.key_start - drop \in r..(n - 1) /\ p.key_close - drop \in (p.key_start - drop)..(n - 1) =>
          p.key_close - drop \in r..(n - 1)
    BY <1>1, WidthAssumption, SMT
  <2> QED
    BY <1>1, <1>2, <1>4, <2>1, Zenon
<1>8. KeyKnown(b, n, q, member, 0, r)
  BY <1>2, <1>5, <1>7, Zenon DEF Points, KeyKnown, StartsAt
<1>9. ValueBegun(b, n, q, 0, r)
  BY <1>1, <1>2, <1>4, Zenon DEF Points, ValueBegun
<1> QED
  BY <1>6, <1>8, <1>9 DEF Points, q

\* Who needs nothing finds all in place.
LEMMA NotNeedyPoints ==
  ASSUME NEW b, NEW n, NEW p, NEW member, NEW drop, NEW r, NEW at, ~Needy(p, member)
  PROVE  Points(b, n, p, member, drop, r, at)
  BY Zenon DEF Points, KeyBegun, KeyKnown, ValueBegun, Needy

\* json_streaming_parser accounts for what was dropped.
LEMMA SoundCall ==
  ASSUME FitsOffsets, OffsetInv, Call
  PROVE  Sound'
<1>1. /\ pc = "host" /\ pc' = "loop" /\ pc' # "host" /\ UNCHANGED hostVars
      /\ retrace' = Offset /\ pos' = pos + buffer_pos_offset
      /\ previous_buffer_pos' = (IF previous_buffer_pos # pos THEN Offset ELSE previous_buffer_pos)
      /\ chain' = IF previous_buffer_pos # pos
                  THEN ShiftChain(chain, alloc, (previous_buffer_pos - pos) % U16) ELSE chain
      /\ cur' = TopParser(chain, alloc, 0)
  BY Zenon DEF Call
<1>2. /\ IInv /\ P \in Parser /\ pos \in Nat /\ size \in Nat /\ buffer_pos_offset \in Nat
      /\ previous_buffer_pos \in 0..(U16 - 1)
      /\ Needy(P, Member) => previous_buffer_pos >= pos
      /\ Points(Buffer, size, P, Member, previous_buffer_pos - pos, pos, pos + buffer_pos_offset)
  BY <1>1, KnownBetween
<1>3. Offset = pos
  BY Narrow DEF OffsetInv
<1>4. /\ Stack(chain, cur) /\ alloc \in 0..MaxDepth /\ cur \in 0..alloc /\ cur \in 0..MaxDepth
      /\ chain \in [0..MaxDepth -> Parser]
  BY <1>2, InvParts, AtWork DEF ScalarsOK
<1>5. cur' = cur
  <2>1. cur <= alloc /\ 0 \in 0..cur
    BY <1>4, DepthAssumption
  <2> QED
    BY <1>1, <1>4, <2>1, TopIsCurrent
<1>6. previous_buffer_pos' = retrace' /\ retrace' = pos
  BY <1>1, <1>3
<1> DEFINE drop == (previous_buffer_pos - pos) % U16
<1>7. drop \in 0..(U16 - 1)
  <2>1. previous_buffer_pos - pos \in Int
    BY <1>2
  <2> QED
    BY <2>1, Widths
<1>8. previous_buffer_pos >= pos => drop = previous_buffer_pos - pos
  <2>1. previous_buffer_pos >= pos => previous_buffer_pos - pos \in 0..(U16 - 1)
    BY <1>2, WidthAssumption, SMT
  <2>2. \A m \in 0..(U16 - 1) : m % U16 = m
    BY WidthAssumption, SMT
  <2> QED
    BY <2>1, <2>2
<1> HIDE DEF drop
<1>9. /\ P' = IF previous_buffer_pos # pos THEN ShiftParser(P, drop) ELSE P
      /\ Member' = Member
  <2>1. CASE previous_buffer_pos = pos
    BY <1>1, <1>5, <2>1 DEF P, Member
  <2>2. CASE previous_buffer_pos # pos
    <3>1. chain' = ShiftChain(chain, alloc, drop)
      BY <1>1, <2>2 DEF drop
    <3>2. cur <= alloc /\ (cur > 0 => cur - 1 \in 0..MaxDepth /\ cur - 1 <= alloc)
      BY <1>4, DepthAssumption
    <3>3. \A d \in 0..MaxDepth : d <= alloc => chain'[d] = ShiftParser(chain[d], drop)
      BY <1>4, <3>1, Zenon DEF ShiftChain
    <3>4. P' = ShiftParser(P, drop)
      BY <1>4, <1>5, <3>2, <3>3 DEF P
    <3>5. cur > 0 => chain'[cur - 1].value_type = chain[cur - 1].value_type
      BY <1>4, <1>7, <3>2, <3>3, ShiftKeeps
    <3>6. Member' = Member
      BY <1>5, <3>5, Zenon DEF Member, InStruct
    <3> QED
      BY <2>2, <3>4, <3>6
  <2> QED
    BY <2>1, <2>2
<1>10. P'.parse_state = P.parse_state /\ P'.value_type = P.value_type
  BY <1>2, <1>7, <1>9, ShiftKeeps
<1>11. Points(Buffer, size, P', Member, 0, retrace', pos')
  <2>1. CASE ~Needy(P, Member)
    <3>1. ~Needy(P', Member)
      BY <1>10, <2>1, Zenon DEF Needy
    <3> QED
      BY <3>1, NotNeedyPoints
  <2>2. CASE Needy(P, Member)
    <3>1. previous_buffer_pos >= pos /\ drop = previous_buffer_pos - pos
      BY <1>2, <1>8, <2>2
    <3>2. Points(Buffer, size, P, Member, drop, retrace', pos')
      BY <1>1, <1>2, <1>6, <3>1
    <3>3. CASE previous_buffer_pos = pos
      <4>1. P' = P /\ drop = 0
        BY <1>2, <1>9, <3>1, <3>3
      <4> QED
        BY <3>2, <4>1
    <3>4. CASE previous_buffer_pos # pos
      <4>1. P' = ShiftParser(P, drop)
        BY <1>9, <3>4
      <4>2. retrace' \in Nat /\ size \in Int /\ pos' \in Int
        BY <1>1, <1>2, <1>6
      <4> QED
        BY <1>2, <1>7, <3>2, <4>1, <4>2, ShiftPoints
    <3> QED
      BY <3>3, <3>4
  <2> QED
    BY <2>1, <2>2
<1>12. Pointing'
  BY <1>1, <1>6, <1>9, <1>11, Arrive
<1>13. Untyped' /\ Found'
  BY <1>1, <1>10 DEF Untyped, Found, OffsetInv, Sound
<1> QED
  BY <1>12, <1>13 DEF Sound

--------------------------------------------------------------------------------
\* At first nothing is needed.
LEMMA InitSound ==
  ASSUME Init
  PROVE  Sound
<1>1. /\ cur = 0 /\ pc = "host" /\ IInv
      /\ chain = [d \in 0..MaxDepth |->
                    IF d = 0 THEN [InitParser(Nul, -base) EXCEPT !.parse_state = "ADVANCE_VALUE"]
                    ELSE Zeroed(TrieReset(Nul, -base))]
  BY InvInit, Zenon DEF Init
<1>2. P = [InitParser(Nul, -base) EXCEPT !.parse_state = "ADVANCE_VALUE"]
  <2>1. 0 \in 0..MaxDepth
    BY DepthAssumption
  <2> QED
    BY <1>1, <2>1, Zenon DEF P
<1>3. P.parse_state = "ADVANCE_VALUE" /\ P.value_type = "ERROR"
  BY <1>2, SMT DEF InitParser, Zeroed
<1>4. ~Member
  BY <1>1 DEF Member, InStruct
<1>5. ~Needy(P, Member)
  BY <1>3, <1>4 DEF Needy, ValueCapture
<1>6. PointsBetween
  BY <1>5, NotNeedyPoints DEF PointsBetween
<1> QED
  BY <1>1, <1>3, <1>6 DEF Sound, Pointing, Untyped, Found

\* Every step of the system keeps the offsets on what they were set for.
LEMMA SoundNext ==
  ASSUME FitsOffsets, OffsetInv, [Next]_vars
  PROVE  OffsetInv'
<1>1. IInv' /\ Received'
  BY InvNext, ReceivedNext DEF OffsetInv
<1>2. CASE Receive \/ Compact
  BY <1>1, <1>2, SoundHost DEF OffsetInv
<1>3. CASE Call
  BY <1>1, <1>3, SoundCall DEF OffsetInv
<1>4. CASE LoopExit
  BY <1>1, <1>4, SoundReturn DEF OffsetInv, LoopExit
<1>5. CASE Dispatch
  BY <1>1, <1>5, SoundDispatch DEF OffsetInv
<1>6. CASE Scan
  <2>1. Sound'
    BY <1>6, SoundAdvanceKey, SoundParseKey, SoundAdvanceValue, SoundCaptureValue, SoundScanEnd,
       Zenon DEF Scan
  <2> QED
    BY <1>1, <2>1 DEF OffsetInv
<1>7. CASE Tokenize
  BY <1>1, <1>7, SoundTokenize DEF OffsetInv
<1>8. CASE React
  BY <1>1, <1>8, SoundReact DEF OffsetInv
<1>9. CASE UNCHANGED vars
  <2>1. UNCHANGED <<hostVars, pos, globalVars, localVars, result, pc, chain>>
    BY <1>9 DEF vars
  <2>2. Buffer' = Buffer /\ size' = size /\ P' = P /\ Member' = Member
    BY <2>1, SameBuffer DEF P, Member, localVars
  <2>3. Pointing' /\ Untyped' /\ Found'
    BY <2>1, <2>2 DEF Pointing, PointsInCall, PointsBetween, Untyped, Found, OffsetInv, Sound,
       localVars, globalVars
  <2> QED
    BY <1>1, <2>3 DEF OffsetInv, Sound
<1> QED
  BY <1>2, <1>3, <1>4, <1>5, <1>6, <1>7, <1>8, <1>9, Zenon DEF Next, Running

\* And that is all that LiveOffsets says.
LEMMA SoundLive ==
  ASSUME OffsetInv
  PROVE  LiveOffsets
<1> SUFFICES ASSUME pc # "host"
             PROVE  /\ P.parse_state = "PARSE_KEY" => LiveKeyStart
                    /\ P.parse_state \in {"ADVANCE_VALUE", "CAPTURE_VALUE"} /\ InStruct(chain, cur) =>
                         LiveKey
                    /\ P.parse_state \in ValueCapture /\ P.value_type # "ERROR" => LiveValue
  BY DEF LiveOffsets
<1>1. Points(Buffer, size, P, Member, 0, retrace, pos)
  BY Known
<1>2. \A n \in Nat : n - 0 = n
  OBVIOUS
<1>3. /\ P.key_start - 0 = P.key_start /\ P.key_close - 0 = P.key_close
      /\ P.value_start - 0 = P.value_start
  BY <1>2, Known
<1>4. StartsAt(Buffer, size, P, 0, retrace) => LiveKeyStart
  BY <1>3, Zenon DEF StartsAt, LiveKeyStart
<1>5. KeyBegun(Buffer, size, P, 0, retrace, pos) => (P.parse_state = "PARSE_KEY" => LiveKeyStart)
  BY <1>4, Zenon DEF KeyBegun
<1>6. KeyKnown(Buffer, size, P, Member, 0, retrace) =>
        (P.parse_state \in {"ADVANCE_VALUE", "CAPTURE_VALUE"} /\ InStruct(chain, cur) => LiveKey)
  BY <1>3, <1>4, Zenon DEF KeyKnown, LiveKey, Member
<1>7. ValueBegun(Buffer, size, P, 0, retrace) =>
        (P.parse_state \in ValueCapture /\ P.value_type # "ERROR" => LiveValue)
  BY <1>3, Zenon DEF ValueBegun, LiveValue
<1> QED
  BY <1>1, <1>5, <1>6, <1>7 DEF Points

\* LiveOffsets: whatever the host drops between two calls, the parser at work
\* finds its value and the two ends of its key where its offsets say.
THEOREM OffsetsCorrect ==
  ASSUME FitsOffsets
  PROVE  Spec => []LiveOffsets
<1>1. Init => OffsetInv
  <2> SUFFICES ASSUME Init
               PROVE  OffsetInv
    OBVIOUS
  <2>1. doc \in Docs
    BY Zenon DEF Init
  <2>2. PICK n \in Leads : base = -n
    BY Zenon DEF Init
  <2>3. base >= -n
    BY <2>2, LeadsAssumption, SMT
  <2>4. Received
    BY <2>1, <2>3, Zenon DEF Received
  <2> QED
    BY <2>4, InvInit, InitSound DEF OffsetInv
<1>2. OffsetInv /\ [Next]_vars => OffsetInv'
  BY SoundNext
<1>3. OffsetInv => LiveOffsets
  BY SoundLive
<1> QED
  BY <1>1, <1>2, <1>3, PTL DEF Spec
================================================================================
