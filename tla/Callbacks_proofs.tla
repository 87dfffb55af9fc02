---------------------------- MODULE Callbacks_proofs ----------------------------
(******************************************************************************)
(* The callbacks nest, for every input, split, depth and alphabet: what an    *)
(* application has understood from them is the chain of parsers.              *)
(*                                                                            *)
(* CallbacksNest alone is not inductive: the list index a callback carries is *)
(* one that an earlier step has stored, and the index of a container under a  *)
(* struct is read from a count that only lists advance.  HeardInv says both.  *)
(******************************************************************************)
EXTENDS StreamingParser_proofs

Opens == [list : BOOLEAN, count : 0..(U16 - 1)]
Apps == [open : Seq(Opens), ok : BOOLEAN]

\* The application has open what the chain q has above depth c.
Follows(a, q, c) ==
  /\ a \in Apps /\ a.ok = TRUE /\ Len(a.open) = c
  /\ \A d \in 0..(c - 1) : /\ a.open[d + 1].list = (q[d].value_type = "LIST")
                           /\ a.open[d + 1].count = q[d].list_members

\* Only lists count members, and only while one of their members is at work.
Countless(q, c) ==
  /\ q[c].list_members = 0
  /\ \A d \in 0..(c - 1) : q[d].value_type # "LIST" => q[d].list_members = 0

\* The parser at work has the index of a member it has found and not yet counted.
HasIndex(p, control, r) ==
  \/ control = "react" /\ r = "LIST_ITEM_COMPLETE"
  \/ p.parse_state \in ValueCapture /\ ~(control = "react" /\ r = "ADVANCE_VALUE_COMPLETE")

Numbered == InList(chain, cur) /\ HasIndex(P, pc, result) => P.list_index = chain[cur - 1].list_members

\* Keys and values end in structs or at the top, list items in lists.
Answers(r) ==
  /\ r = "LIST_ITEM_COMPLETE" => InList(chain, cur)
  /\ r \in {"COMPLETE", "PARSE_KEY_COMPLETE"} => ~InList(chain, cur)
Answered == pc = "react" => Answers(result)

HeardInv ==
  IInv /\ Follows(app, chain, cur) /\ Countless(chain, cur) /\ Numbered /\ Answered

--------------------------------------------------------------------------------
\* Chains that are alike above depth c, in what the application knows of them.
Alike(q, r, c) ==
  \A d \in 0..(c - 1) : r[d].value_type = q[d].value_type /\ r[d].list_members = q[d].list_members

\* What the application knows agrees with any chain that is alike above.
LEMMA FollowsAgain ==
  ASSUME NEW a, NEW q, NEW r, NEW c, Follows(a, q, c), Alike(q, r, c)
  PROVE  Follows(a, r, c)
  BY DEF Follows, Alike

\* What the application knows of the container it is in.
LEMMA OpenIs ==
  ASSUME NEW a, NEW q, NEW c \in Nat, Follows(a, q, c)
  PROVE  /\ Inside(a) = c /\ Listing(a) \in BOOLEAN /\ (Listing(a) <=> InList(q, c))
         /\ Index(a) = IF InList(q, c) THEN q[c - 1].list_members ELSE 0
<1>1. Inside(a) = c
  BY DEF Inside, Follows
<1>2. CASE c = 0
  BY <1>1, <1>2 DEF Listing, Index, InList
<1>3. CASE c > 0
  <2>1. c - 1 \in 0..(c - 1) /\ (c - 1) + 1 = c
    BY <1>3
  <2>2. /\ a.open[c].list = (q[c - 1].value_type = "LIST")
        /\ a.open[c].count = q[c - 1].list_members
    BY <2>1, Zenon DEF Follows
  <2> QED
    BY <1>1, <1>3, <2>2 DEF Listing, Index, InList, Open, Inside
<1> QED
  BY <1>2, <1>3

\* What it expected changes nothing.
LEMMA Expected ==
  ASSUME NEW a \in Apps, a.ok = TRUE, NEW good, good = TRUE
  PROVE  Expects(a, good) = a
  BY DEF Expects, Apps

\* A container more.
LEMMA OpenedIs ==
  ASSUME NEW a, NEW q, NEW r, NEW c \in Nat, Follows(a, q, c), Alike(q, r, c),
         NEW list \in BOOLEAN, list = (r[c].value_type = "LIST"), r[c].list_members = 0
  PROVE  Follows(Opened(a, list), r, c + 1)
<1> DEFINE o == [list |-> list, count |-> 0]
           b == Opened(a, list)
<1>1. o \in Opens /\ o.list = list /\ o.count = 0
  BY WidthAssumption DEF Opens
<1> HIDE DEF o
<1>2. a.open \in Seq(Opens) /\ Len(a.open) = c /\ a.ok = TRUE /\ a \in Apps
  BY DEF Follows, Apps
<1>3. b.open = Append(a.open, o) /\ b.ok = TRUE /\ b \in Apps
  <2> DEFINE s == Append(a.open, o)
  <2>1. s \in Seq(Opens)
    BY <1>1, <1>2
  <2>2. b = [a EXCEPT !.open = s]
    BY Zenon DEF Opened, o
  <2> HIDE DEF s, b
  <2>3. b.open = s /\ b.ok = TRUE /\ b \in Apps
    BY <1>2, <2>1, <2>2 DEF Apps
  <2> QED
    BY <2>3 DEF s
<1> HIDE DEF b
<1>4. Len(b.open) = c + 1 /\ b.open[c + 1] = o /\ \A i \in 1..c : b.open[i] = a.open[i]
  BY <1>1, <1>2, <1>3
<1>5. ASSUME NEW d \in 0..((c + 1) - 1)
      PROVE  b.open[d + 1].list = (r[d].value_type = "LIST") /\ b.open[d + 1].count = r[d].list_members
  <2>1. CASE d = c
    BY <1>1, <1>4, <2>1
  <2>2. CASE d < c
    <3>1. d \in 0..(c - 1) /\ d + 1 \in 1..c
      BY <2>2
    <3>2. /\ a.open[d + 1].list = (q[d].value_type = "LIST")
          /\ a.open[d + 1].count = q[d].list_members
      BY <3>1, Zenon DEF Follows
    <3> QED
      BY <1>4, <3>1, <3>2 DEF Alike
  <2> QED
    BY <2>1, <2>2
<1>6. b \in Apps /\ b.ok = TRUE /\ Len(b.open) = c + 1
  BY <1>3, <1>4
<1> QED
  BY <1>5, <1>6 DEF Follows, b

\* A member more, where members are counted.
LEMMA CountedIs ==
  ASSUME NEW a, NEW q, NEW r, NEW c \in Nat, Follows(a, q, c), Alike(q, r, c - 1),
         c > 0 => r[c - 1].value_type = q[c - 1].value_type,
         c > 0 => r[c - 1].list_members =
                    IF InList(q, c) THEN (q[c - 1].list_members + 1) % U16 ELSE q[c - 1].list_members
  PROVE  Follows(Counted(a), r, c)
<1>1. a \in Apps /\ a.open \in Seq(Opens) /\ Len(a.open) = c /\ a.ok = TRUE
  BY DEF Follows, Apps
<1>2. Inside(a) = c /\ (Listing(a) <=> InList(q, c))
  BY OpenIs
<1>3. CASE ~InList(q, c)
  <2>1. Counted(a) = a
    BY <1>2, <1>3 DEF Counted
  <2>2. Alike(q, r, c)
    BY <1>3 DEF Alike
  <2> QED
    BY <2>1, <2>2, FollowsAgain
<1>4. CASE InList(q, c)
  <2> DEFINE n == (a.open[c].count + 1) % U16
             o == [a.open[c] EXCEPT !.count = n]
             b == Counted(a)
  <2>1. c > 0 /\ c \in 1..c /\ c - 1 \in 0..(c - 1) /\ (c - 1) + 1 = c
    BY <1>4 DEF InList
  <2>2. a.open[c] \in Opens
    BY <1>1, <2>1
  <2>3. n \in 0..(U16 - 1)
    BY <2>2, WidthAssumption DEF Opens
  <2>4. a.open[c].list = (q[c - 1].value_type = "LIST") /\ a.open[c].count = q[c - 1].list_members
    BY <2>1, Zenon DEF Follows
  <2>5. n = r[c - 1].list_members
    BY <1>4, <2>1, <2>4
  <2> HIDE DEF n
  <2>6. o \in Opens /\ o.list = a.open[c].list /\ o.count = n
    BY <2>2, <2>3 DEF Opens
  <2>7. b = [a EXCEPT !.open = [a.open EXCEPT ![c] = o]]
    BY <1>2, <1>4 DEF Counted, n
  <2> HIDE DEF o
  <2>8. b \in Apps /\ b.ok = TRUE /\ b.open = [a.open EXCEPT ![c] = o]
    <3> DEFINE s == [a.open EXCEPT ![c] = o]
    <3>1. s \in Seq(Opens)
      BY <1>1, <2>1, <2>6
    <3>2. b = [a EXCEPT !.open = s]
      BY <2>7
    <3> HIDE DEF s, b
    <3>3. b.open = s /\ b.ok = TRUE /\ b \in Apps
      BY <1>1, <3>1, <3>2 DEF Apps
    <3> QED
      BY <3>3 DEF s
  <2> HIDE DEF b
  <2>9. Len(b.open) = c /\ b.open[c] = o /\ \A i \in 1..(c - 1) : b.open[i] = a.open[i]
    BY <1>1, <2>1, <2>6, <2>8
  <2>10. ASSUME NEW d \in 0..(c - 1)
         PROVE  b.open[d + 1].list = (r[d].value_type = "LIST") /\ b.open[d + 1].count = r[d].list_members
    <3>1. CASE d = c - 1
      BY <2>1, <2>4, <2>5, <2>6, <2>9, <3>1
    <3>2. CASE d < c - 1
      <4>1. d \in 0..((c - 1) - 1) /\ d + 1 \in 1..(c - 1)
        BY <3>2
      <4>2. /\ a.open[d + 1].list = (q[d].value_type = "LIST")
            /\ a.open[d + 1].count = q[d].list_members
        BY Zenon DEF Follows
      <4> QED
        BY <2>9, <4>1, <4>2 DEF Alike
    <3> QED
      BY <3>1, <3>2
  <2> QED
    BY <2>8, <2>9, <2>10 DEF Follows, b
<1> QED
  BY <1>3, <1>4

\* A container less, itself perhaps a member of another.
LEMMA ClosedIs ==
  ASSUME NEW a, NEW q, NEW r, NEW c \in Nat \ {0}, Follows(a, q, c), Alike(q, r, c - 2),
         c > 1 => r[c - 2].value_type = q[c - 2].value_type,
         c > 1 => r[c - 2].list_members =
                    IF InList(q, c - 1) THEN (q[c - 2].list_members + 1) % U16 ELSE q[c - 2].list_members
  PROVE  Follows(Closed(a), r, c - 1)
<1> DEFINE f == Front(a.open)
           b == [a EXCEPT !.open = f]
<1>1. a \in Apps /\ a.open \in Seq(Opens) /\ Len(a.open) = c /\ a.ok = TRUE
  BY DEF Follows, Apps
<1>2. f \in Seq(Opens) /\ Len(f) = c - 1 /\ \A i \in 1..(c - 1) : f[i] = a.open[i]
  BY <1>1 DEF Front
<1> HIDE DEF f
<1>3. b \in Apps /\ b.ok = TRUE /\ b.open = f
  BY <1>1, <1>2 DEF Apps
<1>4. Closed(a) = Counted(b)
  BY <1>1 DEF Closed, Inside, f
<1> HIDE DEF b
<1>5. Follows(b, q, c - 1)
  <2>1. ASSUME NEW d \in 0..((c - 1) - 1)
        PROVE  b.open[d + 1].list = (q[d].value_type = "LIST") /\ b.open[d + 1].count = q[d].list_members
    <3>1. d \in 0..(c - 1) /\ d + 1 \in 1..(c - 1)
      OBVIOUS
    <3>2. a.open[d + 1].list = (q[d].value_type = "LIST") /\ a.open[d + 1].count = q[d].list_members
      BY <3>1, Zenon DEF Follows
    <3> QED
      BY <1>2, <1>3, <3>1, <3>2
  <2> QED
    BY <1>2, <1>3, <2>1 DEF Follows
<1>6. c - 1 \in Nat /\ (c - 1) - 1 = c - 2 /\ (c - 1 > 0 <=> c > 1)
  OBVIOUS
<1>7. Follows(Counted(b), r, c - 1)
  BY <1>5, <1>6, CountedIs
<1> QED
  BY <1>4, <1>7

--------------------------------------------------------------------------------
(* The steps that tell the application nothing. *)

\* Alike chains agree on whether the parser below is in a list.
LEMMA AlikeInList ==
  ASSUME NEW q, NEW r, NEW c \in Nat, Alike(q, r, c)
  PROVE  /\ InList(q, c) <=> InList(r, c)
         /\ c > 0 => r[c - 1].list_members = q[c - 1].list_members
<1>1. CASE c = 0
  BY <1>1 DEF InList
<1>2. CASE c > 0
  <2>1. c - 1 \in 0..(c - 1)
    BY <1>2
  <2>2. r[c - 1].value_type = q[c - 1].value_type /\ r[c - 1].list_members = q[c - 1].list_members
    BY <2>1, Zenon DEF Alike
  <2> QED
    BY <2>2 DEF InList
<1> QED
  BY <1>1, <1>2

\* What a step without a callback has to leave alone.
LEMMA Quieten ==
  ASSUME HeardInv, IInv', cur' = cur, app' = app, Alike(chain, chain', cur),
         chain'[cur].list_members = P.list_members,
         HasIndex(chain'[cur], pc', result') =>
           HasIndex(P, pc, result) /\ chain'[cur].list_index = P.list_index,
         pc' = "react" => Answers(result')
  PROVE  HeardInv'
<1>0. cur \in Nat
  BY InvParts, DepthAssumption DEF HeardInv, ScalarsOK
<1>2. Follows(app', chain', cur')
  BY FollowsAgain DEF HeardInv
<1>3. Countless(chain', cur')
  <2>1. Countless(chain, cur)
    BY DEF HeardInv
  <2>2. chain'[cur].list_members = 0
    BY <2>1 DEF Countless, P
  <2> QED
    BY <2>1, <2>2, Zenon DEF Countless, Alike
<1>4. InList(chain', cur') <=> InList(chain, cur)
  BY <1>0, AlikeInList
<1>5. Numbered'
  <2>1. SUFFICES ASSUME InList(chain', cur'), HasIndex(P', pc', result')
                 PROVE  (P').list_index = chain'[cur' - 1].list_members
    BY DEF Numbered
  <2>2. P' = chain'[cur]
    BY DEF P
  <2>3. HasIndex(P, pc, result) /\ (P').list_index = P.list_index
    BY <2>1, <2>2
  <2>4. P.list_index = chain[cur - 1].list_members
    BY <1>4, <2>1, <2>3 DEF HeardInv, Numbered
  <2>5. cur > 0
    BY <2>1, <1>0 DEF InList
  <2>6. chain'[cur - 1].list_members = chain[cur - 1].list_members
    BY <1>0, <2>5, AlikeInList
  <2> QED
    BY <2>3, <2>4, <2>6
<1>6. Answered'
  BY <1>4 DEF Answered, Answers
<1> QED
  BY <1>2, <1>3, <1>5, <1>6 DEF HeardInv

\* A delegate stores the parser at work, with its counts as they were.
SameCounts(p) == p.list_members = P.list_members /\ p.list_index = P.list_index
Stores(p) == chain' = [chain EXCEPT ![cur] = p]

\* A step that stores the parser at work, with its counts, and tells nothing keeps HeardInv.
LEMMA QuietStore ==
  ASSUME HeardInv, IInv', cur' = cur, app' = app,
         NEW p, Stores(p), SameCounts(p),
         HasIndex(p, pc', result') => HasIndex(P, pc, result),
         pc' = "react" => Answers(result')
  PROVE  HeardInv'
<1>1. chain \in [0..MaxDepth -> Parser] /\ cur \in 0..MaxDepth
  BY InvParts, AtWork DEF HeardInv
<1>2. chain'[cur] = p
  BY <1>1, Zenon DEF Stores
<1>3. \A d \in 0..(cur - 1) : d # cur /\ d \in 0..MaxDepth
  BY <1>1, DepthAssumption
<1>4. Alike(chain, chain', cur)
  BY <1>1, <1>3, Zenon DEF Stores, Alike
<1> QED
  BY <1>2, <1>4, Quieten DEF SameCounts

\* And returns.
LEMMA QuietReturn ==
  ASSUME HeardInv, IInv', NEW r, NEW p, Return(r, [chain EXCEPT ![cur] = p]), SameCounts(p),
         HasIndex(p, "react", r) => HasIndex(P, pc, result), Answers(r)
  PROVE  HeardInv'
<1>1. pc' = "react" /\ result' = r /\ Stores(p) /\ cur' = cur /\ app' = app
  BY Zenon DEF Return, Stores, DelegateFrame, localVars
<1> QED
  BY <1>1, QuietStore

\* Or looks at the next character.
LEMMA QuietNextByte ==
  ASSUME HeardInv, IInv', pc # "react", NEW p, NextByte(p), SameCounts(p),
         HasIndex(p, pc, result) => HasIndex(P, pc, result)
  PROVE  HeardInv'
<1>1. pc' = pc /\ result' = result /\ Stores(p) /\ cur' = cur /\ app' = app
  BY Zenon DEF NextByte, Stores, DelegateFrame, localVars
<1> QED
  BY <1>1, QuietStore

\* The parser at work is one, and a member of a list only in a state that fits one.
LEMMA HeardParts ==
  ASSUME HeardInv
  PROVE  /\ IInv /\ P \in Parser /\ cur \in Nat /\ cur \in 0..MaxDepth
         /\ chain \in [0..MaxDepth -> Parser] /\ Stack(chain, cur)
         /\ InList(chain, cur) => StateFits(TRUE, P.parse_state)
<1>1. IInv
  BY DEF HeardInv
<1>2. /\ P \in Parser /\ cur \in 0..MaxDepth /\ chain \in [0..MaxDepth -> Parser]
      /\ Stack(chain, cur) /\ InList(chain, cur) \in BOOLEAN
      /\ cur = 0 \/ StateFits(InList(chain, cur), P.parse_state)
  BY <1>1, InvParts, AtWork
<1>3. cur \in Nat
  BY <1>2, DepthAssumption
<1>4. InList(chain, cur) => cur # 0
  BY <1>3 DEF InList
<1> QED
  BY <1>1, <1>2, <1>3, <1>4

\* json_process__ADVANCE_KEY.
LEMMA HeardAdvanceKey ==
  ASSUME HeardInv, IInv', AdvanceKey_Start \/ AdvanceKey_Close \/ AdvanceKey_Skip
  PROVE  HeardInv'
<1>1. pc = "scan" /\ pc # "react" /\ P.parse_state = "ADVANCE_KEY"
  BY Zenon DEF AdvanceKey_Start, AdvanceKey_Close, AdvanceKey_Skip, Scanning
<1>2. P \in Parser
  BY HeardParts
<1>3. CASE AdvanceKey_Start
  <2> DEFINE delimiter == IF Char \in Quotes THEN Char ELSE ":"
             p == StartKey(delimiter)
  <2>1. p.parse_state = "PARSE_KEY" /\ p.list_members = P.list_members /\ p.list_index = P.list_index
    <3> HIDE DEF delimiter
    <3> QED
      BY <1>2, SMT DEF StartKey, Parser
  <2>2. Return("PARSE_KEY", [chain EXCEPT ![cur] = p])
    BY <1>3 DEF AdvanceKey_Start
  <2> HIDE DEF p
  <2> QED
    BY <2>1, <2>2, QuietReturn DEF SameCounts, HasIndex, ValueCapture, Answers
<1>4. CASE AdvanceKey_Close
  <2> DEFINE p == [P EXCEPT !.char_skip = 1]
             r == IF Char = "}" THEN "STRUCT_COMPLETE" ELSE "LIST_COMPLETE"
  <2>1. /\ p.parse_state = "ADVANCE_KEY"
        /\ p.list_members = P.list_members /\ p.list_index = P.list_index
    BY <1>1, <1>2, SMT DEF Parser
  <2>2. [chain EXCEPT ![cur].char_skip = 1] = [chain EXCEPT ![cur] = p]
    BY DEF P
  <2>3. Return(r, [chain EXCEPT ![cur] = p])
    BY <1>4, <2>2, Zenon DEF AdvanceKey_Close
  <2>4. r \in {"STRUCT_COMPLETE", "LIST_COMPLETE"}
    OBVIOUS
  <2> HIDE DEF p, r
  <2> QED
    BY <2>1, <2>3, <2>4, QuietReturn DEF SameCounts, HasIndex, ValueCapture, Answers
<1>5. CASE AdvanceKey_Skip
  BY <1>1, <1>5, QuietNextByte DEF AdvanceKey_Skip, SameCounts
<1> QED
  BY <1>3, <1>4, <1>5

\* The end of a key keeps the counts.
LEMMA KeyDoneCounts ==
  ASSUME NEW p \in Parser
  PROVE  /\ KeyDone(p).list_members = p.list_members /\ KeyDone(p).list_index = p.list_index
         /\ KeyDone(p).parse_state = "ADVANCE_VALUE" /\ KeyDone(p) \in Parser
<1>1. KeyDone(p) \in Parser
  BY KeyDoneTyped
<1> QED
  BY <1>1, SMT DEF KeyDone, Parser

\* json_process__PARSE_KEY, in the scan for the end of an unknown key.
LEMMA HeardParseKey ==
  ASSUME HeardInv, IInv', ParseKey_End \/ ParseKey_Next
  PROVE  HeardInv'
<1>1. pc = "scan" /\ pc # "react" /\ P.parse_state = "PARSE_KEY"
  BY Zenon DEF ParseKey_End, ParseKey_Next, Scanning
<1>2. P \in Parser /\ ~InList(chain, cur)
  BY <1>1, HeardParts DEF StateFits
<1>3. CASE ParseKey_End
  <2> DEFINE skip  == IF EndsQuotedKey THEN 1 ELSE 0
             close == IF EndsBareKey /\ pos > 0 THEN (pos - 1) % U16 ELSE Offset
             k     == KeyDone(P)
             p     == [k EXCEPT !.char_skip = skip, !.key_close = close]
  <2>1. /\ k \in Parser /\ k.parse_state = "ADVANCE_VALUE"
        /\ k.list_members = P.list_members /\ k.list_index = P.list_index
    BY <1>2, KeyDoneCounts
  <2>2. Return("PARSE_KEY_COMPLETE", [chain EXCEPT ![cur] = p])
    BY <1>3, Zenon DEF ParseKey_End, P
  <2> HIDE DEF skip, close, k
  <2>3. p.parse_state = "ADVANCE_VALUE" /\ p.list_members = P.list_members /\ p.list_index = P.list_index
    BY <2>1, SMT DEF Parser
  <2> HIDE DEF p
  <2> QED
    BY <1>2, <2>2, <2>3, QuietReturn DEF SameCounts, HasIndex, ValueCapture, Answers
<1>4. CASE ParseKey_Next
  <2> DEFINE b == IF P.escape_char = 0 /\ Char = Backslash THEN 1 ELSE 0
             p == [P EXCEPT !.escape_char = b]
  <2>1. NextByte(p)
    BY <1>4, Zenon DEF ParseKey_Next
  <2> HIDE DEF b
  <2>2. p.parse_state = "PARSE_KEY" /\ p.list_members = P.list_members /\ p.list_index = P.list_index
    BY <1>1, <1>2, SMT DEF Parser
  <2> HIDE DEF p
  <2> QED
    BY <1>1, <2>1, <2>2, QuietNextByte DEF SameCounts, HasIndex, ValueCapture
<1> QED
  BY <1>3, <1>4

\* noizu_trie__tokenize.
LEMMA HeardTokenize ==
  ASSUME HeardInv, IInv', Tokenize
  PROVE  HeardInv'
<1>1. pc = "token"
  BY Zenon DEF Tokenize, Tokenize_Continue, Tokenize_BufferEnd, Tokenize_Unknown, Tokenize_Key
<1>2. P.parse_state = "PARSE_KEY"
  BY <1>1, HeardParts, InvParts DEF TokenizesKey
<1>3. P \in Parser /\ ~InList(chain, cur)
  BY <1>2, HeardParts DEF StateFits
<1> DEFINE t == Token(P)
<1>4. t.parse_state = "PARSE_KEY" /\ t.list_members = P.list_members /\ t.list_index = P.list_index
  BY <1>2, <1>3, SMT DEF Token, Parser
<1>5. CASE Tokenize_Continue \/ Tokenize_BufferEnd \/ Tokenize_Unknown
  <2>1. /\ Stores(t) /\ cur' = cur /\ app' = app
        /\ pc' = "react" => result' = "END_OF_BUFFER"
    BY <1>1, <1>5, Zenon DEF Tokenize_Continue, Tokenize_BufferEnd, Tokenize_Unknown, Stores, P,
                             DelegateFrame, localVars
  <2> HIDE DEF t
  <2> QED
    BY <1>4, <2>1, QuietStore DEF SameCounts, HasIndex, ValueCapture, Answers
<1>6. CASE Tokenize_Key
  <2> DEFINE k == KeyDone(t)
             close == Advanced.st.req_position % U16
             p == [k EXCEPT !.key_close = close, !.token = Advanced.st.token,
                            !.char_skip = IF P.in_d_quote = 1 \/ P.in_s_quote = 1 THEN 1 ELSE @]
  <2>1. /\ chain' = [chain EXCEPT ![cur] = p] /\ DelegateFrame
        /\ result' = "PARSE_KEY_COMPLETE" /\ pc' = "react"
    BY <1>6 DEF Tokenize_Key, P
  <2>2. t \in Parser
    <3>1. IInv
      BY DEF HeardInv
    <3>2. P.trie \in TrieState /\ P.trie.req_position \in pos..(size - 1) /\ ScalarsOK
      BY <1>1, <1>3, <3>1, InvParts, ParserFields DEF CursorInBuffer
    <3>3. P.trie.req_position < size /\ size \in Nat
      BY <3>2 DEF ScalarsOK
    <3>4. Advanced.st \in TrieState
      BY <3>2, <3>3, BufferTyped, AdvanceTyped DEF Advanced
    <3> QED
      BY <1>3, <3>4, Zenon DEF Token, Parser
  <2>3. /\ k \in Parser /\ k.parse_state = "ADVANCE_VALUE"
        /\ k.list_members = P.list_members /\ k.list_index = P.list_index
    BY <1>4, <2>2, KeyDoneCounts
  <2> HIDE DEF k, close
  <2>4. p.parse_state = "ADVANCE_VALUE" /\ p.list_members = P.list_members /\ p.list_index = P.list_index
    BY <2>3, SMT DEF Parser
  <2> HIDE DEF p
  <2>5. Stores(p) /\ cur' = cur /\ app' = app
    BY <2>1, Zenon DEF Stores, DelegateFrame, localVars
  <2> QED
    BY <1>3, <2>1, <2>4, <2>5, QuietStore DEF SameCounts, HasIndex, ValueCapture, Answers
<1> QED
  BY <1>5, <1>6 DEF Tokenize

\* Storing the parser at work and, below it, its parent.
LEMMA QuietBoth ==
  ASSUME HeardInv, IInv', cur > 0, NEW r, NEW p, NEW o,
         Return(r, [[chain EXCEPT ![cur] = p] EXCEPT ![cur - 1] = o]), SameCounts(p),
         o.value_type = chain[cur - 1].value_type, o.list_members = chain[cur - 1].list_members,
         HasIndex(p, "react", r) => HasIndex(P, pc, result), Answers(r)
  PROVE  HeardInv'
<1> DEFINE q == [chain EXCEPT ![cur] = p]
           b == [q EXCEPT ![cur - 1] = o]
<1>1. /\ pc' = "react" /\ result' = r /\ chain' = b /\ cur' = cur /\ app' = app
  BY Zenon DEF Return, DelegateFrame, localVars
<1>2. chain \in [0..MaxDepth -> Parser] /\ cur \in 0..MaxDepth /\ cur \in Nat
  BY HeardParts
<1>3. /\ cur - 1 # cur /\ cur - 1 \in 0..MaxDepth
      /\ \A d \in 0..(cur - 1) : d # cur /\ d \in 0..MaxDepth
  BY <1>2, DepthAssumption
<1>4. q[cur] = p /\ DOMAIN q = 0..MaxDepth /\ \A d \in 0..(cur - 1) : q[d] = chain[d]
  BY <1>2, <1>3, Zenon
<1> HIDE DEF q
<1>5. b[cur] = p /\ b[cur - 1] = o /\ \A d \in 0..(cur - 1) : d = cur - 1 \/ b[d] = chain[d]
  BY <1>2, <1>3, <1>4, Zenon
<1> HIDE DEF b
<1>6. Alike(chain, chain', cur)
  BY <1>1, <1>5, Zenon DEF Alike
<1> QED
  BY <1>1, <1>5, <1>6, Quieten DEF SameCounts

\* json_process__ADVANCE_VALUE.
LEMMA HeardAdvanceValue ==
  ASSUME HeardInv, IInv', AdvanceValue_Close \/ AdvanceValue_Start \/ AdvanceValue_Skip
  PROVE  HeardInv'
<1>1. pc = "scan" /\ pc # "react" /\ P.parse_state \in ValueAdvance
  BY Zenon DEF AdvanceValue_Close, AdvanceValue_Start, AdvanceValue_Skip, Scanning
<1>2. /\ P \in Parser /\ cur \in Nat /\ cur \in 0..MaxDepth /\ chain \in [0..MaxDepth -> Parser]
      /\ IInv
  BY HeardParts
<1>3. CASE AdvanceValue_Close
  <2> DEFINE list == Char = "]"
             r    == IF list THEN "LIST_COMPLETE" ELSE "STRUCT_COMPLETE"
             p    == [P EXCEPT !.value_close = Offset, !.char_skip = 1]
             q    == [chain EXCEPT ![cur] = p]
             fits == IF list THEN InList(chain, cur) ELSE InStruct(chain, cur)
             o    == [chain[cur - 1] EXCEPT !.parse_state = r, !.value_close = Offset]
             both == [q EXCEPT ![cur - 1] = o]
  <2>1. r \in {"STRUCT_COMPLETE", "LIST_COMPLETE"}
    OBVIOUS
  <2>2. /\ p.parse_state = P.parse_state
        /\ p.list_members = P.list_members /\ p.list_index = P.list_index
    BY <1>2, SMT DEF Parser
  <2>3. HasIndex(p, "react", r) => HasIndex(P, pc, result)
    BY <1>1, <2>1, <2>2, Zenon DEF HasIndex
  <2>4. Answers(r)
    BY <2>1 DEF Answers
  <2>5. Return(r, IF fits
                  THEN [q EXCEPT ![cur - 1] = [@ EXCEPT !.parse_state = r, !.value_close = Offset]]
                  ELSE q)
    BY <1>3 DEF AdvanceValue_Close, P
  <2>6. CASE ~fits
    <3>1. Return(r, [chain EXCEPT ![cur] = p])
      BY <2>5, <2>6, Zenon
    <3> HIDE DEF p, r
    <3> QED
      BY <2>2, <2>3, <2>4, <3>1, QuietReturn DEF SameCounts
  <2>7. CASE fits
    <3>1. cur > 0
      BY <2>7, Zenon DEF InList, InStruct
    <3>2. chain[cur - 1] \in Parser /\ cur - 1 # cur /\ cur - 1 \in 0..MaxDepth
      BY <1>2, <3>1, Below, DepthAssumption
    <3>3. q[cur - 1] = chain[cur - 1]
      BY <1>2, <3>2, Zenon
    <3>4. Return(r, both)
      <4> HIDE DEF q, fits
      <4> QED
        BY <2>5, <2>7, <3>3
    <3>5. /\ o.value_type = chain[cur - 1].value_type
          /\ o.list_members = chain[cur - 1].list_members
      BY <3>2, SMT DEF Parser
    <3> HIDE DEF p, o, r, fits
    <3> QED
      BY <2>2, <2>3, <2>4, <3>1, <3>4, <3>5, QuietBoth DEF SameCounts
  <2> QED
    BY <2>6, <2>7
<1>4. CASE AdvanceValue_Start
  <2> DEFINE type == IF ValueTypeOf(Char) # "ERROR" THEN ValueTypeOf(Char) ELSE P.value_type
             brace   == IF Char = "{" THEN Inc8(P.brace_track) ELSE P.brace_track
             bracket == IF Char = "[" THEN Inc8(P.bracket_track) ELSE P.bracket_track
             d_track == IF Char = DoubleQuote THEN Inc8(P.d_quote_track) ELSE P.d_quote_track
             d_quote == IF Char = DoubleQuote THEN 1 ELSE P.in_d_quote
             s_track == IF Char = SingleQuote THEN Inc8(P.s_quote_track) ELSE P.s_quote_track
             s_quote == IF Char = SingleQuote THEN 1 ELSE P.in_s_quote
             p == [P EXCEPT
                     !.value_type    = type,
                     !.parse_state   = "CAPTURE_VALUE",
                     !.char_skip     = 1,
                     !.value_start   = Offset,
                     !.brace_track   = brace,
                     !.bracket_track = bracket,
                     !.d_quote_track = d_track,
                     !.in_d_quote    = d_quote,
                     !.s_quote_track = s_track,
                     !.in_s_quote    = s_quote]
  <2>1. Return("ADVANCE_VALUE_COMPLETE", [chain EXCEPT ![cur] = p])
    BY <1>4 DEF AdvanceValue_Start
  <2> HIDE DEF type, brace, bracket, d_track, s_track, d_quote, s_quote
  <2>2. p.list_members = P.list_members /\ p.list_index = P.list_index
    BY <1>2, SMT DEF Parser
  <2> HIDE DEF p
  <2> QED
    BY <2>1, <2>2, QuietReturn DEF SameCounts, HasIndex, Answers
<1>5. CASE AdvanceValue_Skip
  BY <1>1, <1>5, QuietNextByte DEF AdvanceValue_Skip, SameCounts
<1> QED
  BY <1>3, <1>4, <1>5

\* json_process__CAPTURE_VALUE.
LEMMA HeardCaptureValue ==
  ASSUME HeardInv, IInv',
         \/ CaptureValue_BracketExit \/ CaptureValue_Error
         \/ CaptureValue_Complete \/ CaptureValue_Next
  PROVE  HeardInv'
<1>1. pc = "scan" /\ pc # "react" /\ P.parse_state \in ValueCapture
  BY Zenon DEF CaptureValue_BracketExit, CaptureValue_Error, CaptureValue_Complete,
               CaptureValue_Next, Scanning
<1>2. /\ P \in Parser /\ cur \in Nat /\ cur \in 0..MaxDepth /\ chain \in [0..MaxDepth -> Parser]
      /\ IInv /\ HasIndex(P, pc, result)
  BY <1>1, HeardParts DEF HasIndex
<1> DEFINE t == Track(P, Char)
<1>3. t \in Parser /\ t.list_members = P.list_members /\ t.list_index = P.list_index
  BY <1>2, TrackTyped
<1>4. t = Track(P, Char)
  OBVIOUS
<1> HIDE DEF t
<1>5. CASE CaptureValue_BracketExit
  <2> DEFINE p == [t EXCEPT !.parse_state = "LIST_COMPLETE"]
  <2>1. p.list_members = P.list_members /\ p.list_index = P.list_index
    BY <1>3, SMT DEF Parser
  <2>2. Return("LIST_COMPLETE", [chain EXCEPT ![cur] = p])
    BY <1>4, <1>5 DEF CaptureValue_BracketExit
  <2> HIDE DEF p
  <2> QED
    BY <1>2, <2>1, <2>2, QuietReturn DEF SameCounts, Answers
<1>6. CASE CaptureValue_Error
  <2> DEFINE p == [t EXCEPT !.value_type = "ERROR"]
  <2>1. p.list_members = P.list_members /\ p.list_index = P.list_index
    BY <1>3, SMT DEF Parser
  <2>2. Return("ERROR", [chain EXCEPT ![cur] = p])
    BY <1>4, <1>6 DEF CaptureValue_Error
  <2> HIDE DEF p
  <2> QED
    BY <1>2, <2>1, <2>2, QuietReturn DEF SameCounts, Answers
<1>7. CASE CaptureValue_Complete
  <2> DEFINE after == Judged = "complete"
             known == after \/ pos > 0
             close == IF after THEN Offset ELSE (pos - 1) % U16
             member == InList(chain, cur)
             skip  == IF after THEN 1 ELSE t.char_skip
             ended == IF known THEN close ELSE t.value_close
             s     == IF member THEN "ADVANCE_LIST_ITEM" ELSE "COMPLETE"
             r     == IF member THEN "LIST_ITEM_COMPLETE" ELSE "COMPLETE"
             p     == [t EXCEPT !.char_skip = skip, !.value_close = ended, !.parse_state = s]
             q     == [chain EXCEPT ![cur] = p]
             o     == [chain[cur - 1] EXCEPT !.value_close = close]
  <2>1. Return(r, IF known /\ cur > 0 THEN [q EXCEPT ![cur - 1].value_close = close] ELSE q)
    BY <1>4, <1>7 DEF CaptureValue_Complete
  <2>2. Answers(r)
    BY Zenon DEF Answers
  <2> HIDE DEF close, known, after, skip, ended, s, r, member
  <2>3. p.list_members = P.list_members /\ p.list_index = P.list_index
    BY <1>3, SMT DEF Parser
  <2>4. CASE ~(known /\ cur > 0)
    <3>1. Return(r, [chain EXCEPT ![cur] = p])
      BY <2>1, <2>4, Zenon
    <3> HIDE DEF p
    <3> QED
      BY <1>2, <2>2, <2>3, <3>1, QuietReturn DEF SameCounts
  <2>5. CASE known /\ cur > 0
    <3>1. chain[cur - 1] \in Parser /\ cur - 1 # cur /\ cur - 1 \in 0..MaxDepth
      BY <1>2, <2>5, Below, DepthAssumption
    <3>2. q[cur - 1] = chain[cur - 1]
      BY <1>2, <3>1, Zenon
    <3>3. [q EXCEPT ![cur - 1].value_close = close] = [q EXCEPT ![cur - 1] = o]
      <4> HIDE DEF q
      <4> QED
        BY <3>2
    <3>4. Return(r, [q EXCEPT ![cur - 1] = o])
      BY <2>1, <2>5, <3>3, Zenon
    <3>5. o.value_type = chain[cur - 1].value_type /\ o.list_members = chain[cur - 1].list_members
      BY <3>1, SMT DEF Parser
    <3> HIDE DEF p, o
    <3> QED
      BY <1>2, <2>2, <2>3, <2>5, <3>4, <3>5, QuietBoth DEF SameCounts
  <2> QED
    BY <2>4, <2>5
<1>8. CASE CaptureValue_Next
  <2> DEFINE track == IF Judged = "first_l" THEN 1 ELSE t.null_track
             skip  == IF Judged = "first_l" THEN 1 ELSE t.char_skip
             p     == [t EXCEPT !.value_close = Offset, !.null_track = track, !.char_skip = skip]
  <2>1. NextByte(p)
    BY <1>4, <1>8 DEF CaptureValue_Next
  <2> HIDE DEF track, skip
  <2>2. p.list_members = P.list_members /\ p.list_index = P.list_index
    BY <1>3, SMT DEF Parser
  <2> HIDE DEF p
  <2> QED
    BY <1>1, <1>2, <2>1, <2>2, QuietNextByte DEF SameCounts
<1> QED
  BY <1>5, <1>6, <1>7, <1>8

\* A step that leaves the chain as it is.
LEMMA QuietSame ==
  ASSUME HeardInv, IInv', cur' = cur, app' = app, chain' = chain,
         HasIndex(P, pc', result') => HasIndex(P, pc, result),
         pc' = "react" => Answers(result')
  PROVE  HeardInv'
<1>1. Alike(chain, chain', cur)
  BY Zenon DEF Alike
<1>2. chain'[cur] = P
  BY DEF P
<1> QED
  BY <1>1, <1>2, Quieten

\* Out of input.
LEMMA HeardScanEnd ==
  ASSUME HeardInv, IInv', ScanEnd
  PROVE  HeardInv'
<1>1. /\ pc = "scan" /\ pc' = "react" /\ result' = "END_OF_BUFFER"
      /\ chain' = chain /\ cur' = cur /\ app' = app
  BY Zenon DEF ScanEnd, DelegateFrame, localVars
<1> QED
  BY <1>1, QuietSame DEF HasIndex, Answers

\* The way out of a call, from the main loop or from the switch.
LEMMA HeardReturn ==
  ASSUME HeardInv, IInv', ReturnToHost, pc = "loop" \/ result = "END_OF_BUFFER"
  PROVE  HeardInv'
<1>1. pc' = "host" /\ chain' = chain /\ cur' = cur /\ app' = app
  BY Zenon DEF ReturnToHost, localVars
<1> QED
  BY <1>1, QuietSame DEF HasIndex

\* The steps of the host between two calls.
LEMMA HeardHost ==
  ASSUME HeardInv, IInv', Receive \/ Compact
  PROVE  HeardInv'
<1>1. pc = "host" /\ pc' = "host" /\ chain' = chain /\ cur' = cur /\ app' = app
  BY Zenon DEF Receive, Compact, localVars
<1> QED
  BY <1>1, QuietSame DEF HasIndex

\* shift_json_parser moves no count.
LEMMA ShiftCounts ==
  ASSUME NEW q \in [0..MaxDepth -> Parser], NEW alloc_ \in 0..MaxDepth, NEW shift \in 0..(U16 - 1),
         NEW d \in 0..MaxDepth
  PROVE  LET r == ShiftChain(q, alloc_, shift) IN
         /\ r[d].list_members = q[d].list_members /\ r[d].list_index = q[d].list_index
         /\ r[d].value_type = q[d].value_type /\ r[d].parse_state = q[d].parse_state
<1>1. ASSUME NEW p \in Parser
      PROVE  /\ ShiftParser(p, shift).list_members = p.list_members
             /\ ShiftParser(p, shift).list_index = p.list_index
             /\ ShiftParser(p, shift).value_type = p.value_type
             /\ ShiftParser(p, shift).parse_state = p.parse_state
  BY SMT DEF ShiftParser, Parser
<1> QED
  BY <1>1, Zenon DEF ShiftChain

\* The start of a call.
LEMMA HeardCall ==
  ASSUME HeardInv, IInv', Call
  PROVE  HeardInv'
<1> DEFINE shift == (previous_buffer_pos - pos) % U16
<1>1. /\ IInv /\ ScalarsOK /\ Stack(chain, cur) /\ cur \in Nat /\ cur \in 0..MaxDepth
      /\ chain \in [0..MaxDepth -> Parser]
  BY HeardParts, InvParts
<1>2. alloc \in 0..MaxDepth /\ cur <= alloc /\ 0 \in 0..cur
  BY <1>1, DepthAssumption, SMT DEF ScalarsOK
<1>3. cur' = cur
  <2>1. TopParser(chain, alloc, 0) = cur
    BY <1>1, <1>2, TopIsCurrent
  <2> QED
    BY <2>1, Zenon DEF Call
<1>4. shift \in 0..(U16 - 1)
  <2>1. previous_buffer_pos - pos \in Int
    BY <1>1, WidthAssumption, SMT DEF ScalarsOK
  <2> QED
    BY <2>1, Widths
<1>5. /\ pc = "host" /\ pc' = "loop" /\ result' = result /\ app' = app
      /\ chain' = chain \/ chain' = ShiftChain(chain, alloc, shift)
  BY Zenon DEF Call
<1> HIDE DEF shift
<1>6. ASSUME NEW d \in 0..MaxDepth
      PROVE  /\ chain'[d].list_members = chain[d].list_members
             /\ chain'[d].list_index = chain[d].list_index
             /\ chain'[d].value_type = chain[d].value_type
             /\ chain'[d].parse_state = chain[d].parse_state
  <2>1. CASE chain' = chain
    BY <2>1, Zenon
  <2>2. CASE chain' = ShiftChain(chain, alloc, shift)
    BY ONLY <1>1, <1>2, <1>4, <2>2, ShiftCounts
  <2> QED
    BY <1>5, <2>1, <2>2
<1>7. \A d \in 0..(cur - 1) : d \in 0..MaxDepth
  BY <1>1, DepthAssumption
<1>8. Alike(chain, chain', cur)
  BY <1>6, <1>7, Zenon DEF Alike
<1>9. HasIndex(chain'[cur], pc', result') => HasIndex(P, pc, result)
  BY <1>1, <1>5, <1>6, Zenon DEF HasIndex, P
<1>10. /\ chain'[cur].list_members = P.list_members /\ chain'[cur].list_index = P.list_index
  BY <1>1, <1>6 DEF P
<1> QED
  BY <1>3, <1>5, <1>8, <1>9, <1>10, Quieten

\* The main loop picks a delegate.
LEMMA HeardDispatch ==
  ASSUME HeardInv, IInv', Dispatch
  PROVE  HeardInv'
<1>1. /\ IInv /\ ScalarsOK /\ Stack(chain, cur) /\ cur \in Nat /\ P \in Parser
      /\ InList(chain, cur) => StateFits(TRUE, P.parse_state)
  BY HeardParts, InvParts
<1>2. cur' = cur
  <2>1. alloc \in 0..MaxDepth /\ cur <= alloc /\ cur \in 0..cur
    BY <1>1, DepthAssumption, SMT DEF ScalarsOK
  <2>2. TopParser(chain, alloc, cur) = cur
    BY <1>1, <2>1, TopIsCurrent
  <2> QED
    BY <2>2, Zenon DEF Dispatch
<1> DEFINE here == pos + P.char_skip
           p == [P EXCEPT !.char_skip = 0,
                          !.trie.req_position = IF P.parse_state = "PARSE_KEY" THEN here ELSE @]
<1>3. chain[cur'] = P /\ app' = app /\ pc = "loop"
  BY <1>2, Zenon DEF P, Dispatch
<1>4. p.list_members = P.list_members /\ p.list_index = P.list_index /\ p.parse_state = P.parse_state
  <2> HIDE DEF here
  <2> QED
    BY <1>1, SMT DEF Parser
<1>5. CASE MustWait(here)
  <2>1. result' = "END_OF_BUFFER" /\ pc' = "react" /\ chain' = chain
    BY <1>3, <1>5, Zenon DEF Dispatch
  <2> QED
    BY <1>2, <1>3, <2>1, QuietSame DEF HasIndex, Answers
<1>6. CASE ~MustWait(here)
  <2>1. chain' = [chain EXCEPT ![cur'] = p]
    BY <1>3, <1>6 DEF Dispatch
  <2>2. Stores(p)
    BY <1>2, <2>1 DEF Stores
  <2>3. (CASE P.parse_state = "PARSE_KEY" -> pc' = "token" /\ UNCHANGED result
           [] P.parse_state \in {"ADVANCE_KEY", "ADVANCE_VALUE", "ADVANCE_LIST_ITEM",
                                 "CAPTURE_VALUE", "CAPTURE_LIST_ITEM"} ->
                pc' = "scan" /\ UNCHANGED result
           [] P.parse_state \in {"LIST_COMPLETE", "COMPLETE"} ->
                pc' = "react" /\ result' = P.parse_state
           [] OTHER -> pc' = "react" /\ result' = "ERROR")
    BY <1>3, <1>6, Zenon DEF Dispatch
  <2>4. \/ pc' \in {"token", "scan"}
        \/ pc' = "react" /\ result' = "ERROR"
        \/ pc' = "react" /\ result' = P.parse_state /\ result' \in {"LIST_COMPLETE", "COMPLETE"}
    BY <2>3, Zenon
  <2>5. pc' = "react" => Answers(result')
    BY <1>1, <2>4 DEF Answers, StateFits
  <2> HIDE DEF p
  <2>6. HasIndex(p, pc', result') => HasIndex(P, pc, result)
    BY <1>3, <1>4, <2>4 DEF HasIndex
  <2> QED
    BY <1>2, <1>3, <1>4, <2>2, <2>5, <2>6, QuietStore DEF SameCounts
<1> QED
  BY <1>5, <1>6

--------------------------------------------------------------------------------
(* The callbacks. *)

\* What each kind of callback makes of it.
LEMMA ToldKinds ==
  ASSUME NEW a, NEW e
  PROVE  /\ e.state = "EXTRACT_VALUE" /\ e.type \in Containers =>
              Told(a, e) = Opened(Expects(a, e.depth = Inside(a) + 1 /\ e.index = Index(a)),
                                  e.type = "LIST")
         /\ e.state = "EXTRACT_VALUE" /\ e.type \notin Containers =>
              Told(a, e) = Expects(a, e.depth = Inside(a) /\ e.index = Index(a))
         /\ e.state = "LIST_ITEM_COMPLETE" =>
              Told(a, e) = Counted(Expects(a, e.depth = Inside(a) /\ Listing(a) /\ e.index = Index(a)))
         /\ e.state \in {"COMPLETE", "PARSE_KEY_COMPLETE"} =>
              Told(a, e) = Expects(a, e.depth = Inside(a) /\ ~Listing(a))
         /\ e.state \in {"STRUCT_COMPLETE", "LIST_COMPLETE"} =>
              Told(a, e) = Closed(Expects(a, e.depth = Inside(a) /\ e.members = Index(a)))
  BY DEF Told, OpensContainer, ClosesContainer

\* A chain with a member counted below c, where members are counted.
Counts(q, r, c) ==
  /\ Alike(q, r, c - 1)
  /\ c > 0 => /\ r[c - 1].value_type = q[c - 1].value_type
              /\ r[c - 1].list_members =
                   IF InList(q, c) THEN (q[c - 1].list_members + 1) % U16 ELSE q[c - 1].list_members

\* And the parser at work made ready for something new.
Fresh(r, c) == r[c].list_members = 0 /\ r[c].parse_state \notin ValueCapture

\* CountMember does the one,
LEMMA CountCounts ==
  ASSUME NEW c, NEW q, Stack(q, c)
  PROVE  Counts(q, CountMember(q, c), c)
<1>1. c \in 0..MaxDepth /\ c \in Nat /\ q \in [0..MaxDepth -> Parser]
  BY DepthAssumption DEF Stack
<1>2. CASE ~InList(q, c)
  BY <1>2, Zenon DEF CountMember, Counts, Alike
<1>3. CASE InList(q, c)
  <2> DEFINE n == (q[c - 1].list_members + 1) % U16
             p == [q[c - 1] EXCEPT !.list_members = n]
             r == CountMember(q, c)
  <2>1. c > 0 /\ c - 1 \in 0..MaxDepth /\ \A d \in 0..((c - 1) - 1) : d # c - 1 /\ d \in 0..MaxDepth
    BY <1>1, <1>3, DepthAssumption DEF InList
  <2>2. q[c - 1] \in Parser
    BY <1>1, <2>1
  <2>3. r = [q EXCEPT ![c - 1] = p]
    BY <1>3, Zenon DEF CountMember
  <2>4. p.list_members = n /\ p.value_type = q[c - 1].value_type
    <3> HIDE DEF n
    <3> QED
      BY <2>2, SMT DEF Parser
  <2> HIDE DEF p, r
  <2>5. r[c - 1] = p /\ \A d \in 0..((c - 1) - 1) : r[d] = q[d]
    BY <1>1, <2>1, <2>3, Zenon
  <2>6. Alike(q, r, c - 1)
    BY <2>5, Zenon DEF Alike
  <2> QED
    BY <1>3, <2>4, <2>5, <2>6 DEF Counts, r
<1> QED
  BY <1>2, <1>3

\* reset_json_parser the other,
LEMMA ResetFresh ==
  ASSUME NEW c, NEW q, Stack(q, c)
  PROVE  Fresh(ResetAt(q, c), c)
<1> DEFINE p == q[c]
           member == InList(q, c)
           s == IF member THEN "ADVANCE_LIST_ITEM" ELSE "ADVANCE_KEY"
           z == Zeroed(p.trie)
           r == [z EXCEPT !.active = 1, !.char_skip = p.char_skip,
                          !.parent = p.parent % U8, !.parse_state = s]
<1>1. c \in 0..MaxDepth /\ q \in [0..MaxDepth -> Parser] /\ p \in Parser
  BY StackFields, Zenon DEF Stack
<1>2. z \in Parser /\ z.list_members = 0
  BY <1>1, ParserFields, ZeroedTyped DEF Zeroed
<1>3. ResetAt(q, c) = [q EXCEPT ![c] = r]
  BY DEF ResetAt, ResetParser
<1>4. s \notin ValueCapture
  BY DEF ValueCapture
<1> HIDE DEF z, s
<1>5. r.list_members = 0 /\ r.parse_state = s
  BY <1>2, SMT DEF Parser
<1> HIDE DEF r
<1>6. ResetAt(q, c)[c] = r
  BY <1>1, <1>3, Zenon
<1> QED
  BY <1>4, <1>5, <1>6 DEF Fresh

\* in either order.
LEMMA ResetCounts ==
  ASSUME NEW c, NEW q, Stack(q, c)
  PROVE  /\ Counts(q, CountMember(ResetAt(q, c), c), c) /\ Fresh(CountMember(ResetAt(q, c), c), c)
         /\ Counts(q, ResetAt(CountMember(q, c), c), c) /\ Fresh(ResetAt(CountMember(q, c), c), c)
<1> DEFINE r == ResetAt(q, c)
           m == CountMember(q, c)
<1>1. c \in Nat
  BY DepthAssumption DEF Stack
<1>2. Stack(r, c) /\ Stack(m, c) /\ \A d \in 0..(c - 1) : r[d] = q[d] /\ ResetAt(m, c)[d] = m[d]
  BY CountTyped, ResetAtTyped
<1>3. c > 0 => c - 1 \in 0..(c - 1)
  BY <1>1
<1>4. \A d \in 0..((c - 1) - 1) : d \in 0..(c - 1)
  BY <1>1
<1>5. Counts(r, CountMember(r, c), c) /\ Counts(q, m, c)
  BY <1>2, CountCounts
<1>6. Fresh(r, c) /\ Fresh(ResetAt(m, c), c) /\ CountMember(r, c)[c] = r[c]
  BY <1>2, ResetFresh, CountTyped
<1> DEFINE a == CountMember(r, c)
           b == ResetAt(m, c)
<1> HIDE DEF r, m, a, b
<1>7. Counts(q, a, c)
  <2>1. InList(r, c) <=> InList(q, c)
    BY <1>2, <1>3, Zenon DEF InList
  <2>2. Alike(q, a, c - 1)
    BY <1>2, <1>4, <1>5, Zenon DEF Counts, Alike, a
  <2> QED
    BY <1>2, <1>3, <1>5, <2>1, <2>2, Zenon DEF Counts, a
<1>8. Counts(q, b, c)
  <2>1. Alike(q, b, c - 1)
    BY <1>2, <1>4, <1>5, Zenon DEF Counts, Alike, b
  <2> QED
    BY <1>2, <1>3, <1>5, <2>1, Zenon DEF Counts, b
<1>9. Fresh(a, c) /\ Fresh(b, c)
  BY <1>6, Zenon DEF Fresh, a, b
<1> QED
  BY <1>7, <1>8, <1>9 DEF a, b, r, m

\* Structs still count nothing.
LEMMA CountlessAgain ==
  ASSUME NEW q, NEW r, NEW c \in Nat, Counts(q, r, c), Fresh(r, c),
         \A d \in 0..(c - 1) : q[d].value_type # "LIST" => q[d].list_members = 0
  PROVE  Countless(r, c)
<1>1. ASSUME NEW d \in 0..(c - 1), r[d].value_type # "LIST"
      PROVE  r[d].list_members = 0
  <2>1. CASE d = c - 1
    BY <1>1, <2>1 DEF Counts, InList
  <2>2. CASE d < c - 1
    <3>1. d \in 0..((c - 1) - 1)
      BY <2>2
    <3> QED
      BY <1>1, <3>1, Zenon DEF Counts, Alike
  <2> QED
    BY <2>1, <2>2
<1> QED
  BY <1>1 DEF Countless, Fresh

\* Back in the main loop, after a callback.
LEMMA ToLoop ==
  ASSUME IInv', Proceed, Follows(app', chain', cur'), Countless(chain', cur'),
         Fresh(chain', cur') \/ Numbered'
  PROVE  HeardInv'
<1>1. pc' = "loop"
  BY DEF Proceed
<1>2. CASE Fresh(chain', cur')
  <2>1. ~HasIndex(P', pc', result')
    BY <1>1, <1>2 DEF Fresh, HasIndex, P
  <2> QED
    BY <1>1, <2>1 DEF HeardInv, Numbered, Answered
<1>3. CASE Numbered'
  BY <1>1, <1>3 DEF HeardInv, Answered
<1> QED
  BY <1>2, <1>3

\* What the application knows where the step begins.
LEMMA KnowsWhere ==
  ASSUME HeardInv
  PROVE  /\ app \in Apps /\ app.ok = TRUE /\ Inside(app) = cur
         /\ Listing(app) \in BOOLEAN /\ (Listing(app) <=> InList(chain, cur))
         /\ Index(app) = IF InList(chain, cur) THEN chain[cur - 1].list_members ELSE 0
         /\ \A good : good = TRUE => Expects(app, good) = app
<1>1. Follows(app, chain, cur) /\ cur \in Nat
  BY HeardParts DEF HeardInv
<1>2. app \in Apps /\ app.ok = TRUE
  BY <1>1 DEF Follows
<1> QED
  BY <1>1, <1>2, OpenIs, Expected

\* PS_PARSE_KEY_COMPLETE.
LEMMA HeardKeyComplete ==
  ASSUME HeardInv, IInv', React_KeyComplete
  PROVE  HeardInv'
<1> DEFINE e == KeyEvent(cur)
<1>1. /\ pc = "react" /\ result = "PARSE_KEY_COMPLETE" /\ app' = Told(app, e)
      /\ Proceed /\ cur' = cur /\ chain' = chain
  BY Zenon DEF React_KeyComplete, Tell, Reacting
<1>2. e.state = "PARSE_KEY_COMPLETE" /\ e.depth = cur
  BY DEF KeyEvent
<1> HIDE DEF e
<1>3. ~InList(chain, cur)
  BY <1>1 DEF HeardInv, Answered, Answers
<1>4. app' = Told(app, e)
  BY <1>1
<1>5. (e.depth = Inside(app) /\ ~Listing(app)) = TRUE
  BY <1>2, <1>3, KnowsWhere
<1>6. Told(app, e) = Expects(app, e.depth = Inside(app) /\ ~Listing(app))
  BY <1>2, ToldKinds
<1>7. app' = app
  BY <1>4, <1>5, <1>6, KnowsWhere
<1>8. Follows(app', chain', cur') /\ Countless(chain', cur')
  BY <1>1, <1>7 DEF HeardInv
<1>9. Numbered'
  BY <1>1, <1>3 DEF Numbered
<1> QED
  BY <1>1, <1>4, <1>8, <1>9, ToLoop

\* PS_EXTRACT_VALUE for a value that is not a container.
LEMMA HeardValueStart ==
  ASSUME HeardInv, IInv', React_ValueStart
  PROVE  HeardInv'
<1> DEFINE member == InList(chain, cur)
           index == IF member THEN chain[cur - 1].list_members ELSE 0
           p == CaptureParser(P, member, index)
           q == [chain EXCEPT ![cur] = p]
           e == ExtractEvent(q, cur, cur)
<1>1. /\ IInv /\ P \in Parser /\ cur \in Nat /\ cur \in 0..MaxDepth /\ Stack(chain, cur)
      /\ chain \in [0..MaxDepth -> Parser] /\ member \in BOOLEAN
  BY HeardParts, InvParts, AtWork
<1>2. /\ chain' = q /\ app' = Told(app, e)
      /\ Proceed /\ cur' = cur /\ P.value_type \notin Containers
  BY Zenon DEF React_ValueStart, Tell, P
<1>3. index \in 0..(U16 - 1)
  <2>1. CASE member
    <3>1. cur > 0
      BY <2>1, Zenon DEF InList
    <3> QED
      BY <1>1, <2>1, <3>1, Below, ParserFields, Zenon
  <2>2. CASE ~member
    BY <2>2, Widths, Zenon
  <2> QED
    BY <1>1, <2>1, <2>2
<1>4. index = Index(app)
  BY KnowsWhere
<1> HIDE DEF index
<1>5. p.list_index = index /\ p.list_members = 0 /\ p.value_type = P.value_type
  <2> DEFINE r == ResetParser(P, member)
  <2>1. r \in Parser /\ r.list_members = 0
    <3>1. Zeroed(P.trie) \in Parser /\ Zeroed(P.trie).list_members = 0
      BY <1>1, ParserFields, ZeroedTyped DEF Zeroed
    <3>2. r \in Parser
      BY <1>1, ResetTyped
    <3> HIDE DEF member
    <3>3. r.list_members = 0
      BY <3>1, SMT DEF ResetParser, Parser
    <3> QED
      BY <3>2, <3>3
  <2> HIDE DEF r, member
  <2>2. p = CaptureParser(P, member, index)
    OBVIOUS
  <2> HIDE DEF p
  <2>3. p.list_index = index /\ p.list_members = r.list_members /\ p.value_type = P.value_type
    BY <2>1, <2>2, SMT DEF CaptureParser, Parser, r
  <2> QED
    BY <2>1, <2>3
<1> HIDE DEF p
<1>6. q[cur] = p
  BY <1>1, Zenon
<1>7. \A d \in 0..(cur - 1) : d # cur /\ d \in 0..MaxDepth
  BY <1>1, DepthAssumption
<1>8. Alike(chain, q, cur)
  BY <1>1, <1>7, Zenon DEF Alike
<1> HIDE DEF q
<1>9. e.state = "EXTRACT_VALUE" /\ e.type \notin Containers /\ e.depth = cur /\ e.index = index
  BY <1>2, <1>5, <1>6 DEF ExtractEvent
<1> HIDE DEF e
<1>10. app' = Told(app, e)
  BY <1>2
<1>11. (e.depth = Inside(app) /\ e.index = Index(app)) = TRUE
  BY <1>4, <1>9, KnowsWhere
<1>12. Told(app, e) = Expects(app, e.depth = Inside(app) /\ e.index = Index(app))
  BY <1>9, ToldKinds
<1>13. app' = app
  BY <1>10, <1>11, <1>12, KnowsWhere
<1>14. Follows(app', chain', cur')
  BY <1>2, <1>8, <1>13, FollowsAgain DEF HeardInv
<1>15. Countless(chain', cur')
  <2>1. Countless(chain, cur)
    BY DEF HeardInv
  <2> QED
    BY <1>2, <1>5, <1>6, <1>8, <2>1, Zenon DEF Countless, Alike
<1>16. Numbered'
  <2>1. InList(chain', cur') <=> member
    BY <1>1, <1>2, <1>8, AlikeInList DEF member
  <2>2. (P').list_index = index
    BY <1>2, <1>5, <1>6 DEF P
  <2>3. member => cur > 0
    BY DEF member, InList
  <2>4. cur > 0 => chain'[cur - 1].list_members = chain[cur - 1].list_members
    BY <1>1, <1>2, <1>8, AlikeInList
  <2> QED
    BY <1>2, <2>1, <2>2, <2>3, <2>4 DEF Numbered, index
<1> QED
  BY <1>2, <1>10, <1>14, <1>15, <1>16, ToLoop

\* PS_LIST_ITEM_COMPLETE.
LEMMA HeardListItemComplete ==
  ASSUME HeardInv, IInv', React_ListItemComplete
  PROVE  HeardInv'
<1> DEFINE e == ValueEvent("LIST_ITEM_COMPLETE", cur)
<1>1. /\ pc = "react" /\ result = "LIST_ITEM_COMPLETE" /\ app' = Told(app, e)
      /\ chain' = ResetAt(CountMember(chain, cur), cur) /\ Proceed /\ cur' = cur
  BY Zenon DEF React_ListItemComplete, Tell, Reacting
<1>2. Stack(chain, cur) /\ cur \in Nat /\ Follows(app, chain, cur)
  BY HeardParts DEF HeardInv
<1>3. e.state = "LIST_ITEM_COMPLETE" /\ e.depth = cur /\ e.index = P.list_index
  BY DEF ValueEvent, P
<1> HIDE DEF e
<1>4. InList(chain, cur) /\ P.list_index = chain[cur - 1].list_members
  BY <1>1 DEF HeardInv, Answered, Answers, Numbered, HasIndex
<1>5. app' = Told(app, e)
  BY <1>1
<1>6. (e.depth = Inside(app) /\ Listing(app) /\ e.index = Index(app)) = TRUE
  BY <1>3, <1>4, KnowsWhere
<1>7. Told(app, e) = Counted(Expects(app, e.depth = Inside(app) /\ Listing(app) /\ e.index = Index(app)))
  BY <1>3, ToldKinds
<1>8. app' = Counted(app)
  BY <1>5, <1>6, <1>7, KnowsWhere
<1>9. Counts(chain, chain', cur) /\ Fresh(chain', cur')
  BY <1>1, <1>2, ResetCounts
<1>10. Follows(app', chain', cur')
  BY <1>1, <1>2, <1>8, <1>9, CountedIs DEF Counts
<1>11. Countless(chain', cur')
  BY <1>1, <1>2, <1>9, CountlessAgain DEF HeardInv, Countless
<1> QED
  BY <1>1, <1>5, <1>9, <1>10, <1>11, ToLoop

\* PS_COMPLETE.
LEMMA HeardComplete ==
  ASSUME HeardInv, IInv', React_Complete
  PROVE  HeardInv'
<1> DEFINE e == ValueEvent("COMPLETE", cur)
<1>1. /\ pc = "react" /\ result = "COMPLETE" /\ app' = Told(app, e)
      /\ chain' = CountMember(ResetAt(chain, cur), cur) /\ Proceed /\ cur' = cur
  BY Zenon DEF React_Complete, Tell, Reacting
<1>2. Stack(chain, cur) /\ cur \in Nat /\ Follows(app, chain, cur)
  BY HeardParts DEF HeardInv
<1>3. e.state = "COMPLETE" /\ e.depth = cur
  BY DEF ValueEvent
<1> HIDE DEF e
<1>4. ~InList(chain, cur)
  BY <1>1 DEF HeardInv, Answered, Answers
<1>5. app' = Told(app, e)
  BY <1>1
<1>6. (e.depth = Inside(app) /\ ~Listing(app)) = TRUE
  BY <1>3, <1>4, KnowsWhere
<1>7. Told(app, e) = Expects(app, e.depth = Inside(app) /\ ~Listing(app))
  BY <1>3, ToldKinds
<1>8. app' = app
  BY <1>5, <1>6, <1>7, KnowsWhere
<1>9. Counted(app) = app
  BY <1>4, KnowsWhere DEF Counted
<1>10. Counts(chain, chain', cur) /\ Fresh(chain', cur')
  BY <1>1, <1>2, ResetCounts
<1>11. Follows(app', chain', cur')
  BY <1>1, <1>2, <1>8, <1>9, <1>10, CountedIs DEF Counts
<1>12. Countless(chain', cur')
  BY <1>1, <1>2, <1>10, CountlessAgain DEF HeardInv, Countless
<1> QED
  BY <1>1, <1>5, <1>10, <1>11, <1>12, ToLoop

\* spawn_json_parser hands the index of the container down.
LEMMA SpawnCounts ==
  ASSUME NEW c, NEW q, Stack(q, c), c < MaxDepth,
         NEW alloc_ \in 0..MaxDepth, NEW buffer_pos \in Nat
  PROVE  LET r == SpawnParser(q, alloc_, c, buffer_pos) IN
         /\ Alike(q, r, c + 1) /\ Fresh(r, c + 1)
         /\ r[c + 1].list_index = NextIndex(q, c)
<1> DEFINE p    == q[c]
           list == p.value_type = "LIST"
           trie == IF c + 1 <= alloc_ THEN q[c + 1].trie
                   ELSE TrieReset(p.trie.delimiter, buffer_pos)
           n    == NextIndex(q, c)
           s    == IF list THEN "ADVANCE_LIST_ITEM" ELSE "ADVANCE_KEY"
           z    == Zeroed(trie)
           old  == [p EXCEPT !.list_index = n]
           new  == [z EXCEPT !.active = 1, !.parse_state = s, !.char_skip = p.char_skip,
                             !.list_index = n, !.key_start = p.key_start,
                             !.key_close = p.key_close, !.value_start = p.value_start,
                             !.parent = p.token, !.token = p.token % U8,
                             !.bracket_track = IF list THEN 1 ELSE 0,
                             !.brace_track = IF list THEN 0 ELSE 1]
           r    == SpawnParser(q, alloc_, c, buffer_pos)
<1>1. /\ q \in [0..MaxDepth -> Parser] /\ c \in Nat /\ c \in 0..MaxDepth /\ c + 1 \in 0..MaxDepth
      /\ c # c + 1 /\ \A d \in 0..((c + 1) - 1) : d # c + 1 /\ d \in 0..MaxDepth
  BY DepthAssumption, SMT DEF Stack
<1>2. p \in Parser /\ q[c + 1] \in Parser
  BY <1>1, Zenon
<1>3. trie \in TrieState
  <2>1. p.trie.delimiter \in Chars
    BY <1>2, ParserFields, Zenon DEF TrieState
  <2> QED
    BY <1>2, <2>1, ParserFields, TrieResetTyped, Zenon
<1>4. z \in Parser /\ z.list_members = 0
  <2> HIDE DEF trie
  <2> QED
    BY <1>3, ZeroedTyped DEF Zeroed
<1>5. s \notin ValueCapture
  BY DEF ValueCapture
<1>6. r = [q EXCEPT ![c].list_index = n, ![c + 1] = new]
  BY Zenon DEF SpawnParser
<1> HIDE DEF n, s, z, list
<1>7. old.value_type = p.value_type /\ old.list_members = p.list_members
  BY <1>2, SMT DEF Parser
<1>8. new.list_members = 0 /\ new.list_index = n /\ new.parse_state = s
  BY <1>4, SMT DEF Parser
<1> DEFINE m == [q EXCEPT ![c] = old]
<1>9. r = [m EXCEPT ![c + 1] = new]
  BY <1>6
<1>10. m[c] = old /\ DOMAIN m = 0..MaxDepth /\ \A d \in 0..MaxDepth : d = c \/ m[d] = q[d]
  BY <1>1, Zenon
<1> HIDE DEF old, new, m, r
<1>11. r[c + 1] = new /\ \A d \in 0..((c + 1) - 1) : r[d] = m[d]
  BY <1>1, <1>9, <1>10, Zenon
<1>12. ASSUME NEW d \in 0..((c + 1) - 1)
       PROVE  r[d].value_type = q[d].value_type /\ r[d].list_members = q[d].list_members
  BY <1>1, <1>7, <1>10, <1>11, Zenon
<1>13. Alike(q, r, c + 1)
  BY <1>12 DEF Alike
<1> QED
  BY <1>5, <1>8, <1>11, <1>13 DEF Fresh, r, n

\* PS_EXTRACT_VALUE for a container.
LEMMA HeardContainerStart ==
  ASSUME HeardInv, IInv', React_ContainerStart
  PROVE  HeardInv'
<1> DEFINE q == SpawnParser(chain, alloc, cur, pos)
           e == ExtractEvent(q, cur, cur + 1)
           list == e.type = "LIST"
<1>1. /\ Stack(chain, cur) /\ cur \in Nat /\ Follows(app, chain, cur) /\ Countless(chain, cur)
      /\ alloc \in 0..MaxDepth /\ pos \in Nat
  BY HeardParts, InvParts DEF HeardInv, ScalarsOK
<1>2. /\ chain' = q /\ app' = Told(app, e) /\ Proceed /\ cur' = cur + 1
      /\ P.value_type \in Containers /\ cur < MaxDepth
  BY Zenon DEF React_ContainerStart, Tell
<1>3. Alike(chain, q, cur + 1) /\ Fresh(q, cur + 1) /\ q[cur + 1].list_index = NextIndex(chain, cur)
  BY <1>1, <1>2, SpawnCounts
<1> HIDE DEF q
<1>4. /\ e.state = "EXTRACT_VALUE" /\ e.type = q[cur].value_type
      /\ e.depth = cur + 1 /\ e.index = q[cur + 1].list_index
  BY DEF ExtractEvent
<1> HIDE DEF e
<1>5. cur \in 0..((cur + 1) - 1) /\ \A d \in 0..(cur - 1) : d \in 0..((cur + 1) - 1)
  BY <1>1
<1>6. q[cur].value_type = P.value_type /\ q[cur].list_members = P.list_members
  BY <1>3, <1>5, Zenon DEF Alike, P
<1>7. P.list_members = 0
  BY <1>1 DEF Countless, P
<1>8. NextIndex(chain, cur) = Index(app)
  <2>1. CASE cur = 0
    BY <2>1, KnowsWhere DEF NextIndex, InList
  <2>2. CASE cur > 0 /\ InList(chain, cur)
    BY <2>2, KnowsWhere DEF NextIndex
  <2>3. CASE cur > 0 /\ ~InList(chain, cur)
    <3>1. cur - 1 \in 0..(cur - 1) /\ chain[cur - 1].value_type # "LIST"
      BY <1>1, <2>3 DEF InList
    <3>2. chain[cur - 1].list_members = 0
      BY <1>1, <3>1, Zenon DEF Countless
    <3> QED
      BY <2>3, <3>2, KnowsWhere DEF NextIndex
  <2> QED
    BY <1>1, <2>1, <2>2, <2>3
<1>9. app' = Told(app, e)
  BY <1>2
<1>10. (e.depth = Inside(app) + 1 /\ e.index = Index(app)) = TRUE
  BY <1>3, <1>4, <1>8, KnowsWhere
<1>11. Told(app, e) = Opened(Expects(app, e.depth = Inside(app) + 1 /\ e.index = Index(app)), list)
  BY <1>2, <1>4, <1>6, ToldKinds
<1>12. app' = Opened(app, list)
  BY <1>9, <1>10, <1>11, KnowsWhere
<1>13. Alike(chain, q, cur)
  BY <1>3, <1>5, Zenon DEF Alike
<1>14. list \in BOOLEAN /\ list = (q[cur].value_type = "LIST") /\ q[cur].list_members = 0
  BY <1>4, <1>6, <1>7
<1> HIDE DEF list
<1>15. Follows(app', chain', cur')
  BY <1>1, <1>2, <1>12, <1>13, <1>14, OpenedIs
<1>16. Countless(chain', cur')
  <2>1. \A d \in 0..((cur + 1) - 1) : q[d].value_type # "LIST" => q[d].list_members = 0
    <3>1. \A d \in 0..((cur + 1) - 1) : d = cur \/ d \in 0..(cur - 1)
      BY <1>1
    <3>2. \A d \in 0..(cur - 1) : q[d].value_type # "LIST" => q[d].list_members = 0
      BY <1>1, <1>13, Zenon DEF Countless, Alike
    <3> QED
      BY <1>14, <3>1, <3>2, Zenon
  <2> QED
    BY <1>2, <1>3, <2>1 DEF Countless, Fresh
<1> QED
  BY <1>2, <1>3, <1>9, <1>15, <1>16, ToLoop

\* PS_STRUCT_COMPLETE and PS_LIST_COMPLETE.
LEMMA HeardContainerComplete ==
  ASSUME HeardInv, IInv', React_ContainerComplete
  PROVE  HeardInv'
<1> DEFINE k == CloseEvent(result, cur)
           e == DropTo(cur)
           d == DropParser(chain, cur)
           q == CountMember(ResetAt(d, e), e)
           p == [q[e] EXCEPT !.char_skip = P.char_skip]
           r == [q EXCEPT ![e] = p]
<1>1. /\ Stack(chain, cur) /\ cur \in Nat /\ Follows(app, chain, cur) /\ Countless(chain, cur)
      /\ chain \in [0..MaxDepth -> Parser] /\ cur \in 0..MaxDepth
  BY HeardParts DEF HeardInv
<1>2. /\ app' = Told(app, k) /\ Proceed /\ cur' = e
      /\ result \in {"LIST_COMPLETE", "STRUCT_COMPLETE"}
  BY Zenon DEF React_ContainerComplete, Tell, Reacting
<1>3. chain' = r
  BY <1>2 DEF React_ContainerComplete
<1>4. e \in Nat /\ ((cur = 0 /\ e = 0) \/ (cur > 0 /\ e = cur - 1))
  <2>1. CASE cur = 0
    BY <2>1 DEF DropTo
  <2>2. CASE cur > 0
    <3>1. e = cur - 1
      BY <2>2, Zenon DEF DropTo
    <3> QED
      BY <1>1, <2>2, <3>1
  <2> QED
    BY <1>1, <2>1, <2>2
<1>5. Stack(d, e)
  BY <1>1, DropTyped
<1>6. \A i \in 0..(cur - 1) : d[i] = chain[i]
  <2> DEFINE a == ResetAt(chain, cur)
  <2>1. Stack(a, cur) /\ \A i \in 0..(cur - 1) : a[i] = chain[i]
    BY <1>1, ResetAtTyped
  <2>2. a \in [0..MaxDepth -> Parser]
    BY <2>1 DEF Stack
  <2>3. \A i \in 0..(cur - 1) : i # cur /\ i \in 0..MaxDepth
    BY <1>1, DepthAssumption
  <2>4. d = a \/ d = [a EXCEPT ![cur].parent = 0, ![cur].char_skip = 0, ![cur].active = 0]
    BY Zenon DEF DropParser
  <2> HIDE DEF a, d
  <2>5. \A i \in 0..(cur - 1) : d[i] = a[i]
    BY <2>2, <2>3, <2>4, Zenon
  <2> QED
    BY <2>1, <2>5, Zenon
<1> HIDE DEF d
<1>7. Counts(d, q, e) /\ Fresh(q, e) /\ Stack(q, e)
  BY <1>5, ResetCounts, CountTyped, ResetAtTyped
<1> HIDE DEF q
<1>8. q[e] \in Parser /\ q \in [0..MaxDepth -> Parser] /\ e \in 0..MaxDepth
  BY <1>7, Zenon DEF Stack
<1>9. p.list_members = q[e].list_members /\ p.parse_state = q[e].parse_state
  BY <1>8, SMT DEF Parser
<1> HIDE DEF p
<1>10. r[e] = p /\ \A i \in 0..(e - 1) : r[i] = q[i]
  <2>1. \A i \in 0..(e - 1) : i # e /\ i \in 0..MaxDepth
    BY <1>4, <1>8, DepthAssumption
  <2> QED
    BY <1>8, <2>1, Zenon
<1> HIDE DEF r
<1>11. Fresh(r, e)
  BY <1>7, <1>9, <1>10 DEF Fresh
<1>12. Counts(chain, r, e)
  <2>1. \A i \in 0..(e - 1) : d[i] = chain[i]
    <3>1. \A i \in 0..(e - 1) : i \in 0..(cur - 1)
      BY <1>1, <1>4
    <3> QED
      BY <1>6, <3>1, Zenon
  <2>2. \A i \in 0..((e - 1) - 1) : i \in 0..(e - 1)
    BY <1>4
  <2>3. Alike(chain, r, e - 1)
    BY <1>7, <1>10, <2>1, <2>2, Zenon DEF Counts, Alike
  <2>4. ASSUME e > 0
        PROVE  /\ r[e - 1] = q[e - 1] /\ d[e - 1] = chain[e - 1]
               /\ InList(d, e) <=> InList(chain, e)
    <3>1. e - 1 \in 0..(e - 1)
      BY <1>4, <2>4
    <3> QED
      BY <1>10, <2>1, <3>1, Zenon DEF InList
  <2> QED
    BY <1>7, <2>3, <2>4, Zenon DEF Counts
<1>13. \A i \in 0..(e - 1) : chain[i].value_type # "LIST" => chain[i].list_members = 0
  <2>1. \A i \in 0..(e - 1) : i \in 0..(cur - 1)
    BY <1>1, <1>4
  <2> QED
    BY <1>1, <2>1, Zenon DEF Countless
<1>14. Countless(r, e)
  BY <1>4, <1>11, <1>12, <1>13, CountlessAgain
<1>15. k.state \in {"LIST_COMPLETE", "STRUCT_COMPLETE"} /\ k.depth = cur /\ k.members = Index(app)
  BY <1>2, KnowsWhere DEF CloseEvent
<1> HIDE DEF k
<1>16. app' = Told(app, k)
  BY <1>2
<1>17. (k.depth = Inside(app) /\ k.members = Index(app)) = TRUE
  BY <1>15, KnowsWhere
<1>18. Told(app, k) = Closed(Expects(app, k.depth = Inside(app) /\ k.members = Index(app)))
  BY <1>15, ToldKinds
<1>19. app' = Closed(app)
  BY <1>16, <1>17, <1>18, KnowsWhere
<1>20. Follows(app', r, e)
  <2>1. CASE cur = 0
    <3>1. Closed(app) = app
      BY <2>1, KnowsWhere DEF Closed
    <3>2. Alike(chain, r, 0)
      BY DEF Alike
    <3> QED
      BY <1>1, <1>4, <1>19, <2>1, <3>1, <3>2, FollowsAgain
  <2>2. CASE cur > 0
    <3>1. cur \in Nat \ {0} /\ e = cur - 1 /\ e - 1 = cur - 2 /\ (cur > 1 <=> e > 0)
      BY <1>1, <1>4, <2>2
    <3>2. /\ Alike(chain, r, cur - 2)
          /\ cur > 1 => r[cur - 2].value_type = chain[cur - 2].value_type
          /\ cur > 1 => r[cur - 2].list_members =
                          IF InList(chain, cur - 1) THEN (chain[cur - 2].list_members + 1) % U16
                          ELSE chain[cur - 2].list_members
      BY <1>12, <3>1 DEF Counts
    <3> QED
      BY <1>1, <1>19, <3>1, <3>2, ClosedIs
  <2> QED
    BY <1>1, <2>1, <2>2
<1> QED
  BY <1>2, <1>3, <1>11, <1>14, <1>16, <1>20, ToLoop

--------------------------------------------------------------------------------
\* Every step keeps what the application knows in line with the chain.
LEMMA HeardStep ==
  ASSUME HeardInv, [Next]_vars
  PROVE  HeardInv'
<1>1. IInv
  BY DEF HeardInv
<1>2. CASE UNCHANGED vars
  <2>1. IInv'
    BY <1>1, <1>2, InvNext
  <2>2. /\ app' = app /\ chain' = chain /\ cur' = cur
        /\ pc' = pc /\ result' = result
    BY <1>2, Zenon DEF vars, localVars
  <2>3. pc' = "react" => Answers(result')
    BY <2>2 DEF HeardInv, Answered
  <2> QED
    BY <2>1, <2>2, <2>3, QuietSame
<1>3. CASE Next
  <2>1. Next
    BY <1>3
  <2>2. IInv'
    BY <1>1, <2>1, InvNext
  <2>3. CASE Receive \/ Compact
    BY <2>1, <2>2, <2>3, HeardHost
  <2>4. CASE Call
    BY <2>1, <2>2, <2>4, HeardCall
  <2>5. CASE LoopExit
    BY <2>1, <2>2, <2>5, HeardReturn DEF LoopExit
  <2>6. CASE Dispatch
    BY <2>1, <2>2, <2>6, HeardDispatch
  <2>7. CASE Scan
    BY <2>1, <2>2, <2>7, HeardAdvanceKey, HeardParseKey, HeardAdvanceValue, HeardCaptureValue,
       HeardScanEnd DEF Scan
  <2>8. CASE Tokenize
    BY <2>1, <2>2, <2>8, HeardTokenize
  <2>9. CASE React
    <3>1. CASE React_EndOfBuffer
      BY <2>1, <2>2, <3>1, HeardReturn DEF React_EndOfBuffer, Reacting
    <3>2. CASE React_Nothing
      <4>1. /\ pc = "react" /\ result \in {"PARSE_KEY", "ERROR"} /\ pc' = "loop" /\ result' = result
            /\ cur' = cur /\ chain' = chain /\ app' = app
        BY <3>2, Zenon DEF React_Nothing, Reacting, Proceed
      <4> QED
        BY <2>1, <2>2, <4>1, QuietSame DEF HasIndex
    <3> QED
      BY <2>1, <2>2, <2>9, <3>1, <3>2, HeardKeyComplete, HeardContainerStart, HeardValueStart,
         HeardListItemComplete, HeardComplete, HeardContainerComplete DEF React
  <2> QED
    BY <2>1, <2>3, <2>4, <2>5, <2>6, <2>7, <2>8, <2>9 DEF Next, Running
<1> QED
  BY <1>2, <1>3

\* Before the first call nothing has been announced and nothing is open.
LEMMA HeardAtFirst ==
  ASSUME Init
  PROVE  HeardInv
<1>1. IInv
  BY InvInit
<1>2. /\ cur = 0 /\ pc = "host" /\ app = [open |-> <<>>, ok |-> TRUE]
      /\ chain = [d \in 0..MaxDepth |->
                    IF d = 0 THEN [InitParser(Nul, -base) EXCEPT !.parse_state = "ADVANCE_VALUE"]
                    ELSE Zeroed(TrieReset(Nul, -base))]
  BY DEF Init, NothingHeard
<1>3. Follows(app, chain, cur)
  <2>1. app.open = <<>> /\ app.ok = TRUE /\ app \in Apps
    BY <1>2 DEF Apps
  <2> QED
    BY <1>2, <2>1 DEF Follows
<1>4. Countless(chain, cur)
  <2>1. 0 \in 0..MaxDepth
    BY DepthAssumption
  <2>2. chain[0] = [InitParser(Nul, -base) EXCEPT !.parse_state = "ADVANCE_VALUE"]
    BY <1>2, <2>1
  <2>3. chain[0].list_members = 0
    BY <2>2, Zenon DEF InitParser, Zeroed
  <2> QED
    BY <1>2, <2>3 DEF Countless
<1>5. Numbered /\ Answered
  BY <1>2 DEF Numbered, Answered, InList
<1> QED
  BY <1>1, <1>3, <1>4, <1>5 DEF HeardInv

\* CallbacksNest: for every input, the callbacks open and close containers like
\* brackets and number the members of every list from 0 on without a gap; an
\* application that keeps a stack of counters agrees with the parser at any time.
THEOREM CallbacksCorrect == Spec => []CallbacksNest
<1>1. Init => HeardInv
  BY HeardAtFirst
<1>2. HeardInv /\ [Next]_vars => HeardInv'
  BY HeardStep
<1>3. HeardInv => CallbacksNest
  BY DEF HeardInv, Follows, CallbacksNest, Inside
<1> QED
  BY <1>1, <1>2, <1>3, PTL DEF Spec
================================================================================
