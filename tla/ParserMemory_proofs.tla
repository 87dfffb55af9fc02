--------------------------- MODULE ParserMemory_proofs ---------------------------
(******************************************************************************)
(* The chain of parsers as blocks of memory: nothing freed is used, nothing   *)
(* is lost, and the chain is the stack of ParserStack, for any number of      *)
(* blocks.                                                                    *)
(*                                                                            *)
(* depth numbers the parsers of the chain, so that what is said of pointers   *)
(* can be said, and proved by induction, of numbers.                          *)
(******************************************************************************)
EXTENDS Integers, ParserMemory, WellFoundedInduction, FiniteSetTheorems, TLAPS

\* What the fields of a block can hold.
Blocks ==
  [child : Parsers \cup {None}, parent_p : Parsers \cup {None},
   trie_state : TrieStates \cup {None}, depth : 0..(DepthWidth - 1), active : BOOLEAN]

\* The parsers allocated: no two at one depth, and a child one deeper, with a way back.
Linked ==
  /\ base = None => live = {}
  /\ base # None => /\ base \in live /\ heap[base].depth = 0
                    /\ heap[base].parent_p = None /\ heap[base].active
  /\ \A q, r \in live : heap[q].depth = heap[r].depth => q = r
  /\ \A r \in live : heap[r].child # None =>
       /\ heap[r].child \in live
       /\ heap[heap[r].child].parent_p = r
       /\ heap[heap[r].child].depth = heap[r].depth + 1
  /\ \A r \in Parsers \ live : heap[r].child = None

\* Each has a trie state of its own.
OwnTries ==
  /\ \A r \in live : heap[r].trie_state \in states
  /\ \A q, r \in live : heap[q].trie_state = heap[r].trie_state => q = r

\* A parser that is not at work has no child at work.
Resting(r) == heap[r].child # None => ~heap[heap[r].child].active

\* The whole chain: without a gap, and at work from the base on.
Whole ==
  /\ \A r \in live \ {base} : heap[r].parent_p \in live /\ heap[heap[r].parent_p].child = r
  /\ \A r \in live : heap[r].depth < Cardinality(live)
  /\ \A r \in live : ~heap[r].active => Resting(r)

AtWork == current \in live /\ heap[current].active /\ Resting(current)

\* The chain as free_json_parser leaves it behind p: what is left is the base and the
\* parser before p, whose children are forgotten, and from p on all there was.
Torn ==
  /\ p \in live /\ trail \in live
  /\ IF p = base THEN trail = base
     ELSE /\ heap[base].child = None /\ heap[trail].child = None
          /\ heap[trail].depth < heap[p].depth
  /\ \A r \in live \ {base, trail} : heap[r].depth >= heap[p].depth
  /\ \A r \in live : heap[r].depth > heap[p].depth =>
       /\ heap[r].parent_p \in live /\ heap[heap[r].parent_p].child = r
       /\ heap[heap[r].parent_p].depth >= heap[p].depth

MemoryInv ==
  /\ MemoryTypeOK
  /\ definition = "intact" /\ ~fault
  /\ Linked /\ OwnTries
  /\ ~Freeing => Whole
  /\ pc \in {"in", "crashed"} => AtWork
  /\ pc \in {"in", "crashed"} => base # None
  /\ pc = "free" => IF base = None THEN p = None /\ trail = None ELSE Torn
  /\ pc = "freed" /\ base # None => live = {base} /\ heap[base].child = None

--------------------------------------------------------------------------------
\* A set of numbers has a least: what an induction over depths needs.
LEMMA Least ==
  ASSUME NEW T \in SUBSET Nat, NEW t \in T
  PROVE  \E n \in T : \A m \in T : n <= m
<1> DEFINE R == {ss \in Nat \X Nat : ss[1] < ss[2]}
<1>1. IsWellFoundedOn(R, Nat)
  BY NatLessThanWellFounded DEF OpToRel
<1>2. ASSUME NEW m \in Nat, NEW n \in Nat, <<m, n>> \notin R PROVE n <= m
  <2>1. <<m, n>> \in Nat \X Nat /\ <<m, n>>[1] = m /\ <<m, n>>[2] = n
    OBVIOUS
  <2> QED
    BY <1>2, <2>1
<1> HIDE DEF R
<1>3. \E n \in T : \A m \in T : <<m, n>> \notin R
  BY <1>1, WFMin
<1> QED
  BY <1>2, <1>3

\* What can be said of the fields of a block.
LEMMA BlockFields ==
  ASSUME MemoryTypeOK, NEW r \in Parsers
  PROVE  /\ heap[r].child \in Parsers \cup {None} /\ heap[r].parent_p \in Parsers \cup {None}
         /\ heap[r].trie_state \in TrieStates \cup {None}
         /\ heap[r].depth \in 0..(DepthWidth - 1) /\ heap[r].depth \in Nat
         /\ heap[r].active \in BOOLEAN /\ heap[r] \in Blocks
         /\ heap[r] = [child |-> heap[r].child, parent_p |-> heap[r].parent_p,
                       trie_state |-> heap[r].trie_state, depth |-> heap[r].depth,
                       active |-> heap[r].active]
  BY MemoryAssumption DEF MemoryTypeOK, Blocks

\* There are no more parsers than blocks, and NULL is none.
LEMMA LiveFinite ==
  ASSUME MemoryTypeOK
  PROVE  /\ IsFiniteSet(live) /\ Cardinality(live) \in Nat
         /\ Cardinality(live) <= Cardinality(Parsers)
         /\ \A r \in live : r # None
         /\ \A r \in Parsers \ live : /\ IsFiniteSet(live \cup {r})
                                      /\ Cardinality(live \cup {r}) = Cardinality(live) + 1
                                      /\ Cardinality(live) + 1 <= DepthWidth
<1>1. live \in SUBSET Parsers /\ IsFiniteSet(Parsers) /\ None \notin Parsers
  BY MemoryAssumption DEF MemoryTypeOK
<1>2. IsFiniteSet(live) /\ Cardinality(live) <= Cardinality(Parsers)
  BY <1>1, FS_Subset
<1>3. Cardinality(live) \in Nat /\ Cardinality(Parsers) \in Nat
  BY <1>1, <1>2, FS_CardinalityType
<1>4. ASSUME NEW r \in Parsers \ live
      PROVE  /\ IsFiniteSet(live \cup {r}) /\ Cardinality(live \cup {r}) = Cardinality(live) + 1
             /\ Cardinality(live) + 1 <= DepthWidth
  <2>1. IsFiniteSet(live \cup {r}) /\ Cardinality(live \cup {r}) = Cardinality(live) + 1
    BY <1>2, <1>4, FS_AddElement
  <2>2. live \cup {r} \in SUBSET Parsers
    BY <1>1, <1>4
  <2>3. Cardinality(live \cup {r}) <= Cardinality(Parsers)
    BY <1>1, <2>2, FS_Subset
  <2> QED
    BY <1>3, <2>1, <2>3, MemoryAssumption
<1> QED
  BY <1>1, <1>2, <1>3, <1>4

--------------------------------------------------------------------------------
(* Where top_parser ends. *)

\* Between documents and while one is parsed.
Standing == MemoryTypeOK /\ Linked /\ Whole /\ base # None

\* The way back from any parser passes every depth, over parsers at work if it is.
LEMMA Ancestor ==
  ASSUME Standing, NEW r \in live, NEW n \in 0..heap[r].depth
  PROVE  \E q \in live : heap[q].depth = n /\ (heap[r].active => heap[q].active)
<1> DEFINE Met == {k \in Nat : n <= k /\ \E q \in live : /\ heap[q].depth = k
                                                         /\ heap[r].active => heap[q].active}
<1>1. \A q \in live : q \in Parsers /\ heap[q].depth \in Nat /\ heap[q].active \in BOOLEAN /\ q # None
  BY BlockFields, LiveFinite DEF Standing, MemoryTypeOK
<1>2. heap[r].depth \in Met /\ Met \in SUBSET Nat
  BY <1>1
<1>3. PICK k \in Met : \A j \in Met : k <= j
  <2> HIDE DEF Met
  <2> QED
    BY <1>2, Least
<1>4. PICK q \in live : heap[q].depth = k /\ (heap[r].active => heap[q].active)
  BY <1>3
<1>5. k \in Nat /\ n <= k /\ n \in Nat
  BY <1>1, <1>3
<1>6. CASE k = n
  BY <1>4, <1>6
<1>7. CASE k # n
  <2>1. q # base /\ k > 0
    BY <1>4, <1>5, <1>7 DEF Standing, Linked
  <2>2. heap[q].parent_p \in live /\ heap[heap[q].parent_p].child = q
    BY <2>1, <1>4 DEF Standing, Whole
  <2>3. heap[heap[q].parent_p].depth = k - 1
    BY <2>2, <1>1, <1>4, <1>5 DEF Standing, Linked
  <2>4. heap[r].active => heap[heap[q].parent_p].active
    BY <2>2, <1>1, <1>4 DEF Standing, Whole, Resting
  <2>5. k - 1 \in Met
    BY <2>1, <2>2, <2>3, <2>4, <1>5, <1>7
  <2> QED
    BY <2>5, <1>3, <1>5
<1> QED
  BY <1>6, <1>7

\* There is a last parser at work.
LEMMA TopExists ==
  ASSUME Standing
  PROVE  \E m \in live : heap[m].active /\ Resting(m)
<1> DEFINE Left == {k \in Nat : \E r \in live : heap[r].active /\ k = Cardinality(live) - heap[r].depth}
<1>1. \A r \in live : /\ r # None /\ heap[r].depth \in Nat
                      /\ Cardinality(live) - heap[r].depth \in Nat
  BY BlockFields, LiveFinite DEF Standing, MemoryTypeOK, Whole
<1>2. Cardinality(live) - heap[base].depth \in Left /\ Left \in SUBSET Nat
  BY <1>1 DEF Standing, Linked
<1>3. PICK k \in Left : \A j \in Left : k <= j
  <2> HIDE DEF Left
  <2> QED
    BY <1>2, Least
<1>4. PICK m \in live : heap[m].active /\ k = Cardinality(live) - heap[m].depth
  BY <1>3
<1>5. ASSUME ~Resting(m) PROVE FALSE
  <2>1. /\ heap[m].child \in live /\ heap[heap[m].child].active
        /\ heap[heap[m].child].depth = heap[m].depth + 1
    BY <1>4, <1>5 DEF Resting, Standing, Linked
  <2>2. Cardinality(live) - heap[heap[m].child].depth \in Left
    BY <2>1, <1>1
  <2> QED
    BY <2>1, <2>2, <1>1, <1>3, <1>4, LiveFinite DEF Standing
<1> QED
  BY <1>4, <1>5

\* None at work lies deeper than it.
LEMMA TopIsLast ==
  ASSUME Standing, NEW m \in live, Resting(m), NEW r \in live, heap[r].active
  PROVE  heap[r].depth <= heap[m].depth
<1>1. \A q \in live : q # None /\ q \in Parsers /\ heap[q].depth \in Nat
  BY BlockFields, LiveFinite DEF Standing, MemoryTypeOK
<1> SUFFICES ASSUME heap[r].depth > heap[m].depth PROVE FALSE
  BY <1>1
<1>2. PICK q \in live : heap[q].depth = heap[m].depth + 1 /\ heap[q].active
  <2>1. heap[m].depth + 1 \in 0..heap[r].depth
    BY <1>1
  <2> QED
    BY <2>1, Ancestor
<1>3. q # base
  BY <1>1, <1>2 DEF Standing, Linked
<1>4. heap[q].parent_p \in live /\ heap[heap[q].parent_p].child = q
  BY <1>2, <1>3 DEF Standing, Whole
<1>5. heap[heap[q].parent_p].depth = heap[m].depth
  BY <1>1, <1>2, <1>4 DEF Standing, Linked
<1>6. heap[q].parent_p = m
  BY <1>4, <1>5 DEF Standing, Linked
<1> QED
  BY <1>1, <1>2, <1>4, <1>6 DEF Resting

\* top_parser comes back with it, from wherever it starts on the way there.
LEMMA TopParserIs ==
  ASSUME Standing, NEW m \in live, heap[m].active, Resting(m)
  PROVE  TopParser(base) = m
<1> DEFINE Goes(r) == heap[r].child # None /\ heap[heap[r].child].active
           Found == [r \in Parsers |-> IF r \in live /\ heap[r].active THEN m ELSE r]
           top == CHOOSE f : f = [r \in Parsers |-> IF Goes(r) THEN f[heap[r].child] ELSE r]
<1>1. \A r \in Parsers : /\ r # None /\ heap[r].child \in Parsers \cup {None}
                         /\ heap[r].active \in BOOLEAN /\ heap[r].depth \in Nat
  BY BlockFields, MemoryAssumption DEF Standing
<1>2. live \subseteq Parsers
  BY DEF Standing, MemoryTypeOK
<1>3. ASSUME NEW r \in Parsers
      PROVE  Found[r] = IF Goes(r) THEN Found[heap[r].child] ELSE r
  <2>1. CASE Goes(r)
    <3>1. r \in live
      BY <2>1 DEF Standing, Linked
    <3>2. heap[r].child \in live /\ heap[r].active
      BY <2>1, <3>1, <1>1 DEF Standing, Linked, Whole, Resting
    <3> QED
      BY <2>1, <3>1, <3>2, <1>2
  <2>2. CASE ~Goes(r)
    <3>1. ASSUME r \in live, heap[r].active PROVE r = m
      <4>1. Resting(r)
        BY <2>2 DEF Resting
      <4>2. heap[r].depth <= heap[m].depth /\ heap[m].depth <= heap[r].depth
        BY <3>1, <4>1, TopIsLast
      <4> QED
        BY <1>1, <1>2, <3>1, <4>2 DEF Standing, Linked
    <3> QED
      BY <2>2, <3>1
  <2> QED
    BY <2>1, <2>2
<1>4. Found = [r \in Parsers |-> IF Goes(r) THEN Found[heap[r].child] ELSE r]
  BY <1>3
<1>5. top = [r \in Parsers |-> IF Goes(r) THEN top[heap[r].child] ELSE r]
  <2> HIDE DEF Found
  <2> QED
    BY <1>4
<1>6. \A r \in Parsers : top[r] = IF Goes(r) THEN top[heap[r].child] ELSE r
  <2> HIDE DEF top
  <2> QED
    BY <1>5
<1>7. ASSUME NEW s \in live, heap[s].active, top[s] # m PROVE FALSE
  <2> DEFINE Astray == {k \in Nat : \E r \in live : /\ heap[r].active /\ top[r] # m
                                                    /\ k = heap[m].depth - heap[r].depth}
  <2> HIDE DEF top
  <2>1. \A r \in live : heap[r].active => heap[m].depth - heap[r].depth \in Nat
    BY <1>1, <1>2, TopIsLast
  <2>2. heap[m].depth - heap[s].depth \in Astray /\ Astray \in SUBSET Nat
    BY <1>7, <2>1
  <2>3. PICK k \in Astray : \A j \in Astray : k <= j
    <3> HIDE DEF Astray
    <3> QED
      BY <2>2, Least
  <2>4. PICK r \in live : heap[r].active /\ top[r] # m /\ k = heap[m].depth - heap[r].depth
    BY <2>3
  <2>5. r # m
    BY <1>2, <1>6, <2>4 DEF Resting
  <2>6. heap[r].depth < heap[m].depth
    BY <1>1, <1>2, <2>1, <2>4, <2>5 DEF Standing, Linked
  <2>7. PICK q \in live : heap[q].depth = heap[r].depth + 1 /\ heap[q].active
    <3>1. heap[r].depth + 1 \in 0..heap[m].depth
      BY <1>1, <1>2, <2>6
    <3> QED
      BY <3>1, Ancestor
  <2>8. heap[q].parent_p \in live /\ heap[heap[q].parent_p].child = q
    BY <1>1, <1>2, <2>7 DEF Standing, Linked, Whole
  <2>9. heap[heap[q].parent_p].depth = heap[r].depth
    BY <1>1, <1>2, <2>7, <2>8 DEF Standing, Linked
  <2>10. heap[r].child = q
    BY <2>8, <2>9 DEF Standing, Linked
  <2>11. top[q] # m
    BY <1>1, <1>2, <1>6, <2>4, <2>7, <2>10
  <2>12. heap[m].depth - heap[q].depth \in Astray
    BY <2>1, <2>7, <2>11
  <2> QED
    BY <1>1, <1>2, <2>3, <2>4, <2>7, <2>12
<1>8. top[base] = m
  <2> HIDE DEF top
  <2> QED
    BY <1>7 DEF Standing, Linked
<1>9. TopParser(base) = top[base]
  BY DEF TopParser
<1> QED
  BY <1>8, <1>9

--------------------------------------------------------------------------------
\* Where there are blocks, a depth is one of the counter's values.
LEMMA ZeroDepth == ASSUME NEW r \in Parsers PROVE 0 \in 0..(DepthWidth - 1)
<1>1. Cardinality(Parsers) # 0 /\ Cardinality(Parsers) \in Nat
  BY MemoryAssumption, FS_EmptySet, FS_CardinalityType
<1> QED
  BY <1>1, MemoryAssumption

\* A memory without parsers.
LEMMA MemoryInit == Init => MemoryInv
<1> SUFFICES ASSUME Init PROVE MemoryInv
  OBVIOUS
<1>1. \A r \in Parsers : Zeroed \in Blocks
  BY ZeroDepth DEF Zeroed, Blocks
<1>2. MemoryTypeOK
  BY <1>1 DEF Init, MemoryTypeOK, Blocks
<1> QED
  BY <1>2 DEF Init, MemoryInv, Linked, OwnTries, Whole, Freeing, Zeroed

\* init_json_parser for a first document, whichever allocation fails.
LEMMA InitParserInv == ASSUME MemoryInv, InitParser PROVE MemoryInv'
<1>1. /\ MemoryTypeOK /\ Linked /\ OwnTries /\ definition = "intact" /\ ~fault
      /\ pc = "out" /\ base = None /\ live = {}
  BY DEF MemoryInv, InitParser, Linked
<1>2. PICK r \in Parsers, state \in TrieStates \ states :
        /\ Allocate(r, state) /\ heap' = [heap EXCEPT ![r] = Made(state)] /\ base' = r
  BY Zenon DEF InitParser, NextState
<1>3. /\ live' = {r} /\ states' = states \cup {state} /\ definition' = definition
      /\ pc' = "out" /\ current' = current /\ p' = p /\ trail' = trail
      /\ free_pointer' = free_pointer /\ fault' = FALSE
  BY <1>1, <1>2 DEF Allocate, InitParser, loop
<1>4. /\ heap'[r] = [child |-> None, parent_p |-> None, trie_state |-> state, depth |-> 0,
                     active |-> TRUE]
      /\ \A q \in Parsers \ {r} : heap'[q] = heap[q]
  BY <1>1, <1>2 DEF MemoryTypeOK, Made, Zeroed
<1>5. MemoryTypeOK'
  <2>1. heap'[r] \in Blocks
    BY <1>4, ZeroDepth DEF Blocks
  <2>2. heap' \in [Parsers -> Blocks]
    BY <1>1, <1>2, <1>4, <2>1, Zenon DEF MemoryTypeOK, Blocks
  <2> QED
    BY <1>1, <1>2, <1>3, <2>2 DEF MemoryTypeOK, Blocks
<1>6. Linked' /\ OwnTries'
  BY <1>1, <1>2, <1>3, <1>4, MemoryAssumption DEF Linked, OwnTries, MemoryTypeOK
<1>7. Whole'
  <2>1. Cardinality({r}) = 1
    BY FS_Singleton
  <2> QED
    BY <1>2, <1>3, <1>4, <2>1 DEF Whole, Resting
<1> QED
  BY <1>1, <1>3, <1>5, <1>6, <1>7 DEF MemoryInv, Freeing

\* What the steps that leave the blocks alone leave alone.
Still == UNCHANGED <<heap, live, states, definition, base>>

\* What of the invariant does not depend on where the parser is.
LEMMA StillInv ==
  ASSUME MemoryInv, Still
  PROVE  /\ Linked' /\ OwnTries' /\ definition' = "intact"
         /\ Whole => Whole'
         /\ heap' \in [Parsers -> Blocks] /\ live' \subseteq Parsers /\ states' \subseteq TrieStates
         /\ base' \in Parsers \cup {None}
  BY DEF MemoryInv, MemoryTypeOK, Still, Linked, OwnTries, Whole, Resting, Blocks

\* Between and in calls the chain stands.
LEMMA Stands == ASSUME MemoryInv, ~Freeing, base # None PROVE Standing
  BY DEF MemoryInv, Standing

\* A call begins: top_parser finds the parser at work.
LEMMA ResumeInv == ASSUME MemoryInv, Resume PROVE MemoryInv'
<1>1. Still /\ pc = "out" /\ base # None /\ pc' = "in" /\ UNCHANGED <<p, trail, free_pointer>>
  BY DEF Resume, Still, loop
<1>2. Standing
  BY <1>1, Stands DEF Freeing
<1>3. PICK m \in live : heap[m].active /\ Resting(m)
  BY <1>2, TopExists
<1>4. current' = m
  BY <1>2, <1>3, TopParserIs DEF Resume
<1>5. fault' = FALSE
  BY <1>1 DEF Resume, Touch, MemoryInv, Linked
<1>6. m # None /\ m \in Parsers
  BY <1>3, LiveFinite DEF MemoryInv, MemoryTypeOK
<1>7. MemoryTypeOK'
  BY <1>1, <1>4, <1>5, <1>6, StillInv DEF MemoryInv, MemoryTypeOK, Blocks
<1>8. AtWork'
  BY <1>1, <1>3, <1>4 DEF AtWork, Resting, Still
<1> QED
  BY <1>1, <1>2, <1>5, <1>7, <1>8, StillInv DEF MemoryInv, Freeing, Standing, Still

\* A call returns at the end of its buffer.
LEMMA SuspendInv == ASSUME MemoryInv, Suspend PROVE MemoryInv'
<1>1. /\ Still /\ pc = "in" /\ pc' = "out" /\ current' = None
      /\ UNCHANGED <<p, trail, free_pointer, fault>>
  BY DEF Suspend, Still, loop
<1>2. MemoryTypeOK'
  BY <1>1, StillInv DEF MemoryInv, MemoryTypeOK, Blocks
<1> QED
  BY <1>1, <1>2, StillInv DEF MemoryInv, Freeing

\* The child left over is where the chain says, and nothing but its way back and its
\* being at work is new.
LEMMA SpawnReuseInv == ASSUME MemoryInv, Spawn_Reuse PROVE MemoryInv'
<1> DEFINE c == heap[current].child
<1>1. /\ pc = "in" /\ pc' = "in" /\ c # None /\ c = heap[current].child /\ current' = c
      /\ heap' = [heap EXCEPT ![c] = [ResetParser(@) EXCEPT !.parent_p = current]]
      /\ fault' = (fault \/ ~({current, c} \subseteq live))
      /\ UNCHANGED <<live, states, definition, base, p, trail, free_pointer>>
  BY DEF Spawn_Reuse, loop, Touch
<1> HIDE DEF c
<1>2. MemoryTypeOK /\ Linked /\ OwnTries /\ Whole /\ AtWork /\ ~fault /\ base # None
  BY <1>1 DEF MemoryInv, Freeing
<1>3. current \in live /\ heap[current].active /\ ~heap[c].active /\ live \subseteq Parsers
  BY <1>1, <1>2 DEF AtWork, Resting, MemoryTypeOK
<1>4. /\ c \in live /\ heap[c].parent_p = current /\ heap[c].depth = heap[current].depth + 1
      /\ c # base
  BY <1>1, <1>2, <1>3 DEF Linked
<1>5. /\ heap'[c] = [heap[c] EXCEPT !.active = TRUE]
      /\ \A r \in Parsers \ {c} : heap'[r] = heap[r]
  <2>1. [ResetParser(heap[c]) EXCEPT !.parent_p = current] = [heap[c] EXCEPT !.active = TRUE]
    BY <1>2, <1>3, <1>4, BlockFields DEF ResetParser
  <2> QED
    BY <1>1, <1>2, <1>3, <1>4, <2>1 DEF MemoryTypeOK
<1>6. /\ heap' \in [Parsers -> Blocks]
      /\ \A r \in Parsers : /\ heap'[r].child = heap[r].child /\ heap'[r].parent_p = heap[r].parent_p
                            /\ heap'[r].trie_state = heap[r].trie_state
                            /\ heap'[r].depth = heap[r].depth
                            /\ heap'[r].active = (heap[r].active \/ r = c)
  <2>1. heap[c] \in Blocks
    BY <1>2, <1>3, <1>4, BlockFields
  <2>2. /\ heap'[c] \in Blocks
        /\ heap'[c].child = heap[c].child /\ heap'[c].parent_p = heap[c].parent_p
        /\ heap'[c].trie_state = heap[c].trie_state /\ heap'[c].depth = heap[c].depth
        /\ heap'[c].active = TRUE
    BY <1>5, <2>1 DEF Blocks
  <2>3. heap' \in [Parsers -> Blocks]
    BY <1>1, <1>2, <1>5, <2>2, Zenon DEF MemoryTypeOK, Blocks
  <2>4. \A r \in Parsers : heap[r].active \in BOOLEAN
    BY <1>2, BlockFields
  <2> QED
    BY <1>3, <1>4, <1>5, <2>2, <2>3, <2>4
<1>7. fault' = FALSE
  BY <1>1, <1>2, <1>3, <1>4
<1>8. MemoryTypeOK'
  BY <1>1, <1>2, <1>3, <1>4, <1>6, <1>7, LiveFinite DEF MemoryTypeOK, Blocks
<1>9. Linked' /\ OwnTries'
  BY <1>1, <1>2, <1>3, <1>4, <1>6 DEF Linked, OwnTries, MemoryTypeOK
<1>10. \A r \in live : heap[r].child = c => r = current
  BY <1>1, <1>2, <1>3, <1>4 DEF Linked
<1>11. Whole'
  <2>1. \A r \in live' \ {base'} : heap'[r].parent_p \in live' /\ heap'[heap'[r].parent_p].child = r
    BY <1>1, <1>2, <1>3, <1>6 DEF Whole
  <2>2. \A r \in live' : heap'[r].depth < Cardinality(live')
    BY <1>1, <1>2, <1>3, <1>6 DEF Whole
  <2>3. ASSUME NEW r \in live', ~heap'[r].active PROVE Resting(r)'
    <3>1. r \in live /\ ~heap[r].active /\ r # current
      BY <1>1, <1>3, <1>6, <2>3
    <3>2. heap[r].child # c
      BY <1>10, <3>1
    <3>3. heap'[r].child # None => heap[r].child \in live /\ heap'[r].child = heap[r].child
      BY <1>2, <1>3, <1>6, <3>1 DEF Linked
    <3>4. Resting(r)
      BY <1>2, <3>1 DEF Whole
    <3> QED
      BY <1>3, <1>6, <3>2, <3>3, <3>4 DEF Resting
  <2> QED
    BY <2>1, <2>2, <2>3 DEF Whole
<1>12. AtWork'
  <2>1. heap[c].child # c
    <3>1. heap[c].depth \in Nat
      BY <1>2, <1>3, <1>4, BlockFields
    <3> QED
      BY <1>1, <1>2, <1>3, <1>4, <3>1 DEF Linked
  <2>2. Resting(c)
    BY <1>2, <1>3, <1>4 DEF Whole
  <2> QED
    BY <1>1, <1>2, <1>3, <1>4, <1>6, <2>1, <2>2 DEF AtWork, Resting, Linked
<1> QED
  BY <1>1, <1>2, <1>7, <1>8, <1>9, <1>11, <1>12 DEF MemoryInv, Freeing

\* A parser is made only where there was none, with a depth that fits its 8 bits.
LEMMA SpawnNewInv == ASSUME MemoryInv, Spawn_New PROVE MemoryInv'
<1>1. /\ pc = "in" /\ pc' = "in" /\ heap[current].child = None
      /\ UNCHANGED <<definition, base, p, trail, free_pointer>>
      /\ fault' = (fault \/ current \notin live \/ definition # "intact")
  BY DEF Spawn_New, loop
<1>2. /\ MemoryTypeOK /\ Linked /\ OwnTries /\ Whole /\ AtWork /\ ~fault /\ base # None
      /\ definition = "intact"
  BY <1>1 DEF MemoryInv, Freeing
<1>3. PICK r \in Parsers, state \in TrieStates \ states :
        /\ Allocate(r, state) /\ current' = r
        /\ heap' = [heap EXCEPT ![current].child = r, ![r] = Child(state, current)]
  BY Zenon DEF Spawn_New, NextState
<1>4. /\ r \notin live /\ live' = live \cup {r} /\ states' = states \cup {state}
      /\ current \in live /\ heap[current].active /\ live \subseteq Parsers /\ r # current
  BY <1>2, <1>3 DEF Allocate, AtWork, MemoryTypeOK
<1>5. /\ Cardinality(live) \in Nat /\ Cardinality(live') = Cardinality(live) + 1
      /\ Cardinality(live) + 1 <= DepthWidth
      /\ heap[current].depth \in Nat /\ heap[current].depth < Cardinality(live)
  BY <1>2, <1>3, <1>4, LiveFinite, BlockFields DEF Whole
<1>6. (heap[current].depth + 1) % DepthWidth = heap[current].depth + 1
  <2>1. heap[current].depth + 1 \in 0..(DepthWidth - 1) /\ DepthWidth \in Nat
    BY <1>5, MemoryAssumption
  <2> QED
    BY <2>1
<1>7. /\ Child(state, current).child = None /\ Child(state, current).parent_p = current
      /\ Child(state, current).trie_state = state /\ Child(state, current).active
      /\ Child(state, current).depth = heap[current].depth + 1
      /\ Child(state, current) \in Blocks
  <2>1. Zeroed \in Blocks
    BY ZeroDepth DEF Zeroed, Blocks
  <2>2. /\ Made(state) \in Blocks /\ Made(state).child = None /\ Made(state).trie_state = state
        /\ Made(state).active
    BY <1>3, <2>1 DEF Made, Zeroed, Blocks
  <2>3. heap[current].depth + 1 \in 0..(DepthWidth - 1)
    BY <1>5, MemoryAssumption
  <2>4. Child(state, current) = [Made(state) EXCEPT !.depth = heap[current].depth + 1,
                                                    !.parent_p = current]
    BY <1>6 DEF Child
  <2> QED
    BY <1>4, <2>2, <2>3, <2>4 DEF Blocks
<1>8. /\ heap' \in [Parsers -> Blocks]
      /\ heap'[r].child = None /\ heap'[r].parent_p = current /\ heap'[r].trie_state = state
      /\ heap'[r].depth = heap[current].depth + 1 /\ heap'[r].active
      /\ heap'[current].child = r /\ heap'[current].parent_p = heap[current].parent_p
      /\ heap'[current].trie_state = heap[current].trie_state
      /\ heap'[current].depth = heap[current].depth /\ heap'[current].active
      /\ \A q \in Parsers \ {r, current} : heap'[q] = heap[q]
  <2> DEFINE w == [heap[current] EXCEPT !.child = r]
  <2>1. heap[current] \in Blocks /\ heap \in [Parsers -> Blocks]
    BY <1>2, <1>4, BlockFields DEF MemoryTypeOK, Blocks
  <2>2. /\ w \in Blocks /\ w.child = r /\ w.parent_p = heap[current].parent_p
        /\ w.trie_state = heap[current].trie_state /\ w.depth = heap[current].depth
        /\ w.active = heap[current].active
    BY <1>3, <2>1 DEF Blocks
  <2>3. heap' = [heap EXCEPT ![current] = w, ![r] = Child(state, current)]
    BY <1>3
  <2> HIDE DEF w
  <2>4. /\ heap'[r] = Child(state, current) /\ heap'[current] = w
        /\ \A q \in Parsers \ {r, current} : heap'[q] = heap[q]
    BY <1>3, <1>4, <2>1, <2>3
  <2>5. heap' \in [Parsers -> Blocks]
    BY <1>7, <2>1, <2>2, <2>3
  <2> QED
    BY <1>4, <1>7, <2>2, <2>4, <2>5
<1>9. \A q \in live : q \in Parsers /\ heap[q].depth \in Nat /\ q # r /\ q # None
  BY <1>2, <1>4, BlockFields, LiveFinite
<1>10. r # None
  BY MemoryAssumption
<1>11. MemoryTypeOK'
  BY <1>1, <1>2, <1>3, <1>4, <1>8, <1>10 DEF MemoryTypeOK, Blocks
<1>12. ASSUME NEW q \in live PROVE heap[q].depth # heap[current].depth + 1
  <2> SUFFICES ASSUME heap[q].depth = heap[current].depth + 1 PROVE FALSE
    OBVIOUS
  <2>1. q # base
    BY <1>2, <1>5 DEF Linked
  <2>2. heap[q].parent_p \in live /\ heap[heap[q].parent_p].child = q
    BY <1>2, <2>1 DEF Whole
  <2>3. heap[heap[q].parent_p].depth = heap[current].depth
    BY <1>2, <1>5, <1>9, <2>2 DEF Linked
  <2>4. heap[q].parent_p = current
    BY <1>2, <1>4, <2>2, <2>3 DEF Linked
  <2> QED
    BY <1>1, <1>9, <2>2, <2>4
<1>13. Linked'
  <2>1. base' # None => /\ base' \in live' /\ heap'[base'].depth = 0
                        /\ heap'[base'].parent_p = None /\ heap'[base'].active
    BY <1>1, <1>2, <1>4, <1>8, <1>9 DEF Linked
  <2>2. \A q, s \in live' : heap'[q].depth = heap'[s].depth => q = s
    BY <1>2, <1>4, <1>8, <1>9, <1>12 DEF Linked
  <2>3. ASSUME NEW q \in live', heap'[q].child # None
        PROVE  /\ heap'[q].child \in live'
               /\ heap'[heap'[q].child].parent_p = q
               /\ heap'[heap'[q].child].depth = heap'[q].depth + 1
    <3>1. CASE q = current
      BY <1>4, <1>8, <3>1
    <3>2. CASE q # current
      <4>1. q \in live /\ heap'[q] = heap[q] /\ heap[q].child # None
        BY <1>4, <1>8, <1>9, <2>3, <3>2
      <4>2. /\ heap[q].child \in live /\ heap[heap[q].child].parent_p = q
            /\ heap[heap[q].child].depth = heap[q].depth + 1
        BY <1>2, <4>1 DEF Linked
      <4>3. /\ heap'[heap[q].child].parent_p = heap[heap[q].child].parent_p
            /\ heap'[heap[q].child].depth = heap[heap[q].child].depth
        BY <1>8, <1>9, <4>2
      <4> QED
        BY <1>4, <4>1, <4>2, <4>3
    <3> QED
      BY <3>1, <3>2
  <2>4. \A q \in Parsers \ live' : heap'[q].child = None
    BY <1>2, <1>4, <1>8 DEF Linked
  <2> QED
    BY <1>1, <1>2, <2>1, <2>2, <2>3, <2>4 DEF Linked
<1>14. OwnTries'
  BY <1>2, <1>3, <1>4, <1>8, <1>9 DEF OwnTries
<1>15. Whole'
  <2>1. ASSUME NEW q \in live' \ {base'}
        PROVE  heap'[q].parent_p \in live' /\ heap'[heap'[q].parent_p].child = q
    <3>1. CASE q = r
      BY <1>4, <1>8, <3>1
    <3>2. CASE q # r
      <4>1. q \in live /\ heap'[q].parent_p = heap[q].parent_p
        BY <1>4, <1>8, <1>9, <3>2
      <4>2. heap[q].parent_p \in live /\ heap[heap[q].parent_p].child = q
        BY <1>1, <1>2, <2>1, <4>1 DEF Whole
      <4>3. heap[q].parent_p # current
        BY <1>1, <1>9, <4>1, <4>2
      <4> QED
        BY <1>4, <1>8, <1>9, <4>1, <4>2, <4>3
    <3> QED
      BY <3>1, <3>2
  <2>2. \A q \in live' : heap'[q].depth < Cardinality(live')
    BY <1>2, <1>4, <1>5, <1>8, <1>9 DEF Whole
  <2>3. ASSUME NEW q \in live', ~heap'[q].active PROVE Resting(q)'
    <3>1. q \in live /\ q # current /\ heap'[q] = heap[q]
      BY <1>4, <1>8, <1>9, <2>3
    <3>2. Resting(q)
      BY <1>2, <2>3, <3>1 DEF Whole
    <3>3. heap[q].child # None => heap[q].child \in live /\ heap[q].child # current
      <4>1. heap[q].child = current => ~heap[current].active
        BY <1>4, <1>9, <3>2 DEF Resting
      <4> QED
        BY <1>2, <1>4, <3>1, <4>1 DEF Linked
    <3> QED
      BY <1>4, <1>8, <1>9, <3>1, <3>2, <3>3 DEF Resting
  <2> QED
    BY <2>1, <2>2, <2>3 DEF Whole
<1>16. AtWork'
  BY <1>3, <1>4, <1>8 DEF AtWork, Resting
<1> QED
  BY <1>1, <1>2, <1>4, <1>11, <1>13, <1>14, <1>15, <1>16 DEF MemoryInv, Freeing

\* spawn_json_parser when an allocation for the child fails.
LEMMA SpawnNoMemoryInv == ASSUME MemoryInv, Spawn_NoMemory PROVE MemoryInv'
<1>1. /\ Still /\ pc = "in" /\ pc' = "crashed" /\ current' = current
      /\ UNCHANGED <<p, trail, free_pointer, fault>>
  BY DEF Spawn_NoMemory, Still, loop
<1>2. MemoryTypeOK'
  BY <1>1, StillInv DEF MemoryInv, MemoryTypeOK, Blocks
<1>3. AtWork'
  BY <1>1 DEF MemoryInv, AtWork, Resting, Still
<1> QED
  BY <1>1, <1>2, <1>3, StillInv DEF MemoryInv, Freeing, Still

\* The parent has been at work all the time, and is again the last that is.
LEMMA DropInv == ASSUME MemoryInv, Drop PROVE MemoryInv'
<1> DEFINE parent == heap[current].parent_p
<1>1. /\ pc = "in" /\ pc' = "in" /\ parent # None /\ parent = heap[current].parent_p
      /\ current' = parent
      /\ heap' = [heap EXCEPT ![current].active = FALSE, ![parent] = ResetParser(@)]
      /\ fault' = (fault \/ ~({current, parent} \subseteq live))
      /\ UNCHANGED <<live, states, definition, base, p, trail, free_pointer>>
  BY DEF Drop, loop, Touch
<1> HIDE DEF parent
<1>2. MemoryTypeOK /\ Linked /\ OwnTries /\ Whole /\ AtWork /\ ~fault /\ base # None
  BY <1>1 DEF MemoryInv, Freeing
<1>3. current \in live /\ heap[current].active /\ live \subseteq Parsers /\ current # base
  BY <1>1, <1>2 DEF AtWork, MemoryTypeOK, Linked
<1>4. parent \in live /\ heap[parent].child = current
  BY <1>1, <1>2, <1>3 DEF Whole
<1>5. /\ heap[current].depth = heap[parent].depth + 1 /\ heap[parent].depth \in Nat
      /\ parent # current /\ current # None
  <2>1. heap[parent].depth \in Nat /\ current # None
    BY <1>2, <1>3, <1>4, BlockFields, LiveFinite
  <2>2. heap[heap[parent].child].depth = heap[parent].depth + 1
    BY <1>2, <1>4, <2>1 DEF Linked
  <2> QED
    BY <1>4, <2>1, <2>2
<1>6. heap[parent].active
  BY <1>2, <1>3, <1>4, <1>5, BlockFields DEF Whole, Resting
<1>7. /\ heap'[current] = [heap[current] EXCEPT !.active = FALSE]
      /\ heap'[parent] = [heap[parent] EXCEPT !.active = TRUE]
      /\ \A r \in Parsers \ {current, parent} : heap'[r] = heap[r]
  BY <1>1, <1>2, <1>3, <1>4, <1>5 DEF MemoryTypeOK, ResetParser
<1>8. /\ heap' \in [Parsers -> Blocks]
      /\ \A r \in Parsers : /\ heap'[r].child = heap[r].child /\ heap'[r].parent_p = heap[r].parent_p
                            /\ heap'[r].trie_state = heap[r].trie_state
                            /\ heap'[r].depth = heap[r].depth
                            /\ r # current => heap'[r].active = heap[r].active
      /\ ~heap'[current].active
  <2>1. heap[current] \in Blocks /\ heap[parent] \in Blocks
    BY <1>2, <1>3, <1>4, BlockFields
  <2>2. ASSUME NEW b \in Blocks, NEW a \in BOOLEAN
        PROVE  LET w == [b EXCEPT !.active = a] IN
               /\ w \in Blocks /\ w.child = b.child /\ w.parent_p = b.parent_p
               /\ w.trie_state = b.trie_state /\ w.depth = b.depth /\ w.active = a
    BY DEF Blocks
  <2>3. heap'[current] \in Blocks /\ heap'[parent] \in Blocks
    BY <1>7, <2>1, <2>2
  <2>4. heap' \in [Parsers -> Blocks]
    BY <1>1, <1>2, <1>3, <1>4, <1>7, <2>3, Zenon DEF MemoryTypeOK, Blocks
  <2>5. \A r \in Parsers : heap[r].active \in BOOLEAN
    BY <1>2, BlockFields
  <2>6. /\ heap'[current].child = heap[current].child
        /\ heap'[current].parent_p = heap[current].parent_p
        /\ heap'[current].trie_state = heap[current].trie_state
        /\ heap'[current].depth = heap[current].depth /\ heap'[current].active = FALSE
    BY <1>7, <2>1, <2>2
  <2>7. /\ heap'[parent].child = heap[parent].child
        /\ heap'[parent].parent_p = heap[parent].parent_p
        /\ heap'[parent].trie_state = heap[parent].trie_state
        /\ heap'[parent].depth = heap[parent].depth /\ heap'[parent].active = TRUE
    BY <1>7, <2>1, <2>2
  <2>8. ASSUME NEW r \in Parsers
        PROVE  /\ heap'[r].child = heap[r].child /\ heap'[r].parent_p = heap[r].parent_p
               /\ heap'[r].trie_state = heap[r].trie_state /\ heap'[r].depth = heap[r].depth
               /\ r # current => heap'[r].active = heap[r].active
    <3>1. CASE r = current
      BY <2>6, <3>1
    <3>2. CASE r = parent
      BY <1>5, <1>6, <2>7, <3>2
    <3>3. CASE r \notin {current, parent}
      BY <1>7, <2>5, <3>3
    <3> QED
      BY <3>1, <3>2, <3>3
  <2> QED
    BY <2>4, <2>6, <2>8
<1>9. fault' = FALSE
  BY <1>1, <1>2, <1>3, <1>4
<1>10. MemoryTypeOK'
  <2>1. heap' \in [Parsers -> Blocks]
    BY <1>8
  <2>2. /\ {base', current', p', trail'} \subseteq Parsers \cup {None}
        /\ current' = None <=> pc' \notin {"in", "crashed"}
    BY <1>1, <1>2, <1>3, <1>4 DEF MemoryTypeOK
  <2> QED
    BY <1>1, <1>2, <1>9, <2>1, <2>2 DEF MemoryTypeOK, Blocks
<1>11. Linked' /\ OwnTries'
  BY <1>1, <1>2, <1>3, <1>4, <1>8 DEF Linked, OwnTries, MemoryTypeOK
<1>12. Whole'
  <2>1. ASSUME NEW r \in live' \ {base'}
        PROVE  heap'[r].parent_p \in live' /\ heap'[heap'[r].parent_p].child = r
    <3>1. r \in live /\ heap[r].parent_p \in live /\ heap[heap[r].parent_p].child = r
      BY <1>1, <1>2, <2>1 DEF Whole
    <3>2. /\ heap'[r].parent_p = heap[r].parent_p
          /\ heap'[heap[r].parent_p].child = heap[heap[r].parent_p].child
      BY <1>3, <1>8, <3>1
    <3> QED
      BY <1>1, <3>1, <3>2
  <2>2. \A r \in live' : heap'[r].depth < Cardinality(live')
    BY <1>1, <1>2, <1>3, <1>8 DEF Whole
  <2>3. ASSUME NEW r \in live', ~heap'[r].active PROVE Resting(r)'
    <3>1. r \in live
      BY <1>1
    <3>2. Resting(r)
      <4>1. CASE r = current
        BY <1>2, <4>1 DEF AtWork
      <4>2. CASE r # current
        BY <1>2, <1>3, <1>8, <2>3, <3>1, <4>2 DEF Whole
      <4> QED
        BY <4>1, <4>2
    <3>3. heap[r].child # None => heap[r].child \in live
      BY <1>2, <3>1 DEF Linked
    <3> QED
      BY <1>3, <1>8, <3>1, <3>2, <3>3 DEF Resting
  <2> QED
    BY <2>1, <2>2, <2>3 DEF Whole
<1>13. AtWork'
  BY <1>1, <1>3, <1>4, <1>5, <1>6, <1>8 DEF AtWork, Resting
<1> QED
  BY <1>1, <1>2, <1>9, <1>10, <1>11, <1>12, <1>13 DEF MemoryInv, Freeing

--------------------------------------------------------------------------------
(* free_json_parser. *)

\* Where a field of a parser is a number.
LEMMA Depths ==
  ASSUME MemoryTypeOK
  PROVE  \A r \in live : r \in Parsers /\ r # None /\ heap[r].depth \in Nat
  BY BlockFields, LiveFinite DEF MemoryTypeOK

\* The loop begins before the whole chain.
LEMMA FreeParserInv == ASSUME MemoryInv, FreeParser PROVE MemoryInv'
<1>1. /\ Still /\ pc = "out" /\ pc' = "free" /\ p' = base /\ trail' = base
      /\ free_pointer' \in BOOLEAN /\ current' = current /\ fault' = fault
  BY DEF FreeParser, Still
<1>2. MemoryTypeOK /\ Linked /\ Whole
  BY <1>1 DEF MemoryInv, Freeing
<1>3. MemoryTypeOK'
  BY <1>1, StillInv DEF MemoryInv, MemoryTypeOK, Blocks
<1>4. ASSUME base # None PROVE Torn'
  <2>1. base \in live /\ heap[base].depth = 0 /\ \A r \in live : heap[r].depth \in Nat
    BY <1>2, <1>4, Depths DEF Linked
  <2>2. ASSUME NEW r \in live, heap[r].depth > 0
        PROVE  /\ heap[r].parent_p \in live /\ heap[heap[r].parent_p].child = r
               /\ heap[heap[r].parent_p].depth >= 0
    <3>1. r # base
      BY <2>1, <2>2
    <3>2. heap[r].parent_p \in live /\ heap[heap[r].parent_p].child = r
      BY <1>2, <3>1 DEF Whole
    <3> QED
      BY <2>1, <3>2
  <2> QED
    BY <1>1, <2>1, <2>2 DEF Torn, Still
<1> QED
  BY <1>1, <1>3, <1>4, StillInv DEF MemoryInv, Freeing, Still

\* What the parser that is freed, the one before p, is not.
LEMMA PassedIs ==
  ASSUME MemoryTypeOK, Linked, Torn, base # None
  PROVE  /\ Passed \subseteq live /\ p \in live \ Passed /\ base \in live \ Passed
         /\ \A q \in Passed : q = trail /\ heap[q].child = None /\ heap[q].depth < heap[p].depth
         /\ \A r \in live : heap[r].child # None => heap[r].child \notin Passed
<1>1. \A r \in live : heap[r].depth \in Nat /\ r \in Parsers
  BY Depths
<1>2. p \in live /\ trail \in live /\ base \in live
  BY DEF Torn, Linked
<1>3. CASE trail = base
  BY <1>2, <1>3 DEF Passed
<1>4. CASE trail # base
  <2>1. /\ p # base /\ heap[base].child = None /\ heap[trail].child = None
        /\ heap[trail].depth < heap[p].depth
    BY <1>4 DEF Torn
  <2>2. Passed = {trail} /\ trail # p
    BY <1>1, <1>2, <1>4, <2>1 DEF Passed
  <2>3. ASSUME NEW r \in live, heap[r].child # None PROVE heap[r].child # trail
    <3>1. r \in live \ {base, trail}
      BY <2>1, <2>3
    <3>2. heap[r].depth >= heap[p].depth
      BY <3>1 DEF Torn
    <3>3. heap[heap[r].child].depth = heap[r].depth + 1
      BY <2>3 DEF Linked
    <3> QED
      BY <1>1, <1>2, <2>1, <3>2, <3>3
  <2> QED
    BY <1>2, <1>4, <2>1, <2>2, <2>3
<1> QED
  BY <1>3, <1>4

\* One step down the chain: what was behind p is gone, and p is the one to go next.
LEMMA LoopDownInv == ASSUME MemoryInv, Loop_Down PROVE MemoryInv'
<1> DEFINE c == heap[p].child
<1>1. /\ pc = "free" /\ pc' = "free" /\ p # None /\ c # None /\ c = heap[p].child
      /\ live' = live \ Passed /\ heap' = [heap EXCEPT ![p].child = None]
      /\ trail' = p /\ p' = c /\ fault' = (fault \/ ~(Passed \cup {p} \subseteq live))
      /\ UNCHANGED <<states, definition, base, current, free_pointer>>
  BY DEF Loop_Down, Touch
<1> HIDE DEF c
<1>2. MemoryTypeOK /\ Linked /\ OwnTries /\ Torn /\ base # None /\ ~fault
  BY <1>1 DEF MemoryInv
<1>3. /\ Passed \subseteq live /\ p \in live \ Passed /\ base \in live \ Passed
      /\ \A q \in Passed : q = trail /\ heap[q].child = None /\ heap[q].depth < heap[p].depth
      /\ \A r \in live : heap[r].child # None => heap[r].child \notin Passed
  BY <1>2, PassedIs
<1>4. \A r \in live : heap[r].depth \in Nat /\ r \in Parsers /\ r # None
  BY <1>2, Depths
<1>5. c \in live \ Passed /\ heap[c].parent_p = p /\ heap[c].depth = heap[p].depth + 1
  BY <1>1, <1>2, <1>3 DEF Linked
<1>6. /\ heap' \in [Parsers -> Blocks]
      /\ heap'[p].child = None
      /\ \A r \in Parsers : /\ r # p => heap'[r].child = heap[r].child
                            /\ heap'[r].parent_p = heap[r].parent_p
                            /\ heap'[r].trie_state = heap[r].trie_state
                            /\ heap'[r].depth = heap[r].depth
                            /\ heap'[r].active = heap[r].active
  <2> DEFINE w == [heap[p] EXCEPT !.child = None]
  <2>1. heap[p] \in Blocks /\ heap \in [Parsers -> Blocks] /\ p \in Parsers
    BY <1>2, <1>3, <1>4, BlockFields DEF MemoryTypeOK, Blocks
  <2>2. /\ w \in Blocks /\ w.child = None /\ w.parent_p = heap[p].parent_p
        /\ w.trie_state = heap[p].trie_state /\ w.depth = heap[p].depth
        /\ w.active = heap[p].active
    BY <2>1 DEF Blocks
  <2>3. heap' = [heap EXCEPT ![p] = w]
    BY <1>1
  <2> HIDE DEF w
  <2>4. heap'[p] = w /\ \A r \in Parsers \ {p} : heap'[r] = heap[r]
    BY <2>1, <2>3
  <2>5. heap' \in [Parsers -> Blocks]
    BY <2>1, <2>2, <2>3
  <2>6. ASSUME NEW r \in Parsers
        PROVE  /\ r # p => heap'[r].child = heap[r].child
               /\ heap'[r].parent_p = heap[r].parent_p
               /\ heap'[r].trie_state = heap[r].trie_state
               /\ heap'[r].depth = heap[r].depth /\ heap'[r].active = heap[r].active
    <3>1. CASE r = p
      BY <2>2, <2>4, <3>1
    <3>2. CASE r # p
      BY <2>4, <3>2
    <3> QED
      BY <3>1, <3>2
  <2> QED
    BY <2>2, <2>4, <2>5, <2>6
<1>7. fault' = FALSE
  BY <1>1, <1>2, <1>3
<1>8. MemoryTypeOK'
  <2>1. heap' \in [Parsers -> Blocks]
    BY <1>6
  <2>2. {base', current', p', trail'} \subseteq Parsers \cup {None}
    BY <1>1, <1>2, <1>3, <1>4, <1>5 DEF MemoryTypeOK
  <2> QED
    BY <1>1, <1>2, <1>7, <2>1, <2>2 DEF MemoryTypeOK, Blocks
<1>9. Linked'
  <2>1. base' \in live' /\ heap'[base'].depth = 0 /\ heap'[base'].parent_p = None /\ heap'[base'].active
    BY <1>1, <1>2, <1>3, <1>4, <1>6 DEF Linked
  <2>2. \A q, r \in live' : heap'[q].depth = heap'[r].depth => q = r
    BY <1>1, <1>2, <1>4, <1>6 DEF Linked
  <2>3. ASSUME NEW r \in live', heap'[r].child # None
        PROVE  /\ heap'[r].child \in live' /\ heap'[heap'[r].child].parent_p = r
               /\ heap'[heap'[r].child].depth = heap'[r].depth + 1
    <3>1. r \in live /\ r # p /\ heap'[r].child = heap[r].child
      BY <1>1, <1>4, <1>6, <2>3
    <3>2. /\ heap[r].child \in live \ Passed /\ heap[heap[r].child].parent_p = r
          /\ heap[heap[r].child].depth = heap[r].depth + 1
      BY <1>2, <1>3, <2>3, <3>1 DEF Linked
    <3> QED
      BY <1>1, <1>4, <1>6, <3>1, <3>2
  <2>4. ASSUME NEW r \in Parsers \ live' PROVE heap'[r].child = None
    <3>1. r # p => heap[r].child = None
      BY <1>1, <1>2, <1>3, <2>4 DEF Linked
    <3> QED
      BY <1>6, <3>1
  <2> QED
    BY <1>1, <1>2, <2>1, <2>2, <2>3, <2>4 DEF Linked
<1>10. OwnTries'
  BY <1>1, <1>2, <1>4, <1>6 DEF OwnTries
<1>11. Torn'
  <2>1. p' \in live' /\ trail' \in live' /\ p' # base'
    BY <1>1, <1>2, <1>3, <1>4, <1>5 DEF Linked
  <2>2. heap'[base'].child = None /\ heap'[trail'].child = None
    BY <1>1, <1>2, <1>3, <1>4, <1>6 DEF Torn
  <2>3. heap'[trail'].depth < heap'[p'].depth
    BY <1>1, <1>3, <1>4, <1>5, <1>6
  <2>4. ASSUME NEW r \in live' \ {base', trail'} PROVE heap'[r].depth >= heap'[p'].depth
    <3>1. r \in live \ {base, trail} /\ r # p
      BY <1>1, <1>2, <1>3, <2>4 DEF Passed
    <3>2. heap[r].depth >= heap[p].depth /\ heap[r].depth # heap[p].depth
      BY <1>2, <1>3, <3>1 DEF Torn, Linked
    <3> QED
      BY <1>1, <1>3, <1>4, <1>5, <1>6, <3>1, <3>2
  <2>5. ASSUME NEW r \in live', heap'[r].depth > heap'[p'].depth
        PROVE  /\ heap'[r].parent_p \in live' /\ heap'[heap'[r].parent_p].child = r
               /\ heap'[heap'[r].parent_p].depth >= heap'[p'].depth
    <3> DEFINE q == heap[r].parent_p
    <3>1. r \in live /\ heap[r].depth > heap[c].depth /\ heap[r].depth > heap[p].depth
      BY <1>1, <1>3, <1>4, <1>5, <1>6, <2>5
    <3>2. q \in live /\ heap[q].child = r /\ heap[q].depth >= heap[p].depth
      BY <1>2, <3>1 DEF Torn
    <3>3. heap[r].depth = heap[q].depth + 1
      BY <1>2, <1>4, <3>1, <3>2 DEF Linked
    <3>4. heap[q].depth >= heap[c].depth /\ q # p /\ q \notin Passed
      BY <1>3, <1>4, <1>5, <3>1, <3>2, <3>3
    <3>5. heap'[r].parent_p = q /\ heap'[q].child = r /\ heap'[q].depth = heap[q].depth
      BY <1>4, <1>6, <3>1, <3>2, <3>4
    <3>6. heap'[c].depth = heap[c].depth
      BY <1>4, <1>5, <1>6
    <3> QED
      BY <1>1, <3>2, <3>4, <3>5, <3>6
  <2> QED
    BY <2>1, <2>2, <2>3, <2>4, <2>5 DEF Torn
<1> QED
  BY <1>1, <1>2, <1>7, <1>8, <1>9, <1>10, <1>11 DEF MemoryInv, Freeing

\* What free_json_parser holds in its hands: a chain of which the front is gone.
Taken == MemoryTypeOK /\ Linked /\ Torn /\ base # None

\* The way back from a parser passes every depth down to that of p.
LEMMA BackTo ==
  ASSUME Taken, NEW r \in live, NEW n \in heap[p].depth..heap[r].depth
  PROVE  \E q \in live : heap[q].depth = n
<1> DEFINE Met == {k \in Nat : n <= k /\ \E q \in live : heap[q].depth = k}
<1>1. /\ \A q \in live : heap[q].depth \in Nat
      /\ p \in live
  BY Depths DEF Taken, Torn
<1>2. heap[r].depth \in Met /\ Met \in SUBSET Nat
  BY <1>1
<1>3. PICK k \in Met : \A j \in Met : k <= j
  <2> HIDE DEF Met
  <2> QED
    BY <1>2, Least
<1>4. PICK q \in live : heap[q].depth = k
  BY <1>3
<1>5. k \in Nat /\ n <= k /\ n \in Nat /\ heap[p].depth <= n
  BY <1>1, <1>3
<1>6. CASE k = n
  BY <1>4, <1>6
<1>7. CASE k # n
  <2>1. heap[q].depth > heap[p].depth
    BY <1>1, <1>4, <1>5, <1>7
  <2>2. heap[q].parent_p \in live /\ heap[heap[q].parent_p].child = q
    BY <1>4, <2>1 DEF Taken, Torn
  <2>3. heap[q].depth = heap[heap[q].parent_p].depth + 1
    BY <1>4, <2>2, Depths DEF Taken, Linked
  <2>4. k - 1 \in Met
    BY <1>1, <1>4, <1>5, <1>7, <2>2, <2>3
  <2> QED
    BY <2>4, <1>3, <1>5
<1> QED
  BY <1>6, <1>7

\* Behind a parser without a child nothing lies.
LEMMA NoneBeyond ==
  ASSUME Taken, NEW r \in live, heap[r].depth >= heap[p].depth, heap[r].child = None, NEW s \in live
  PROVE  heap[s].depth <= heap[r].depth
<1>1. /\ \A q \in live : heap[q].depth \in Nat /\ q # None
      /\ p \in live
  BY Depths DEF Taken, Torn
<1> SUFFICES ASSUME heap[s].depth > heap[r].depth PROVE FALSE
  BY <1>1
<1>2. PICK q \in live : heap[q].depth = heap[r].depth + 1
  <2>1. heap[r].depth + 1 \in heap[p].depth..heap[s].depth
    BY <1>1
  <2> QED
    BY <2>1, BackTo
<1>3. heap[q].parent_p \in live /\ heap[heap[q].parent_p].child = q
  BY <1>1, <1>2 DEF Taken, Torn
<1>4. heap[q].depth = heap[heap[q].parent_p].depth + 1
  BY <1>1, <1>3 DEF Taken, Linked
<1>5. heap[q].parent_p = r
  <2>1. heap[heap[q].parent_p].depth = heap[r].depth
    BY <1>1, <1>2, <1>3, <1>4
  <2> QED
    BY <1>3, <2>1 DEF Taken, Linked
<1> QED
  BY <1>1, <1>3, <1>5

\* Where p has no child, nothing is left but what the loop holds.
LEMMA LastIsLast == ASSUME Taken, heap[p].child = None PROVE live \subseteq {base, trail, p}
<1>1. /\ \A r \in live : heap[r].depth \in Nat
      /\ p \in live
  BY Depths DEF Taken, Torn
<1>2. ASSUME NEW r \in live \ {base, trail} PROVE r = p
  <2>1. heap[r].depth >= heap[p].depth
    BY <1>2 DEF Taken, Torn
  <2>2. heap[r].depth <= heap[p].depth
    BY <1>1, NoneBeyond
  <2> QED
    BY <1>1, <2>1, <2>2 DEF Taken, Linked
<1> QED
  BY <1>2

\* What the loop still has to pass is what lies no less deep than p.
LEMMA AheadIs == ASSUME Taken PROVE Ahead(p) = {r \in live : heap[r].depth >= heap[p].depth}
<1> DEFINE Deeper(r) == {s \in live : heap[s].depth >= heap[r].depth}
           On(r) == r \in live /\ heap[r].depth >= heap[p].depth
           Found == [r \in Parsers |-> IF On(r) THEN Deeper(r) ELSE {r}]
           from == CHOOSE f : f = [r \in Parsers |->
                     {r} \cup IF heap[r].child # None THEN f[heap[r].child] ELSE {}]
<1>1. /\ \A r \in live : heap[r].depth \in Nat /\ r # None /\ r \in Parsers
      /\ p \in live /\ p # None
  BY Depths DEF Taken, Torn
<1>2. ASSUME NEW r \in Parsers
      PROVE  Found[r] = {r} \cup IF heap[r].child # None THEN Found[heap[r].child] ELSE {}
  <2>1. CASE ~On(r)
    <3>1. heap[r].child = None
      BY <1>1, <2>1 DEF Taken, Torn, Linked
    <3> QED
      BY <2>1, <3>1
  <2>2. CASE On(r) /\ heap[r].child = None
    <3>1. \A s \in live : heap[s].depth <= heap[r].depth
      BY <2>2, NoneBeyond
    <3>2. Deeper(r) = {r}
      BY <1>1, <2>2, <3>1 DEF Taken, Linked
    <3> QED
      BY <2>2, <3>2
  <2>3. CASE On(r) /\ heap[r].child # None
    <3> DEFINE c == heap[r].child
    <3>1. c \in live /\ heap[c].depth = heap[r].depth + 1
      BY <2>3 DEF Taken, Linked
    <3>2. On(c) /\ c \in Parsers
      BY <1>1, <2>3, <3>1
    <3>3. Deeper(r) = {r} \cup Deeper(c)
      <4>1. ASSUME NEW s \in live PROVE heap[s].depth >= heap[r].depth <=> s = r \/ heap[s].depth >= heap[c].depth
        <5>1. heap[s].depth = heap[r].depth <=> s = r
          BY <2>3 DEF Taken, Linked
        <5> QED
          BY <1>1, <2>3, <3>1, <5>1
      <4> QED
        BY <2>3, <4>1
    <3> QED
      BY <2>3, <3>2, <3>3
  <2> QED
    BY <2>1, <2>2, <2>3
<1>3. Found = [r \in Parsers |->
                {r} \cup IF heap[r].child # None THEN Found[heap[r].child] ELSE {}]
  BY <1>2
<1>4. from = [r \in Parsers |->
               {r} \cup IF heap[r].child # None THEN from[heap[r].child] ELSE {}]
  <2> HIDE DEF Found
  <2> QED
    BY <1>3
<1>5. \A r \in Parsers : from[r] = {r} \cup IF heap[r].child # None THEN from[heap[r].child] ELSE {}
  <2> HIDE DEF from
  <2> QED
    BY <1>4
<1>6. ASSUME from[p] # Found[p] PROVE FALSE
  <2> DEFINE Astray == {k \in Nat : \E r \in live : /\ On(r) /\ from[r] # Found[r]
                                                    /\ k = DepthWidth - heap[r].depth}
  <2> HIDE DEF from, Found
  <2>1. \A r \in live : DepthWidth - heap[r].depth \in Nat
    <3>1. \A r \in live : heap[r].depth \in 0..(DepthWidth - 1)
      BY <1>1, BlockFields DEF Taken
    <3> QED
      BY <3>1, MemoryAssumption
  <2>2. DepthWidth - heap[p].depth \in Astray /\ Astray \in SUBSET Nat
    BY <1>1, <1>6, <2>1
  <2>3. PICK k \in Astray : \A j \in Astray : k <= j
    <3> HIDE DEF Astray
    <3> QED
      BY <2>2, Least
  <2>4. PICK r \in live : On(r) /\ from[r] # Found[r] /\ k = DepthWidth - heap[r].depth
    BY <2>3
  <2> DEFINE c == heap[r].child
  <2>5. c # None /\ from[c] # Found[c]
    <3>1. r \in Parsers
      BY <1>1
    <3>2. /\ from[r] = {r} \cup IF c # None THEN from[c] ELSE {}
          /\ Found[r] = {r} \cup IF c # None THEN Found[c] ELSE {}
      BY <1>2, <1>5, <3>1
    <3> HIDE DEF c
    <3> QED
      BY <2>4, <3>2
  <2>6. c \in live /\ heap[c].depth = heap[r].depth + 1
    BY <2>4, <2>5 DEF Taken, Linked
  <2>7. DepthWidth - heap[c].depth \in Astray
    BY <1>1, <2>1, <2>4, <2>5, <2>6
  <2> QED
    BY <1>1, <2>3, <2>4, <2>6, <2>7, MemoryAssumption
<1>7. Found[p] = Deeper(p)
  BY <1>1
<1>8. Ahead(p) = from[p]
  BY <1>1 DEF Ahead
<1> QED
  BY <1>6, <1>7, <1>8

\* The round of free_json_parser that stands on the last parser.
LEMMA LoopLastInv == ASSUME MemoryInv, Loop_Last PROVE MemoryInv'
<1>1. /\ pc = "free" /\ pc' = "freed" /\ p # None /\ heap[p].child = None
      /\ live' = (live \ Passed) \ ({p} \ {base})
      /\ fault' = (fault \/ ~(Passed \cup {p} \subseteq live))
      /\ UNCHANGED <<heap, states, definition, base, current, p, trail, free_pointer>>
  BY DEF Loop_Last, Touch, loop
<1>2. MemoryTypeOK /\ Linked /\ OwnTries /\ Torn /\ base # None /\ ~fault
  BY <1>1 DEF MemoryInv
<1>3. /\ Passed \subseteq live /\ p \in live \ Passed /\ base \in live \ Passed
      /\ \A q \in Passed : q = trail /\ heap[q].child = None /\ heap[q].depth < heap[p].depth
  BY <1>2, PassedIs
<1>4. live \subseteq {base, trail, p}
  BY <1>1, <1>2, LastIsLast DEF Taken
<1>5. live' = {base}
  BY <1>1, <1>3, <1>4 DEF Passed
<1>6. heap[base].child = None
  BY <1>1, <1>2 DEF Torn
<1>7. fault' = FALSE
  BY <1>1, <1>2, <1>3
<1>8. MemoryTypeOK'
  BY <1>1, <1>2, <1>7 DEF MemoryTypeOK
<1>9. Linked' /\ OwnTries'
  <2>1. ASSUME NEW r \in Parsers \ live' PROVE heap[r].child = None
    BY <1>1, <1>2, <1>3, <2>1 DEF Linked
  <2> QED
    BY <1>1, <1>2, <1>3, <1>5, <1>6, <2>1 DEF Linked, OwnTries
<1> QED
  BY <1>1, <1>2, <1>5, <1>6, <1>7, <1>8, <1>9 DEF MemoryInv, Freeing

\* The loop of free_json_parser when there is nothing left to free.
LEMMA LoopNothingInv == ASSUME MemoryInv, Loop_Nothing PROVE MemoryInv'
<1>1. /\ Still /\ pc = "free" /\ pc' = "freed" /\ p = None
      /\ UNCHANGED <<current, p, trail, free_pointer, fault>>
  BY DEF Loop_Nothing, Still, loop
<1>2. base = None
  BY <1>1, LiveFinite DEF MemoryInv, Torn
<1>3. MemoryTypeOK'
  BY <1>1, StillInv DEF MemoryInv, MemoryTypeOK, Blocks
<1> QED
  BY <1>1, <1>2, <1>3, StillInv DEF MemoryInv, Freeing, Still

\* The mode asks for the inner state alone, so the trie state stays behind; and the
\* definition as it was.
LEMMA FreeBaseInv == ASSUME MemoryInv, FreeBase PROVE MemoryInv'
<1>1. /\ pc = "freed" /\ pc' = "out" /\ base # None /\ base' = None
      /\ live' = live \ {base} /\ fault' = (fault \/ ~({base} \subseteq live))
      /\ TrieFree(heap[base].trie_state, Mode)
      /\ UNCHANGED <<heap, current, p, trail, free_pointer>>
  BY DEF FreeBase, Touch, loop
<1>2. states' = states /\ definition' = definition
  <2>1. ~(TRIE_FREE_STATE \subseteq Mode) /\ ~(TRIE_FREE_DEFINITION__INNER \subseteq Mode)
    <3>1. 4 \in TRIE_FREE_STATE /\ 4 \notin Mode
      BY DEF TRIE_FREE_STATE, Mode
    <3>2. 1 \in TRIE_FREE_DEFINITION__INNER /\ 1 \notin Mode
      BY DEF TRIE_FREE_DEFINITION__INNER, Mode
    <3> QED
      BY <3>1, <3>2
  <2> QED
    BY <1>1, <2>1 DEF TrieFree
<1>3. MemoryTypeOK /\ Linked /\ ~fault /\ live = {base} /\ heap[base].child = None
  BY <1>1 DEF MemoryInv
<1>4. live' = {} /\ fault' = FALSE
  BY <1>1, <1>3
<1>5. MemoryTypeOK'
  BY <1>1, <1>2, <1>3, <1>4 DEF MemoryTypeOK
<1>6. Linked' /\ OwnTries' /\ Whole'
  BY <1>1, <1>2, <1>3, <1>4 DEF Linked, OwnTries, Whole
<1> QED
  BY <1>1, <1>2, <1>4, <1>5, <1>6 DEF MemoryInv, Freeing

\* A base that is kept is a chain of its own.
LEMMA KeepBaseInv == ASSUME MemoryInv, KeepBase PROVE MemoryInv'
<1>1. /\ Still /\ pc = "freed" /\ pc' = "out" /\ UNCHANGED <<current, p, trail, free_pointer, fault>>
  BY DEF KeepBase, Still, loop
<1>2. MemoryTypeOK'
  BY <1>1, StillInv DEF MemoryInv, MemoryTypeOK, Blocks
<1>3. Whole
  <2>1. CASE base = None
    BY <2>1 DEF MemoryInv, Linked, Whole
  <2>2. CASE base # None
    <3>1. live = {base} /\ heap[base].child = None /\ heap[base].depth = 0
      BY <1>1, <2>2 DEF MemoryInv, Linked
    <3>2. Cardinality({base}) = 1
      BY FS_Singleton
    <3> QED
      BY <3>1, <3>2 DEF Whole, Resting
  <2> QED
    BY <2>1, <2>2
<1> QED
  BY <1>1, <1>2, <1>3, StillInv DEF MemoryInv, Freeing, Still

\* A step that changes nothing.
LEMMA StutterInv == ASSUME MemoryInv, UNCHANGED vars PROVE MemoryInv'
<1> QED
  BY DEF MemoryInv, vars, loop, MemoryTypeOK, Linked, OwnTries, Whole, Resting, AtWork, Torn, Freeing

\* Every step keeps the invariant.
LEMMA MemoryNext == ASSUME MemoryInv, [Next]_vars PROVE MemoryInv'
<1> USE InitParserInv, ResumeInv, SuspendInv, SpawnReuseInv, SpawnNewInv, SpawnNoMemoryInv, DropInv,
        FreeParserInv, LoopDownInv, LoopLastInv, LoopNothingInv, FreeBaseInv, KeepBaseInv, StutterInv
<1> QED
  BY DEF Next

\* The inductive invariant holds of every reachable state.
LEMMA MemoryInvariance == Spec => []MemoryInv
<1>1. Init => MemoryInv
  BY MemoryInit
<1>2. MemoryInv /\ [Next]_vars => MemoryInv'
  BY MemoryNext
<1> QED
  BY <1>1, <1>2, PTL DEF Spec

--------------------------------------------------------------------------------
(* The theorems: for any number of blocks. *)

\* Every field holds what its C type can, depth and its 8 bits among them, and a call
\* always has a parser at work.
THEOREM MemoryTypeCorrect == Spec => []MemoryTypeOK
<1>1. MemoryInv => MemoryTypeOK
  BY DEF MemoryInv
<1> QED
  BY <1>1, MemoryInvariance, PTL

\* Whatever is parsed and freed, and whatever allocations fail, init_, spawn_, drop_
\* and free_json_parser use and free no block that is not allocated, and no parser is
\* made with a definition that is gone.
THEOREM NothingDangles == Spec => []NoDangling
<1>1. MemoryInv => NoDangling
  BY DEF MemoryInv, NoDangling
<1> QED
  BY <1>1, MemoryInvariance, PTL

\* parent_p, child, depth, trie_state and active agree all along the chain whenever
\* free_json_parser is not at work.
THEOREM ChainCorrect == Spec => []ChainSound
<1>1. ASSUME MemoryInv, ~Freeing PROVE ChainSound
  <2>1. MemoryTypeOK /\ Linked /\ OwnTries /\ Whole
    BY <1>1 DEF MemoryInv
  <2>2. \A r \in live : r \in Parsers /\ r # None /\ heap[r].active \in BOOLEAN
    BY <2>1, Depths, BlockFields
  <2>3. base = None => live = {}
    BY <2>1 DEF Linked
  <2>4. ASSUME NEW r \in live
        PROVE  /\ r = base <=> heap[r].parent_p = None
               /\ r # base => heap[heap[r].parent_p].child = r
    BY <2>1, <2>2 DEF Linked, Whole
  <2>5. ASSUME NEW r \in live, heap[r].child # None
        PROVE  /\ heap[r].child \in live /\ heap[heap[r].child].parent_p = r
               /\ heap[heap[r].child].depth = heap[r].depth + 1
               /\ heap[heap[r].child].active => heap[r].active
    BY <2>1, <2>2, <2>5 DEF Linked, Whole, Resting
  <2>6. ASSUME NEW r \in live
        PROVE  /\ heap[r].trie_state \in states
               /\ \A q \in live \ {r} : heap[q].trie_state # heap[r].trie_state
    BY <2>1 DEF OwnTries
  <2> QED
    BY <2>3, <2>4, <2>5, <2>6 DEF ChainSound
<1>2. MemoryInv => ChainSound
  BY <1>1 DEF ChainSound
<1> QED
  BY <1>2, MemoryInvariance, PTL

\* While free_json_parser takes the chain apart, whatever it has not freed can still be
\* reached from what it holds.
THEOREM NoneIsLost == Spec => []NoneLost
<1>1. ASSUME MemoryInv, pc = "free" PROVE live = ({base, trail} \ {None}) \cup Ahead(p)
  <2>1. CASE base = None
    BY <1>1, <2>1 DEF MemoryInv, Linked, Ahead
  <2>2. CASE base # None
    <3>1. Taken
      BY <1>1, <2>2 DEF MemoryInv, Taken
    <3>2. Ahead(p) = {r \in live : heap[r].depth >= heap[p].depth}
      BY <3>1, AheadIs
    <3>3. base \in live /\ trail \in live /\ \A r \in live : r # None
      BY <3>1, Depths DEF Taken, Torn, Linked
    <3>4. \A r \in live \ {base, trail} : heap[r].depth >= heap[p].depth
      BY <3>1 DEF Taken, Torn
    <3> QED
      BY <3>2, <3>3, <3>4
  <2> QED
    BY <2>1, <2>2
<1>2. MemoryInv => NoneLost
  BY <1>1 DEF NoneLost
<1> QED
  BY <1>2, MemoryInvariance, PTL

--------------------------------------------------------------------------------
(* The chain is the stack of ParserStack. *)

\* A parser without a child is the last of the chain, whose depths are the numbers up
\* to its own.
LEMMA ChainLength ==
  ASSUME Standing, NEW m \in live, heap[m].child = None
  PROVE  Cardinality(live) = heap[m].depth + 1
<1> DEFINE d == heap[m].depth
           f == [r \in live |-> heap[r].depth]
<1>1. /\ \A r \in live : heap[r].depth \in Nat /\ r # None
      /\ IsFiniteSet(live)
  BY Depths, LiveFinite DEF Standing
<1>2. ASSUME NEW r \in live PROVE heap[r].depth <= d
  <2> SUFFICES ASSUME heap[r].depth > d PROVE FALSE
    BY <1>1
  <2>1. d + 1 \in 0..heap[r].depth
    BY <1>1
  <2>2. PICK q \in live : heap[q].depth = d + 1
    BY <2>1, Ancestor
  <2>3. q # base
    BY <1>1, <2>2 DEF Standing, Linked
  <2>4. heap[q].parent_p \in live /\ heap[heap[q].parent_p].child = q
    BY <2>2, <2>3 DEF Standing, Whole
  <2>5. heap[q].depth = heap[heap[q].parent_p].depth + 1
    BY <1>1, <2>4 DEF Standing, Linked
  <2>6. heap[heap[q].parent_p].depth = d
    BY <1>1, <2>2, <2>4, <2>5
  <2>7. heap[q].parent_p = m
    BY <2>4, <2>6 DEF Standing, Linked
  <2> QED
    BY <1>1, <2>2, <2>4, <2>7
<1>3. f \in Bijection(live, 0..d)
  <2>1. f \in [live -> 0..d]
    BY <1>1, <1>2
  <2>2. \A q, r \in live : f[q] = f[r] => q = r
    BY DEF Standing, Linked
  <2>3. \A n \in 0..d : \E r \in live : f[r] = n
    BY Ancestor
  <2> HIDE DEF f, d
  <2> QED
    BY <2>1, <2>2, <2>3 DEF Bijection, Injection, Surjection, IsInjective
<1>4. Cardinality(live) = Cardinality(0..d)
  BY <1>1, <1>3, FS_Bijection DEF ExistsBijection
<1>5. Cardinality(0..d) = d + 1
  <2>1. d \in Int /\ 0 \in Int /\ ~(0 > d) /\ d - 0 + 1 = d + 1
    BY <1>1
  <2> HIDE DEF d
  <2> QED
    BY <2>1, FS_Interval
<1> QED
  BY <1>4, <1>5

\* What the refinement mapping comes to, in every state.
MappedTo ==
  /\ pc \in {"in", "crashed"} => DepthAtWork = heap[current].depth
  /\ pc = "out" /\ base # None =>
       \A m \in live : heap[m].active /\ Resting(m) => DepthAtWork = heap[m].depth
  /\ pc = "out" /\ base = None => DepthAtWork = 0
  /\ Freeing => DepthAtWork = 0
  /\ Freeing => ParsersMade = IF free_pointer \/ base = None THEN 0 ELSE 1
  /\ ~Freeing => ParsersMade = Cardinality(live)

\* What the two numbers of ParserStack are, in each part of the code.
LEMMA Mapped == MemoryInv => MappedTo
<1> SUFFICES ASSUME MemoryInv PROVE MappedTo
  OBVIOUS
<1>1. pc \in {"out", "in", "free", "freed", "crashed"}
  BY DEF MemoryInv, MemoryTypeOK
<1>2. ASSUME pc = "out", base # None, NEW m \in live, heap[m].active, Resting(m)
      PROVE  DepthAtWork = heap[m].depth
  <2>1. TopParser(base) = m
    BY <1>2, Stands, TopParserIs DEF Freeing
  <2> QED
    BY <1>2, <2>1 DEF DepthAtWork
<1>3. pc \in {"in", "crashed"} => DepthAtWork = heap[current].depth
  BY DEF DepthAtWork
<1>4. /\ Freeing => DepthAtWork = 0
      /\ pc = "out" /\ base = None => DepthAtWork = 0
  BY DEF DepthAtWork, Freeing
<1>5. /\ Freeing => ParsersMade = IF free_pointer \/ base = None THEN 0 ELSE 1
      /\ ~Freeing => ParsersMade = Cardinality(live)
  BY DEF ParsersMade
<1>6. pc = "out" /\ base # None =>
        \A m \in live : heap[m].active /\ Resting(m) => DepthAtWork = heap[m].depth
  BY <1>2
<1> QED
  BY <1>3, <1>4, <1>5, <1>6 DEF MappedTo

StackVars == <<ParsersMade, DepthAtWork>>

\* Which step of the stack each step of the code is.
LEMMA StackStep ==
  ASSUME MemoryInv, MemoryInv', MappedTo, MappedTo', [Next]_vars
  PROVE  Stack!Next \/ UNCHANGED StackVars
<1>1. CASE InitParser
  <2>1. pc = "out" /\ pc' = "out" /\ base = None /\ live = {} /\ live' = {base'} /\ base' # None
    BY <1>1, MemoryAssumption DEF InitParser, Allocate, MemoryInv, Linked
  <2>2. ParsersMade = 0 /\ DepthAtWork = 0
    BY <2>1, FS_EmptySet DEF MappedTo, Freeing
  <2>3. ParsersMade' = 1
    BY <2>1, FS_Singleton DEF MappedTo, Freeing
  <2>4. heap'[base'].depth = 0 /\ heap'[base'].active
    BY <2>1 DEF MemoryInv, Linked
  <2>5. heap'[base'].child = None
    <3>1. heap'[base'].child # None => heap'[base'].child = base' /\ heap'[base'].depth = 0 + 1
      BY <2>1, <2>4 DEF MemoryInv, Linked
    <3> QED
      BY <2>4, <3>1
  <2>6. DepthAtWork' = 0
    BY <2>1, <2>4, <2>5 DEF MappedTo, Resting
  <2> QED
    BY <2>2, <2>3, <2>6 DEF Stack!Next, Stack!Open
<1>2. CASE Resume
  <2>1. /\ pc = "out" /\ base # None /\ pc' = "in" /\ current' = TopParser(base)
        /\ heap' = heap /\ live' = live
    BY <1>2 DEF Resume
  <2>2. DepthAtWork = heap[TopParser(base)].depth
    BY <2>1 DEF DepthAtWork
  <2>3. DepthAtWork' = DepthAtWork /\ ParsersMade' = ParsersMade
    BY <2>1, <2>2 DEF MappedTo, Freeing
  <2> QED
    BY <2>3 DEF StackVars
<1>3. CASE Suspend
  <2>1. pc = "in" /\ pc' = "out" /\ base' = base /\ heap' = heap /\ live' = live
    BY <1>3 DEF Suspend
  <2>2. base # None /\ AtWork
    BY <2>1 DEF MemoryInv
  <2>3. PICK m \in live : m = current /\ heap[m].active /\ Resting(m)
    BY <2>2 DEF AtWork
  <2>4. DepthAtWork' = heap[m].depth /\ DepthAtWork = heap[m].depth
    <3>1. m \in live' /\ heap'[m].active /\ Resting(m)' /\ heap'[m].depth = heap[m].depth
      BY <2>1, <2>3 DEF Resting
    <3>2. base' # None
      BY <2>1, <2>2
    <3> QED
      BY <2>1, <2>3, <3>1, <3>2 DEF MappedTo
  <2>5. DepthAtWork' = DepthAtWork /\ ParsersMade' = ParsersMade
    BY <2>1, <2>4 DEF MappedTo, Freeing
  <2> QED
    BY <2>5 DEF StackVars
<1>4. CASE Spawn_Reuse
  <2> DEFINE c == heap[current].child
  <2>1. /\ pc = "in" /\ pc' = "in" /\ current' = c /\ live' = live /\ c # None
        /\ heap' = [heap EXCEPT ![c] = [ResetParser(@) EXCEPT !.parent_p = current]]
    BY <1>4 DEF Spawn_Reuse
  <2>2. Linked /\ Whole /\ MemoryTypeOK /\ current \in live
    BY <2>1 DEF MemoryInv, Freeing, AtWork
  <2>3. c \in live /\ heap[c].depth = heap[current].depth + 1
    BY <2>1, <2>2 DEF Linked
  <2> HIDE DEF c
  <2>4. heap[current].depth \in Nat /\ heap[c] \in Blocks /\ c \in Parsers /\ Cardinality(live) \in Nat
    BY <2>2, <2>3, Depths, BlockFields, LiveFinite
  <2>5. heap'[c].depth = heap[c].depth
    BY <2>1, <2>2, <2>4 DEF ResetParser, MemoryTypeOK, Blocks
  <2>6. heap[c].depth < Cardinality(live)
    BY <2>2, <2>3 DEF Whole
  <2>7. /\ DepthAtWork = heap[current].depth /\ DepthAtWork' = heap'[c].depth
        /\ ParsersMade = Cardinality(live) /\ ParsersMade' = Cardinality(live)
    BY <2>1 DEF MappedTo, Freeing
  <2>8. /\ ParsersMade > 0 /\ DepthAtWork' = DepthAtWork + 1 /\ DepthAtWork + 1 # ParsersMade
        /\ ParsersMade' = ParsersMade
    BY <2>3, <2>4, <2>5, <2>6, <2>7
  <2> QED
    BY <2>8 DEF Stack!Next, Stack!Descend
<1>5. CASE Spawn_New
  <2>1. PICK r \in Parsers, state \in NextState :
          /\ Allocate(r, state) /\ current' = r
          /\ heap' = [heap EXCEPT ![current].child = r, ![r] = Child(state, current)]
    BY <1>5, Zenon DEF Spawn_New
  <2>2. pc = "in" /\ pc' = "in" /\ heap[current].child = None /\ live' = live \cup {r} /\ r \notin live
    BY <1>5, <2>1 DEF Spawn_New, Allocate
  <2>3. Standing /\ Linked' /\ MemoryTypeOK' /\ current \in live /\ current' \in live'
    BY <2>2, Stands DEF MemoryInv, Freeing, AtWork
  <2>4. /\ Cardinality(live) = heap[current].depth + 1 /\ Cardinality(live') = Cardinality(live) + 1
        /\ heap[current].depth \in Nat /\ heap[current] \in Blocks
        /\ current \in Parsers /\ current # r /\ r # None
    <3>1. Cardinality(live') = Cardinality(live) + 1
      BY <2>2, <2>3, LiveFinite DEF Standing
    <3>2. heap[current].depth \in Nat /\ current \in Parsers /\ current # r /\ r # None
      BY <2>2, <2>3, Depths, MemoryAssumption DEF Standing
    <3> QED
      BY <2>2, <2>3, <3>1, <3>2, ChainLength, BlockFields DEF Standing
  <2>5. heap'[current].child = r /\ heap'[current].depth = heap[current].depth
    BY <2>1, <2>3, <2>4 DEF Standing, MemoryTypeOK, Blocks
  <2>6. heap'[r].depth = heap[current].depth + 1
    BY <2>2, <2>3, <2>4, <2>5 DEF Linked
  <2>7. /\ DepthAtWork = heap[current].depth /\ DepthAtWork' = heap'[r].depth
        /\ ParsersMade = Cardinality(live) /\ ParsersMade' = Cardinality(live')
    BY <2>1, <2>2 DEF MappedTo, Freeing
  <2>8. /\ ParsersMade > 0 /\ DepthAtWork' = DepthAtWork + 1 /\ DepthAtWork + 1 = ParsersMade
        /\ ParsersMade' = ParsersMade + 1
    BY <2>4, <2>6, <2>7
  <2> QED
    BY <2>8 DEF Stack!Next, Stack!Descend
<1>6. CASE Spawn_NoMemory
  <2>1. pc = "in" /\ pc' = "crashed" /\ UNCHANGED <<heap, live, current>>
    BY <1>6 DEF Spawn_NoMemory
  <2>2. DepthAtWork' = DepthAtWork /\ ParsersMade' = ParsersMade
    BY <2>1 DEF MappedTo, Freeing
  <2> QED
    BY <2>2 DEF StackVars
<1>7. CASE Drop
  <2> DEFINE parent == heap[current].parent_p
  <2>1. /\ pc = "in" /\ pc' = "in" /\ parent # None /\ current' = parent /\ live' = live
        /\ heap' = [heap EXCEPT ![current].active = FALSE, ![parent] = ResetParser(@)]
    BY <1>7 DEF Drop
  <2>2. Linked /\ Whole /\ MemoryTypeOK /\ current \in live
    BY <2>1 DEF MemoryInv, Freeing, AtWork
  <2>3. parent \in live /\ heap[parent].child = current /\ current # None
    BY <2>1, <2>2, Depths DEF Linked, Whole
  <2>4. heap[current].depth = heap[parent].depth + 1
    BY <2>2, <2>3 DEF Linked
  <2> HIDE DEF parent
  <2>5. heap[parent].depth \in Nat /\ heap[parent] \in Blocks /\ parent \in Parsers
    BY <2>2, <2>3, Depths, BlockFields
  <2>6. parent # current
    BY <2>4, <2>5
  <2>7. heap'[parent].depth = heap[parent].depth
    BY <2>1, <2>2, <2>5, <2>6 DEF ResetParser, MemoryTypeOK, Blocks
  <2>8. /\ DepthAtWork = heap[current].depth /\ DepthAtWork' = heap'[parent].depth
        /\ ParsersMade' = ParsersMade
    BY <2>1 DEF MappedTo, Freeing
  <2>9. DepthAtWork > 0 /\ DepthAtWork' = DepthAtWork - 1 /\ UNCHANGED ParsersMade
    BY <2>4, <2>5, <2>7, <2>8
  <2> QED
    BY <2>9 DEF Stack!Next, Stack!Ascend
<1>8. CASE FreeParser
  <2>1. pc = "out" /\ pc' = "free" /\ base' = base
    BY <1>8 DEF FreeParser
  <2>2. DepthAtWork' = 0 /\ ParsersMade' = IF free_pointer' \/ base = None THEN 0 ELSE 1
    BY <2>1 DEF MappedTo, Freeing
  <2>3. ASSUME base # None PROVE ParsersMade > 0
    <3>1. MemoryTypeOK /\ base \in live /\ Whole
      BY <2>1, <2>3 DEF MemoryInv, Linked, Freeing
    <3>2. heap[base].depth \in Nat /\ heap[base].depth < Cardinality(live) /\ Cardinality(live) \in Nat
      BY <3>1, Depths, LiveFinite DEF Whole
    <3>3. ParsersMade = Cardinality(live)
      BY <2>1 DEF MappedTo, Freeing
    <3> QED
      BY <3>2, <3>3
  <2> QED
    BY <2>2, <2>3 DEF Stack!Next, Stack!Trim, Stack!Close
<1>9. CASE Loop_Down \/ Loop_Last \/ Loop_Nothing
  <2>1. Freeing /\ Freeing' /\ UNCHANGED <<base, free_pointer>>
    BY <1>9 DEF Loop_Down, Loop_Last, Loop_Nothing, Freeing, loop
  <2> QED
    BY <2>1 DEF MappedTo, StackVars
<1>10. CASE FreeBase
  <2>1. pc = "freed" /\ pc' = "out" /\ free_pointer /\ base' = None
    BY <1>10 DEF FreeBase
  <2>2. live' = {}
    BY <2>1 DEF MemoryInv, Linked
  <2>3. DepthAtWork' = DepthAtWork /\ ParsersMade' = ParsersMade
    BY <2>1, <2>2, FS_EmptySet DEF MappedTo, Freeing
  <2> QED
    BY <2>3 DEF StackVars
<1>11. CASE KeepBase
  <2>1. pc = "freed" /\ pc' = "out" /\ (~free_pointer \/ base = None) /\ UNCHANGED <<heap, live, base>>
    BY <1>11 DEF KeepBase
  <2>2. CASE base = None
    <3>1. live = {}
      BY <2>2 DEF MemoryInv, Linked
    <3>2. DepthAtWork' = DepthAtWork /\ ParsersMade' = ParsersMade
      BY <2>1, <2>2, <3>1, FS_EmptySet DEF MappedTo, Freeing
    <3> QED
      BY <3>2 DEF StackVars
  <2>3. CASE base # None
    <3>1. live = {base} /\ heap[base].child = None /\ heap[base].depth = 0 /\ heap[base].active
      BY <2>1, <2>3 DEF MemoryInv, Linked
    <3>2. base \in live' /\ heap'[base].active /\ (Resting(base))' /\ heap'[base].depth = 0
      BY <2>1, <3>1 DEF Resting
    <3>3. DepthAtWork' = 0
      BY <2>1, <2>3, <3>2 DEF MappedTo
    <3>4. DepthAtWork = 0 /\ ParsersMade = 1 /\ ParsersMade' = 1
      BY <2>1, <2>3, <3>1, FS_Singleton DEF MappedTo, Freeing
    <3> QED
      BY <3>3, <3>4 DEF StackVars
  <2> QED
    BY <2>2, <2>3
<1>12. CASE UNCHANGED vars
  <2>1. DepthAtWork' = DepthAtWork /\ ParsersMade' = ParsersMade
    BY <1>12 DEF vars, loop, DepthAtWork, ParsersMade, TopParser, Freeing
  <2> QED
    BY <2>1 DEF StackVars
<1> QED
  BY <1>1, <1>2, <1>3, <1>4, <1>5, <1>6, <1>7, <1>8, <1>9, <1>10, <1>11, <1>12 DEF Next

\* The chain of blocks is the stack of ParserStack: parsing resumes at the depth where
\* it stopped, going down makes a parser only where none was made before, and after
\* free_json_parser the base alone is left, or nothing.
THEOREM ChainIsStack == Spec => ChainImplementsStack
<1>1. Init => Stack!Init
  BY FS_EmptySet DEF Init, Stack!Init, ParsersMade, DepthAtWork, Freeing
<1>2. MemoryInv /\ MemoryInv' /\ MappedTo /\ MappedTo' /\ [Next]_vars
        => [Stack!Next]_<<ParsersMade, DepthAtWork>>
  BY StackStep DEF StackVars
<1> QED
  BY <1>1, <1>2, Mapped, MemoryInvariance, PTL DEF Spec, ChainImplementsStack, Stack!Spec
================================================================================
