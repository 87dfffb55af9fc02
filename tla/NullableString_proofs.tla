-------------------------- MODULE NullableString_proofs --------------------------
(******************************************************************************)
(* Strings shared by counting: nothing is freed twice or too early, no text   *)
(* is written beyond its block, and no holder disturbs another, for any       *)
(* number of holders, strings and blocks and any policy of sizes.             *)
(*                                                                            *)
(* Every helper changes one string, and the blocks that are its own; so what  *)
(* is proved of the helpers is proved of one string, and carried over to the  *)
(* memory once, in OneString.                                                 *)
(******************************************************************************)
EXTENDS NullableString, FiniteSetTheorems, TLAPS

BlockRecords == [size : Nat, owner : Nodes \cup {None}]

Memories == [node : [Nodes -> NullableStrings], live : SUBSET Structs,
             block : [Blocks -> BlockRecords], fault : BOOLEAN]

\* A string and its memory: what it points to is its own and as large as it says, or
\* lent and locked; the text lies in it.  A string on the heap is never lent any.
StringOK(m, s) ==
  LET v == m.node[s] IN
  /\ v.value \in Blocks => m.block[v.value].size > 0 /\ m.block[v.value].owner = s
  /\ v.value \in Lent => v.free_lock
  /\ v.value # None => v.allocated <= Room(m, v.value)
  /\ s \in Structs => ~v.free_lock
  /\ s \in Structs \ m.live => v.value = None
  /\ ~v.null /\ v.text > 0 => v.value # None /\ v.text < Room(m, v.value)

\* A string on the heap points to every block that was allocated for it.
OwnsWhatItHolds(m, s) ==
  s \in Structs =>
    \A b \in Blocks : m.block[b].size > 0 /\ m.block[b].owner = s => m.node[s].value = b

Sound(m) ==
  /\ m \in Memories /\ ~m.fault
  /\ \A s \in Nodes : StringOK(m, s) /\ OwnsWhatItHolds(m, s)

StringInv ==
  /\ Sound(memory)
  /\ ptr \in [Holders -> Structs \cup {None}]
  /\ CountsHolders

--------------------------------------------------------------------------------
\* NULL, the blocks and the memory lent are told apart.
LEMMA Distinct ==
  /\ None \notin Blocks /\ None \notin Lent /\ None \notin Nodes /\ Blocks \cap Lent = {}
  /\ Fields \cap Structs = {} /\ Fields \subseteq Nodes /\ Structs \subseteq Nodes
  BY StringsAssumption DEF Lent, Nodes

\* The sizes of the policy, and of the fields that hold a size or a count.
LEMMA Sizes ==
  /\ Counter \in Nat /\ Counter > 1 /\ 0 \in 0..(Counter - 1) /\ 1 \in 0..(Counter - 1)
  /\ Allocated \in Nat \ {0} /\ 0 \in 0..(Allocated - 1)
  /\ MinimumSize \in Nat \ {0} /\ DefaultSize \in Nat \ {0} /\ UpsizeCutoff \in Nat
  /\ MaximumOverAllocation \in Nat \ {0}
<1>1. /\ Counter \in Nat \ {0} /\ Allocated \in Nat \ {0} /\ MinimumSize \in Nat \ {0}
      /\ DefaultSize \in Nat \ {0} /\ MaximumOverAllocation \in Nat \ {0}
  BY StringsAssumption
<1> QED
  BY <1>1, StringsAssumption

\* What the fields of a string can hold, ...
LEMMA StringFields ==
  ASSUME NEW v \in NullableStrings
  PROVE  /\ v.null \in BOOLEAN /\ v.free_lock \in BOOLEAN /\ v.allocated \in 0..(Allocated - 1)
         /\ v.counter \in 0..(Counter - 1) /\ v.value \in Blocks \cup Lent \cup {None}
         /\ v.text \in Nat /\ v.allocated \in Nat /\ v.counter \in Nat
  BY StringsAssumption DEF NullableStrings

\* ... and those of a memory.
LEMMA MemoryFields ==
  ASSUME NEW m \in Memories
  PROVE  /\ m.node \in [Nodes -> NullableStrings] /\ m.live \subseteq Structs
         /\ m.block \in [Blocks -> BlockRecords] /\ m.fault \in BOOLEAN
         /\ \A s \in Nodes : m.node[s] \in NullableStrings
         /\ \A b \in Blocks : m.block[b].size \in Nat /\ m.block[b].owner \in Nodes \cup {None}
         /\ m = [node |-> m.node, live |-> m.live, block |-> m.block, fault |-> m.fault]
  BY DEF Memories, BlockRecords

\* A memory of which one string is given another value.
LEMMA SetString ==
  ASSUME NEW m \in Memories, NEW s \in Nodes, NEW w \in NullableStrings
  PROVE  LET n == [m EXCEPT !.node[s] = w] IN
         /\ n \in Memories /\ n.node[s] = w /\ \A q \in Nodes \ {s} : n.node[q] = m.node[q]
         /\ n.live = m.live /\ n.block = m.block /\ n.fault = m.fault
  BY DEF Memories

\* One field of it: the count, ...
LEMMA SetCounter ==
  ASSUME NEW m \in Memories, NEW s \in Nodes, NEW c \in 0..(Counter - 1)
  PROVE  LET n == [m EXCEPT !.node[s].counter = c] IN
         /\ n \in Memories /\ n.live = m.live /\ n.block = m.block /\ n.fault = m.fault
         /\ n.node[s] = [m.node[s] EXCEPT !.counter = c]
         /\ \A q \in Nodes \ {s} : n.node[q] = m.node[q]
<1> DEFINE w == [m.node[s] EXCEPT !.counter = c]
<1>1. w \in NullableStrings
  BY MemoryFields DEF NullableStrings
<1>2. [m EXCEPT !.node[s].counter = c] = [m EXCEPT !.node[s] = w]
  OBVIOUS
<1> HIDE DEF w
<1>3. LET n == [m EXCEPT !.node[s] = w] IN
      /\ n \in Memories /\ n.node[s] = w /\ \A q \in Nodes \ {s} : n.node[q] = m.node[q]
      /\ n.live = m.live /\ n.block = m.block /\ n.fault = m.fault
  BY <1>1, SetString
<1> QED
  BY <1>2, <1>3 DEF w

\* The room of what a string points to is a number, ...
LEMMA RoomIs ==
  ASSUME NEW m \in Memories, NEW value \in Blocks \cup Lent
  PROVE  /\ Room(m, value) \in Nat
         /\ value \in Blocks => Room(m, value) = m.block[value].size
         /\ value \in Lent => Room(m, value) > 0
<1>1. CASE value \in Blocks
  BY <1>1, MemoryFields, Distinct DEF Room
<1>2. CASE value \in Lent
  <2>1. value \notin Blocks /\ value.lent \in Nat \ {0}
    BY <1>2, Distinct, StringsAssumption DEF Lent
  <2> QED
    BY <1>2, <2>1 DEF Room
<1> QED
  BY <1>1, <1>2

\* What a step that is about one string leaves alone; most do not allocate or free it.
Changes(m, n, s) ==
  /\ n \in Memories /\ n.live \ {s} = m.live \ {s}
  /\ \A q \in Nodes \ {s} : n.node[q] = m.node[q]
  /\ \A b \in Blocks :
       \/ m.block[b].size > 0 /\ m.block[b].owner # s
       \/ n.block[b].size > 0 /\ n.block[b].owner # s
       => n.block[b] = m.block[b]

Alters(m, n, s) == Changes(m, n, s) /\ n.live = m.live

\* Two such steps on one string are one.
LEMMA AltersAgain ==
  ASSUME NEW l, NEW m, NEW n, NEW s, Alters(l, m, s), Alters(m, n, s)
  PROVE  Alters(l, n, s)
  BY DEF Alters, Changes

\* A memory is sound after such a step if the one string is.
LEMMA OneString ==
  ASSUME NEW m, NEW n, NEW s \in Nodes, Sound(m), Changes(m, n, s),
         ~n.fault, StringOK(n, s), OwnsWhatItHolds(n, s)
  PROVE  Sound(n)
<1>1. m \in Memories /\ n \in Memories
  BY DEF Sound, Changes
<1>2. ASSUME NEW q \in Nodes \ {s} PROVE StringOK(n, q) /\ OwnsWhatItHolds(n, q)
  <2> DEFINE v == m.node[q]
  <2>1. n.node[q] = v /\ (q \in n.live <=> q \in m.live) /\ StringOK(m, q) /\ OwnsWhatItHolds(m, q)
    BY DEF Changes, Sound
  <2>2. v.value \in Blocks \cup Lent \cup {None} /\ v.text \in Nat
    BY <1>1, MemoryFields, StringFields
  <2>3. v.value \in Blocks => n.block[v.value] = m.block[v.value]
    BY <2>1 DEF StringOK, Changes
  <2>4. v.value # None => Room(n, v.value) = Room(m, v.value)
    BY <2>2, <2>3 DEF Room
  <2>5. StringOK(n, q)
    BY <2>1, <2>2, <2>3, <2>4 DEF StringOK
  <2>6. OwnsWhatItHolds(n, q)
    BY <2>1 DEF OwnsWhatItHolds, Changes
  <2> QED
    BY <2>5, <2>6
<1> QED
  BY <1>1, <1>2 DEF Sound

\* Only its own block may a string free.
LEMMA FreeIs ==
  ASSUME NEW m \in Memories, NEW s \in Nodes, NEW value \in Blocks, m.block[value].size > 0,
         m.block[value].owner = s, NEW n, n = Free(m, value)
  PROVE  /\ Alters(m, n, s) /\ n.node = m.node /\ n.fault = m.fault
         /\ n.block[value].size = 0 /\ \A b \in Blocks \ {value} : n.block[b] = m.block[b]
<1>1. n = [m EXCEPT !.block[value] = NoBlock]
  BY DEF Free
<1>2. NoBlock \in BlockRecords /\ NoBlock.size = 0
  BY DEF NoBlock, BlockRecords
<1>3. /\ n \in Memories /\ n.node = m.node /\ n.live = m.live /\ n.fault = m.fault
      /\ n.block[value] = NoBlock /\ \A b \in Blocks \ {value} : n.block[b] = m.block[b]
  BY <1>1, <1>2 DEF Memories
<1>4. Alters(m, n, s)
  BY <1>2, <1>3 DEF Alters, Changes
<1> QED
  BY <1>2, <1>3, <1>4

\* No block is allocated for the string; and none is allocated that was not.
Blockless(m, s) == \A b \in Blocks : ~(m.block[b].size > 0 /\ m.block[b].owner = s)
NoneTaken(m, n) == \A b \in Blocks : m.block[b].size = 0 => n.block[b].size = 0

\* The string has got block b, and no other block has changed.
Gets(m, n, s, b, size) ==
  /\ n.node[s] = [m.node[s] EXCEPT !.value = b, !.allocated = size % Allocated]
  /\ n.block[b].size = size /\ n.block[b].owner = s
  /\ \A a \in Blocks \ {b} : n.block[a] = m.block[a]

\* Before an allocation a string gives back the block it has, unless it is locked, and
\* points nowhere then.
LEMMA DiscardIs ==
  ASSUME NEW m, NEW s \in Nodes, Sound(m), NEW n, n = Discard(m, s)
  PROVE  /\ Alters(m, n, s) /\ ~n.fault
         /\ n.node[s] = [m.node[s] EXCEPT !.value = None, !.allocated = 0]
         /\ s \in Structs => Blockless(n, s)
         /\ NoneTaken(m, n)
<1> DEFINE v == m.node[s]
           w == [v EXCEPT !.value = None, !.allocated = 0]
           f == IF ~v.free_lock /\ v.value # None THEN Free(m, v.value) ELSE m
<1>1. m \in Memories /\ ~m.fault /\ StringOK(m, s) /\ OwnsWhatItHolds(m, s)
  BY DEF Sound
<1>2. v \in NullableStrings /\ v.value \in Blocks \cup Lent \cup {None}
  BY <1>1, MemoryFields, StringFields
<1>3. w \in NullableStrings /\ w.value = None
  BY <1>2, Sizes DEF NullableStrings
<1>4. /\ Alters(m, f, s) /\ f.node = m.node /\ ~f.fault
      /\ \A b \in Blocks : f.block[b].size > 0 => f.block[b] = m.block[b]
      /\ ~v.free_lock => \A b \in Blocks : f.block[b].size > 0 => b # v.value
  <2>1. CASE ~v.free_lock /\ v.value # None
    <3>1. v.value \in Blocks
      BY <1>1, <1>2, <2>1 DEF StringOK
    <3>2. f = Free(m, v.value) /\ m.block[v.value].size > 0 /\ m.block[v.value].owner = s
      BY <1>1, <2>1, <3>1 DEF StringOK
    <3> HIDE DEF f
    <3>3. /\ Alters(m, f, s) /\ f.node = m.node /\ f.fault = m.fault
          /\ f.block[v.value].size = 0 /\ \A b \in Blocks \ {v.value} : f.block[b] = m.block[b]
      BY <1>1, <3>1, <3>2, FreeIs
    <3> QED
      BY <1>1, <2>1, <3>3
  <2>2. CASE ~(~v.free_lock /\ v.value # None)
    <3>1. f = m
      BY <2>2
    <3>2. Alters(m, m, s)
      BY <1>1 DEF Alters, Changes
    <3> QED
      BY <1>1, <2>2, <3>1, <3>2, Distinct
  <2> QED
    BY <2>1, <2>2
<1>5. Discard(m, s) = [f EXCEPT !.node[s] = w]
  BY <1>4 DEF Discard
<1> HIDE DEF f, w, v
<1>6. LET k == [f EXCEPT !.node[s] = w] IN
      /\ k \in Memories /\ k.node[s] = w /\ \A q \in Nodes \ {s} : k.node[q] = f.node[q]
      /\ k.live = f.live /\ k.block = f.block /\ k.fault = f.fault
  BY <1>3, <1>4, SetString DEF Alters, Changes
<1>7. /\ n \in Memories /\ n.node[s] = w /\ \A q \in Nodes \ {s} : n.node[q] = f.node[q]
      /\ n.live = f.live /\ n.block = f.block /\ n.fault = f.fault
  BY <1>5, <1>6
<1>8. Alters(m, n, s)
  <2>1. Alters(f, n, s)
    BY <1>7 DEF Alters, Changes
  <2> QED
    BY <1>4, <2>1, AltersAgain
<1>9. ASSUME s \in Structs, NEW b \in Blocks, n.block[b].size > 0, n.block[b].owner = s PROVE FALSE
  <2>1. ~v.free_lock /\ f.block[b].size > 0 /\ f.block[b] = m.block[b]
    BY <1>1, <1>4, <1>7, <1>9 DEF StringOK, v
  <2>2. v.value = b
    BY <1>1, <1>7, <1>9, <2>1 DEF OwnsWhatItHolds, v
  <2> QED
    BY <1>4, <2>1, <2>2
<1>10. ASSUME NEW b \in Blocks, m.block[b].size = 0 PROVE n.block[b].size = 0
  <2>1. ~(f.block[b].size > 0)
    BY <1>4, <1>10
  <2>2. n.block[b].size \in Nat
    BY <1>7, MemoryFields
  <2> QED
    BY <1>7, <2>1, <2>2
<1>11. n.node[s] = [m.node[s] EXCEPT !.value = None, !.allocated = 0] /\ ~n.fault
  BY <1>4, <1>7 DEF v, w
<1> QED
  BY <1>8, <1>9, <1>10, <1>11 DEF Blockless, NoneTaken

\* What an allocation gives a string: a block of its own, or nothing.
LEMMA ObtainIs ==
  ASSUME NEW m \in Memories, NEW s \in Nodes, NEW size \in Nat \ {0}, NEW ok \in BOOLEAN,
         ok => \E b \in Blocks : m.block[b].size = 0, NEW n, n = Obtain(m, s, size, ok)
  PROVE  /\ Alters(m, n, s) /\ n.fault = m.fault
         /\ ~ok => n = m
         /\ ok => \E b \in Blocks : Gets(m, n, s, b, size)
<1>1. CASE ~ok
  BY <1>1 DEF Obtain, Alters, Changes
<1>2. CASE ok
  <2> DEFINE b == CHOOSE b \in Blocks : m.block[b].size = 0
             w == [m.node[s] EXCEPT !.value = b, !.allocated = size % Allocated]
             l == [m EXCEPT !.block[b] = [size |-> size, owner |-> s]]
  <2>1. b \in Blocks /\ m.block[b].size = 0
    BY <1>2
  <2>2. n = [l EXCEPT !.node[s] = w]
    BY <1>2 DEF Obtain
  <2> HIDE DEF b
  <2>3. w \in NullableStrings
    <3>1. size % Allocated \in 0..(Allocated - 1)
      BY Sizes
    <3>2. m.node[s] \in NullableStrings
      BY MemoryFields
    <3> QED
      BY <2>1, <3>1, <3>2 DEF NullableStrings
  <2>4. /\ l \in Memories /\ l.node = m.node /\ l.live = m.live /\ l.fault = m.fault
        /\ l.block[b].size = size /\ l.block[b].owner = s
        /\ \A a \in Blocks \ {b} : l.block[a] = m.block[a]
    <3> DEFINE r == [size |-> size, owner |-> s]
    <3>1. r \in BlockRecords /\ r.size = size /\ r.owner = s
      BY DEF BlockRecords
    <3> HIDE DEF r
    <3>2. /\ l \in Memories /\ l.node = m.node /\ l.live = m.live /\ l.fault = m.fault
          /\ l.block[b] = r /\ \A a \in Blocks \ {b} : l.block[a] = m.block[a]
      BY <2>1, <3>1 DEF Memories, r
    <3> QED
      BY <3>1, <3>2
  <2> HIDE DEF l, w
  <2>5. /\ n \in Memories /\ n.node[s] = w /\ \A q \in Nodes \ {s} : n.node[q] = l.node[q]
        /\ n.live = l.live /\ n.block = l.block /\ n.fault = l.fault
    BY <2>2, <2>3, <2>4, SetString
  <2>6. Alters(m, n, s)
    BY <2>1, <2>4, <2>5 DEF Alters, Changes
  <2>7. Gets(m, n, s, b, size)
    BY <2>4, <2>5 DEF Gets, w
  <2> QED
    BY <1>2, <2>1, <2>6, <2>7, <2>4, <2>5
<1> QED
  BY <1>1, <1>2

\* A size is never made less.
LEMMA UpsizedIs == ASSUME NEW size \in Nat \ {0} PROVE Upsized(size) \in Nat \ {0} /\ size <= Upsized(size)
<1>1. CASE size < MinimumSize
  BY <1>1, Sizes DEF Upsized
<1>2. CASE size >= MinimumSize /\ size < DefaultSize /\ DefaultSize - size <= UpsizeCutoff
  BY <1>2, Sizes DEF Upsized
<1>3. CASE ~(size < MinimumSize) /\ ~(size >= MinimumSize /\ size < DefaultSize /\ DefaultSize - size <= UpsizeCutoff)
  BY <1>3, Sizes DEF Upsized
<1> QED
  BY <1>1, <1>2, <1>3

\* A string that is said to be null, or whose count changes, keeps its memory.
LEMMA Relabelled ==
  ASSUME NEW m, NEW s \in Nodes, Sound(m), NEW n \in Memories, n.live = m.live, n.block = m.block,
         n.fault = m.fault, \A q \in Nodes \ {s} : n.node[q] = m.node[q],
         n.node[s].value = m.node[s].value, n.node[s].allocated = m.node[s].allocated,
         n.node[s].free_lock = m.node[s].free_lock,
         \/ n.node[s].null \/ n.node[s].text = 0
         \/ n.node[s].null = m.node[s].null /\ n.node[s].text = m.node[s].text
  PROVE  Sound(n) /\ Alters(m, n, s)
<1>1. m \in Memories /\ ~m.fault /\ StringOK(m, s) /\ OwnsWhatItHolds(m, s)
  BY DEF Sound
<1>2. Alters(m, n, s)
  BY DEF Alters, Changes
<1>3. n.node[s].value # None => Room(n, n.node[s].value) = Room(m, m.node[s].value)
  BY DEF Room
<1>4. StringOK(n, s)
  BY <1>1, <1>3 DEF StringOK
<1>5. OwnsWhatItHolds(n, s)
  BY <1>1 DEF OwnsWhatItHolds
<1> QED
  BY <1>1, <1>2, <1>4, <1>5, OneString DEF Alters

\* An allocation may succeed where there is a block left.
Possible(m, ok) == ok \in BOOLEAN /\ (ok => \E b \in Blocks : m.block[b].size = 0)

\* The steps of allocate_nullable_string, by name.
Emptied(m, s, size) ==
  [m EXCEPT !.node[s].null = TRUE, !.node[s].text = IF size = 0 THEN @ ELSE 0]
Counted(m, s) == [m EXCEPT !.node[s].counter = IF @ = 0 THEN 1 ELSE @]

\* allocate_nullable_string when the old block will not do: empty, count, give up, obtain.
LEMMA AllocateAfresh ==
  ASSUME NEW m, NEW s, NEW size \in Nat, size > 0, NEW ok, ~Reusable(m.node[s], size)
  PROVE  Allocate(m, s, size, ok) =
           Obtain(Counted(Discard(Emptied(m, s, size), s), s), s, Upsized(size), ok)
<1>1. size # 0
  OBVIOUS
<1> QED
  BY <1>1, Zenon DEF Allocate, Emptied, Counted

\* What is true of a string after allocate_nullable_string: it has the room asked for,
\* or points nowhere.
LEMMA AllocateIs ==
  ASSUME NEW m, NEW s \in Nodes, Sound(m), s \in Structs => s \in m.live,
         NEW size \in Nat, NEW ok, Possible(m, ok)
  PROVE  LET n == Allocate(m, s, size, ok) IN
         /\ Sound(n) /\ Alters(m, n, s) /\ n.node[s].null
         /\ m.node[s].counter > 0 => n.node[s].counter = m.node[s].counter
         /\ size > 0 => /\ n.node[s].text = 0
                        /\ n.node[s].value # None => size <= Room(n, n.node[s].value)
<1> DEFINE v == m.node[s]
           w == [v EXCEPT !.null = TRUE, !.text = IF size = 0 THEN v.text ELSE 0]
           a == [m EXCEPT !.node[s] = w]
<1>1. m \in Memories /\ ~m.fault /\ StringOK(m, s) /\ OwnsWhatItHolds(m, s)
  BY DEF Sound
<1>2. v \in NullableStrings /\ v.value \in Blocks \cup Lent \cup {None} /\ v.allocated \in Nat
      /\ v.counter \in Nat
  BY <1>1, MemoryFields, StringFields
<1>3. /\ w \in NullableStrings /\ w.null = TRUE /\ w.text = IF size = 0 THEN v.text ELSE 0
      /\ w.value = v.value /\ w.allocated = v.allocated /\ w.free_lock = v.free_lock
      /\ w.counter = v.counter
  BY <1>2 DEF NullableStrings
<1>4. [m EXCEPT !.node[s].null = TRUE, !.node[s].text = IF size = 0 THEN @ ELSE 0] = a
  OBVIOUS
<1> HIDE DEF w
<1>5. /\ a \in Memories /\ a.node[s] = w /\ \A q \in Nodes \ {s} : a.node[q] = m.node[q]
      /\ a.live = m.live /\ a.block = m.block /\ a.fault = m.fault
  BY <1>1, <1>3, SetString
<1> HIDE DEF a
<1>6. Sound(a) /\ Alters(m, a, s)
  BY <1>1, <1>3, <1>5, Relabelled
<1>7. CASE size = 0
  <2>1. Allocate(m, s, size, ok) = a
    BY <1>4, <1>7 DEF Allocate
  <2> QED
    BY <1>3, <1>5, <1>6, <1>7, <2>1
<1>8. CASE size > 0 /\ Reusable(v, size)
  <2>1. /\ v.value \in Blocks \cup Lent /\ v.value # None /\ size <= v.allocated
        /\ v.allocated <= Room(m, v.value)
    BY <1>1, <1>2, <1>8 DEF Reusable, StringOK
  <2>2. Room(a, v.value) = Room(m, v.value) /\ Room(m, v.value) \in Nat
    BY <1>1, <1>5, <2>1, RoomIs DEF Room
  <2>3. Write(a, v.value, size) = a /\ Write(a, v.value, v.allocated) = a
    BY <1>2, <2>1, <2>2 DEF Write
  <2>4. Allocate(m, s, size, ok) = a
    BY <1>4, <1>8, <2>3 DEF Allocate
  <2>5. size <= Room(a, v.value)
    BY <1>2, <2>1, <2>2
  <2> QED
    BY <1>3, <1>5, <1>6, <1>8, <2>4, <2>5
<1>9. CASE size > 0 /\ ~Reusable(v, size)
  <2> DEFINE d == Discard(a, s)
             c == IF d.node[s].counter = 0 THEN 1 ELSE d.node[s].counter
             e == [d EXCEPT !.node[s].counter = c]
             o == Obtain(e, s, Upsized(size), ok)
  <2>1. Allocate(m, s, size, ok) = o
    <3>1. Allocate(m, s, size, ok) =
            Obtain(Counted(Discard(Emptied(m, s, size), s), s), s, Upsized(size), ok)
      BY <1>9, AllocateAfresh
    <3>2. Emptied(m, s, size) = a
      BY <1>4 DEF Emptied
    <3>3. Counted(d, s) = e
      BY DEF Counted
    <3> HIDE DEF e
    <3>4. Counted(Discard(a, s), s) = e
      BY <3>3
    <3> QED
      BY <3>1, <3>2, <3>4
  <2>2. d = Discard(a, s) /\ o = Obtain(e, s, Upsized(size), ok)
    OBVIOUS
  <2> HIDE DEF d
  <2>3. /\ Alters(a, d, s) /\ ~d.fault
        /\ d.node[s] = [a.node[s] EXCEPT !.value = None, !.allocated = 0]
        /\ s \in Structs => Blockless(d, s)
        /\ NoneTaken(a, d)
    BY <1>6, <2>2, DiscardIs
  <2>20. /\ d.node[s].value = None /\ d.node[s].allocated = 0 /\ d.node[s].null = TRUE
        /\ d.node[s].text = 0 /\ d.node[s].counter = v.counter /\ d.node[s].free_lock = v.free_lock
    BY <1>3, <1>5, <1>9, <2>3 DEF NullableStrings
  <2>4. c \in 0..(Counter - 1) /\ (v.counter > 0 => c = v.counter)
    BY <1>2, <2>20, Sizes, StringFields
  <2> HIDE DEF c
  <2>5. /\ e \in Memories /\ e.live = d.live /\ e.block = d.block /\ e.fault = d.fault
        /\ e.node[s] = [d.node[s] EXCEPT !.counter = c]
        /\ \A q \in Nodes \ {s} : e.node[q] = d.node[q]
    <3>1. d \in Memories
      BY <2>3 DEF Alters, Changes
    <3> QED
      BY <2>4, <3>1, SetCounter
  <2> HIDE DEF e
  <2>6. /\ e.node[s] \in NullableStrings /\ d.node[s] \in NullableStrings
        /\ e.node[s].value = None /\ e.node[s].allocated = 0 /\ e.node[s].null = TRUE
        /\ e.node[s].text = 0 /\ e.node[s].counter = c /\ e.node[s].free_lock = v.free_lock
    <3>1. e.node[s] \in NullableStrings /\ d.node[s] \in NullableStrings
      BY <2>3, <2>5, MemoryFields DEF Alters, Changes
    <3> QED
      BY <2>20, <2>5, <3>1 DEF NullableStrings
  <2>7. Alters(m, e, s)
    <3>1. Alters(d, e, s)
      BY <2>5 DEF Alters, Changes
    <3> QED
      BY <1>6, <2>3, <3>1, AltersAgain
  <2>8. ok => \E b \in Blocks : e.block[b].size = 0
    BY <1>5, <2>3, <2>5 DEF Possible, NoneTaken
  <2>9. /\ Upsized(size) \in Nat \ {0} /\ size <= Upsized(size)
        /\ Upsized(size) % Allocated \in Nat /\ Upsized(size) % Allocated <= Upsized(size)
    <3>1. Upsized(size) \in Nat \ {0} /\ size <= Upsized(size)
      BY <1>9, UpsizedIs
    <3>2. \A k \in Nat : k % Allocated \in Nat /\ k % Allocated <= k
      BY Sizes
    <3> QED
      BY <3>1, <3>2
  <2> HIDE DEF o
  <2>10. /\ Alters(e, o, s) /\ o.fault = e.fault
         /\ ~ok => o = e
         /\ ok => \E b \in Blocks : Gets(e, o, s, b, Upsized(size))
    BY <2>2, <2>5, <2>8, <2>9, ObtainIs DEF Possible
  <2>11. Alters(m, o, s) /\ ~o.fault
    BY <2>3, <2>5, <2>7, <2>10, AltersAgain
  <2>12. CASE ~ok
    <3>1. o = e /\ StringOK(e, s)
      BY <1>1, <2>6, <2>10, <2>12, Distinct DEF StringOK
    <3>3. OwnsWhatItHolds(e, s)
      BY <2>3, <2>5 DEF OwnsWhatItHolds, Blockless
    <3>2. Sound(o)
      BY <2>11, <3>1, <3>3, OneString DEF Alters
    <3> QED
      BY <2>1, <2>4, <2>6, <2>11, <3>1, <3>2
  <2>13. CASE ok
    <3>1. PICK b \in Blocks :
            /\ o.node[s] = [e.node[s] EXCEPT !.value = b, !.allocated = Upsized(size) % Allocated]
            /\ o.block[b].size = Upsized(size) /\ o.block[b].owner = s
            /\ \A b1 \in Blocks \ {b} : o.block[b1] = e.block[b1]
      BY <2>10, <2>13 DEF Gets
    <3>2. /\ o.node[s].value = b /\ o.node[s].allocated = Upsized(size) % Allocated
          /\ o.node[s].null = TRUE /\ o.node[s].text = 0 /\ o.node[s].counter = c
          /\ o.node[s].free_lock = v.free_lock
      BY <2>6, <3>1 DEF NullableStrings
    <3>3. Room(o, b) = Upsized(size) /\ b \notin Lent /\ b # None
      BY <3>1, Distinct DEF Room
    <3>4. o.live = m.live
      BY <2>11 DEF Alters, Changes
    <3>5. StringOK(o, s)
      BY <1>1, <2>9, <3>1, <3>2, <3>3, <3>4 DEF StringOK
    <3>6. OwnsWhatItHolds(o, s)
      BY <2>3, <2>5, <3>1, <3>2 DEF OwnsWhatItHolds, Blockless
    <3>7. Sound(o)
      BY <2>11, <3>5, <3>6, OneString DEF Alters
    <3> QED
      BY <2>1, <2>4, <2>9, <2>11, <3>2, <3>3, <3>7
  <2> QED
    BY <2>12, <2>13 DEF Possible
<1> QED
  BY <1>7, <1>8, <1>9

--------------------------------------------------------------------------------
\* What every extraction leaves: a sound memory, and the count of a string in use.
Serves(m, n, s) ==
  /\ Sound(n) /\ Alters(m, n, s)
  /\ m.node[s].counter > 0 => n.node[s].counter = m.node[s].counter

\* How a string is told what it holds.
Labelled(m, s, null, text) == [m EXCEPT !.node[s].null = null, !.node[s].text = text]

\* A text, with its terminator, is only copied to where it was found to have room.
LEMMA ExtractIs ==
  ASSUME NEW m, NEW s \in Nodes, Sound(m), s \in Structs => s \in m.live,
         NEW k \in Nat, NEW ok, Possible(m, ok), NEW n, n = Extract(m, s, k, ok)
  PROVE  Serves(m, n, s)
<1> DEFINE a == Allocate(m, s, k + 1, ok)
           v == a.node[s]
<1>1. /\ Sound(a) /\ Alters(m, a, s) /\ v.null
      /\ m.node[s].counter > 0 => v.counter = m.node[s].counter
      /\ v.text = 0 /\ (v.value # None => k + 1 <= Room(a, v.value))
  <2>1. k + 1 \in Nat /\ k + 1 > 0
    OBVIOUS
  <2> QED
    BY <2>1, AllocateIs
<1>2. n = CASE k = 0 -> [a EXCEPT !.node[s].null = FALSE]
            [] k > 0 /\ v.value = None -> a
            [] OTHER -> Labelled(Write(a, v.value, k + 1), s, FALSE, k)
  BY Zenon DEF Extract, Labelled
<1> HIDE DEF a
<1>3. a \in Memories /\ ~a.fault /\ StringOK(a, s) /\ OwnsWhatItHolds(a, s) /\ v \in NullableStrings
  BY <1>1, MemoryFields DEF Sound
<1>4. CASE k > 0 /\ v.value = None
  <2>1. n = a
    BY <1>2, <1>4
  <2> QED
    BY <1>1, <2>1 DEF Serves
<1>5. CASE k = 0
  <2> DEFINE w == [v EXCEPT !.null = FALSE]
  <2>1. /\ w \in NullableStrings /\ w.text = 0 /\ w.value = v.value /\ w.allocated = v.allocated
        /\ w.free_lock = v.free_lock /\ w.counter = v.counter
    BY <1>1, <1>3 DEF NullableStrings
  <2>2. n = [a EXCEPT !.node[s] = w]
    BY <1>2, <1>5
  <2> HIDE DEF w
  <2>3. /\ n \in Memories /\ n.node[s] = w /\ \A q \in Nodes \ {s} : n.node[q] = a.node[q]
        /\ n.live = a.live /\ n.block = a.block /\ n.fault = a.fault
    BY <1>3, <2>1, <2>2, SetString
  <2>4. Sound(n) /\ Alters(a, n, s)
    BY <1>1, <2>1, <2>3, Relabelled
  <2> QED
    BY <1>1, <2>1, <2>3, <2>4, AltersAgain DEF Serves
<1>6. CASE k > 0 /\ v.value # None
  <2> DEFINE w == [v EXCEPT !.null = FALSE, !.text = k]
  <2>1. /\ w \in NullableStrings /\ w.text = k /\ w.value = v.value /\ w.allocated = v.allocated
        /\ w.free_lock = v.free_lock /\ w.counter = v.counter
    BY <1>1, <1>3 DEF NullableStrings
  <2>2. Write(a, v.value, k + 1) = a
    BY <1>1, <1>6 DEF Write
  <2>3. n = [a EXCEPT !.node[s] = w]
    <3>1. n = Labelled(Write(a, v.value, k + 1), s, FALSE, k)
      <4>1. k # 0 /\ ~(k > 0 /\ v.value = None)
        BY <1>6
      <4> QED
        BY <1>2, <4>1, Zenon
    <3>2. Labelled(a, s, FALSE, k) = [a EXCEPT !.node[s] = w]
      BY DEF Labelled
    <3> QED
      BY <2>2, <3>1, <3>2
  <2> HIDE DEF w
  <2>4. /\ n \in Memories /\ n.node[s] = w /\ \A q \in Nodes \ {s} : n.node[q] = a.node[q]
        /\ n.live = a.live /\ n.block = a.block /\ n.fault = a.fault
    BY <1>3, <2>1, <2>3, SetString
  <2>5. Alters(a, n, s)
    BY <2>4 DEF Alters, Changes
  <2>6. Room(n, v.value) = Room(a, v.value) /\ Room(a, v.value) \in Nat
    <3>1. v.value \in Blocks \cup Lent
      BY <1>3, <1>6, StringFields
    <3> QED
      BY <1>3, <2>4, <3>1, RoomIs DEF Room
  <2>7. StringOK(n, s)
    BY <1>1, <1>3, <1>6, <2>1, <2>4, <2>6 DEF StringOK
  <2>8. OwnsWhatItHolds(n, s)
    BY <1>3, <2>1, <2>4 DEF OwnsWhatItHolds
  <2>9. Sound(n)
    BY <1>1, <1>3, <2>4, <2>5, <2>7, <2>8, OneString DEF Alters
  <2> QED
    BY <1>1, <2>1, <2>4, <2>5, <2>9, AltersAgain DEF Serves
<1> QED
  BY <1>4, <1>5, <1>6

\* What is said to be null keeps its memory.
LEMMA ExtractNoneIs ==
  ASSUME NEW m, NEW s \in Nodes, Sound(m), NEW n, n \in {ExtractNull(m, s), ExtractOther(m, s)}
  PROVE  Serves(m, n, s)
<1> DEFINE v == m.node[s]
<1>1. m \in Memories /\ ~m.fault /\ StringOK(m, s) /\ v \in NullableStrings
  BY MemoryFields DEF Sound
<1>2. ASSUME NEW w \in NullableStrings, w.null = TRUE, w.value = v.value, w.allocated = v.allocated,
             w.free_lock = v.free_lock, w.counter = v.counter, n = [m EXCEPT !.node[s] = w]
      PROVE  Serves(m, n, s)
  <2>1. /\ n \in Memories /\ n.node[s] = w /\ \A q \in Nodes \ {s} : n.node[q] = m.node[q]
        /\ n.live = m.live /\ n.block = m.block /\ n.fault = m.fault
    BY <1>1, <1>2, SetString
  <2>2. Sound(n) /\ Alters(m, n, s)
    BY <1>2, <2>1, Relabelled
  <2> QED
    BY <1>2, <2>1, <2>2 DEF Serves
<1>3. CASE n = ExtractNull(m, s)
  <2> DEFINE w == [v EXCEPT !.null = TRUE, !.text = 0]
  <2>1. /\ w \in NullableStrings /\ w.null = TRUE /\ w.value = v.value /\ w.allocated = v.allocated
        /\ w.free_lock = v.free_lock /\ w.counter = v.counter
    BY <1>1 DEF NullableStrings
  <2>2. v.value # None => Write(m, v.value, 1) = m
    <3>1. v.value \in Blocks \cup Lent \cup {None}
      BY <1>1, StringFields
    <3>2. ASSUME v.value # None PROVE 1 <= Room(m, v.value)
      BY <1>1, <3>1, <3>2, RoomIs DEF StringOK
    <3> QED
      BY <3>2 DEF Write
  <2>3. n = [m EXCEPT !.node[s] = w]
    <3>1. n = Labelled(IF v.value # None THEN Write(m, v.value, 1) ELSE m, s, TRUE, 0)
      BY <1>3, Zenon DEF ExtractNull, Labelled
    <3>2. Labelled(m, s, TRUE, 0) = [m EXCEPT !.node[s] = w]
      BY DEF Labelled
    <3> QED
      BY <2>2, <3>1, <3>2
  <2> HIDE DEF w
  <2> QED
    BY <1>2, <2>1, <2>3
<1>4. CASE n = ExtractOther(m, s)
  <2> DEFINE w == [v EXCEPT !.null = TRUE]
  <2>1. /\ w \in NullableStrings /\ w.null = TRUE /\ w.value = v.value /\ w.allocated = v.allocated
        /\ w.free_lock = v.free_lock /\ w.counter = v.counter
    BY <1>1 DEF NullableStrings
  <2>2. n = [m EXCEPT !.node[s] = w]
    BY <1>4 DEF ExtractOther
  <2> HIDE DEF w
  <2> QED
    BY <1>2, <2>1, <2>2
<1> QED
  BY <1>3, <1>4

--------------------------------------------------------------------------------
\* What Purge lets go of before it frees the block.
LetGo(m, s) ==
  [m EXCEPT !.node[s].free_lock = FALSE, !.node[s].allocated = 0,
            !.node[s].value = None, !.node[s].text = 0]

\* A purged string has neither text nor block.
LEMMA PurgeIs ==
  ASSUME NEW m, NEW s \in Nodes, Sound(m), NEW n, n = Purge(m, s)
  PROVE  /\ Sound(n) /\ Alters(m, n, s) /\ n.node[s].value = None
         /\ n.node[s].counter = m.node[s].counter
<1> DEFINE v == m.node[s]
           w == [v EXCEPT !.free_lock = FALSE, !.allocated = 0, !.value = None, !.text = 0]
           l == [m EXCEPT !.node[s] = w]
<1>1. m \in Memories /\ ~m.fault /\ StringOK(m, s) /\ OwnsWhatItHolds(m, s) /\ v \in NullableStrings
  BY MemoryFields DEF Sound
<1>2. /\ w \in NullableStrings /\ w.value = None /\ w.text = 0 /\ w.free_lock = FALSE
      /\ w.counter = v.counter
  BY <1>1, Sizes DEF NullableStrings
<1>3. LetGo(m, s) = l
  BY DEF LetGo
<1> HIDE DEF w
<1>4. /\ l \in Memories /\ l.node[s] = w /\ \A q \in Nodes \ {s} : l.node[q] = m.node[q]
      /\ l.live = m.live /\ l.block = m.block /\ l.fault = m.fault
  BY <1>1, <1>2, SetString
<1> HIDE DEF l
<1>5. n = IF v.free_lock \/ v.value = None THEN LetGo(m, s)
          ELSE ExtractOther(Free(LetGo(m, s), v.value), s)
  BY Zenon DEF Purge, LetGo, ExtractOther
<1>6. Alters(m, l, s)
  BY <1>4 DEF Alters, Changes
<1>7. CASE v.free_lock \/ v.value = None
  <2>1. n = l
    BY <1>3, <1>5, <1>7
  <2>2. StringOK(l, s)
    BY <1>2, <1>4, Distinct DEF StringOK
  <2>3. OwnsWhatItHolds(l, s)
    <3>1. s \in Structs => v.value = None
      BY <1>1, <1>7 DEF StringOK
    <3> QED
      BY <1>1, <1>4, <3>1, Distinct DEF OwnsWhatItHolds
  <2> QED
    BY <1>1, <1>2, <1>4, <1>6, <2>1, <2>2, <2>3, OneString DEF Alters
<1>8. CASE ~(v.free_lock \/ v.value = None)
  <2> DEFINE f == Free(l, v.value)
             u == [w EXCEPT !.null = TRUE]
  <2>1. v.value \in Blocks /\ m.block[v.value].size > 0 /\ m.block[v.value].owner = s
    BY <1>1, <1>8, StringFields DEF StringOK
  <2>2. f = Free(l, v.value) /\ n = ExtractOther(f, s)
    BY <1>3, <1>5, <1>8
  <2> HIDE DEF f
  <2>3. /\ Alters(l, f, s) /\ f.node = l.node /\ f.fault = l.fault
        /\ f.block[v.value].size = 0 /\ \A b \in Blocks \ {v.value} : f.block[b] = l.block[b]
    BY <1>4, <2>1, <2>2, FreeIs
  <2>4. u \in NullableStrings /\ u.value = None /\ u.text = 0 /\ u.free_lock = FALSE /\ u.counter = v.counter
    BY <1>2 DEF NullableStrings
  <2>5. n = [f EXCEPT !.node[s] = u]
    <3>1. ExtractOther(f, s) = [f EXCEPT !.node[s] = [f.node[s] EXCEPT !.null = TRUE]]
      BY DEF ExtractOther
    <3>2. f.node[s] = w
      BY <1>4, <2>3
    <3> QED
      BY <2>2, <3>1, <3>2
  <2> HIDE DEF u
  <2>6. f \in Memories
    BY <2>3 DEF Alters, Changes
  <2>7. /\ n \in Memories /\ n.node[s] = u /\ \A q \in Nodes \ {s} : n.node[q] = f.node[q]
        /\ n.live = f.live /\ n.block = f.block /\ n.fault = f.fault
    BY <2>4, <2>5, <2>6, SetString
  <2>8. Alters(f, n, s)
    BY <2>7 DEF Alters, Changes
  <2>9. Alters(m, n, s)
    BY <1>6, <2>3, <2>8, AltersAgain
  <2>10. StringOK(n, s)
    BY <2>4, <2>7, Distinct DEF StringOK
  <2>11. OwnsWhatItHolds(n, s)
    BY <1>1, <1>4, <2>1, <2>3, <2>7 DEF OwnsWhatItHolds
  <2> QED
    BY <1>1, <1>4, <2>3, <2>4, <2>7, <2>9, <2>10, <2>11, OneString DEF Alters
<1> QED
  BY <1>7, <1>8

\* What a string that is not there holds.
LEMMA ZeroedIs ==
  /\ Zeroed \in NullableStrings /\ Zeroed.value = None /\ Zeroed.text = 0 /\ Zeroed.null = TRUE
  /\ Zeroed.free_lock = FALSE /\ Zeroed.counter = 0
  BY Sizes DEF Zeroed, NullableStrings

\* A memory of which a string alone is allocated, freed or counted.
WithLive(m, s, l) == [m EXCEPT !.live = l, !.node[s] = Zeroed]
WithCounter(m, s, c) == [m EXCEPT !.node[s].counter = c]

\* A string that was not allocated, or is freed after it has been purged.
LEMMA ZeroedSound ==
  ASSUME NEW m, NEW s \in Structs, Sound(m), m.node[s].value = None,
         NEW n, NEW l \in SUBSET Structs, l \ {s} = m.live \ {s},
         n = WithLive(m, s, l)
  PROVE  Sound(n) /\ Changes(m, n, s) /\ n.live = l /\ n.node[s] = Zeroed
<1> DEFINE k == [m EXCEPT !.live = l]
<1>1. m \in Memories /\ ~m.fault /\ OwnsWhatItHolds(m, s) /\ s \in Nodes
  BY Distinct DEF Sound
<1>2. n = [k EXCEPT !.node[s] = Zeroed]
  BY DEF WithLive
<1>3. k \in Memories /\ k.live = l /\ k.node = m.node /\ k.block = m.block /\ k.fault = m.fault
  BY <1>1 DEF Memories
<1> HIDE DEF k
<1>4. /\ n \in Memories /\ n.node[s] = Zeroed /\ \A q \in Nodes \ {s} : n.node[q] = k.node[q]
      /\ n.live = k.live /\ n.block = k.block /\ n.fault = k.fault
  <2> DEFINE r == [k EXCEPT !.node[s] = Zeroed]
  <2>1. /\ r \in Memories /\ r.node[s] = Zeroed /\ \A q \in Nodes \ {s} : r.node[q] = k.node[q]
        /\ r.live = k.live /\ r.block = k.block /\ r.fault = k.fault
    BY <1>1, <1>3, ZeroedIs, SetString
  <2>2. n = r
    BY <1>2
  <2> HIDE DEF r
  <2> QED
    BY <2>1, <2>2
<1>5. Changes(m, n, s)
  BY <1>3, <1>4 DEF Changes
<1>6. StringOK(n, s)
  BY <1>4, ZeroedIs, Distinct DEF StringOK
<1>7. OwnsWhatItHolds(n, s)
  BY <1>1, <1>3, <1>4, Distinct DEF OwnsWhatItHolds
<1> QED
  BY <1>1, <1>3, <1>4, <1>5, <1>6, <1>7, OneString

\* The count alone is another: what the string holds is as it was.
Keeps(m, n, s) ==
  /\ n.node[s].null = m.node[s].null /\ n.node[s].text = m.node[s].text
  /\ n.node[s].value = m.node[s].value

\* Writing a counter harms nothing else of a sound memory.
LEMMA CounterSound ==
  ASSUME NEW m, NEW s \in Nodes, Sound(m), NEW c \in 0..(Counter - 1)
  PROVE  /\ Sound(WithCounter(m, s, c)) /\ Alters(m, WithCounter(m, s, c), s)
         /\ WithCounter(m, s, c).node[s].counter = c /\ WithCounter(m, s, c).block = m.block
         /\ Keeps(m, WithCounter(m, s, c), s)
<1> DEFINE n == WithCounter(m, s, c)
<1>1. m \in Memories /\ m.node[s] \in NullableStrings
  BY MemoryFields DEF Sound
<1>2. /\ n \in Memories /\ n.live = m.live /\ n.block = m.block /\ n.fault = m.fault
      /\ n.node[s] = [m.node[s] EXCEPT !.counter = c]
      /\ \A q \in Nodes \ {s} : n.node[q] = m.node[q]
  BY <1>1, SetCounter DEF WithCounter
<1> HIDE DEF n
<1>3. /\ n.node[s].counter = c /\ n.node[s].null = m.node[s].null /\ n.node[s].text = m.node[s].text
      /\ n.node[s].value = m.node[s].value /\ n.node[s].allocated = m.node[s].allocated
      /\ n.node[s].free_lock = m.node[s].free_lock
  BY <1>1, <1>2 DEF NullableStrings
<1>4. Sound(n) /\ Alters(m, n, s)
  BY <1>2, <1>3, Relabelled
<1> QED
  BY <1>2, <1>3, <1>4 DEF n, Keeps

\* A holder lets go: while others remain the count is all that changes, and with the
\* last one contents, and structure if the flags say so, are gone.
LEMMA FreeStringIs ==
  ASSUME NEW m, NEW s \in Nodes, Sound(m), NEW flags, flags # {},
         flags \cap {"FREE_LOCKED", "FORCE_FREE_CONTENTS", "FORCE_FREE_STRUCT"} = {},
         NEW c, c = IF m.node[s].counter > 0 THEN m.node[s].counter - 1 ELSE 0,
         NEW n, n = FreeString(m, s, flags)
  PROVE  /\ Dereferenced(m, s).node[s].counter = c
         /\ c > 0 => n = WithCounter(m, s, c)
         /\ c = 0 /\ flags \cap {"FREE_STRUCT", "RELEASE_STRUCT"} = {} => Sound(n) /\ Alters(m, n, s)
         /\ c = 0 /\ flags \cap {"FREE_STRUCT", "RELEASE_STRUCT"} # {} /\ s \in Structs /\ s \in m.live
              => Sound(n) /\ Changes(m, n, s) /\ n.live = m.live \ {s} /\ n.node[s] = Zeroed
<1> DEFINE d == WithCounter(m, s, c)
           q == IF PurgesContents(d, s, flags) THEN Purge(d, s) ELSE d
<1>1. m \in Memories /\ m.node[s] \in NullableStrings
  BY MemoryFields DEF Sound
<1>2. c \in 0..(Counter - 1) /\ (c > 0 \/ c = 0)
  BY <1>1, Sizes, StringFields
<1>3. Dereferenced(m, s) = d
  BY DEF Dereferenced, WithCounter
<1>4. n = IF FreesStruct(d, s, flags) THEN FreeStruct(q, s) ELSE q
  BY <1>3, Zenon DEF FreeString
<1>5. d = WithCounter(m, s, c)
  OBVIOUS
<1> HIDE DEF d
<1>6. Sound(d) /\ Alters(m, d, s) /\ d.node[s].counter = c
  BY <1>2, <1>5, CounterSound
<1>7. PurgesContents(d, s, flags) <=> c = 0
  BY <1>6 DEF PurgesContents
<1>8. FreesStruct(d, s, flags) <=> c = 0 /\ flags \cap {"FREE_STRUCT", "RELEASE_STRUCT"} # {}
  BY <1>6 DEF FreesStruct
<1>9. CASE c > 0
  BY <1>3, <1>4, <1>5, <1>6, <1>7, <1>8, <1>9
<1>10. CASE c = 0
  <2>1. q = Purge(d, s)
    BY <1>7, <1>10
  <2> HIDE DEF q
  <2>2. Sound(q) /\ Alters(d, q, s) /\ q.node[s].value = None
    BY <1>6, <2>1, PurgeIs
  <2>3. Alters(m, q, s)
    BY <1>6, <2>2, AltersAgain
  <2>4. CASE flags \cap {"FREE_STRUCT", "RELEASE_STRUCT"} = {}
    BY <1>3, <1>4, <1>6, <1>8, <1>10, <2>2, <2>3, <2>4
  <2>5. ASSUME flags \cap {"FREE_STRUCT", "RELEASE_STRUCT"} # {}, s \in Structs, s \in m.live
        PROVE  Sound(n) /\ Changes(m, n, s) /\ n.live = m.live \ {s} /\ n.node[s] = Zeroed
    <3> DEFINE z == WithLive(q, s, q.live \ {s})
    <3>1. n = FreeStruct(q, s)
      BY <1>4, <1>8, <1>10, <2>5
    <3>2. q.live = m.live /\ q \in Memories
      BY <2>3 DEF Alters, Changes
    <3>3. n = z
      BY <2>5, <3>1, <3>2 DEF FreeStruct, WithLive
    <3>4. z = WithLive(q, s, q.live \ {s})
      OBVIOUS
    <3> HIDE DEF z
    <3>5. q.live \ {s} \in SUBSET Structs /\ (q.live \ {s}) \ {s} = q.live \ {s}
      BY <3>2, MemoryFields
    <3>6. Sound(z) /\ Changes(q, z, s) /\ z.live = q.live \ {s} /\ z.node[s] = Zeroed
      BY <2>2, <2>5, <3>4, <3>5, ZeroedSound
    <3>7. Changes(m, z, s)
      BY <2>3, <3>6 DEF Alters, Changes
    <3> QED
      BY <3>2, <3>3, <3>6, <3>7
  <2> QED
    BY <1>3, <1>6, <1>10, <2>4, <2>5
<1> QED
  BY <1>2, <1>9, <1>10

\* A string that is made has one holder, whatever it is given.
LEMMA FreshIs ==
  ASSUME NEW m, NEW s \in Structs \ m.live, Sound(m), NEW size \in Nat, NEW ok, Possible(m, ok),
         NEW n, n = Allocate([Fresh(m, s) EXCEPT !.node[s].counter = 1], s, size, ok)
  PROVE  Sound(n) /\ Changes(m, n, s) /\ n.live = m.live \cup {s} /\ n.node[s].counter = 1
<1> DEFINE z == Fresh(m, s)
           f == WithCounter(z, s, 1)
           l == m.live \cup {s}
<1>1. m \in Memories /\ StringOK(m, s) /\ s \in Nodes /\ m.node[s].value = None
  BY Distinct DEF Sound, StringOK
<1>2. l \in SUBSET Structs /\ l \ {s} = m.live \ {s}
  BY <1>1, MemoryFields
<1>3. z = WithLive(m, s, l)
  BY DEF Fresh, WithLive
<1>4. f = WithCounter(z, s, 1) /\ n = Allocate(f, s, size, ok) /\ l = m.live \cup {s}
  BY DEF WithCounter
<1> HIDE DEF z, l
<1>5. Sound(z) /\ Changes(m, z, s) /\ z.live = l
  BY <1>1, <1>2, <1>3, ZeroedSound
<1>6. z.block = m.block
  BY <1>1, <1>3 DEF Memories, WithLive
<1> HIDE DEF f
<1>7. 1 \in 0..(Counter - 1)
  BY Sizes
<1>8. Sound(f) /\ Alters(z, f, s) /\ f.node[s].counter = 1 /\ f.block = z.block
  BY <1>1, <1>4, <1>5, <1>7, CounterSound
<1>9. Possible(f, ok) /\ s \in f.live /\ f.live = l
  BY <1>4, <1>5, <1>6, <1>8 DEF Possible, Alters
<1>10. /\ Sound(n) /\ Alters(f, n, s)
       /\ f.node[s].counter > 0 => n.node[s].counter = f.node[s].counter
  BY <1>1, <1>4, <1>8, <1>9, AllocateIs
<1>11. Changes(m, n, s)
  <2>1. Alters(z, n, s)
    BY <1>8, <1>10, AltersAgain
  <2> QED
    BY <1>5, <2>1 DEF Alters, Changes
<1>12. n.live = m.live \cup {s}
  BY <1>4, <1>9, <1>10 DEF Alters
<1>13. n.node[s].counter = 1
  BY <1>8, <1>10
<1> QED
  BY <1>10, <1>11, <1>12, <1>13

--------------------------------------------------------------------------------
\* Who points to a string; the counts of a memory, and its soundness.
Holds(p, s) == {h \in Holders : p[h] = s}

Counts(m, p) ==
  \A s \in Structs :
    (s \in m.live <=> Holds(p, s) # {}) /\ m.node[s].counter = Cardinality(Holds(p, s))

Pointers == [Holders -> Structs \cup {None}]
Points(p, h, x) == [p EXCEPT ![h] = x]

State(m, p) == Sound(m) /\ p \in Pointers /\ Counts(m, p)

\* A step of one holder disturbs no other.
Independent(m, n, p, q) ==
  \A g, h \in Holders : p[g] # None /\ g # h /\ q[h] # p[h] => q[g] = p[g] /\ Keeps(m, n, p[g])

\* StringInv speaks of nothing but the memory and the pointers.
LEMMA StateIs == (StringInv <=> State(memory, ptr)) /\ (StringInv' <=> State(memory', ptr'))
<1>1. /\ memory.node = node /\ memory.live = live
      /\ (memory').node = node' /\ (memory').live = live'
  BY DEF memory
<1>2. \A s \in Structs : HoldersOf(s) = Holds(ptr, s) /\ HoldersOf(s)' = Holds(ptr', s)
  BY DEF HoldersOf, Holds
<1>3. CountsHolders <=> Counts(memory, ptr)
  BY <1>1, <1>2 DEF CountsHolders, Counts
<1>4. CountsHolders' <=> Counts(memory', ptr')
  BY <1>1, <1>2 DEF CountsHolders, Counts
<1>5. Sound(memory)' <=> Sound(memory')
  BY DEF Sound, StringOK, OwnsWhatItHolds, Room
<1> QED
  BY <1>3, <1>4, <1>5 DEF StringInv, State, Pointers

\* What the actions write to the variables is the memory their helper returned.
LEMMA Becomes == ASSUME NEW n \in Memories, Become(n) PROVE memory' = n
  BY DEF memory, Become, Memories

\* There are fewer holders than a counter can count.
LEMMA Few ==
  ASSUME NEW p, NEW s
  PROVE  /\ IsFiniteSet(Holds(p, s)) /\ Cardinality(Holds(p, s)) \in Nat
         /\ Cardinality(Holds(p, s)) < Counter
         /\ Cardinality(Holds(p, s)) = 0 <=> Holds(p, s) = {}
<1>1. Holds(p, s) \subseteq Holders /\ IsFiniteSet(Holders)
  BY StringsAssumption DEF Holds
<1>2. IsFiniteSet(Holds(p, s)) /\ Cardinality(Holds(p, s)) <= Cardinality(Holders)
  BY <1>1, FS_Subset
<1>3. Cardinality(Holds(p, s)) \in Nat /\ Cardinality(Holders) \in Nat
  BY <1>1, <1>2, FS_CardinalityType
<1>4. Cardinality(Holders) < Counter /\ Counter \in Nat
  BY StringsAssumption, Sizes
<1>5. Cardinality(Holds(p, s)) = 0 <=> Holds(p, s) = {}
  BY <1>2, FS_EmptySet
<1>6. Cardinality(Holds(p, s)) < Counter
  BY <1>2, <1>3, <1>4
<1> QED
  BY <1>2, <1>3, <1>5, <1>6

\* One more holder, ...
LEMMA Joins ==
  ASSUME NEW p \in Pointers, NEW h \in Holders, NEW s \in Structs, p[h] = None
  PROVE  LET q == Points(p, h, s) IN
         /\ q \in Pointers
         /\ Holds(q, s) # {} /\ Cardinality(Holds(q, s)) = Cardinality(Holds(p, s)) + 1
         /\ \A t \in Structs \ {s} : Holds(q, t) = Holds(p, t)
<1> DEFINE q == Points(p, h, s)
<1>1. q \in Pointers /\ q[h] = s /\ \A g \in Holders \ {h} : q[g] = p[g]
  BY DEF Pointers, Points
<1> HIDE DEF q
<1>2. None \notin Structs
  BY Distinct
<1>3. h \notin Holds(p, s) /\ Holds(q, s) = Holds(p, s) \cup {h}
  BY <1>1, <1>2 DEF Holds
<1>4. \A t \in Structs \ {s} : Holds(q, t) = Holds(p, t)
  BY <1>1, <1>2 DEF Holds
<1>5. Cardinality(Holds(p, s) \cup {h}) = Cardinality(Holds(p, s)) + 1
  BY <1>3, Few, FS_AddElement
<1> QED
  BY <1>1, <1>3, <1>4, <1>5 DEF q

\* ... and one less.
LEMMA Leaves ==
  ASSUME NEW p \in Pointers, NEW h \in Holders, NEW s \in Structs, p[h] = s
  PROVE  LET q == Points(p, h, None) IN
         /\ q \in Pointers /\ q[h] = None
         /\ Holds(p, s) # {} /\ Cardinality(Holds(p, s)) = Cardinality(Holds(q, s)) + 1
         /\ \A t \in Structs \ {s} : Holds(q, t) = Holds(p, t)
<1> DEFINE q == Points(p, h, None)
<1>1. q \in Pointers /\ q[h] = None /\ \A g \in Holders \ {h} : q[g] = p[g]
  BY DEF Pointers, Points
<1> HIDE DEF q
<1>2. None \notin Structs
  BY Distinct
<1>3. h \notin Holds(q, s) /\ Holds(p, s) = Holds(q, s) \cup {h}
  BY <1>1, <1>2 DEF Holds
<1>4. \A t \in Structs \ {s} : Holds(q, t) = Holds(p, t)
  BY <1>1, <1>2 DEF Holds
<1>5. Cardinality(Holds(q, s) \cup {h}) = Cardinality(Holds(q, s)) + 1
  BY <1>3, Few, FS_AddElement
<1> QED
  BY <1>1, <1>3, <1>4, <1>5 DEF q

\* The string a holder points to is there, and counts it.
LEMMA Held ==
  ASSUME NEW m, NEW p, State(m, p), NEW h \in Holders, p[h] # None
  PROVE  /\ p[h] \in Structs /\ p[h] \in Nodes /\ p[h] \in m.live
         /\ m.node[p[h]].counter > 0 /\ m.node[p[h]].counter \in Nat
         /\ m.node[p[h]].counter < Counter
<1>1. p[h] \in Structs /\ p[h] \in Nodes
  BY Distinct DEF State, Pointers
<1>2. h \in Holds(p, p[h])
  BY DEF Holds
<1>3. m.node[p[h]].counter = Cardinality(Holds(p, p[h])) /\ p[h] \in m.live
  BY <1>1, <1>2 DEF State, Counts
<1> QED
  BY <1>1, <1>2, <1>3, Few

\* A memory whose counts are as they were, one with a holder more, and one with one less.
LEMMA Stayed ==
  ASSUME NEW m, NEW n, NEW p, NEW s \in Nodes, State(m, p), Sound(n), Alters(m, n, s),
         s \in Structs => n.node[s].counter = m.node[s].counter
  PROVE  State(n, p) /\ Independent(m, n, p, p)
<1>1. n.live = m.live /\ \A t \in Structs : n.node[t].counter = m.node[t].counter
  BY Distinct DEF Alters, Changes
<1>2. Counts(n, p)
  BY <1>1 DEF State, Counts
<1> QED
  BY <1>2 DEF State, Independent

\* A holder takes a string and counts itself: the counters are still those of the holders.
LEMMA Joined ==
  ASSUME NEW m, NEW n, NEW p, NEW s \in Structs, NEW h \in Holders, State(m, p), Sound(n),
         Changes(m, n, s), p[h] = None, n.live = m.live \cup {s},
         n.node[s].counter = m.node[s].counter + 1,
         NEW q, q = Points(p, h, s)
  PROVE  State(n, q)
<1>1. /\ q \in Pointers
      /\ Holds(q, s) # {} /\ Cardinality(Holds(q, s)) = Cardinality(Holds(p, s)) + 1
      /\ \A t \in Structs \ {s} : Holds(q, t) = Holds(p, t)
  <2>1. p \in Pointers
    BY DEF State
  <2> QED
    BY ONLY <2>1, Joins, s \in Structs, h \in Holders, p[h] = None, q = Points(p, h, s)
<1>2. \A t \in Structs \ {s} : (t \in n.live <=> t \in m.live) /\ n.node[t] = m.node[t]
  BY Distinct DEF Changes
<1>3. Counts(m, p)
  BY DEF State
<1>4. \A t \in Structs \ {s} :
        (t \in n.live <=> Holds(q, t) # {}) /\ n.node[t].counter = Cardinality(Holds(q, t))
  BY <1>1, <1>2, <1>3 DEF Counts
<1>5. s \in n.live /\ n.node[s].counter = Cardinality(Holds(q, s))
  BY <1>1, <1>3 DEF Counts
<1>6. Counts(n, q)
  BY <1>1, <1>4, <1>5 DEF Counts
<1> QED
  BY <1>1, <1>6 DEF State

\* A holder leaves a string and counts itself out, and the string dies with its last holder.
LEMMA Left ==
  ASSUME NEW m, NEW n, NEW p, NEW h \in Holders, State(m, p), p[h] # None, NEW s, s = p[h],
         Sound(n), Changes(m, n, s),
         n.node[s].counter = m.node[s].counter - 1,
         n.live = IF m.node[s].counter = 1 THEN m.live \ {s} ELSE m.live,
         NEW q, q = Points(p, h, None)
  PROVE  State(n, q)
<1>0. s \in Structs /\ s \in Nodes /\ s \in m.live /\ m.node[s].counter \in Nat
  BY Held
<1>1. /\ q \in Pointers
      /\ Holds(p, s) # {} /\ Cardinality(Holds(p, s)) = Cardinality(Holds(q, s)) + 1
      /\ \A t \in Structs \ {s} : Holds(q, t) = Holds(p, t)
  <2>1. p \in Pointers
    BY DEF State
  <2> QED
    BY ONLY <1>0, <2>1, Leaves, h \in Holders, s = p[h], q = Points(p, h, None)
<1>2. \A t \in Structs \ {s} : (t \in n.live <=> t \in m.live) /\ n.node[t] = m.node[t]
  BY Distinct DEF Changes
<1>3. Counts(m, p)
  BY DEF State
<1>4. \A t \in Structs \ {s} :
        (t \in n.live <=> Holds(q, t) # {}) /\ n.node[t].counter = Cardinality(Holds(q, t))
  BY <1>1, <1>2, <1>3 DEF Counts
<1>5. n.node[s].counter = Cardinality(Holds(q, s))
  <2>1. m.node[s].counter = Cardinality(Holds(p, s))
    BY <1>0, <1>3 DEF Counts
  <2>2. Cardinality(Holds(q, s)) \in Nat
    BY Few
  <2> QED
    BY <1>1, <2>1, <2>2
<1>6. s \in n.live <=> Holds(q, s) # {}
  <2>1. Cardinality(Holds(q, s)) = 0 <=> Holds(q, s) = {}
    BY Few
  <2>2. m.node[s].counter = 1 <=> Holds(q, s) = {}
    <3>1. n.node[s].counter = m.node[s].counter - 1
      OBVIOUS
    <3> QED
      BY ONLY <1>0, <1>5, <2>1, <3>1
  <2> QED
    BY <1>0, <2>2
<1>7. Counts(n, q)
  BY <1>4, <1>5, <1>6 DEF Counts
<1> QED
  BY <1>1, <1>7 DEF State

\* A step in which h alone changes its pointer disturbs nobody, if nobody else holds a
\* string that is changed but for its count.
LEMMA Undisturbed ==
  ASSUME NEW m, NEW n, NEW p \in Pointers, NEW h \in Holders, NEW x, NEW q,
         q = Points(p, h, x),
         \A g \in Holders \ {h} : p[g] # None => Keeps(m, n, p[g])
  PROVE  Independent(m, n, p, q)
<1>1. \A g \in Holders \ {h} : q[g] = p[g]
  BY DEF Pointers, Points
<1> QED
  BY <1>1 DEF Independent

\* A string that is alone with its holder is held by nobody else.
LEMMA Alone ==
  ASSUME NEW m, NEW p, State(m, p), NEW h \in Holders, NEW g \in Holders \ {h}, p[h] # None,
         m.node[p[h]].counter = 1
  PROVE  p[g] # p[h]
<1>1. p[h] \in Structs /\ p \in Pointers
  BY Held DEF State
<1> DEFINE q == [p EXCEPT ![h] = None]
<1>2. q = Points(p, h, None) /\ q[g] = p[g]
  BY <1>1 DEF Pointers, Points
<1> HIDE DEF q
<1>3. Cardinality(Holds(p, p[h])) = Cardinality(Holds(q, p[h])) + 1
  BY ONLY <1>1, <1>2, Leaves, h \in Holders
<1>4. Cardinality(Holds(p, p[h])) = 1
  BY <1>1 DEF State, Counts
<1>5. Holds(q, p[h]) = {}
  BY <1>3, <1>4, Few
<1> QED
  BY <1>2, <1>5 DEF Holds

--------------------------------------------------------------------------------
\* What every step does: all is as it should be, and no holder has disturbed another.
Proceeds(m, n, p, q) == State(n, q) /\ Independent(m, n, p, q)

\* An extraction or an allocation into a string that is in use.
LEMMA Serve ==
  ASSUME NEW m, NEW n, NEW p, NEW s \in Nodes, State(m, p), Serves(m, n, s),
         s \in Structs => m.node[s].counter > 0
  PROVE  Proceeds(m, n, p, p)
  BY Stayed DEF Serves, Proceeds

\* A new string for a holder that has none.
LEMMA Make ==
  ASSUME NEW m, NEW p, State(m, p), NEW h \in Holders, p[h] = None, NEW s \in Structs \ m.live,
         NEW size \in Nat, NEW ok, Possible(m, ok),
         NEW n, n = Allocate([Fresh(m, s) EXCEPT !.node[s].counter = 1], s, size, ok)
  PROVE  Proceeds(m, n, p, Points(p, h, s))
<1>1. Sound(m) /\ p \in Pointers /\ Counts(m, p)
  BY DEF State
<1>2. Sound(n) /\ Changes(m, n, s) /\ n.live = m.live \cup {s} /\ n.node[s].counter = 1
  BY <1>1, FreshIs
<1>3. m.node[s].counter = 0
  <2>1. Holds(p, s) = {} /\ m.node[s].counter = Cardinality(Holds(p, s))
    BY <1>1 DEF Counts
  <2> QED
    BY <2>1, Few
<1>4. n.node[s].counter = m.node[s].counter + 1
  BY <1>2, <1>3
<1>5. State(n, Points(p, h, s))
  BY ONLY <1>2, <1>4, Joined, State(m, p), p[h] = None, h \in Holders, s \in Structs \ m.live
<1>6. ASSUME NEW g \in Holders \ {h}, p[g] # None PROVE Keeps(m, n, p[g])
  <2>1. p[g] \in Nodes \ {s}
    BY <1>6, Held
  <2>2. n.node[p[g]] = m.node[p[g]]
    BY <1>2, <2>1 DEF Changes
  <2> QED
    BY <2>2 DEF Keeps
<1>7. Independent(m, n, p, Points(p, h, s))
  BY <1>1, <1>6, Undisturbed
<1> QED
  BY <1>5, <1>7 DEF Proceeds

\* A holder takes a share: the count has room for it.
LEMMA Take ==
  ASSUME NEW m, NEW p, State(m, p), NEW g \in Holders, NEW h \in Holders, p[g] # None, p[h] = None
  PROVE  Proceeds(m, WithCounter(m, p[g], (m.node[p[g]].counter + 1) % Counter), p, Points(p, h, p[g]))
<1> DEFINE s == p[g]
           c == (m.node[s].counter + 1) % Counter
           n == WithCounter(m, s, c)
<1>1. Sound(m) /\ p \in Pointers /\ Counts(m, p)
  BY DEF State
<1>2. s \in Structs /\ s \in Nodes /\ s \in m.live /\ m.node[s].counter \in Nat
  BY Held
<1>3. c = m.node[s].counter + 1 /\ c \in 0..(Counter - 1)
  <2>1. m.node[s].counter = Cardinality(Holds(p, s))
    BY <1>1, <1>2 DEF Counts
  <2>2. Cardinality(Holds(Points(p, h, s), s)) = Cardinality(Holds(p, s)) + 1
    BY <1>1, <1>2, Joins
  <2>3. Cardinality(Holds(Points(p, h, s), s)) < Counter
    BY Few
  <2>4. m.node[s].counter + 1 < Counter /\ Counter \in Nat
    BY <2>1, <2>2, <2>3, Sizes
  <2>5. \A k \in Nat : k < Counter => k % Counter = k
    BY <2>4
  <2> QED
    BY <1>2, <2>4, <2>5
<1> HIDE DEF c
<1>4. Sound(n) /\ Alters(m, n, s) /\ n.node[s].counter = c /\ Keeps(m, n, s)
  BY <1>1, <1>2, <1>3, CounterSound
<1> HIDE DEF n
<1>5. Changes(m, n, s) /\ n.live = m.live \cup {s} /\ n.node[s].counter = m.node[s].counter + 1
  BY <1>2, <1>3, <1>4 DEF Alters
<1>6. State(n, Points(p, h, s))
  BY <1>2, <1>4, <1>5, Joined
<1>7. ASSUME NEW f \in Holders \ {h}, p[f] # None PROVE Keeps(m, n, p[f])
  <2>1. p[f] \in Nodes
    BY <1>7, Held
  <2> QED
    BY <1>4, <1>5, <2>1 DEF Changes, Keeps
<1>8. Independent(m, n, p, Points(p, h, s))
  BY <1>1, <1>7, Undisturbed
<1> QED
  BY <1>6, <1>8 DEF Proceeds, n, c

\* A holder leaves a string to the others, ...
LEMMA Leave ==
  ASSUME NEW m, NEW p, State(m, p), NEW h \in Holders, p[h] # None, m.node[p[h]].counter > 1
  PROVE  LET n == WithCounter(m, p[h], m.node[p[h]].counter - 1) IN
         /\ Proceeds(m, n, p, Points(p, h, None)) /\ n.live = m.live /\ n.block = m.block
<1> DEFINE s == p[h]
           c == m.node[s].counter - 1
           n == WithCounter(m, s, c)
<1>1. Sound(m) /\ p \in Pointers /\ Counts(m, p)
  BY DEF State
<1>2. s \in Structs /\ s \in Nodes /\ s \in m.live /\ m.node[s].counter \in Nat
      /\ m.node[s].counter < Counter
  BY Held
<1>3. c \in 0..(Counter - 1)
  BY <1>2, Sizes
<1>4. c = m.node[s].counter - 1
  OBVIOUS
<1> HIDE DEF c
<1>5. Sound(n) /\ Alters(m, n, s) /\ n.node[s].counter = c /\ Keeps(m, n, s) /\ n.block = m.block
  BY <1>1, <1>2, <1>3, CounterSound
<1> HIDE DEF n
<1>6. Changes(m, n, s) /\ n.node[s].counter = m.node[s].counter - 1 /\ n.live = m.live
  BY <1>4, <1>5 DEF Alters
<1>7. n.live = IF m.node[s].counter = 1 THEN m.live \ {s} ELSE m.live
  BY <1>2, <1>6
<1>8. State(n, Points(p, h, None))
  BY <1>5, <1>6, <1>7, Left
<1>9. ASSUME NEW f \in Holders \ {h}, p[f] # None PROVE Keeps(m, n, p[f])
  <2>1. p[f] \in Nodes
    BY <1>9, Held
  <2> QED
    BY <1>5, <1>6, <2>1 DEF Changes, Keeps
<1>10. Independent(m, n, p, Points(p, h, None))
  BY <1>1, <1>9, Undisturbed
<1> QED
  BY <1>5, <1>6, <1>8, <1>10 DEF Proceeds, n, c

\* ... or it is the last one, and the string is freed.
LEMMA Finish ==
  ASSUME NEW m, NEW n, NEW p, State(m, p), NEW h \in Holders, p[h] # None,
         m.node[p[h]].counter = 1, Sound(n), Changes(m, n, p[h]), n.live = m.live \ {p[h]},
         n.node[p[h]] = Zeroed
  PROVE  Proceeds(m, n, p, Points(p, h, None))
<1>1. n.node[p[h]].counter = m.node[p[h]].counter - 1
  BY ZeroedIs
<1>2. State(n, Points(p, h, None))
  BY <1>1, Left
<1>3. ASSUME NEW f \in Holders \ {h}, p[f] # None PROVE Keeps(m, n, p[f])
  <2>1. p[f] \in Nodes /\ p[f] # p[h]
    BY <1>3, Held, Alone
  <2> QED
    BY <2>1 DEF Changes, Keeps
<1>4. p \in Pointers
  BY DEF State
<1>5. Independent(m, n, p, Points(p, h, None))
  BY <1>3, <1>4, Undisturbed
<1> QED
  BY <1>2, <1>5 DEF Proceeds

\* One that leaves may go to a string of its own.
LEMMA Move ==
  ASSUME NEW m, NEW l, NEW n, NEW p, NEW h \in Holders, NEW s \in Structs, State(m, p), p[h] # None,
         Proceeds(m, l, p, Points(p, h, None)),
         Proceeds(l, n, Points(p, h, None), Points(Points(p, h, None), h, s))
  PROVE  Proceeds(m, n, p, Points(p, h, s))
<1> DEFINE r == Points(p, h, None)
           q == Points(r, h, s)
<1>1. p \in Pointers /\ None \notin Structs
  BY Distinct DEF State
<1>2. /\ r[h] = None /\ q[h] = s /\ q = Points(p, h, s)
      /\ \A g \in Holders \ {h} : r[g] = p[g] /\ q[g] = p[g]
  BY <1>1 DEF Pointers, Points
<1> HIDE DEF r, q
<1>3. Independent(m, l, p, r) /\ Independent(l, n, r, q) /\ State(n, q)
  BY DEF Proceeds, r, q
<1>4. ASSUME NEW g \in Holders \ {h}, p[g] # None PROVE Keeps(m, n, p[g])
  <2>1. Keeps(m, l, p[g])
    BY <1>2, <1>3, <1>4 DEF Independent
  <2>2. Keeps(l, n, p[g])
    BY <1>1, <1>2, <1>3, <1>4 DEF Independent
  <2> QED
    BY <2>1, <2>2 DEF Keeps
<1>5. Independent(m, n, p, q)
  BY <1>1, <1>2, <1>4, Undisturbed
<1> QED
  BY <1>2, <1>3, <1>5 DEF Proceeds

--------------------------------------------------------------------------------
\* The memory of the variables, and the actions as steps of it.
LEMMA Now ==
  /\ memory.node = node /\ memory.live = live /\ memory.block = block /\ memory.fault = fault
  /\ \A ok \in MayAllocate : Possible(memory, ok)
<1>1. memory.node = node /\ memory.live = live /\ memory.block = block /\ memory.fault = fault
  BY DEF memory
<1> QED
  BY <1>1 DEF MayAllocate, Possible

\* What the invariant says of the memory at hand.
LEMMA Known == ASSUME StringInv PROVE State(memory, ptr) /\ Sound(memory) /\ memory \in Memories
  BY StateIs DEF State, Sound

\* A string of default size for a holder without one.
LEMMA NewStep ==
  ASSUME StringInv, NEW h \in Holders, New(h)
  PROVE  Proceeds(memory, memory', ptr, ptr')
<1>1. PICK s \in NextStruct, ok \in MayAllocate :
        /\ Become(Allocate([Fresh(memory, s) EXCEPT !.node[s].counter = 1], s, DefaultSize, ok))
        /\ ptr' = [ptr EXCEPT ![h] = s]
  BY DEF New
<1> DEFINE n == Allocate([Fresh(memory, s) EXCEPT !.node[s].counter = 1], s, DefaultSize, ok)
<1>2. s \in Structs \ memory.live /\ Possible(memory, ok) /\ ptr[h] = None /\ DefaultSize \in Nat
  BY Now, Sizes DEF NextStruct, New
<1>3. n = Allocate([Fresh(memory, s) EXCEPT !.node[s].counter = 1], s, DefaultSize, ok)
  OBVIOUS
<1>4. Become(n) /\ ptr' = Points(ptr, h, s)
  BY <1>1 DEF Points
<1> HIDE DEF n
<1>5. Proceeds(memory, n, ptr, Points(ptr, h, s))
  BY <1>2, <1>3, Known, Make
<1>6. memory' = n
  BY <1>4, <1>5, Becomes DEF Proceeds, State, Sound
<1> QED
  BY <1>4, <1>5, <1>6

\* copy_nullable_string: one more holder of a string.
LEMMA ShareStep ==
  ASSUME StringInv, NEW h \in Holders, NEW g \in Holders, Share(h, g)
  PROVE  Proceeds(memory, memory', ptr, ptr')
<1>1. memory' = WithCounter(memory, ptr[g], (memory.node[ptr[g]].counter + 1) % Counter)
  BY DEF Share, memory, WithCounter
<1>2. ptr' = Points(ptr, h, ptr[g]) /\ ptr[g] # None /\ ptr[h] = None
  BY DEF Share, Points
<1> QED
  BY <1>1, <1>2, Known, Take

\* An extraction into a field or into a string that is held.
LEMMA IntoStep ==
  ASSUME StringInv, NEW s \in Nodes, s \in Structs => s \in live /\ node[s].counter > 0,
         Into(s), UNCHANGED ptr
  PROVE  Proceeds(memory, memory', ptr, ptr') /\ Changes(memory, memory', s)
<1>1. s \in Structs => s \in memory.live /\ memory.node[s].counter > 0
  BY Now
<1>2. ASSUME NEW n, Become(n), Serves(memory, n, s)
      PROVE  Proceeds(memory, memory', ptr, ptr') /\ Changes(memory, memory', s)
  <2>1. memory' = n
    BY <1>2, Becomes DEF Serves, Sound
  <2>2. Changes(memory, n, s)
    BY <1>2 DEF Serves, Alters
  <2> QED
    BY <1>1, <1>2, <2>1, <2>2, Known, Serve
<1>3. ASSUME NEW k \in Lengths, NEW ok \in MayAllocate, Become(Extract(memory, s, k, ok))
      PROVE  Proceeds(memory, memory', ptr, ptr') /\ Changes(memory, memory', s)
  <2>1. k \in Nat /\ Possible(memory, ok)
    BY <1>3, Now, StringsAssumption
  <2>2. Serves(memory, Extract(memory, s, k, ok), s)
    BY <1>1, <2>1, Known, ExtractIs
  <2> QED
    BY <1>2, <1>3, <2>2
<1>4. Serves(memory, ExtractNull(memory, s), s) /\ Serves(memory, ExtractOther(memory, s), s)
  BY Known, ExtractNoneIs
<1> QED
  BY <1>2, <1>3, <1>4 DEF Into

\* recycle_nullable_string of a string nobody else holds: its block is reused or replaced.
LEMMA RecycleStep ==
  ASSUME StringInv, NEW h \in Holders, Recycle(h)
  PROVE  /\ Proceeds(memory, memory', ptr, ptr') /\ Changes(memory, memory', ptr[h])
         /\ ptr' = ptr /\ ptr[h] # None /\ memory.node[ptr[h]].counter = 1
<1> DEFINE s == ptr[h]
           m == WithCounter(memory, s, 1)
<1>1. s \in Structs /\ s \in Nodes /\ s \in memory.live /\ memory.node[s].counter = 1
  BY Known, Held, Now DEF Recycle
<1>2. PICK k \in Lengths, ok \in MayAllocate : Become(Allocate(m, s, k, ok))
  BY DEF Recycle, WithCounter
<1>3. Sound(m) /\ Alters(memory, m, s) /\ m.node[s].counter = 1 /\ m.block = memory.block
  BY <1>1, Known, Sizes, CounterSound
<1> DEFINE n == Allocate(m, s, k, ok)
<1>4. Sound(n) /\ Alters(m, n, s) /\ n.node[s].counter = 1
  <2>1. k \in Nat /\ Possible(m, ok)
    BY <1>3, Now, StringsAssumption DEF Possible
  <2>2. s \in m.live
    BY <1>1, <1>3 DEF Alters
  <2> HIDE DEF m
  <2>3. Sound(n) /\ Alters(m, n, s) /\ (m.node[s].counter > 0 => n.node[s].counter = m.node[s].counter)
    BY <1>1, <1>3, <2>1, <2>2, AllocateIs
  <2> QED
    BY <1>3, <2>3
<1> HIDE DEF m, n
<1>5. Serves(memory, n, s)
  BY <1>1, <1>3, <1>4, AltersAgain DEF Serves
<1>6. memory' = n
  BY <1>2, <1>4, Becomes DEF Sound, n
<1>7. ptr' = ptr
  BY DEF Recycle
<1>8. Changes(memory, n, s)
  BY <1>5 DEF Serves, Alters
<1>9. ptr[h] # None
  BY DEF Recycle
<1> QED
  BY <1>1, <1>5, <1>6, <1>7, <1>8, <1>9, Known, Serve

\* recycle_nullable_string of a shared string: the holder leaves it for a new one.
LEMMA RecycleSharedStep ==
  ASSUME StringInv, NEW h \in Holders, Recycle_Shared(h)
  PROVE  Proceeds(memory, memory', ptr, ptr')
<1> DEFINE l == WithCounter(memory, ptr[h], memory.node[ptr[h]].counter - 1)
           r == Points(ptr, h, None)
<1>1. ptr[h] # None /\ memory.node[ptr[h]].counter > 1
  BY Now DEF Recycle_Shared
<1>2. Leaving(ptr[h]) = l
  BY DEF Leaving, WithCounter
<1>3. l = WithCounter(memory, ptr[h], memory.node[ptr[h]].counter - 1)
  OBVIOUS
<1> HIDE DEF l
<1>4. Proceeds(memory, l, ptr, r) /\ l.live = memory.live /\ l.block = memory.block
  BY <1>1, <1>3, Known, Leave
<1>5. CASE Become(Leaving(ptr[h])) /\ ptr' = [ptr EXCEPT ![h] = None]
  <2>1. memory' = l
    BY <1>2, <1>4, <1>5, Becomes DEF Proceeds, State, Sound
  <2> QED
    BY <1>4, <1>5, <2>1 DEF Points
<1>6. ASSUME NEW s \in NextStruct, NEW k \in Lengths, NEW ok \in MayAllocate,
             Become(Allocate([Fresh(Leaving(ptr[h]), s) EXCEPT !.node[s].counter = 1], s, k, ok)),
             ptr' = [ptr EXCEPT ![h] = s]
      PROVE  Proceeds(memory, memory', ptr, ptr')
  <2> DEFINE n == Allocate([Fresh(l, s) EXCEPT !.node[s].counter = 1], s, k, ok)
  <2>1. s \in Structs \ l.live /\ k \in Nat /\ Possible(l, ok)
    BY <1>4, Now, StringsAssumption DEF NextStruct, Possible
  <2>2. n = Allocate([Fresh(l, s) EXCEPT !.node[s].counter = 1], s, k, ok) /\ Become(n)
    BY <1>2, <1>6
  <2>3. ptr' = Points(ptr, h, s)
    BY <1>6 DEF Points
  <2> HIDE DEF n
  <2>4. r[h] = None /\ State(l, r)
    BY <1>4, Known DEF Proceeds, State, Points, Pointers
  <2> HIDE DEF r
  <2>5. Proceeds(l, n, r, Points(r, h, s))
    BY <2>1, <2>2, <2>4, Make
  <2>6. memory' = n
    BY <2>2, <2>5, Becomes DEF Proceeds, State, Sound
  <2>7. Proceeds(memory, n, ptr, Points(ptr, h, s))
    BY <1>1, <1>4, <2>1, <2>5, Known, Move DEF r
  <2> QED
    BY <2>3, <2>6, <2>7
<1> QED
  BY <1>5, <1>6 DEF Recycle_Shared

\* free_nullable_string, with any of the flags that let go of the pointer.
LEMMA ReleaseStep ==
  ASSUME StringInv, NEW h \in Holders, Release(h)
  PROVE  Proceeds(memory, memory', ptr, ptr')
<1> DEFINE s == ptr[h]
           c == IF memory.node[s].counter > 0 THEN memory.node[s].counter - 1 ELSE 0
<1>1. PICK flags \in {FreeDefault, {"RELEASE_STRUCT"}, {"FREE_STRUCT"}} :
        Become(FreeString(memory, s, flags))
  BY DEF Release
<1>2. s # None /\ ptr' = Points(ptr, h, None)
  BY DEF Release, Points
<1>3. s \in Structs /\ s \in Nodes /\ s \in memory.live
      /\ memory.node[s].counter > 0 /\ memory.node[s].counter \in Nat
  BY <1>2, Known, Held
<1>4. /\ flags # {} /\ flags \cap {"FREE_LOCKED", "FORCE_FREE_CONTENTS", "FORCE_FREE_STRUCT"} = {}
      /\ flags \cap {"FREE_STRUCT", "RELEASE_STRUCT"} # {}
  BY DEF FreeDefault
<1> DEFINE n == FreeString(memory, s, flags)
<1>5. n = FreeString(memory, s, flags) /\ Become(n)
  BY <1>1
<1> HIDE DEF n
<1>6. c = memory.node[s].counter - 1 /\ (c > 0 \/ c = 0)
  BY <1>3
<1>7. c = IF memory.node[s].counter > 0 THEN memory.node[s].counter - 1 ELSE 0
  OBVIOUS
<1> HIDE DEF c
<1>8. /\ c > 0 => n = WithCounter(memory, s, c)
      /\ c = 0 => Sound(n) /\ Changes(memory, n, s) /\ n.live = memory.live \ {s} /\ n.node[s] = Zeroed
  BY <1>3, <1>4, <1>5, <1>7, Known, FreeStringIs
<1>9. Proceeds(memory, n, ptr, Points(ptr, h, None))
  <2>1. CASE c > 0
    <3>1. memory.node[s].counter > 1
      BY <1>3, <1>6, <2>1
    <3>2. n = WithCounter(memory, s, memory.node[s].counter - 1)
      BY <1>6, <1>8, <2>1
    <3> QED
      BY <1>2, <3>1, <3>2, Known, Leave
  <2>2. CASE c = 0
    <3>1. memory.node[s].counter = 1
      BY <1>3, <1>6, <2>2
    <3> QED
      BY <1>2, <1>8, <2>2, <3>1, Known, Finish
  <2> QED
    BY <1>6, <2>1, <2>2
<1>10. memory' = n
  BY <1>5, <1>9, Becomes DEF Proceeds, State, Sound
<1> QED
  BY <1>2, <1>9, <1>10

\* free_nullable_string_contents of a field.
LEMMA FreeFieldStep ==
  ASSUME StringInv, NEW f \in Fields, FreeField(f)
  PROVE  Proceeds(memory, memory', ptr, ptr') /\ Changes(memory, memory', f)
<1> DEFINE c == IF memory.node[f].counter > 0 THEN memory.node[f].counter - 1 ELSE 0
           n == FreeString(memory, f, {"FREE_CONTENTS"})
<1>1. f \in Nodes /\ f \notin Structs
  BY Distinct
<1>2. n = FreeString(memory, f, {"FREE_CONTENTS"}) /\ Become(n) /\ ptr' = ptr
  BY DEF FreeField
<1> HIDE DEF n
<1>3. c \in 0..(Counter - 1) /\ (c > 0 \/ c = 0)
  BY <1>1, Known, MemoryFields, StringFields, Sizes
<1>4. c = IF memory.node[f].counter > 0 THEN memory.node[f].counter - 1 ELSE 0
  OBVIOUS
<1> HIDE DEF c
<1>5. /\ c > 0 => n = WithCounter(memory, f, c)
      /\ c = 0 => Sound(n) /\ Alters(memory, n, f)
  <2> DEFINE flags == {"FREE_CONTENTS"}
  <2>1. /\ flags # {} /\ flags \cap {"FREE_LOCKED", "FORCE_FREE_CONTENTS", "FORCE_FREE_STRUCT"} = {}
        /\ flags \cap {"FREE_STRUCT", "RELEASE_STRUCT"} = {} /\ n = FreeString(memory, f, flags)
    BY <1>2
  <2> HIDE DEF flags
  <2> QED
    BY <1>1, <1>4, <2>1, Known, FreeStringIs
<1>6. Sound(n) /\ Alters(memory, n, f)
  BY <1>1, <1>3, <1>5, Known, CounterSound
<1>7. memory' = n
  BY <1>2, <1>6, Becomes DEF Sound
<1> QED
  BY <1>1, <1>2, <1>6, <1>7, Known, Stayed DEF Proceeds, Alters

\* The application points an empty field to memory of its own.
LEMMA LendStep ==
  ASSUME StringInv, NEW f \in Fields, Lend(f)
  PROVE  Proceeds(memory, memory', ptr, ptr') /\ Changes(memory, memory', f)
<1>1. PICK n \in Lendable :
        node' = [node EXCEPT ![f] =
                   [@ EXCEPT !.null = FALSE, !.free_lock = TRUE, !.allocated = n % Allocated,
                             !.value = [lent |-> n], !.text = n - 1]]
  BY DEF Lend
<1>2. f \in Nodes /\ f \notin Structs /\ memory.node[f].value = None /\ node[f] \in NullableStrings
  BY Distinct, Known, Now, MemoryFields DEF Lend
<1>3. n \in Nat \ {0} /\ n % Allocated \in 0..(Allocated - 1) /\ n % Allocated <= n
  <2>1. n \in Nat \ {0}
    BY StringsAssumption
  <2> QED
    BY <2>1, Sizes
<1> DEFINE x == [lent |-> n]
<1>4. x \in Lent /\ x.lent = n /\ x \notin Blocks /\ x # None
  BY Distinct DEF Lent
<1> DEFINE w == [node[f] EXCEPT !.null = FALSE, !.free_lock = TRUE, !.allocated = n % Allocated,
                                !.value = x, !.text = n - 1]
<1>5. memory' = [memory EXCEPT !.node[f] = w] /\ ptr' = ptr
  BY <1>1 DEF Lend, memory
<1> HIDE DEF x
<1>6. /\ w \in NullableStrings /\ w.null = FALSE /\ w.free_lock = TRUE /\ w.allocated = n % Allocated
      /\ w.value = x /\ w.text = n - 1 /\ w.counter = node[f].counter
  <2>1. n % Allocated \in 0..(Allocated - 1) /\ n - 1 \in Nat /\ x \in Blocks \cup Lent \cup {None}
    BY <1>3, <1>4
  <2> DEFINE d == n % Allocated
             k == n - 1
  <2> HIDE DEF d, k
  <2>2. w = [node[f] EXCEPT !.null = FALSE, !.free_lock = TRUE, !.allocated = d, !.value = x, !.text = k]
    BY DEF d, k
  <2>3. d \in 0..(Allocated - 1) /\ k \in Nat
    BY <2>1 DEF d, k
  <2> HIDE DEF w
  <2> QED
    BY <1>2, <2>1, <2>2, <2>3 DEF NullableStrings, d, k
<1> HIDE DEF w
<1>7. PICK m : m = memory'
  OBVIOUS
<1>8. /\ m \in Memories /\ m.node[f] = w /\ \A q \in Nodes \ {f} : m.node[q] = memory.node[q]
      /\ m.live = memory.live /\ m.block = memory.block /\ m.fault = memory.fault
  BY <1>2, <1>5, <1>6, <1>7, Known, SetString
<1>9. Alters(memory, m, f)
  BY <1>8 DEF Alters, Changes
<1>10. Room(m, x) = n
  BY <1>4 DEF Room
<1>11. StringOK(m, f)
  BY <1>2, <1>3, <1>4, <1>6, <1>8, <1>10 DEF StringOK
<1>12. OwnsWhatItHolds(m, f)
  BY <1>2 DEF OwnsWhatItHolds
<1>13. Sound(m)
  BY <1>2, <1>8, <1>9, <1>11, <1>12, Known, OneString DEF Alters, Sound
<1> QED
  BY <1>2, <1>5, <1>7, <1>9, <1>13, Known, Stayed DEF Proceeds, Alters

--------------------------------------------------------------------------------
\* No string exists in the beginning.
LEMMA InitString == Init => StringInv
<1> SUFFICES ASSUME Init PROVE StringInv
  OBVIOUS
<1> DEFINE m == memory
<1>1. /\ m.node = [s \in Nodes |-> Zeroed] /\ m.live = {} /\ m.block = [b \in Blocks |-> NoBlock]
      /\ m.fault = FALSE /\ ptr = [h \in Holders |-> None]
  BY Now DEF Init
<1>2. NoBlock \in BlockRecords /\ NoBlock.size = 0
  BY DEF NoBlock, BlockRecords
<1>3. m = [node |-> [s \in Nodes |-> Zeroed], live |-> {}, block |-> [b \in Blocks |-> NoBlock],
           fault |-> FALSE]
  BY DEF memory, Init
<1>4. m \in Memories
  BY <1>2, <1>3, ZeroedIs DEF Memories
<1> HIDE DEF m
<1>5. ASSUME NEW s \in Nodes PROVE StringOK(m, s) /\ OwnsWhatItHolds(m, s)
  <2>1. m.node[s] = Zeroed /\ \A b \in Blocks : m.block[b].size = 0
    BY <1>1, <1>2
  <2> QED
    BY <2>1, ZeroedIs, Distinct DEF StringOK, OwnsWhatItHolds
<1>6. Sound(m)
  BY <1>1, <1>4, <1>5 DEF Sound
<1>7. ASSUME NEW s \in Structs
      PROVE  (s \in m.live <=> Holds(ptr, s) # {}) /\ m.node[s].counter = Cardinality(Holds(ptr, s))
  <2>1. Holds(ptr, s) = {}
    BY <1>1, Distinct DEF Holds
  <2>2. m.node[s].counter = 0
    BY <1>1, ZeroedIs, Distinct
  <2> QED
    BY <1>1, <2>1, <2>2, Few
<1>8. ptr \in Pointers
  BY <1>1 DEF Pointers
<1> QED
  BY <1>6, <1>7, <1>8, StateIs DEF State, Counts, m

\* Every step keeps the invariant and what the others read.
LEMMA NextString ==
  ASSUME StringInv, [Next]_vars
  PROVE  Proceeds(memory, memory', ptr, ptr')
<1>1. CASE UNCHANGED vars
  BY <1>1, Known DEF vars, memory, Proceeds, Independent
<1>2. ASSUME NEW h \in Holders, New(h) PROVE Proceeds(memory, memory', ptr, ptr')
  BY <1>2, NewStep
<1>3. ASSUME NEW h \in Holders, ExtractToHeld(h) PROVE Proceeds(memory, memory', ptr, ptr')
  <2>1. ptr[h] \in Nodes /\ ptr[h] \in live /\ node[ptr[h]].counter > 0
    BY <1>3, Known, Held, Now DEF ExtractToHeld
  <2> QED
    BY <1>3, <2>1, IntoStep DEF ExtractToHeld
<1>4. ASSUME NEW h \in Holders, Recycle(h) PROVE Proceeds(memory, memory', ptr, ptr')
  BY <1>4, RecycleStep
<1>5. ASSUME NEW h \in Holders, Recycle_Shared(h) PROVE Proceeds(memory, memory', ptr, ptr')
  BY <1>5, RecycleSharedStep
<1>6. ASSUME NEW h \in Holders, Release(h) PROVE Proceeds(memory, memory', ptr, ptr')
  BY <1>6, ReleaseStep
<1>7. ASSUME NEW h \in Holders, NEW g \in Holders, Share(h, g) PROVE Proceeds(memory, memory', ptr, ptr')
  BY <1>7, ShareStep
<1>8. ASSUME NEW f \in Fields, ExtractToField(f) PROVE Proceeds(memory, memory', ptr, ptr')
  BY <1>8, IntoStep, Distinct DEF ExtractToField
<1>9. ASSUME NEW f \in Fields, FreeField(f) PROVE Proceeds(memory, memory', ptr, ptr')
  BY <1>9, FreeFieldStep
<1>10. ASSUME NEW f \in Fields, Lend(f) PROVE Proceeds(memory, memory', ptr, ptr')
  BY <1>10, LendStep
<1> QED
  BY <1>1, <1>2, <1>3, <1>4, <1>5, <1>6, <1>7, <1>8, <1>9, <1>10 DEF Next

\* The inductive invariant holds of every reachable state.
LEMMA StringInvariance == Spec => []StringInv
<1>1. StringInv /\ [Next]_vars => StringInv'
  BY NextString, StateIs DEF Proceeds
<1> QED
  BY <1>1, InitString, PTL DEF Spec

\* Every field holds what its bits can, and holders point to strings.
THEOREM StringTypeCorrect == Spec => []StringTypeOK
<1>1. StringInv => StringTypeOK
  BY Known, Now, MemoryFields DEF StringTypeOK, BlockRecords, StringInv
<1> QED
  BY <1>1, StringInvariance, PTL

\* No block is freed twice, none that is lent is freed, and nothing is written beyond
\* the memory it is written to, whichever allocations fail.
THEOREM NothingFaults == Spec => []NoFault
<1>1. StringInv => NoFault
  BY Known, Now DEF NoFault, Sound
<1> QED
  BY <1>1, StringInvariance, PTL

\* The count of a string on the heap is that of its holders, and it is freed with the last.
THEOREM CountsCorrect == Spec => []CountsHolders
<1>1. StringInv => CountsHolders
  BY DEF StringInv
<1> QED
  BY <1>1, StringInvariance, PTL

\* A block allocated for a string on the heap is its text until it is freed.
THEOREM NothingLeaks == Spec => []NoLeak
<1>1. ASSUME StringInv PROVE NoLeak
  <2> SUFFICES ASSUME NEW b \in Blocks, block[b].size > 0, block[b].owner \in Structs
               PROVE  block[b].owner \in live /\ node[block[b].owner].value = b
    BY DEF NoLeak
  <2> DEFINE s == block[b].owner
  <2>1. s \in Nodes /\ StringOK(memory, s) /\ OwnsWhatItHolds(memory, s)
    BY <1>1, Known, Distinct DEF Sound
  <2>2. node[s].value = b /\ b # None
    BY <2>1, Now, Distinct DEF OwnsWhatItHolds
  <2> QED
    BY <2>1, <2>2, Now DEF StringOK
<1> QED
  BY <1>1, StringInvariance, PTL

\* A text lies, terminator included, in the memory the string points to.
THEOREM TextsFit == Spec => []TextFits
<1>1. StringInv => TextFits
  BY Known, Now DEF TextFits, Sound, StringOK
<1> QED
  BY <1>1, StringInvariance, PTL

\* A step that moves the pointer of h only, and disturbs no other holder, ...
LEMMA MovesAlone ==
  ASSUME StringInv, NEW h \in Holders, NEW x, x # ptr[h], ptr' = [ptr EXCEPT ![h] = x],
         Independent(memory, memory', ptr, ptr'), NEW g \in Holders, ptr[g] # None
  PROVE  \/ ptr'[g] = ptr[g] /\ Keeps(memory, memory', ptr[g])
         \/ ptr'[g] # ptr[g] /\ \A k \in Holders \ {g} : ptr'[k] = ptr[k]
<1>1. ptr'[h] = x /\ \A k \in Holders \ {h} : ptr'[k] = ptr[k]
  BY Known DEF State, Pointers
<1> QED
  BY <1>1 DEF Independent

\* ... and one that is about one string only changes what its holders read.
LEMMA StaysApart ==
  ASSUME StringInv, NEW s \in Nodes, Changes(memory, memory', s), ptr' = ptr,
         NEW g \in Holders, ptr[g] # None, ptr[g] # s
  PROVE  ptr'[g] = ptr[g] /\ Keeps(memory, memory', ptr[g])
<1>1. ptr[g] \in Nodes \ {s}
  BY Known, Held
<1> QED
  BY <1>1 DEF Changes, Keeps

\* What a holder reads, and where it points, is changed by its own steps, and by an
\* extraction into the string it holds, but by no other.
THEOREM HoldersApart == Spec => HoldersIndependent
<1> DEFINE Same(g)  == ptr'[g] = ptr[g] /\ Keeps(memory, memory', ptr[g])
           Moved(g) == ptr'[g] # ptr[g] /\ \A h \in Holders \ {g} : ptr'[h] = ptr[h]
           Wrote(g) == ptr' = ptr /\ (ExtractToHeld(g) \/ Recycle(g))
<1>1. ASSUME StringInv, Next, NEW g \in Holders, ptr[g] # None
      PROVE  Same(g) \/ Moved(g) \/ Wrote(g)
  <2>0. /\ Proceeds(memory, memory', ptr, ptr') /\ Independent(memory, memory', ptr, ptr')
        /\ ptr[g] \in Structs /\ ptr[g] \in live
    BY <1>1, NextString, Known, Held, Now DEF Proceeds
  <2>1. ASSUME NEW h \in Holders, NEW x, x # ptr[h], ptr' = [ptr EXCEPT ![h] = x]
        PROVE  Same(g) \/ Moved(g)
    BY <1>1, <2>0, <2>1, MovesAlone
  <2>2. ASSUME NEW s \in Nodes, Changes(memory, memory', s), ptr' = ptr, ptr[g] # s
        PROVE  Same(g)
    BY <1>1, <2>2, StaysApart
  <2>3. ASSUME NEW h \in Holders, New(h) PROVE Same(g) \/ Moved(g)
    <3>1. PICK s \in NextStruct : ptr[h] = None /\ ptr' = [ptr EXCEPT ![h] = s]
      BY <2>3 DEF New
    <3>2. s # ptr[h]
      BY <3>1, Distinct DEF NextStruct
    <3> QED
      BY <2>1, <3>1, <3>2
  <2>4. ASSUME NEW h \in Holders, ExtractToHeld(h) PROVE Same(g) \/ Wrote(g)
    <3>1. ptr[h] # None /\ ptr' = ptr /\ Into(ptr[h])
      BY <2>4 DEF ExtractToHeld
    <3>2. ptr[h] \in Nodes /\ ptr[h] \in live /\ node[ptr[h]].counter > 0
      BY <1>1, <3>1, Known, Held, Now
    <3>3. CASE ptr[g] = ptr[h]
      BY <1>1, <3>1, <3>3 DEF ExtractToHeld
    <3>4. CASE ptr[g] # ptr[h]
      <4>1. Changes(memory, memory', ptr[h])
        BY <1>1, <3>1, <3>2, IntoStep
      <4> QED
        BY <2>2, <3>1, <3>2, <3>4, <4>1
    <3> QED
      BY <3>3, <3>4
  <2>5. ASSUME NEW h \in Holders, Recycle(h) PROVE Same(g) \/ Wrote(g)
    <3>1. /\ Changes(memory, memory', ptr[h]) /\ ptr' = ptr /\ ptr[h] # None
          /\ memory.node[ptr[h]].counter = 1
      BY <1>1, <2>5, RecycleStep
    <3>2. CASE g = h
      BY <2>5, <3>1, <3>2
    <3>3. CASE g # h
      <4>1. ptr[g] # ptr[h] /\ ptr[h] \in Nodes
        BY <1>1, <3>1, <3>3, Known, Alone, Held
      <4> QED
        BY <2>2, <3>1, <4>1
    <3> QED
      BY <3>2, <3>3
  <2>6. ASSUME NEW h \in Holders, Recycle_Shared(h) PROVE Same(g) \/ Moved(g)
    <3>1. ptr[h] # None /\ ptr[h] \in live
      BY <1>1, <2>6, Known, Held, Now DEF Recycle_Shared
    <3>2. \E x \in NextStruct \cup {None} : ptr' = [ptr EXCEPT ![h] = x]
      BY <2>6 DEF Recycle_Shared
    <3> QED
      BY <2>1, <3>1, <3>2 DEF NextStruct
  <2>7. ASSUME NEW h \in Holders, Release(h) PROVE Same(g) \/ Moved(g)
    BY <2>1, <2>7 DEF Release
  <2>8. ASSUME NEW h \in Holders, NEW f \in Holders, Share(h, f) PROVE Same(g) \/ Moved(g)
    BY <2>1, <2>8 DEF Share
  <2>9. ASSUME NEW f \in Fields, f \in Nodes, f # ptr[g], ExtractToField(f) \/ FreeField(f) \/ Lend(f)
        PROVE  Same(g)
    <3>1. ptr' = ptr
      BY <2>9 DEF ExtractToField, FreeField, Lend
    <3>2. CASE ExtractToField(f)
      <4>1. f \notin Structs /\ Into(f)
        BY <3>2, Distinct DEF ExtractToField
      <4>2. Changes(memory, memory', f)
        BY <1>1, <2>9, <3>1, <4>1, IntoStep
      <4> QED
        BY <2>2, <2>9, <3>1, <4>2
    <3>3. CASE FreeField(f)
      BY <1>1, <2>2, <2>9, <3>1, <3>3, FreeFieldStep
    <3>4. CASE Lend(f)
      BY <1>1, <2>2, <2>9, <3>1, <3>4, LendStep
    <3> QED
      BY <2>9, <3>2, <3>3, <3>4
  <2>10. \A f \in Fields : f \in Nodes /\ f # ptr[g]
    BY <2>0, Distinct
  <2> HIDE DEF Same, Moved, Wrote
  <2> QED
    BY <1>1, <2>3, <2>4, <2>5, <2>6, <2>7, <2>8, <2>9, <2>10 DEF Next
<1>2. ASSUME StringInv, [Next]_vars
      PROVE  [\A g \in Holders : ptr[g] # None =>
                \/ ptr'[g] = ptr[g] /\ Reads(g)' = Reads(g)
                \/ ptr'[g] # ptr[g] /\ \A h \in Holders \ {g} : ptr'[h] = ptr[h]
                \/ ptr' = ptr /\ (ExtractToHeld(g) \/ Recycle(g))]_vars
  <2> SUFFICES ASSUME Next, NEW g \in Holders, ptr[g] # None
               PROVE  (ptr'[g] = ptr[g] /\ Reads(g)' = Reads(g)) \/ Moved(g) \/ Wrote(g)
    BY <1>2
  <2>1. memory.node = node /\ (memory').node = node'
    BY DEF memory
  <2>2. Same(g) => ptr'[g] = ptr[g] /\ Reads(g)' = Reads(g)
    BY <2>1 DEF Keeps, Reads
  <2> HIDE DEF Same, Moved, Wrote
  <2> QED
    BY <1>1, <1>2, <2>2
<1> QED
  BY <1>2, StringInvariance, PTL DEF Spec, HoldersIndependent
================================================================================
