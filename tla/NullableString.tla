----------------------------- MODULE NullableString -----------------------------
(******************************************************************************)
(* nullable_string_t: strings the application extracts from a document.  Some *)
(* are fields of its own structures, some live on the heap and are shared by  *)
(* counting references.  (src/streaming-parser.c, "Nullable String Helpers".) *)
(*                                                                            *)
(* The text of a string is abstracted to its length, a block of memory to its *)
(* size and the string it was allocated for.  Allocation may always fail.     *)
(******************************************************************************)
EXTENDS Naturals, FiniteSets

CONSTANTS
  Holders,   \* the variables of type nullable_string_t* of the application
  Fields,    \* the nullable_string_t that are part of its own structures
  Structs,   \* those on the heap
  Blocks,    \* the blocks of memory that may hold a text
  None,      \* the NULL pointer
  Lengths,   \* the lengths of the texts extracted
  Lendable,  \* the sizes of the memory an application lends to a field
  Counter,   \* the modulus of uint8_t counter
  Allocated, \* the modulus of the bit field allocated
  MinimumSize, DefaultSize, UpsizeCutoff, MaximumOverAllocation

ASSUME StringsAssumption ==
  /\ Fields \cap Structs = {} /\ None \notin Fields \cup Structs \cup Blocks
  /\ (Blocks \cup {None}) \cap [lent : Lendable] = {}
  /\ IsFiniteSet(Holders) /\ Cardinality(Holders) < Counter /\ Counter > 1
  /\ Lengths \subseteq Nat /\ Lendable \subseteq Nat \ {0}
  /\ {Counter, Allocated, MinimumSize, DefaultSize, MaximumOverAllocation} \subseteq Nat \ {0}
  /\ UpsizeCutoff \in Nat

VARIABLES
  node,    \* the strings: fields and heap
  live,    \* the heap strings allocated
  block,   \* the blocks, with their sizes (0: not allocated) and owners
  fault,   \* has anything been freed that must not be, or written out of bounds
  ptr      \* where the holders point

memory == [node |-> node, live |-> live, block |-> block, fault |-> fault]
vars == <<node, live, block, fault, ptr>>

Nodes == Fields \cup Structs

\* Memory of the application that it lends to a string, and takes care of itself.
Lent == [lent : Lendable]

\* struct nullable_string_t; text is what value points to.
NullableStrings ==
  [null : BOOLEAN, free_lock : BOOLEAN, allocated : 0..(Allocated - 1),
   counter : 0..(Counter - 1), value : Blocks \cup Lent \cup {None}, text : Nat]

NoBlock == [size |-> 0, owner |-> None]

Zeroed == [null |-> TRUE, free_lock |-> FALSE, allocated |-> 0, counter |-> 0,
           value |-> None, text |-> 0]

Room(m, value) == IF value \in Blocks THEN m.block[value].size ELSE value.lent

--------------------------------------------------------------------------------
(* The helpers, from the memory they find to the one they leave.  An argument *)
(* ok says whether an allocation they make succeeds.                          *)

Free(m, value) ==
  IF value \in Blocks /\ m.block[value].size > 0
  THEN [m EXCEPT !.block[value] = NoBlock]
  ELSE [m EXCEPT !.fault = TRUE]

Write(m, value, size) ==
  IF value # None /\ size <= Room(m, value) THEN m ELSE [m EXCEPT !.fault = TRUE]

Upsized(size) ==
  CASE size < MinimumSize -> MinimumSize
    [] size >= MinimumSize /\ size < DefaultSize /\ DefaultSize - size <= UpsizeCutoff -> DefaultSize
    [] OTHER -> size

\* Mutant: keeps the size in more bits than the field has.
Obtain_Wide(m, s, size, ok) ==
  IF ~ok THEN m
  ELSE LET b == CHOOSE b \in Blocks : m.block[b].size = 0
       IN  [m EXCEPT !.block[b] = [size |-> size, owner |-> s],
                     !.node[s].value = b,
                     !.node[s].allocated = size]

Obtain(m, s, size, ok) ==
  IF ~ok THEN m
  ELSE LET b == CHOOSE b \in Blocks : m.block[b].size = 0
       IN  [m EXCEPT !.block[b] = [size |-> size, owner |-> s],
                     !.node[s].value = b,
                     !.node[s].allocated = size % Allocated]

\* Mutant: reuses the block whatever its size.
Reusable_Any(v, size) == v.value # None /\ v.allocated > 0

Reusable(v, size) ==
  v.value # None /\ size <= v.allocated /\ v.allocated - size < MaximumOverAllocation

\* Mutant: forgets that the memory may be somebody else's.
Discard_Lent(m, s) ==
  LET v == m.node[s]
      f == IF v.value # None THEN Free(m, v.value) ELSE m
  IN  [f EXCEPT !.node[s].value = None, !.node[s].allocated = 0]

Discard(m, s) ==
  LET v == m.node[s]
      f == IF ~v.free_lock /\ v.value # None THEN Free(m, v.value) ELSE m
  IN  [f EXCEPT !.node[s].value = None, !.node[s].allocated = 0]

\* allocate_nullable_string
Allocate(m, s, size, ok) ==
  LET v == m.node[s]
      n == [m EXCEPT !.node[s].null = TRUE, !.node[s].text = IF size = 0 THEN @ ELSE 0]
  IN  IF size = 0 THEN n
      ELSE IF Reusable(v, size) THEN Write(Write(n, v.value, size), v.value, v.allocated)
      ELSE Obtain([Discard(n, s) EXCEPT !.node[s].counter = IF @ = 0 THEN 1 ELSE @],
                  s, Upsized(size), ok)

\* json_parser__extract_string of a text of n characters; strncpy_nullable_string
\* does the copying.  An empty text is said to be there even if it found no room.
Extract(m, s, n, ok) ==
  LET a == Allocate(m, s, n + 1, ok) IN
  CASE n = 0 -> [a EXCEPT !.node[s].null = FALSE]
    [] n > 0 /\ a.node[s].value = None -> a
    [] OTHER -> [Write(a, a.node[s].value, n + 1) EXCEPT !.node[s].null = FALSE, !.node[s].text = n]

\* ... of null ...
ExtractNull(m, s) ==
  LET v == m.node[s].value
      w == IF v # None THEN Write(m, v, 1) ELSE m
  IN  [w EXCEPT !.node[s].null = TRUE, !.node[s].text = 0]

\* ... and of a value of another type.
ExtractOther(m, s) == [m EXCEPT !.node[s].null = TRUE]

--------------------------------------------------------------------------------
\* free_nullable_string: the flags are the bits of option_flag.
FreeDefault == {"FREE_CONTENTS", "FREE_STRUCT", "RELEASE_STRUCT"}

Dereferenced(m, s) == [m EXCEPT !.node[s].counter = IF @ > 0 THEN @ - 1 ELSE 0]

\* Mutants: frees the contents for the first holder that leaves; or for the last
\* one only if it asks for it.
PurgesContents_First(m, s, flags) == "FREE_LOCKED" \notin flags /\ flags # {}
PurgesContents_Asked(m, s, flags) == m.node[s].counter = 0 /\ "FREE_CONTENTS" \in flags

\* Called after the counter has been decremented.
PurgesContents(m, s, flags) ==
  /\ "FREE_LOCKED" \notin flags
  /\ \/ m.node[s].counter = 0 /\ flags # {}
     \/ "FORCE_FREE_CONTENTS" \in flags

\* Lent memory is only let go of, and null keeps its value.
Purge(m, s) ==
  LET v == m.node[s]
      n == [m EXCEPT !.node[s].free_lock = FALSE, !.node[s].allocated = 0,
                     !.node[s].value = None, !.node[s].text = 0]
  IN  IF v.free_lock \/ v.value = None THEN n
      ELSE [Free(n, v.value) EXCEPT !.node[s].null = TRUE]

FreesStruct(m, s, flags) ==
  /\ "FREE_LOCKED" \notin flags
  /\ \/ m.node[s].counter = 0 /\ flags \cap {"FREE_STRUCT", "FORCE_FREE_STRUCT", "RELEASE_STRUCT"} # {}
     \/ "FORCE_FREE_STRUCT" \in flags

\* Is the pointer the caller passed set to NULL?
ClearsPointer(m, s, flags) ==
  \/ FreesStruct(m, s, flags)
  \/ "RELEASE_STRUCT" \in flags
  \/ "FREE_LOCKED" \in flags /\ "FORCE_FREE_STRUCT" \in flags
  \/ "FREE_LOCKED" \in flags /\ m.node[s].counter = 0 /\ "FREE_STRUCT" \in flags

FreeStruct(m, s) ==
  IF s \in m.live THEN [m EXCEPT !.live = @ \ {s}, !.node[s] = Zeroed]
  ELSE [m EXCEPT !.fault = TRUE]

FreeString(m, s, flags) ==
  LET d == Dereferenced(m, s)
      p == IF PurgesContents(d, s, flags) THEN Purge(d, s) ELSE d
  IN  IF FreesStruct(d, s, flags) THEN FreeStruct(p, s) ELSE p

--------------------------------------------------------------------------------
\* What the memory becomes.
Become(m) == node' = m.node /\ live' = m.live /\ block' = m.block /\ fault' = m.fault

\* Whether an allocation may succeed: there is memory left, and even then it may not.
MayAllocate == {FALSE} \cup {b \in {TRUE} : \E b1 \in Blocks : block[b1].size = 0}

\* Where a new structure may be, at most one place: which one makes no difference.
NextStruct == {s \in Structs \ live : s = CHOOSE t \in Structs \ live : TRUE}

\* A structure fresh from os_zalloc.
Fresh(m, s) == [m EXCEPT !.live = @ \cup {s}, !.node[s] = Zeroed]

Init ==
  /\ node = [s \in Nodes |-> Zeroed]
  /\ live = {}
  /\ block = [b \in Blocks |-> NoBlock]
  /\ fault = FALSE
  /\ ptr = [h \in Holders |-> None]

\* copy_nullable_string of NULL: a new string.
New(h) ==
  /\ ptr[h] = None
  /\ \E s \in NextStruct, ok \in MayAllocate :
       /\ Become(Allocate([Fresh(memory, s) EXCEPT !.node[s].counter = 1], s, DefaultSize, ok))
       /\ ptr' = [ptr EXCEPT ![h] = s]

\* copy_nullable_string of the string g holds.
Share(h, g) ==
  /\ ptr[h] = None /\ ptr[g] # None
  /\ node' = [node EXCEPT ![ptr[g]].counter = (@ + 1) % Counter]
  /\ ptr' = [ptr EXCEPT ![h] = ptr[g]]
  /\ UNCHANGED <<live, block, fault>>

\* json_parser__extract_string into a field, or into the string h holds.
Into(s) ==
  \/ \E n \in Lengths, ok \in MayAllocate : Become(Extract(memory, s, n, ok))
  \/ Become(ExtractNull(memory, s))
  \/ Become(ExtractOther(memory, s))

ExtractToField(f) == Into(f) /\ UNCHANGED ptr

ExtractToHeld(h) == ptr[h] # None /\ Into(ptr[h]) /\ UNCHANGED ptr

\* recycle_nullable_string: the string of h, as it is if nobody shares it.
Recycle(h) ==
  /\ ptr[h] # None /\ node[ptr[h]].counter <= 1
  /\ \E n \in Lengths, ok \in MayAllocate :
       Become(Allocate([memory EXCEPT !.node[ptr[h]].counter = 1], ptr[h], n, ok))
  /\ UNCHANGED ptr

\* Mutant: leaves without being counted out.
Leaving_Counted(s) == memory

Leaving(s) == [memory EXCEPT !.node[s].counter = @ - 1]

\* ... or a new one, if there is one to be had.
Recycle_Shared(h) ==
  /\ ptr[h] # None /\ node[ptr[h]].counter > 1
  /\ \/ \E s \in NextStruct, n \in Lengths, ok \in MayAllocate :
          /\ Become(Allocate([Fresh(Leaving(ptr[h]), s) EXCEPT !.node[s].counter = 1], s, n, ok))
          /\ ptr' = [ptr EXCEPT ![h] = s]
     \/ /\ Become(Leaving(ptr[h]))
        /\ ptr' = [ptr EXCEPT ![h] = None]

\* free_nullable_string(&h, flags), with flags that let go of the pointer.
Release(h) ==
  /\ ptr[h] # None
  /\ \E flags \in {FreeDefault, {"RELEASE_STRUCT"}, {"FREE_STRUCT"}} :
       /\ ClearsPointer(Dereferenced(memory, ptr[h]), ptr[h], flags)
       /\ Become(FreeString(memory, ptr[h], flags))
  /\ ptr' = [ptr EXCEPT ![h] = None]

\* free_nullable_string_contents of a field.
FreeField(f) == Become(FreeString(memory, f, {"FREE_CONTENTS"})) /\ UNCHANGED ptr

\* The application lets an empty field point to memory of its own.
Lend(f) ==
  /\ node[f].value = None
  /\ \E n \in Lendable :
       node' = [node EXCEPT ![f] =
                  [@ EXCEPT !.null = FALSE, !.free_lock = TRUE, !.allocated = n % Allocated,
                            !.value = [lent |-> n], !.text = n - 1]]
  /\ UNCHANGED <<live, block, fault, ptr>>

Next ==
  \/ \E h \in Holders : New(h) \/ ExtractToHeld(h) \/ Recycle(h) \/ Recycle_Shared(h) \/ Release(h)
  \/ \E h, g \in Holders : Share(h, g)
  \/ \E f \in Fields : ExtractToField(f) \/ FreeField(f) \/ Lend(f)

Spec == Init /\ [][Next]_vars

--------------------------------------------------------------------------------
\* Every field holds what its bits can, and holders point to strings.
StringTypeOK ==
  /\ node \in [Nodes -> NullableStrings]
  /\ live \subseteq Structs
  /\ block \in [Blocks -> [size : Nat, owner : Nodes \cup {None}]]
  /\ fault \in BOOLEAN
  /\ ptr \in [Holders -> Structs \cup {None}]

\* Nothing is freed twice, memory lent by the application is not freed at all, and
\* no text is written, terminator included, beyond the block it is written to.
NoFault == ~fault

\* The counter of a heap string is the number of its holders; so a string is gone
\* when, and not before, the last holder has let go of it.
HoldersOf(s) == {h \in Holders : ptr[h] = s}
CountsHolders ==
  \A s \in Structs :
    /\ s \in live <=> HoldersOf(s) # {}
    /\ node[s].counter = Cardinality(HoldersOf(s))

\* A block allocated for a heap string is its text for as long as it is allocated.
NoLeak ==
  \A b \in Blocks : block[b].size > 0 /\ block[b].owner \in Structs =>
    block[b].owner \in live /\ node[block[b].owner].value = b

\* streaming-parser.c:1756, "Free inner string if allocated and counter fully
\* dereferenced": a field that points nowhere and is not locked, as a field is after
\* free_nullable_string_contents, has no block left.
FreedFieldHasNoBlock ==
  \A f \in Fields : node[f].value = None /\ ~node[f].free_lock =>
    \A b \in Blocks : block[b].owner # f

\* The text of a string, of a field too, lies with its terminator in the block
\* that value points to, unless null says that there is none.
TextFits ==
  \A s \in Nodes : ~node[s].null /\ node[s].text > 0 =>
    node[s].value # None /\ node[s].text < Room(memory, node[s].value)

\* What a holder reads, and where it points, changes only when it moves itself (by a
\* release or a recycling), when it recycles a string that is its own, or by an extraction
\* into the string it holds, which all who share it see.  No step of another that takes a
\* share, leaves, moves, recycles, or works on another string or a field changes it.
Reads(h) == [null |-> node[ptr[h]].null, text |-> node[ptr[h]].text, value |-> node[ptr[h]].value]
HoldersIndependent ==
  [][\A g \in Holders : ptr[g] # None =>
       \/ ptr'[g] = ptr[g] /\ Reads(g)' = Reads(g)
       \/ ptr'[g] # ptr[g] /\ \A h \in Holders \ {g} : ptr'[h] = ptr[h]
       \/ ptr' = ptr /\ (ExtractToHeld(g) \/ Recycle(g))]_vars
================================================================================
