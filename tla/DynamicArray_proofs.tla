--------------------------- MODULE DynamicArray_proofs ---------------------------
(******************************************************************************)
(* The arrays of DynamicArray never claim an entry they have no room for, and *)
(* are as long as asked, whatever is asked for and whatever fails.            *)
(******************************************************************************)
EXTENDS DynamicArray, TLAPS

\* A call in the loop is one for more entries than there are, which the maximum allows,
\* and has not gone further beyond them than one increment.
LoopInv ==
  code = "running" =>
    /\ raw.allocated < call.required
    /\ call.max_size > 0 => call.required <= call.max_size
    /\ new_size <= call.required + call.increment

ArrayInv == ArrayTypeOK /\ LoopInv /\ EntriesFit /\ ResizedAsAsked

--------------------------------------------------------------------------------
\* What is known of the fields.
LEMMA ArrayFields ==
  ASSUME ArrayTypeOK
  PROVE  /\ raw.size \in 0..(Width - 1) /\ raw.allocated \in 0..(Width - 1) /\ raw.room \in 0..Width
         /\ raw = [size |-> raw.size, allocated |-> raw.allocated, room |-> raw.room]
         /\ call.required \in 0..(Width - 1) /\ call.max_size \in 0..(Width - 1)
         /\ call.increment \in 0..(Width - 1)
         /\ new_size \in 0..(Width - 1)
  BY DEF ArrayTypeOK

\* Every increment is at least 1, and fits its type.
LEMMA IncrementTyped ==
  ASSUME NEW increment \in Increments
  PROVE  Increment(increment) \in 1..(Width - 1)
<1>1. increment \in 0..(Width - 1)
  BY ArrayAssumption
<1> QED
  BY <1>1, ArrayAssumption DEF Increment

\* The size of the new block, as far as it counts: what is required is in it.
LEMMA CappedFits ==
  ASSUME ArrayInv, code = "running", new_size > call.required
  PROVE  /\ Capped \in 0..(Width - 1)
         /\ call.required <= Capped /\ raw.allocated < Capped
         /\ Capped <= call.required + call.increment
         /\ call.max_size > 0 => Capped <= call.max_size
  BY ArrayFields, ArrayAssumption DEF ArrayInv, LoopInv, Capped

\* An array that was never resized.
LEMMA ArrayInitInv == ArrayInit => ArrayInv
  BY ArrayAssumption
  DEF ArrayInit, ArrayInv, ArrayTypeOK, LoopInv, EntriesFit, ResizedAsAsked, Codes

\* A call that enters the loop has something to do there.
LEMMA ResizeInv ==
  ASSUME ArrayInv, NEW required \in Lengths, NEW max_size \in MaxSizes, NEW increment \in Increments,
         Resize(required, max_size, increment)
  PROVE  ArrayInv'
<1>1. /\ required \in 0..(Width - 1) /\ max_size \in 0..(Width - 1)
      /\ Increment(increment) \in 1..(Width - 1)
  BY IncrementTyped, ArrayAssumption
<1>2. /\ raw' = raw /\ new_size' = raw.allocated
      /\ call' = [required |-> required, max_size |-> max_size, increment |-> Increment(increment)]
      /\ code' \in {"OVERFLOW", "OK_ALLOCATED", "running"}
      /\ code' = "running" => ~Overflows(required, max_size) /\ ~(required <= raw.allocated)
  BY DEF Resize
<1>3. ArrayTypeOK'
  BY <1>1, <1>2, ArrayFields DEF ArrayInv, ArrayTypeOK, Codes
<1>4. LoopInv'
  BY <1>1, <1>2, ArrayFields, ArrayAssumption DEF ArrayInv, LoopInv, Overflows
<1>5. EntriesFit' /\ ResizedAsAsked'
  BY <1>2 DEF ArrayInv, EntriesFit, ResizedAsAsked
<1> QED
  BY <1>3, <1>4, <1>5 DEF ArrayInv

\* The sum is cut to 16 bits: it may come out less, never more.
LEMMA GrowInv == ASSUME ArrayInv, Grow PROVE ArrayInv'
<1>1. /\ new_size' \in 0..(Width - 1)
      /\ new_size' <= new_size + call.increment
      /\ UNCHANGED <<raw, call, code>> /\ code = "running" /\ new_size <= call.required
  BY ArrayFields, ArrayAssumption DEF ArrayInv, Grow
<1>2. ArrayTypeOK'
  BY <1>1 DEF ArrayInv, ArrayTypeOK
<1>3. LoopInv'
  BY <1>1, ArrayFields, ArrayAssumption DEF ArrayInv, LoopInv
<1> QED
  BY <1>1, <1>2, <1>3 DEF ArrayInv, EntriesFit, ResizedAsAsked

\* The four ends of the loop: the block grows before allocated does, or neither does.
LEMMA ReallocateInv ==
  ASSUME ArrayInv, Reallocate \/ Reallocate_CallbackFails \/ Reallocate_NoMemory
  PROVE  ArrayInv'
<1>1. code = "running" /\ new_size > call.required /\ call' = call /\ new_size' = Capped
  BY DEF Reallocate, Reallocate_CallbackFails, Reallocate_NoMemory
<1>2. /\ Capped \in 0..(Width - 1) /\ Room = Capped + 1 /\ Room \in 0..Width
      /\ call.required <= Capped /\ raw.allocated < Capped
      /\ Capped <= call.required + call.increment
      /\ call.max_size > 0 => Capped <= call.max_size
  BY <1>1, CappedFits, ArrayAssumption DEF Room
<1>3. CASE Reallocate
  <2>1. raw' = [size |-> raw.size, allocated |-> Capped, room |-> Room] /\ code' = "OK_RESIZED"
    BY <1>3, ArrayFields DEF Reallocate, ArrayInv
  <2> QED
    BY <1>1, <1>2, <2>1, ArrayFields, ArrayAssumption
    DEF ArrayInv, ArrayTypeOK, LoopInv, EntriesFit, ResizedAsAsked, Codes
<1>4. CASE Reallocate_CallbackFails
  <2>1. raw' = [size |-> raw.size, allocated |-> raw.allocated, room |-> Room] /\ code' = "CALLBACK"
    BY <1>4, ArrayFields DEF Reallocate_CallbackFails, ArrayInv
  <2> QED
    BY <1>1, <1>2, <2>1, ArrayFields, ArrayAssumption
    DEF ArrayInv, ArrayTypeOK, LoopInv, EntriesFit, ResizedAsAsked, Codes
<1>5. CASE Reallocate_NoMemory
  BY <1>1, <1>2, <1>5, ArrayFields
  DEF Reallocate_NoMemory, ArrayInv, ArrayTypeOK, LoopInv, EntriesFit, ResizedAsAsked, Codes
<1> QED
  BY <1>3, <1>4, <1>5

\* An entry more is one that allocated promised.
LEMMA AddEntryInv == ASSUME ArrayInv, AddEntry PROVE ArrayInv'
<1>1. raw' = [size |-> raw.size + 1, allocated |-> raw.allocated, room |-> raw.room]
  BY ArrayFields DEF ArrayInv, AddEntry
<1>2. UNCHANGED <<call, new_size, code>> /\ code # "running" /\ raw.size < raw.allocated
  BY DEF AddEntry
<1>3. raw.size + 1 \in 0..(Width - 1) /\ raw.size + 1 <= raw.allocated
  BY <1>2, ArrayFields, ArrayAssumption DEF ArrayInv
<1>4. ArrayTypeOK'
  BY <1>1, <1>2, <1>3, ArrayFields DEF ArrayInv, ArrayTypeOK
<1> QED
  BY <1>1, <1>2, <1>3, <1>4 DEF ArrayInv, LoopInv, EntriesFit, ResizedAsAsked

--------------------------------------------------------------------------------
\* The invariant holds in every state.
LEMMA ArrayInvariance == ArraySpec => []ArrayInv
<1>1. ArrayInv /\ [ArrayNext]_array => ArrayInv'
  <2>1. ASSUME ArrayInv, UNCHANGED array PROVE ArrayInv'
    BY <2>1 DEF array, ArrayInv, ArrayTypeOK, LoopInv, EntriesFit, ResizedAsAsked
  <2> QED
    BY <2>1, ResizeInv, GrowInv, ReallocateInv, AddEntryInv DEF ArrayNext, Running
<1> QED
  BY <1>1, ArrayInitInv, PTL DEF ArraySpec

\* Whatever is asked for, each field stays in its 16 bits (resize_dynamic_array).
THEOREM ArrayTypeCorrect == ArraySpec => []ArrayTypeOK
<1>1. ArrayInv => ArrayTypeOK
  BY DEF ArrayInv
<1> QED
  BY <1>1, ArrayInvariance, PTL

\* No entry the array counts, and none an application may add because allocated says
\* so, lies outside the block: not after a resize cut to 16 bits or to the maximum, nor
\* after one that ran out of memory or that the callback refused.
THEOREM EntriesCorrect == ArraySpec => []EntriesFit
<1>1. ArrayInv => EntriesFit
  BY DEF ArrayInv
<1> QED
  BY <1>1, ArrayInvariance, PTL

\* OK_RESIZED means as long as required, by no more than an increment, and within the
\* maximum, although the sum that got there wraps at 2^16.
THEOREM ResizeCorrect == ArraySpec => []ResizedAsAsked
<1>1. ArrayInv => ResizedAsAsked
  BY DEF ArrayInv
<1> QED
  BY <1>1, ArrayInvariance, PTL
================================================================================
