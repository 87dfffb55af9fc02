------------------------------ MODULE DynamicArray ------------------------------
(******************************************************************************)
(* The arrays that grow with the lists of a document.  (resize_dynamic_array, *)
(* src/streaming-parser.c.)  Sizes are counted in entries; what an entry holds*)
(* makes no difference.  The size of the block in bytes, uint32_t al, has room*)
(* for entry_size * (new_size + 1), both of 16 bits.                          *)
(******************************************************************************)
EXTENDS Naturals

CONSTANTS
  Width,       \* the modulus of uint16_t
  DefaultIncrement,
  Lengths,     \* what an application asks for: required_length, ...
  MaxSizes,    \* ... max_size, 0 for none, ...
  Increments   \* ... and increment, 0 for the default

ASSUME ArrayAssumption ==
  /\ Width \in Nat \ {0} /\ DefaultIncrement \in 1..(Width - 1)
  /\ Lengths \cup MaxSizes \cup Increments \subseteq 0..(Width - 1)

VARIABLES
  raw,       \* the dynamic_array: size, allocated, and how many entries its block has room for
  call,      \* the arguments of resize_dynamic_array
  new_size,
  code       \* what it returned; "running" before

array == <<raw, call, new_size, code>>

Codes == {"OK_ALLOCATED", "OK_RESIZED", "OVERFLOW", "ALLOC_FAIL", "CALLBACK"}

ArrayInit ==
  /\ raw = [size |-> 0, allocated |-> 0, room |-> 0]
  /\ call = [required |-> 0, max_size |-> 0, increment |-> 0]
  /\ new_size = 0
  /\ code = "OK_ALLOCATED"

Overflows(required, max_size) == max_size > 0 /\ max_size < required

\* Mutant: leaves an increment of 0 as it is.
Increment_Given(increment) == increment

Increment(increment) == IF increment > 0 THEN increment ELSE DefaultIncrement

\* The call, as far as the loop.
Resize(required, max_size, increment) ==
  /\ code # "running"
  /\ call' = [required |-> required, max_size |-> max_size, increment |-> Increment(increment)]
  /\ new_size' = raw.allocated
  /\ code' = CASE Overflows(required, max_size) -> "OVERFLOW"
               [] ~Overflows(required, max_size) /\ required <= raw.allocated -> "OK_ALLOCATED"
               [] OTHER -> "running"
  /\ UNCHANGED raw

\* Mutant: the sum is not cut to 16 bits.
Grow_Wide ==
  /\ code = "running" /\ new_size <= call.required
  /\ new_size' = new_size + call.increment
  /\ UNCHANGED <<raw, call, code>>

Grow ==
  /\ code = "running" /\ new_size <= call.required
  /\ new_size' = (new_size + call.increment) % Width
  /\ UNCHANGED <<raw, call, code>>

\* Mutant: never more than the maximum, and no entry to spare for what is required.
Capped_Short == IF call.max_size > 0 /\ new_size >= call.max_size THEN call.max_size - 1 ELSE new_size

Capped == IF call.max_size > 0 /\ new_size > call.max_size THEN call.max_size ELSE new_size

\* Mutant: allocates what the loop asked for before, not the entry beyond.
Room_Exact == Capped

Room == Capped + 1

\* The new block takes the entries of the old one, and allocated the new size, unless
\* a callback keeps it from that: then what that returns is returned.
Reallocate ==
  /\ code = "running" /\ new_size > call.required
  /\ new_size' = Capped
  /\ raw' = [raw EXCEPT !.room = Room, !.allocated = Capped]
  /\ code' = "OK_RESIZED"
  /\ UNCHANGED call

Reallocate_CallbackFails ==
  /\ code = "running" /\ new_size > call.required
  /\ new_size' = Capped
  /\ raw' = [raw EXCEPT !.room = Room]
  /\ code' = "CALLBACK"
  /\ UNCHANGED call

Reallocate_NoMemory ==
  /\ code = "running" /\ new_size > call.required
  /\ new_size' = Capped
  /\ code' = "ALLOC_FAIL"
  /\ UNCHANGED <<raw, call>>

\* The application adds an entry, if it has been told that there is room for it.
AddEntry ==
  /\ code # "running" /\ raw.size < raw.allocated
  /\ raw' = [raw EXCEPT !.size = @ + 1]
  /\ UNCHANGED <<call, new_size, code>>

Running == Grow \/ Reallocate \/ Reallocate_CallbackFails \/ Reallocate_NoMemory

ArrayNext ==
  \/ \E required \in Lengths, max_size \in MaxSizes, increment \in Increments :
       Resize(required, max_size, increment)
  \/ Running
  \/ AddEntry

\* A call goes on until it returns.
ArraySpec == ArrayInit /\ [][ArrayNext]_array /\ WF_array(Running)

--------------------------------------------------------------------------------
ArrayTypeOK ==
  /\ raw \in [size : 0..(Width - 1), allocated : 0..(Width - 1), room : 0..Width]
  /\ call \in [required : 0..(Width - 1), max_size : 0..(Width - 1), increment : 0..(Width - 1)]
  /\ new_size \in 0..(Width - 1)
  /\ code \in Codes \cup {"running"}

\* Every entry of the array, and one more, lies in its block, also after calls that
\* failed for want of memory or in the callback.
EntriesFit == raw.size <= raw.allocated /\ (raw.room > 0 => raw.allocated < raw.room)
              /\ (raw.room = 0 => raw.allocated = 0)

\* TestStreamingParser.c:327-328: a call that says the array has been resized has made
\* it long enough, and not by more than the increment, nor beyond the maximum.
ResizedAsAsked ==
  code = "OK_RESIZED" =>
    /\ call.required <= raw.allocated
    /\ raw.allocated <= call.required + call.increment
    /\ call.max_size > 0 => raw.allocated <= call.max_size

\* The loop ends wherever it can step beyond what is required without passing the
\* largest uint16_t.
ResizeReturns ==
  (code = "running" /\ call.required + call.increment < Width) ~> (code # "running")
================================================================================
