CONSTANTS
  h1 = h1  h2 = h2  h3 = h3  f1 = f1  s1 = s1  s2 = s2
  b1 = b1  b2 = b2  b3 = b3
  None = None
  Holders <- MCHolders
  Fields <- MCFields
  Structs <- MCStructs
  Blocks <- MCBlocks
  Lengths = {0, 2, 4}
  Lendable = {4}
  Counter = 256
  Allocated = 5
  MinimumSize = 2
  DefaultSize = 4
  UpsizeCutoff = 1
  MaximumOverAllocation = 2
SYMMETRY HoldersSymmetry
SPECIFICATION Spec
INVARIANT FreedFieldHasNoBlock
