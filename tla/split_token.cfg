CONSTANTS
  Chars <- MCChars
  Words <- NestedWords
  CharCode <- MCCharCode
  Encoding = "array"
  Options <- BufferEndTokens
  U8 = 256
  U16 = 65536
  MaxDepth = 2
  Docs <- CaseTexts
  Leads = {0}
  Values <- BetweenWords
  Spaces <- NoSpace
SPECIFICATION Spec
INVARIANT ReportsDocument
