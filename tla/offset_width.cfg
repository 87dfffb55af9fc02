CONSTANTS
  Chars <- MCChars
  Words <- FewWords
  CharCode <- MCCharCode
  Encoding = "array"
  Options <- NoOptions
  U8 = 256
  U16 = 16
  MaxDepth = 2
  Docs <- CaseTexts
  Leads = {0}
  Values <- LongList
  Spaces <- NoSpace
SPECIFICATION Spec
INVARIANT ReportsDocument
