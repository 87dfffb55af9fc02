CONSTANTS
  Chars <- MCChars
  Words <- LargeToken
  CharCode <- MCCharCode
  Encoding = "array"
  Options <- NoOptions
  U8 = 256
  U16 = 65536
  MaxDepth = 2
  Docs <- CaseTexts
  Leads = {0}
  Values <- KnownKey
  Spaces <- NoSpace
SPECIFICATION Spec
INVARIANT ReportsDocument
