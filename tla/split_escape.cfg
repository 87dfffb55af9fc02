CONSTANTS
  Chars <- MCChars
  Words <- FewWords
  CharCode <- MCCharCode
  Encoding = "array"
  Options <- NoOptions
  U8 = 256
  U16 = 65536
  MaxDepth = 2
  Docs <- CaseTexts
  Leads = {0}
  Values <- EscapedValue
  Spaces <- NoSpace
SPECIFICATION Spec
INVARIANT ReportsDocument
