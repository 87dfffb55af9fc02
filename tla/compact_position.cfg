CONSTANTS
  Chars <- MCChars
  Words <- SuffixWords
  CharCode <- MCCharCode
  Encoding = "compact"
  Options <- NoOptions
  U8 = 256
  U16 = 65536
  MaxDepth = 2
  Docs <- CaseTexts
  Leads = {0}
  Values <- SuffixKey
  Spaces <- NoSpace
SPECIFICATION Spec
INVARIANT ReportsDocument
