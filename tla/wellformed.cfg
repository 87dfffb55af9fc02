CONSTANTS
  Chars <- MCChars
  Words <- MCWords
  CharCode <- MCCharCode
  Encoding = "array"
  Options <- MCOptions
  U8 = 8
  U16 = 65536
  MaxDepth = 4
  Docs <- CaseTexts
  Leads = {0, 1}
  Values <- MCValues
  Spaces <- MCSpaces
SPECIFICATION FairSpec
INVARIANT ReportsDocument
PROPERTY ReportsAll
