CONSTANTS
  Chars <- MCChars
  Words <- MCWords
  CharCode <- MCCharCode
  Encoding = "compact"
  Options <- MCOptions
  U8 = 8
  U16 = 65536
  MaxDepth = 5
  Docs <- MCDocs
  Leads = {0}
SPECIFICATION FairSpec
INVARIANTS TypeOK ChainIsStack StateFitsParent CursorInBuffer LiveOffsets CallbacksNest
PROPERTIES CallReadsAll ReleaseIsFinal CallReturns
