CONSTANTS
  Chars <- MCChars
  Words <- MCWords
  CharCode <- MCCharCode
  Texts <- MCTexts
  Delimiters <- MCDelimiters
  OptionSets <- MCOptionSets
  SignedChar = TRUE
  Rows <- MCRows
  TrieLength <- ArrayTestTrieLength
  CharTable <- MCCharTable
  CharBits <- MCCharBits
  SiblingBits <- MCSiblingBits
  ChildBits <- MCChildBits
  Raw <- MCRaw
  ByteIndex = 65536
  U8 = 20
  TokenSigned = TRUE
  TokenModulus = 256
SPECIFICATION Spec
INVARIANTS LongestMatch TokensAsWritten
PROPERTY TablesImplementTrie
CHECK_DEADLOCK FALSE
