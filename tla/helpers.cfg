CONSTANTS
  Width = 16
  DefaultIncrement = 5
  Lengths = {0, 1, 4, 6, 7, 12, 15}
  MaxSizes = {0, 7}
  Increments = {0, 1, 3}
  Values <- TestValues
  Texts <- TestTexts
  IntTypes <- MCIntTypes
  CharCode <- TestCodes
  AccumulatorBits = 16
  ReturnWidth = 8
  AutoLength = 9
SPECIFICATION Spec
INVARIANTS ArrayTypeOK EntriesFit ResizedAsAsked NumbersExact QuotedNumbersWhole BoolsAsWritten TimesAsWritten DatesAsWritten
PROPERTY ResizeReturns
