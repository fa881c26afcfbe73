SPECIFICATION AnswerSpec
CONSTANTS
  Results <- SomeResults
  MaxLength = 18
  Reserve = 8
  MaxResponse = 130
  Truncation <- Note
  EmptyAnswer <- NoText
  Apology <- Sorry
INVARIANTS
  TypeOK
  NothingLost
  PartsFit
  WordsWhole
  FourPartsReach
  AnswerFits
  EmptyOnlyIfBlank
PROPERTIES
  Shrinks
  ImplementsSplitter
