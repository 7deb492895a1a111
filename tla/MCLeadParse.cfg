SPECIFICATION Spec
CONSTANTS
  Texts <- MCTexts
  Ids <- MCIds
  Numerals <- MCNumerals
  Cards <- MCCards
  Arrivals <- MCArrivals
  OtherIds <- MCOtherIds
  MaxFeeds = 3
  None = None
CHECK_DEADLOCK FALSE
INVARIANTS
  TypeOK
  AllOrNothing
  TextIsShown
  AuthorsComplete
  AuthorsMatchIds
