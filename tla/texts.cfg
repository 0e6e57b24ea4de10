SPECIFICATION TextsSpec
CONSTANTS
  ContentLength <- MCContentLength
  SizeMax = 99
  VersionMax = 99
  Inputs <- MCInputs
  SpanSizes = {1, 8}
  Reason <- MCReason
  HandlerFields <- MCHandlerFields
  MaxLength = 12
  MaxText = 12
  WriteSizes = {1, 16}
  LocalCapacity = 15
  Alphabet = {97, 98, 61, 59, 32}
  MaxString = 7
  Strings <- MCStrings
  Stores <- MCStores
  Texts <- MCTexts
  RawTexts <- MCRawTexts
INVARIANTS
  FieldsAreValid
  MatchesGrammar
  LengthIsUnambiguous
  RangeSurvivesMove
  LengthIsAnnounced
  TextGivesFields
  StoreIsSafe
  MatchesCookieMeaning
  MatchesEscapes
