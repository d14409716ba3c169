SPECIFICATION EitherSpec
CONSTANTS
  l1 = l1
  k1 = k1
  k2 = k2
  Loads = {l1}
  MaxLines = 2
  MaxLog = 4
  Clicks = {k1, k2}
  NumServices = 3
  Texts <- MCTexts
  FourPart <- MCFourPart
  Addresses <- MCAddresses
  MockIP = "mock"
  Unknown = "unknown"
  NoText = "no text"
INVARIANTS
  TypeOK
  LogTypeOK
PROPERTIES
  ReportTrue
  RuleJustified
  TailComplete
