SPECIFICATION UtilitiesSpec
CONSTANTS
  Alphabet <- Characters
  Width = 5
  Digit <- Digits16
  Whitespace = {" "}
  ByteBits = 2
  SizeValues = 16
  MaxLength <- Lengths
  ByteValues = 2
  WordBytes = 3
  IntMax = 1
  MaxBytes = 4
  PassBytes = 3
  StackSize = 2
  Limit = 8
  MaxReturn = 9
  MaxPrinted = 11
  Arrays = {a1, a2}
  Blocks = {1, 2}
  MaxElements = 2
  SizeModulus = 8
  Regions = {r1, r2}
  LastPage = 5
INVARIANTS
  UtilitiesTypeOK
  PathsTakenApart
  NumbersRead
  MatchesMeant
  ConversionsAreLossless
  ReadsInOrder
  RandIntUniform
  FormatsWhole
  BlocksOwned
  WithinBounds
  PagesOwned
PROPERTIES
  CallsReturn
CHECK_DEADLOCK FALSE
