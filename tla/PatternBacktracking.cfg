SPECIFICATION StringsSpec
CONSTANTS
  Alphabet <- PatternCharacters
  Width = 5
  Digit <- Digits16
  Whitespace = {" "}
  ByteBits = 2
  SizeValues = 16
  MaxLength <- PatternLengths
INVARIANT WildcardsMatch
CHECK_DEADLOCK FALSE
