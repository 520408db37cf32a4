SPECIFICATION Spec
CONSTANTS
  EscapeBackslash = FALSE
  HasQuote = TRUE
  HasComment = FALSE
  SkipEmptyRows = TRUE
  HasHeader = 1
  Length = 3
  MaxSize = 1000
  Inputs <- LastRowReadings
PROPERTIES IndexesLikeAFile
