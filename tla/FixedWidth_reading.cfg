SPECIFICATION Spec
CONSTANTS
  EscapeBackslash = FALSE
  HasQuote = FALSE
  HasComment = TRUE
  SkipEmptyRows = TRUE
  Skip = 1
  TrimWs = TRUE
  Length = 3
  ChunkSizes = {4, 6, 9}
  Inputs <- Readings
INVARIANTS TypeOK FilesReadAlike GuessKeepsAll
PROPERTIES ReadsTheTable BuffersKept
