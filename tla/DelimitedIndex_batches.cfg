SPECIFICATION Spec
CONSTANTS
  EscapeBackslash = FALSE
  HasQuote = TRUE
  HasComment = TRUE
  SkipEmptyRows = TRUE
  Alphabets <- Layouts
  Length = 4
  Files <- AllFiles
  NMaxes <- AFewOrAll
  HasHeader = 1
  Skip = 1
  NumThreads = 3
  LinesPerBatch = 0
  Progress = TRUE
INVARIANTS TypeOK BatchesMeet RowsAreWhole
  FieldNewlinesForceOneThread NMaxReadsFirstRows
PROPERTIES IndexesLikeOneThread 
