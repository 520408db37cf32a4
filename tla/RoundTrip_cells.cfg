SPECIFICATION Spec
CONSTANTS
  EscapeBackslash = FALSE
  HasQuote = TRUE
  HasComment = FALSE
  SkipEmptyRows = TRUE
  HasHeader = 1
  Length = 2
  Inputs <- SomeInputs
INVARIANTS CellsRoundTrip RaggedRowsKeepTheirCells ProblemsNameTheirLines
CHECK_DEADLOCK FALSE
