SPECIFICATION Spec
CONSTANTS
  Jobs <- Documented
  MaxRows = 7
  MaxThreads = 3
  MaxLines = 2
INVARIANTS TypeOK TasksEndFirst
PROPERTIES SavesTheDocument BuffersAreWritten
