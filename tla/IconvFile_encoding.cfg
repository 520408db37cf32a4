SPECIFICATION Spec
CONSTANTS
  Calls <- AllCalls
  Character <- Chars
  Width <- Widths
  Utf8Width <- Utf8Widths
  BufSize = 5
  MaxLength = 4
INVARIANTS TypeOK KeepsWhatIsLeft ConnectionsAsFound
PROPERTY ConvertsTheFile
