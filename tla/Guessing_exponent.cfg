SPECIFICATION Spec
CONSTANTS
  IntMax = 32767
  LongMax = 99999
  MantissaDigits = 4
  MaxExponent = 307
  DecimalMark = "."
  GroupingMark = ","
  Months <- AbbreviatedMonths
  Weekdays <- AbbreviatedDays
  DateFormat <- AutoDate
  TimeFormat <- AutoTime
  TimeZone <- Chicago
  Inputs <- FarColumns
INVARIANT ReadsWhatIsSpelled
