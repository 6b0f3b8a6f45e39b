SPECIFICATION Spec
CONSTANTS
  INT_MAX = 31
  Names <- MCNames
  MAX_ARGS = 1
  Alphabet <- MCAlphabet
  MaxLine = 5
  Formats <- MCFormats
  Words <- MCWords
  SecondsIn = 3
  MinutesIn = 2
  HoursIn = 1
  DaysIn = 3
  MonthsIn = 1
  YearsSet = 1
  Millis = 2
  Fractals = 2
INVARIANTS
  LineIsUnderstood
  ScanfReadsPrintf
  CallsAsAsked
  PrintfLikeLibrary
