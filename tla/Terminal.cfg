SPECIFICATION Spec
CONSTANTS
  ROWS = 4
  COLS = 3
  BUFFER_SIZE = 3
  MAX_USERNAME_SIZE = 1
  Letters <- OneLetter
  Title <- MCTitle
  Farewell <- MCFarewell
  Clock <- MCClock
  Question <- MCQuestion
  TooLong <- MCTooLong
  Host <- MCHost
  Commands <- MCCommands
INVARIANTS
  TypeOK
  NothingAhead
  LineShown
PROPERTY StatusKept
CHECK_DEADLOCK FALSE
