SPECIFICATION MCSpec
CONSTANTS
  Lines <- MCLines
  gokrazyTable = TRUE
  Numbers <- MCNumbers
  MinInt32 <- MCMinInt32
  MaxInt32 = 100
  Levels <- MCLevels
INVARIANTS TypeOK OperandsSurvive LastOptionWins DaemonStartsOver SpellingDoesNotMatter
CHECK_DEADLOCK FALSE
