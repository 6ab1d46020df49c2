CONSTANTS
  TrainWindow = 5
  HoldoutDays = 2
  Margin = 1
  MaxDay = 7
  MaxAmount = 2
  MaxLate = 1
  Asked <- MCAsked
  MinRows = 2
  Horizon = 2
  Predicted <- MCPredicted
SPECIFICATION SeriesSpec
INVARIANTS SeriesIsWhole FlagsAreDeviations
PROPERTIES AnswersAreLocal AnswerContinues
\* The clock is bounded.
CHECK_DEADLOCK FALSE
