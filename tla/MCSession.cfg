SPECIFICATION Spec
CONSTANTS
  Texts <- MCTexts
  Files <- MCFiles
  NoText = NoText
  MaxRuns = 3
INVARIANTS AnswersForLastRun TagsForLastRun LinesKept
CHECK_DEADLOCK FALSE
