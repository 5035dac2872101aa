SPECIFICATION Spec
CONSTANTS
  Texts <- MCTexts
  Files <- MCFiles
  NoText = NoText
  MaxRuns = 3
INVARIANT OffsetsForLastRun
CHECK_DEADLOCK FALSE
