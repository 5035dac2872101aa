SPECIFICATION PrefixSpec
CONSTANTS
  Dicts <- MCDicts
  Texts <- PrefixTexts
  Hidden <- MCHidden
INVARIANTS
  Covered
  EveryWordFound
  CutWithoutOverlap
  OffsetsFollowText
  LongestEntriesFirst
  RestIsRest
  ChineseToBigram
PROPERTY PassesAdvance
CHECK_DEADLOCK FALSE
