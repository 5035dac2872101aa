CONSTANTS
  Weights = { 1, 3 }
  N = 3
  RetSize = 3
  MinPreWordLen = 4
  Sentences <- MatchedOrBeamed
SPECIFICATION Spec
INVARIANTS
  TypeOK
  NBestExact
  WordsStayWhole
  SegmentsCover
  OneResultIsBest
PROPERTY Terminates
CHECK_DEADLOCK FALSE
