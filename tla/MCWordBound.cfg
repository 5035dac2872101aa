CONSTANTS
  Words = { w1, w2, w3 }
  Tags = { noun }
  w1 = w1  w2 = w2  w3 = w3  noun = noun
  NoWord = NoWord  Blank = Blank  NoFile = NoFile
  Chains <- MCChains
  BlackLists = {{}}
  MaxLoads = 1
  DictLists <- MCDictLists
  Names <- MCNames
  TooLong <- MCTooLong
  MinCount = 2
  MinScore = 1
SPECIFICATION TrainSpec
INVARIANTS
  OnlyTheWordIsHidden
  ModelIsExact
PROPERTY TrainingEnds
CHECK_DEADLOCK FALSE
