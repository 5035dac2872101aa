CONSTANTS
  N = 3
  Unit <- MCUnit
  AnyUnit <- MCAnyUnit
SPECIFICATION Spec
INVARIANT ChainComplete
PROPERTY KeepsTheBest
