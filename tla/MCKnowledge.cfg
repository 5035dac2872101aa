CONSTANTS
  w1 = w1
  w2 = w2
  w3 = w3
  noun = noun
  verb = verb
  Words = {w1, w2, w3}
  Tags = {noun, verb}
  Chains <- MCChains
  BlackLists <- MCBlackLists
  MaxLoads = 3
SPECIFICATION Spec
INVARIANTS TypeOK SlotsInRange SlotsDistinct
PROPERTY ImplementsLexicon
