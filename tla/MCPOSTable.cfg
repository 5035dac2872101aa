SPECIFICATION Spec
CONSTANTS
  Tags <- MCTags
  TagFiles <- MCTagFiles
  Lists <- MCLists
  Letter <- MCLetter
  Reserved = 3
  MaxSize = 5
INVARIANTS TypeOK CodesKept FlagsSinceReset
