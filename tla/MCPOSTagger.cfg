SPECIFICATION TagSpec
CONSTANTS
  a = a
  b = b
  Space = Space
  Dicts <- MCDicts
  Texts <- MCTexts
  Others <- MCOthers
  TypeOf <- MCTypeOf
  TagsOf <- MCTagsOf
INVARIANTS LongestMatch TagsInStep TagsAllowed
PROPERTIES HistoryOfResult AllTagged
CHECK_DEADLOCK FALSE
