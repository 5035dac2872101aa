SPECIFICATION TagSpec
CONSTANTS
  a = a
  b = b
  Space = Space
  Dicts <- MCDicts
  Texts <- MCTexts
  Others <- MCOthers
  TypeOf <- MCTypeOf
  TagsOf <- MCTagsOf
PROPERTY BestTag
CHECK_DEADLOCK FALSE
