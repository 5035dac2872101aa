CONSTANTS
  Dicts <- MCDicts
  Texts <- Plain
SPECIFICATION Spec
INVARIANT WithoutAnyOverlap
CHECK_DEADLOCK FALSE
