SPECIFICATION Spec
CONSTANTS
  VTKEY_NUM = 6
  MIN_REMAIN = 48
  INCRE_SIZE = 90
  Tenths = 1
  Keys <- MCKeys
  MaxKeyLen = 3
  MaxInserts = 5
INVARIANTS TypeOK NodesApart WasteSound SearchExact
PROPERTY ImplementsMap
CHECK_DEADLOCK FALSE
