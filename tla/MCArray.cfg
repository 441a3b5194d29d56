CONSTANTS
  Value = {a, b}
  Garbage = garbage
  MALLOC_SIZE = 2
  INDEX_NUM_MAX = 4
SPECIFICATION ArraySpec
INVARIANTS TypeOK OneBlockNeverStrays
PROPERTY ImplementsValueList
