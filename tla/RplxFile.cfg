SPECIFICATION Spec
CONSTANTS
  Radix = 4
  KTABLE_INIT_SIZE = 1
  KTABLE_AVG_ELEMENT_LEN = 1
  KTABLE_MAX_SIZE = 5
  Chunks <- SmallChunks
  MAGIC <- SmallMagic
  NEWLINE = 2
  MAX_INSTLEN_BYTES = 8
INVARIANTS LoadedIsSaved SavedLoads
