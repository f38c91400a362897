SPECIFICATION Spec
CONSTANTS
  Radix = 2
  b1 = b1
  b2 = b2
  Blocks = {b1, b2}
  INITBUFF = INITBUFF
  OUTSIDE = OUTSIDE
  NULL = NULL
  INITIAL_BUFFER_SIZE = 2
  Strings <- SmallStrings
  Wrapped <- SmallStrings
  Numbers <- SmallNumbers
  Positions <- SmallIndices
  Escape <- SmallEscapes
  Quote = 1
  Junk = 0
  MaxText = 9
  MaxFile = 2
SYMMETRY Interchangeable
CHECK_DEADLOCK FALSE
INVARIANTS Fits NothingLeaks
PROPERTY Implements
