SPECIFICATION Spec
CONSTANTS
  Radix = 8
  INIT_CAPDEPTH = 1
  MAX_CAPDEPTH = 3
  MaxCaptures = 3
  MaxPos = 2
  Name <- MCNames
  Answers <- MCAnswers
  Calls <- MCCalls
INVARIANT TextAfterHalt
