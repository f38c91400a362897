SPECIFICATION Spec
CONSTANTS
  p1 = p1
  p2 = p2
  Slots = {p1, p2}
  CapNames <- SmallNames
  RuleNames <- SmallRules
  Values <- SmallValues
  Copies = {2}
  None = None
  NAME_ROOM = 1
  KTABLE_INIT_SIZE = 1
  KTABLE_AVG_ELEMENT_LEN = 1
  KTABLE_MAX_SIZE = 5
  MaxNodes = 2
  MaxRules = 2
SYMMETRY Interchangeable
CHECK_DEADLOCK FALSE
INVARIANTS NamesKept Canonical TablesFit
