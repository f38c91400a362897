CONSTANTS
  Threads = {t1, t2}
  Objects = {o1, o2, o3}
  NULL = NULL
  Ops = {"compile", "free_rplx", "match"}
  MaxCalls = 3
  MaxBlock = 1
  LuaOutput = {"fits"}
SPECIFICATION Spec
INVARIANTS
  TypeOK
  NamesKept
  FreeListSound
  ResultsIntact
PROPERTIES
  CallsAtomic
SYMMETRY Interchangeable
