CONSTANTS
  Threads = {t1, t2}
  Objects = {o1}
  NULL = NULL
  Ops = {"compile", "match"}
  MaxCalls = 2
  MaxBlock = 1
  LuaOutput = {"fits", "grows"}
SPECIFICATION Spec
INVARIANTS
  ResultsIntact
