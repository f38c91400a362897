CONSTANTS
  Threads = {t1, t2}
  Objects = {o1}
  NULL = NULL
  Ops = {"compile", "free_rplx", "match", "trace", "matchfile", "alloc_limit",
         "config", "libpath", "load", "loadfile", "import", "syntax_op",
         "read_rcfile", "execute_rcfile", "finalize"}
  MaxCalls = 2
  MaxBlock = 0
  LuaOutput = {"fits"}
SPECIFICATION Spec
INVARIANTS
  Exclusive
  StackInPlace
  ErrorsAreText
PROPERTIES
  CallsReturn
