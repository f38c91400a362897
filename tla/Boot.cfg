CONSTANTS
  Threads = {t1, t2}
  Homes = {h1, h2}
  NULL = NULL
  MaxCalls = 2
SPECIFICATION Spec
INVARIANTS
  HomeInLife
  HomeGiven
  EnginesBooted
  NothingLeaks
  BootingExclusive
PROPERTIES
  SettledOnce
  CallsReturn
