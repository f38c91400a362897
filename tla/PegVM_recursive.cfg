CONSTANTS
  Char = {"a", "b", "c"}
  MAXRULES = 3
  MAXBEHIND = 2
  Junks <- NoJunk
  MaxSubject = 4
  Patterns <- Recursive
  Programs <- MCPrograms
  Code <- MCCode
  Shape <- MCShape
  Trees <- MCTrees
  Analysed = FALSE
  Answers <- MCAnswers
  Analyses <- MCAnalyses
  Subjects <- MCSubjects
  Uninit <- BlankSlot
  INIT_CAPLISTSIZE = 1
  MAX_CAPLISTSIZE = 5
  MAX_BACKTRACK = 8
SPECIFICATION Spec
INVARIANTS
  TypeOK
  StackAssertions
  CaptureLevels
  NoRunaway
PROPERTIES
  Correct
  Termination
