CONSTANTS
  Char = {"a", "b", "c"}
  MAXRULES = 3
  MAXBEHIND = 2
  MaxSubject = 4
  Patterns <- Uninitialised
  Junks <- AnyJunk
  Programs <- MCPrograms
  Code <- MCCode
  Shape <- MCShape
  Trees <- MCTrees
  Analysed = TRUE
  Answers <- MCAnswers
  Analyses <- MCAnalyses
  Subjects <- MCSubjects
  Uninit <- BlankSlot
  INIT_CAPLISTSIZE = 8
  MAX_CAPLISTSIZE = 8
  MAX_BACKTRACK = 8
SPECIFICATION Spec
PROPERTIES
  Correct
