SPECIFICATION SpecOfAll
CONSTANTS
  NewStyle = TRUE
  PrimMap <- MCPrimMap
  ClvmOp <- MCClvmOp
  ExtFuns = {}
  ExtEval <- MCExtEval
  Fuel = 6
  MockOf <- NoMock
  TreeHash <- TreeHashOf
  SymbolTable <- Symbols
  CallOverride <- CallOf
  PrintWord <- Word
  Overrides <- FlatOverrides
  DebuggedPrograms <- FlatPrograms
  HierarchyPrograms <- LeveledPrograms
  Tells <- RowsFromTo
  Runs <- ServiceRuns
  MaxDrops = 2
INVARIANTS TypesOK ReferencesResolve FramesMatch TreeIsTheWholeRun InStep
PROPERTIES DebugsFaithfully RunsLikeTheProgram HandleSteps StepReturns ThreadEnds
