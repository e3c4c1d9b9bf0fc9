SPECIFICATION FairSpec
CONSTANTS
  NewStyle = TRUE
  PrimMap <- MCPrimMap
  ClvmOp <- MCClvmOp
  ExtFuns <- MCExtFuns
  ExtEval <- MCExtEval
  Programs <- AllPrograms
  IterLimits <- SomeLimits
  Fuel = 6
  MockOf <- NoMock
INVARIANTS TypeOK TailCallsKeepTheChainShort
PROPERTIES MeaningKept EvaluatesInOneStep NoCallerDropped LimitedRunReturns
