SPECIFICATION Spec
CONSTANTS
  NewStyle = TRUE
  PrimMap <- NoPrimMap
  ClvmOp <- NoClvmOp
  ExtFuns = {}
  ExtEval <- NoExtension
  MockOf <- NoOverrides
  Fuel = 30
  Depth = 6
  StackLimit = 40
  Sources <- RestCalls
  Inputs <- MCInputs
INVARIANT InlinesAreGivenTheArguments
CHECK_DEADLOCK FALSE
