SPECIFICATION Spec
CONSTANTS
  NewStyle = TRUE
  PrimMap <- NoPrimMap
  ClvmOp <- NoClvmOp
  ExtFuns = {}
  ExtEval <- NoExtension
  MockOf <- NoOverrides
  Fuel = 30
  Depth = 6
  StackLimit = 40
  Sources <- Branches
  Inputs <- MCBranchInputs
INVARIANT HoistedExpressionsAreComputedAnyway
CHECK_DEADLOCK FALSE
