SPECIFICATION Spec
CONSTANTS
  NewStyle = TRUE
  PrimMap <- NoPrimMap
  ClvmOp <- ListpAndPlus
  ExtFuns = {}
  ExtEval <- NoExtension
  MockOf <- NoOverrides
  Fuel = 12
  Codes <- NilOperand
  Envs <- MCEnvs
INVARIANT OptimizedGivesTheSame
CHECK_DEADLOCK FALSE
