SPECIFICATION SpecOfAll
CONSTANTS
  Names <- MCNames
  Forms <- MCForms
  MCFuel = 30
  MCDepth = 6
  ProgramsOf <- MCProgramsOf
  MCStackLimit = 40
  MCCodeFuel = 12
  CodesToOptimize <- MCCodesToOptimize
  EnvsOfCodes <- MCEnvsOfCodes
INVARIANTS
  TypeOK EachFollowsWhatItNeeds OnlyCirclesDeadlock StagesProvide BestStack
  ReadsWhatIsWritten RenamingKeepsMeaning DesugaringClosesFunctions CompiledMeansTheSame ShrunkMeansTheSame LinkedIsTheFlatProgram RefusesOnlyTheIllFormed OptimizedGivesTheSame
PROPERTIES EachTurnLeavesLess
