SPECIFICATION Spec
CONSTANTS
  Procs = {p1}
  Main <- MainFile
  TextsOf <- ProgramTexts
  Kind <- MCKind
  Imports <- MCImports
  Exports <- MCExports
INVARIANTS KeyDeterminesOutput
