SPECIFICATION Spec
CONSTANTS
  Procs = {p1}
  Main <- MainFile
  TextsOf <- RenamedTexts
  Kind <- MCKind
  Imports <- MCImports
  Exports <- MCExports
INVARIANTS ComponentsKeepTheirNames
