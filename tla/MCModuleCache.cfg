SPECIFICATION Spec
CONSTANTS
  Procs = {p1, p2}
  Main <- MainFile
  TextsOf <- ImportTexts
  Kind <- MCKind
  Imports <- MCImports
  Exports <- MCExports
INVARIANTS TypeOK
PROPERTIES CacheIsInvisible EntriesAgree
SYMMETRY Interchangeable
VIEW WithoutOutputs
