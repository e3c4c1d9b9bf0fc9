---------------------------- MODULE MCModuleCache ----------------------------
(***************************************************************************)
(* Instances of the module cache: a main module that imports a module      *)
(* that imports a .clinc file, and main modules of other kinds.            *)
(***************************************************************************)
EXTENDS ModuleCache

Import(f) == [how |-> "import", file |-> f]
Include(f) == [how |-> "include", file |-> f]
Export(n) == [name |-> n, as |-> n]
ExportAs(n, a) == [name |-> n, as |-> a]

MainFile == "main"

Interchangeable == Permutations(Procs)

\* Nothing reads the output files: where no property is about them, states
\* that differ in them alone count as one.
WithoutOutputs == <<files, cache, job>>

\* Every text there is.
MCKind == [main_1 |-> "module", main_prog |-> "module",
           main_as |-> "module",
           sub_1 |-> "module", sub_2 |-> "module",
           lib_1 |-> "forms", lib_2 |-> "forms", inc_1 |-> "forms", inc_2 |-> "forms",
           prog |-> "program"]
MCImports ==
  [t \in DOMAIN MCKind |->
     CASE t \in {"main_1", "main_as"} -> <<Import("sub"), Include("inc")>>
       [] t = "main_prog" -> <<Import("prog")>>
       [] t = "sub_1"     -> <<Import("lib")>>
       [] t = "prog"      -> <<Include("inc")>>
       [] OTHER           -> <<>>]
MCExports ==
  [t \in DOMAIN MCKind |->
     CASE t = "main_as" -> <<ExportAs("F", "Renamed")>>
       [] OTHER -> <<Export("F")>>]

\* A module two imports away that is edited, one that is edited to read it no
\* more, and an include that stays.
ImportTexts == [main |-> {"main_1"}, sub |-> {"sub_1", "sub_2"}, lib |-> {"lib_1", "lib_2"}, inc |-> {"inc_1"}]
\* A plain program that is imported, and reads an include that is edited.
ProgramTexts == [main |-> {"main_prog"}, prog |-> {"prog"}, inc |-> {"inc_1", "inc_2"}]
\* An export under another name.
RenamedTexts == [main |-> {"main_as"}, sub |-> {"sub_1"}, lib |-> {"lib_1"}, inc |-> {"inc_1"}]

\* The key is one for the first of these, and not for the others.
ASSUME WhatTheKeyTells == KeysTell <=> TextsOf = ImportTexts
\* Of the second the program that is imported reads an include.
ASSUME WhatIsImported == ImportsEnd /\ (LeavesImported <=> TextsOf # ProgramTexts)
=============================================================================
