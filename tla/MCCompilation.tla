--------------------------- MODULE MCCompilation ---------------------------
(***************************************************************************)
(* Instances of the compilers, in one graph: the ordering of assign forms, *)
(* step by step, whole compilations of small programs, and the classic     *)
(* optimizer's rounds over code.  One of them works and the others stay at *)
(* their beginning.                                                        *)
(***************************************************************************)
EXTENDS TopoSort

CONSTANTS
  MCFuel,     \* bound: how deep compiled programs may nest
  MCDepth,    \* bound: how deep calls of the source may go
  MCStackLimit,  \* bound: how deep the evaluator may go, 200 in the code
  ProgramsOf,   \* the programs to compile, by task
  MCCodeFuel,   \* bound: how deep optimized code may nest
  CodesToOptimize, EnvsOfCodes    \* code for the classic optimizer, and what it is run on

VARIABLES
  part,                                                 \* which of them works
  task, text, source, program, pass, turn, links, generator, code,     \* Compiler
  given, r, state                                             \* ClassicOptimizer

compilation == <<task, text, source, program, pass, turn, links, generator, code>>
optimization == <<given, r, state>>
varsOfAll == <<part, vars, compilation, optimization>>

(***************************************************************************)
(* Assign forms: three bindings of one name that mention any of three      *)
(* names, and a fourth of up to two names, one of which may be its own or  *)
(* from outside the form.                                                  *)
(***************************************************************************)
Binds(mentions, has) == [mentions |-> mentions, has |-> has]
Simple(n) == {Binds(m, {n}) : m \in SUBSET {"a", "b", "d"}}
Chained == {Binds(m, {"f"}) : m \in {{}, {"a", "e"}, {"f"}}}
Destructured ==
  {Binds({"a"}, {"d"}), Binds({"c"}, {"d", "e"}), Binds({}, {}), Binds({"e", "b"}, {"d", "e"}),
   Binds({"f"}, {"d", "e"})}

MCNames == {"a", "b", "c", "d", "e", "f"}
MCForms ==
  {<<x, y, z, w>> : x \in Simple("a"), y \in Simple("b"), z \in Chained, w \in Destructured}

(***************************************************************************)
(* The operators programs use besides the machine's own: l (7) and + (16). *)
(***************************************************************************)
NoPrimMap == <<>>
V == INSTANCE ClvmValues WITH NewStyle <- TRUE, PrimMap <- NoPrimMap
Sum_(args) == V!Int_(FoldLeft(LAMBDA s, v : s + V!atom_value(v), 0, args))
ListpAndPlus(op, args) ==
  CASE op = 7 /\ Len(args) = 1 -> IF V!IsCons(args[1]) THEN V!Int_(1) ELSE V!Nil
    [] op = 32 /\ Len(args) = 1 -> IF V!truthy(args[1]) THEN V!Nil ELSE V!Int_(1)
    [] op = 16 /\ \A i \in DOMAIN args : args[i] # V!Fail /\ ~V!IsCons(args[i]) -> Sum_(args)
    [] OTHER -> V!Fail
NoExtension(name, args) == V!Fail
NoOverrides(prog, args) == <<"none">>

P == INSTANCE CompilerPrograms WITH NewStyle <- TRUE, PrimMap <- NoPrimMap

MCProgramsOf ==
  ([strict |-> TRUE, frontend_opt |-> FALSE, wanted |-> "code"] :> P!MCSources)
    @@ ([strict |-> FALSE, frontend_opt |-> TRUE, wanted |-> "code"] :> P!MCOptimized)
    @@ ([strict |-> TRUE, frontend_opt |-> FALSE, wanted |-> "smaller code"] :> P!MCShared)
    @@ ([strict |-> TRUE, frontend_opt |-> FALSE, wanted |-> "expression"] :> P!MCShrunk)
    @@ ([strict |-> TRUE, frontend_opt |-> FALSE, wanted |-> "program"] :> P!MCTexts)
    @@ ([strict |-> TRUE, frontend_opt |-> FALSE, wanted |-> "linked code"] :> P!MCLinked)

C == INSTANCE Compiler WITH
  NewStyle <- TRUE, PrimMap <- NoPrimMap, ClvmOp <- ListpAndPlus, ExtFuns <- {}, ExtEval <- NoExtension,
  MockOf <- NoOverrides, Fuel <- MCFuel, Depth <- MCDepth, StackLimit <- MCStackLimit, Sources <- ProgramsOf, Inputs <- P!MCInputs

K == INSTANCE MCClassicOptimizer WITH
  NewStyle <- TRUE, PrimMap <- NoPrimMap, ClvmOp <- ListpAndPlus, ExtFuns <- {}, ExtEval <- NoExtension,
  MockOf <- NoOverrides, Fuel <- MCCodeFuel, Codes <- {}, Envs <- {}
MCCodesToOptimize == K!MCCodes
MCEnvsOfCodes == K!MCEnvs

O == INSTANCE ClassicOptimizer WITH
  NewStyle <- TRUE, PrimMap <- NoPrimMap, ClvmOp <- ListpAndPlus, ExtFuns <- {}, ExtEval <- NoExtension,
  MockOf <- NoOverrides, Fuel <- MCCodeFuel, Codes <- CodesToOptimize, Envs <- EnvsOfCodes

InitOfAll ==
  /\ part \in {"assign", "compile", "optimize"}
  /\ IF part = "assign" THEN Init ELSE list = (CHOOSE form \in Forms : TRUE) /\ Init
  /\ IF part = "compile" THEN C!Init ELSE C!Start(C!Strictly, P!Program(V!Nil, <<>>, P!N(0)))
  /\ IF part = "optimize" THEN O!Init ELSE O!Start(V!Nil)

\* What has ended stays as it is.
Rests ==
  \/ part = "assign" /\ phase \in {"deadlock", "built"}
  \/ part = "compile" /\ C!Ended
  \/ part = "optimize" /\ state \in {"done", "error"}

NextOfAll ==
  \/ part = "assign" /\ Next /\ UNCHANGED <<part, compilation, optimization>>
  \/ part = "compile" /\ C!Next /\ UNCHANGED <<part, vars, optimization>>
  \/ part = "optimize" /\ O!Next /\ UNCHANGED <<part, vars, compilation>>
  \/ Rests /\ UNCHANGED varsOfAll

SpecOfAll == InitOfAll /\ [][NextOfAll]_varsOfAll

(***************************************************************************)
(* Properties                                                              *)
(***************************************************************************)

\* A program is read as it was written, and can be written and read again
\* (frontend.rs, comptypes.rs to_sexp).
ReadsWhatIsWritten == C!ReadsWhatIsWritten

\* A renamed program means what it meant, with every name bound once
\* (rename.rs).
RenamingKeepsMeaning == C!RenamingKeepsMeaning

\* Desugaring leaves functions that have every name they use (codegen.rs
\* process_helper_let_bindings).
DesugaringClosesFunctions == C!DesugaringClosesFunctions

\* The compiled program gives what the source says (compiler.rs
\* compile_pre_forms).
CompiledMeansTheSame == C!CompiledMeansTheSame

\* A shrunk expression means what it meant (evaluate.rs shrink_bodyform).
ShrunkMeansTheSame == C!ShrunkMeansTheSame

\* A linked program is the one without namespaces that was meant (resolve.rs
\* resolve_namespaces).
LinkedIsTheFlatProgram == C!LinkedIsTheFlatProgram

\* A program is refused for a reason (codegen.rs, inline.rs).
RefusesOnlyTheIllFormed == C!RefusesOnlyTheIllFormed

\* A compilation comes nearer to its end with every turn (codegen.rs
\* process_helper_let_bindings).
EachTurnLeavesLess == C!EachTurnLeavesLess

\* Optimized code gives what the code gave (classic optimize.rs optimize_sexp).
OptimizedGivesTheSame == O!OptimizedGivesTheSame
=============================================================================
