--------------------------- MODULE MCCompilerFlaws ---------------------------
(***************************************************************************)
(* Instances of programs the compiler gets wrong: calls of an inline       *)
(* function with arguments after &rest, in cl-22 calls of functions and    *)
(* conditions with names that a let binds, and in cl-23 expressions that   *)
(* some branch of a condition in a branch does without.                    *)
(***************************************************************************)
EXTENDS Compiler

NoPrimMap == <<>>
NoClvmOp(op, args) == Fail
NoExtension(name, args) == Fail
NoOverrides(prog, args) == NoOverride

P == INSTANCE CompilerPrograms
TwoOfTheTail == P!Items(<<P!A, P!B>>)
RestCalls ==
  Strictly :> {{Program(P!AB, <<Helper(kind, Name("F"), P!AB, e)>>, Call(<<P!V("F")>>, TwoOfTheTail)) :
                  kind \in P!Kinds, e \in {P!A, P!B, P!ConsOf(P!A, P!B)}}}
LetCalls ==
  Cl22 :> {{Program(P!AB, <<f>>, P!LetOf(<<P!Binding(P!T("C"), P!ConsOf(P!A, P!B))>>, body)) :
              f \in {P!Function("F", P!AB, P!B)},
              body \in {P!C, P!CallOf("c", <<P!C, P!A>>), P!CallOf("F", <<P!A, P!C>>)}}}
MCInputs == {ListOf(<<Int_(1), Int_(2)>>, Nil)}

Failing == P!CallOf("f", <<P!B>>)
Branches ==
  Cl23 :> {{Program(P!AB, <<P!Function("F", P!AB, P!If(P!A, e, P!If(P!B, e, P!N(5))))>>, P!CallOf("F", <<P!A, P!B>>)) :
              e \in {Failing, P!ConsOf(P!A, P!B)}}}
MCBranchInputs == {ListOf(<<Int_(a), b>>, Nil) : a \in {0, 1}, b \in {Nil, Pair(Int_(3), Int_(4))}}

CompiledGivesTheSame ==
  pass = "done" => \A v \in Inputs : CodeMeaning(code, v) = ProgramMeaning(source, v)

\* What an inline function finds under a name is "the expression that would in
\* a normal function call correspond to the given argument number" (inline.rs
\* choose_arg_from_list_or_tail).
InlinesAreGivenTheArguments == CompiledGivesTheSame

\* Where a let is taken away, what it bound is put in its place: "the 'least
\* complex' version of the expression we can make with what we know"
\* (evaluate.rs shrink_bodyform).
EvaluatedExpressionsMeanTheSame == CompiledGivesTheSame

\* What only some ways through a condition compute is not computed above it:
\* "(if a *b (if c (if d *e *f) h)) // Can't precompute; might not be safe in
\* h." (cse.rs).
HoistedExpressionsAreComputedAnyway == CompiledGivesTheSame
=============================================================================
