------------------------------ MODULE Compiler ------------------------------
(***************************************************************************)
(* A compilation (compiler/compiler.rs compile_pre_forms): a program's     *)
(* text is read form by form, then the passes go over it one after the     *)
(* other, with one turn of a pass for each helper.  An error ends it.      *)
(*                                                                         *)
(* A task is the language, that is whether it is strict and whether the    *)
(* evaluator goes over the program first, as in cl-22, and what is wanted: *)
(* the code, smaller code, as from cl-23 on, the expression with all that  *)
(* is known of it (bins/shrink.rs), or only the program as it was read.  A *)
(* program may be linked first, as modules are.                            *)
(*                                                                         *)
(* For smaller code, which of the functions made for lets are inline is    *)
(* tried out (optimize/deinline.rs).  Any choice may come out here, since  *)
(* all that are tried have to compile.                                     *)
(***************************************************************************)
EXTENDS Evaluator, Resolve, Sharing

CONSTANTS
  Sources,     \* sets of programs to compile, by task; of texts, where they are only
               \* read; with namespaces and without, where they are linked
  Inputs,      \* what they are run on
  Depth        \* bound: how deep calls go in a meaning

VARIABLES
  task,         \* what is to be done
  text,         \* the program's text
  source,       \* the program that was meant
  program,      \* what the passes have made of it
  pass,        \* the pass that is next
  turn,         \* the helper whose turn it is
  links,        \* the helpers found for names, those still to link and those linked
  generator,    \* the code generator
  code          \* the compiled program

vars == <<task, text, source, program, pass, turn, links, generator, code>>

NoGenerator == <<"none">>
NoCode == <<"none">>

Strictly == [strict |-> TRUE, frontend_opt |-> FALSE, wanted |-> "code"]
Cl22 == [strict |-> FALSE, frontend_opt |-> TRUE, wanted |-> "code"]
Cl23 == [strict |-> TRUE, frontend_opt |-> FALSE, wanted |-> "smaller code"]
Shrinking == [strict |-> TRUE, frontend_opt |-> FALSE, wanted |-> "expression"]
Reading == [strict |-> TRUE, frontend_opt |-> FALSE, wanted |-> "program"]
Linking == [strict |-> TRUE, frontend_opt |-> FALSE, wanted |-> "linked code"]

NoLinks == [new |-> {}, done |-> {}]
Empty == Program(Nil, <<>>, Value(Nil))

Start(t, given) ==
  /\ task = t
  /\ text = IF t = Reading THEN given ELSE ProgramText(TRUE, IF t = Linking THEN given[1] ELSE given)
  /\ source = IF t = Reading THEN Empty ELSE IF t = Linking THEN given[2] ELSE given
  /\ program = [Empty EXCEPT !.args = First(text)]
  /\ pass = "read" /\ turn = 1
  /\ links = NoLinks
  /\ generator = NoGenerator /\ code = NoCode

Init == \E t \in DOMAIN Sources : \E family \in Sources[t] : \E given \in family : Start(t, given)

\* The forms of a program define helpers.
ReadHelper ==
  /\ pass = "read" /\ turn < Len(ProgramForms(text))
  /\ \E h \in {compile_helperform(ProgramForms(text)[turn])} :
       IF h = NoHelper
       THEN pass' = "error" /\ UNCHANGED program
       ELSE program' = [program EXCEPT !.helpers = Append(@, h)] /\ UNCHANGED pass
  /\ turn' = turn + 1
  /\ UNCHANGED <<task, text, source, links, generator, code>>

\* The last one is its expression.
ReadExpression ==
  /\ pass = "read" /\ turn >= Len(ProgramForms(text))
  /\ \E e \in {ReadExp(text)} :
       IF e = Malformed
       THEN pass' = "error" /\ UNCHANGED program
       ELSE pass' = "rename" /\ program' = [program EXCEPT !.exp = e]
  /\ turn' = 1
  /\ UNCHANGED <<task, text, source, links, generator, code>>

\* The expressions of a program.
Bodies_(p) == {p.exp} \cup {found.helper.body : found \in Range(tour_helpers(p.helpers, <<>>))}

\* An assign form whose bindings need each other is found while renaming.
Rename ==
  /\ pass = "rename" /\ task # Reading
  /\ IF \E e \in Bodies_(program) : Circular(e)
     THEN pass' = "error" /\ UNCHANGED program
     ELSE pass' = "live" /\ program' = rename_children_compileform(program)
  /\ UNCHANGED <<task, text, source, links, turn, generator, code>>

DropDeadHelpers ==
  /\ pass = "live"
  /\ program' = compute_live_helpers(program)
  /\ pass' = CASE task = Linking   -> "resolve"
               [] task = Shrinking -> "shrink"
               [] task = Cl22      -> "frontend_opt"
               [] task = Cl23      -> "share"
               [] task = Strictly  -> "desugar"
  /\ UNCHANGED <<task, text, source, links, turn, generator, code>>

\* resolve_namespaces: what the program's expression names is looked up
ResolveExpression ==
  /\ pass = "resolve"
  /\ \E r \in {resolve_namespaces_in_expr(tour_helpers(program.helpers, <<>>), <<>>, capture_scope(program.args), program.exp)} :
       IF r = Unresolved
       THEN pass' = "error" /\ UNCHANGED <<program, links>>
       ELSE pass' = "link" /\ program' = [program EXCEPT !.exp = r[1]] /\ links' = [links EXCEPT !.new = r[2]]
  /\ UNCHANGED <<task, text, source, turn, generator, code>>

\* and then, round by round, what those helpers name.
ResolveRound ==
  /\ pass = "link" /\ links.new # {}
  /\ LET new == {t \in links.new : Name(as_u8_vec(t.long)) \notin {h.name : h \in links.done}}
     IN \E rs \in {{resolve_namespaces_in_helper(tour_helpers(program.helpers, <<>>), t) : t \in new}} :
          IF Unresolved \in rs
          THEN pass' = "error" /\ UNCHANGED links
          ELSE /\ links' = [new |-> UNION {r[2] : r \in rs}, done |-> links.done \cup {r[1] : r \in rs}]
               /\ UNCHANGED pass
  /\ UNCHANGED <<task, text, source, program, turn, generator, code>>

\* The helpers found are the program's, ordered by their names; which order
\* that is makes no difference here.
FinishLinking ==
  /\ pass = "link" /\ links.new = {}
  /\ program' = [program EXCEPT !.helpers = SetToSeq(links.done)]
  /\ pass' = "desugar"
  /\ UNCHANGED <<task, text, source, turn, links, generator, code>>

FrontendOptimization ==
  /\ pass = "frontend_opt"
  /\ \E p \in {fe_opt(task.strict, program)} :
       IF p.exp = Refused
       THEN pass' = "error" /\ UNCHANGED program
       ELSE pass' = "desugar" /\ program' = p
  /\ UNCHANGED <<task, text, source, links, turn, generator, code>>

ShareSubexpressions ==
  /\ pass = "share"
  /\ \E p \in {Shared(program)} :
       IF \E h \in Range(p.helpers) : h.body = Refused
       THEN pass' = "error" /\ UNCHANGED program
       ELSE pass' = "desugar" /\ program' = p
  /\ UNCHANGED <<task, text, source, links, turn, generator, code>>

Shrink ==
  /\ pass = "shrink"
  /\ \E e \in {ShrinkProgram(task.strict, program)} :
       IF e = Refused
       THEN pass' = "error" /\ UNCHANGED program
       ELSE pass' = "shrunk" /\ program' = [program EXCEPT !.exp = e]
  /\ UNCHANGED <<task, text, source, links, turn, generator, code>>

DesugarProgram ==
  /\ pass = "desugar"
  /\ program' = HoistProgram(program)
  /\ pass' = "desugar_helpers"
  /\ UNCHANGED <<task, text, source, links, turn, generator, code>>

DesugarHelper ==
  /\ pass = "desugar_helpers" /\ turn <= Len(program.helpers)
  /\ program' = HoistHelper(program, turn)
  /\ turn' = turn + 1
  /\ UNCHANGED <<task, text, source, links, pass, generator, code>>

\* deinline_opt: a function made for a let is inline or not.
LetFunctions(p) == {i \in DOMAIN p.helpers : p.helpers[i].name[1] = "letbinding"}
Deinline ==
  /\ pass = "desugar_helpers" /\ turn > Len(program.helpers)
  /\ \E flipped \in IF task = Cl23 THEN SUBSET LetFunctions(program) ELSE {{}} :
       program' = [program EXCEPT !.helpers =
         [i \in DOMAIN @ |-> IF i \notin flipped THEN @[i]
                             ELSE [@[i] EXCEPT !.kind = IF @ = "inline" THEN "function" ELSE "inline"]]]
  /\ pass' = "start" /\ turn' = 1
  /\ UNCHANGED <<task, text, source, links, generator, code>>

StartCodegen ==
  /\ pass = "start"
  /\ IF Redefined(program)
     THEN pass' = "error" /\ UNCHANGED generator
     ELSE /\ pass' = IF task = Cl23 THEN "fold" ELSE "codegen"
          /\ generator' = start_codegen(task.strict, task = Cl23, program)
  /\ UNCHANGED <<task, text, source, links, program, turn, code>>

\* do_start_codegen_optimization_and_dead_code_elimination.
FoldRound ==
  /\ pass = "fold"
  /\ \E p \in {start_of_codegen_optimization(generator, program)} :
       IF p = program
       THEN pass' = "codegen" /\ UNCHANGED <<program, generator>>
       ELSE /\ program' = p /\ generator' = start_codegen(task.strict, TRUE, p)
            /\ UNCHANGED pass
  /\ UNCHANGED <<task, text, source, links, turn, code>>

CodegenHelper ==
  /\ pass = "codegen" /\ turn <= Len(program.helpers)
  /\ \E h \in {program.helpers[turn]} : \E g \in {codegen_(generator, h)} :
       IF CannotRedefine(generator, h) \/ (h.kind = "function" /\ HasFail(g.defuns[h.name]))
        THEN pass' = "error" /\ UNCHANGED generator
        ELSE generator' = g /\ UNCHANGED pass
  /\ turn' = turn + 1
  /\ UNCHANGED <<task, text, source, links, program, code>>

FinalCodegen ==
  /\ pass = "codegen" /\ turn > Len(program.helpers)
  /\ \E final \in {final_codegen(generator, program)} :
       IF HasFail(final)
        THEN pass' = "error" /\ UNCHANGED code
        ELSE pass' = "done" /\ code' = final
  /\ UNCHANGED <<task, text, source, links, program, turn, generator>>

Next ==
  \/ ReadHelper \/ ReadExpression
  \/ Rename \/ DropDeadHelpers \/ ResolveExpression \/ ResolveRound \/ FinishLinking
  \/ FrontendOptimization \/ ShareSubexpressions \/ Shrink
  \/ DesugarProgram \/ DesugarHelper \/ Deinline
  \/ StartCodegen \/ FoldRound \/ CodegenHelper \/ FinalCodegen

Spec == Init /\ [][Next]_vars

(***************************************************************************)
(* What a program means, read off its text: arguments are computed before  *)
(* a call, a let form before its body.  This is what the compiled program  *)
(* is compared with.                                                       *)
(*                                                                         *)
(* Fail is a program that has no meaning here: one that fails, that looks  *)
(* at how functions are represented, or that calls too deep.               *)
(***************************************************************************)
\* Values that are no SExp: the environment, an expression in its frame, a
\* function, and a lambda with what it captured.
TheEnv == <<"env">>
Suspended(e, frame) == <<"suspended", e, frame>>
Named(name) == <<"function", name>>
Closure(e, captured) == <<"closure", e, captured>>
IsData(v) == v # Fail /\ v[1] \in {"nil", "int", "bytes", "cons"}

\* The names of an argument list over a value.  A part the value does not
\* have fails where it is used.
RECURSIVE Destructured(_, _)
Destructured(pattern, v) ==
  CASE IsAtom(pattern) -> NameOf(pattern) :> v
    [] is_at_capture(pattern) -> (CaptureOf(pattern) :> v) @@ Destructured(SubOf(pattern), v)
    [] IsCons(pattern) /\ ~is_at_capture(pattern) ->
         Destructured(First(pattern), IF IsCons(v) THEN First(v) ELSE Fail)
           @@ Destructured(Rest(pattern), IF IsCons(v) THEN Rest(v) ELSE Fail)
    [] OTHER -> <<>>

Callables(p) == ByName(SelectSeq(p.helpers, LAMBDA h : h.kind # "constant"))

VariableMeaning(p, frame, name) ==
  LET named == {h \in Range(p.helpers) : h.name = name}
      h == CHOOSE h \in named : TRUE
  IN CASE name \in EnvRefs -> TheEnv
       [] name \in DOMAIN frame -> frame[name]
       [] name \notin DOMAIN frame \cup EnvRefs /\ named # {} ->
            (CASE h.kind = "constant" -> h.body[2]
               [] h.kind = "function" -> Named(name)
               [] h.kind = "inline"   -> Fail)
       [] OTHER -> Fail

RECURSIVE ExpMeaning(_, _, _, _)

\* A function of these arguments and this body on a list of values.
Called(p, pattern, body, v, depth) ==
  IF depth = 0 THEN Fail ELSE ExpMeaning(p, Destructured(pattern, v), body, depth - 1)

ApplyMeaning(p, f, v, depth) ==
  CASE f[1] = "function"  -> Called(p, Callables(p)[f[2]].args, Callables(p)[f[2]].body, v, depth)
    [] f[1] = "closure"   -> Called(p, Pair(CaptureArgs(f[2]), ArgsOf(f[2])), LambdaBody(f[2]), Pair(f[3], v), depth)
    [] f[1] = "suspended" -> IF v = TheEnv THEN ExpMeaning(p, f[3], f[2], depth) ELSE Fail
    [] IsData(f) /\ v # TheEnv -> Eval(f, v, Fuel)
    [] OTHER -> Fail

\* Operators that only carry their arguments, and the test of a condition,
\* take any value; others take data.
PrimMeaning(op, vals) ==
  CASE op \in {4, 5, 6} -> Operate(Int_(op), vals, Nil, 0)
    [] op = 3 -> IF Len(vals) = 3 /\ IsData(vals[1]) THEN Operate(Int_(3), vals, Nil, 0) ELSE Fail
    [] OTHER -> IF \A i \in DOMAIN vals : IsData(vals[i]) THEN Operate(Int_(op), vals, Nil, 0) ELSE Fail

CallMeaning(p, name, vals, tail, depth) ==
  CASE Fail \in Range(vals) \cup {tail} -> Fail
    [] Fail \notin Range(vals) \cup {tail} /\ name \in DOMAIN Callables(p) ->
         Called(p, Callables(p)[name].args, Callables(p)[name].body, ListOf(vals, tail), depth)
    [] OTHER ->
         (CASE tail # Nil \/ get_prim(name) = Fail -> Fail
            [] get_prim(name) = Int_(2) /\ tail = Nil ->
                 IF Len(vals) = 2 THEN ApplyMeaning(p, vals[1], vals[2], depth) ELSE Fail
            [] OTHER -> PrimMeaning(atom_value(get_prim(name)), vals))

\* A let gives all its values at once, let* and assign one after the other.
\* inner is the frame so far and the values in it.
LetMeaning(p, frame, e, depth) ==
  LET bs == Bindings(e)
      order == IF Kind(e) = "assign" THEN toposort_assign_bindings(bs) ELSE [k \in DOMAIN bs |-> k]
      Bind(inner, k) ==
        With(ExpMeaning(p, IF Kind(e) = "parallel" THEN frame ELSE inner[1], bs[k].body, depth),
             LAMBDA v : <<Destructured(bs[k].pattern, v) @@ inner[1], Append(inner[2], v)>>)
  IN With(FoldLeft(Bind, <<frame, <<>> >>, order), LAMBDA inner :
       IF Fail \in Range(inner[2]) THEN Fail ELSE ExpMeaning(p, inner[1], LetBody(e), depth))

ExpMeaning(p, frame, e, depth) ==
  CASE IsQuoted(e) -> e[2]
    [] IsVariable(e) -> VariableMeaning(p, frame, NameOf(e[2]))
    [] IsValue(e) /\ ~IsVariable(e) -> e[2]
    [] IsLet(e) -> LetMeaning(p, frame, e, depth)
    [] IsLambda(e) ->
         With(ExpMeaning(p, frame, Captures(e), depth), LAMBDA v : IF v = Fail THEN Fail ELSE Closure(e, v))
    [] IsCall(e) ->
         IF e[2][1] = Variable(Name("com")) THEN Suspended(e[2][2], frame)
         ELSE CHOOSE r \in {CallMeaning(p, NameOf(e[2][1][2]), vals, tail, depth) :
                vals \in {[k \in 1..(Len(e[2]) - 1) |-> ExpMeaning(p, frame, e[2][k + 1], depth)]},
                tail \in {IF e[3] = NoTail THEN Nil ELSE ExpMeaning(p, frame, e[3], depth)}} : TRUE

\* Numbers as numbers; Fail where anything else than data is in v.
RECURSIVE Plain(_)
Plain(v) ==
  CASE ~IsData(v) -> Fail
    [] IsData(v) /\ ~IsCons(v) -> Int_(atom_value(v))
    [] OTHER -> LET a == Plain(First(v)) b == Plain(Rest(v))
                IN IF Fail \in {a, b} THEN Fail ELSE Pair(a, b)

ProgramMeaning(p, v) == Plain(ExpMeaning(p, Destructured(p.args, v), p.exp, Depth))

CodeMeaning(prog, v) == With(Eval(prog, v, Fuel), LAMBDA r : IF Bad(r) THEN Fail ELSE Plain(r))

(***************************************************************************)
(* Properties                                                              *)
(***************************************************************************)
Ended == pass \in {"done", "shrunk", "error"} \/ (pass = "rename" /\ task = Reading)
Desugared == pass = "codegen" \/ pass = "done"

\* The names e binds, as often as it binds them.
RECURSIVE Binders(_)
Binders(e) ==
  LET own == CASE IsLet(e)    -> [k \in DOMAIN Bindings(e) |-> NamesIn(Bindings(e)[k].pattern)]
               [] IsLambda(e) -> <<NamesIn(ArgsOf(e))>>
               [] OTHER       -> <<>>
  IN FlattenSeq(Each(LAMBDA names : SetToSeq(names \ EnvRefs), own) \o Each(Binders, Parts(e)))

ProgramBinders(p) ==
  FlattenSeq([i \in DOMAIN p.helpers |->
                SetToSeq(NamesIn(p.helpers[i].args) \ EnvRefs) \o Binders(p.helpers[i].body)])
    \o Binders(p.exp)

NamesBoundOnce(p) ==
  /\ IsInjective(ProgramBinders(p))
  /\ Range(ProgramBinders(p)) \cap (NamesIn(p.args) \cup NamesOf(p.helpers)) = {}

\* The names e uses as variables that neither its surroundings give, nor the
\* program; a lambda sees what it captures of its surroundings.
RECURSIVE Unbound(_, _, _)
Unbound(globals, bound, e) ==
  LET bs == Bindings(e)
      Before(k) == UNION {NamesIn(bs[j].pattern) : j \in 1..(k - 1)}
      Around(k) == CASE Kind(e) = "parallel"   -> bound
                     [] Kind(e) = "sequential" -> bound \cup Before(k)
                     [] Kind(e) = "assign"     -> bound \cup Patterns(e)
  IN CASE IsVariable(e) -> {n \in {NameOf(e[2])} \ (globals \cup bound) : ~IsOpcode(n)}
       [] IsCall(e)     -> UNION {Unbound(globals, bound, s) : s \in Range(Tail(Parts(e)))}
       [] IsLet(e)      -> Unbound(globals, bound \cup Patterns(e), LetBody(e))
                             \cup UNION {Unbound(globals, Around(k), bs[k].body) : k \in DOMAIN bs}
       [] IsLambda(e)   -> Unbound(globals, bound, Captures(e))
                             \cup Unbound(globals, NamesIn(CaptureArgs(e)) \cup NamesIn(ArgsOf(e)), LambdaBody(e))
       [] OTHER         -> {}

\* Each expression of a program has the names it uses.
WellScoped(p) ==
  LET globals == EnvRefs \cup {h.name : h \in {h \in Range(p.helpers) : h.kind # "inline"}}
  IN /\ Unbound(globals, NamesIn(p.args), p.exp) = {}
     /\ \A h \in Range(p.helpers) : Unbound(globals, NamesIn(h.args), h.body) = {}

AllOf(p) == UNION {All(e) : e \in Bodies_(p)}
CallsIn(p) == {e \in AllOf(p) : IsCall(e)}
Callee(e) == NameOf(e[2][1][2])

\* The inline functions that the ones in names call, and so on.
RECURSIVE InlinesFrom(_, _)
InlinesFrom(p, names) ==
  LET inlines == {h \in Range(p.helpers) : h.kind = "inline"}
      more == {h.name : h \in {h \in inlines :
                \E f \in inlines : f.name \in names /\ \E e \in All(f.body) : IsCall(e) /\ Callee(e) = h.name}}
  IN IF more \subseteq names THEN names ELSE InlinesFrom(p, names \cup more)

RECURSIVE ArgCount(_)
ArgCount(args) == IF IsCons(args) /\ ~is_at_capture(args) THEN 1 + ArgCount(Rest(args)) ELSE 0

\* What no code can be made for, of a program without what is not in use.
NoCodeFor(p) ==
  LET callable == {h \in Range(p.helpers) : h.kind # "constant"}
      inlines == {h \in callable : h.kind = "inline"}
      Calls(h) == {f.name : f \in {f \in inlines : \E e \in All(h.body) : IsCall(e) /\ Callee(e) = f.name}}
  IN \/ Twice(p.helpers)
     \/ ~WellScoped(p)
     \/ \E e \in CallsIn(p) :
          \/ /\ Callee(e) \notin {h.name : h \in callable} \cup EnvRefs \cup {Name("com")}
             /\ get_prim(Callee(e)) = Fail
          \/ \E h \in inlines : Callee(e) = h.name /\ e[3] = NoTail /\ Len(e[2]) - 1 < ArgCount(h.args)
     \/ \E h \in inlines : h.name \in InlinesFrom(p, Calls(h))

IllFormed(p) == (\E e \in Bodies_(p) : Circular(e)) \/ With(compute_live_helpers(p), NoCodeFor)

\* What is read is the program that was written; and a program is read again
\* from "a form that can be re-parsed if needed", but for the hints of its
\* assign forms (comptypes.rs to_sexp, frontend.rs).
ReadsWhatIsWritten ==
  pass = "rename" =>
    /\ task \notin {Reading, Linking} => program = source
    /\ ReadsAgain(program)

\* "every variable name that lives in a different scope has a unique name"
\* (rename.rs rename_args_compileform), and a program whose names are all
\* known means what it meant.
RenamingKeepsMeaning ==
  pass = "live" =>
    /\ NamesBoundOnce(program)
    /\ task # Linking => \A v \in Inputs :
         ProgramMeaning(source, v) # Fail => ProgramMeaning(program, v) = ProgramMeaning(source, v)

\* A linked program is the program without namespaces that was meant: it has
\* the helpers in use, under their full names, and gives the same; and what
\* is not to be found is refused (resolve.rs resolve_namespaces).
LinkedIsTheFlatProgram ==
  task = Linking =>
    /\ pass = "desugar" =>
         /\ ~IllFormed(source)
         /\ NamesOf(program.helpers) = NamesOf(compute_live_helpers(source).helpers)
         /\ \A v \in Inputs : ProgramMeaning(program, v) = ProgramMeaning(source, v)
    /\ pass = "error" => IllFormed(source)

\* Desugaring leaves no let and no lambda, and the functions it makes of them
\* are given every name they use (codegen.rs process_helper_let_bindings,
\* hoist_body_let_binding).
DesugaringClosesFunctions ==
  Desugared =>
    /\ \A e \in AllOf(program) : ~IsLet(e) /\ ~IsLambda(e)
    /\ WellScoped(compute_live_helpers(source)) => WellScoped(program)

\* The compiled program gives what the source says (compiler.rs
\* compile_pre_forms).
CompiledMeansTheSame ==
  pass = "done" => \A v \in Inputs :
    ProgramMeaning(source, v) # Fail => CodeMeaning(code, v) = ProgramMeaning(source, v)

\* An expression keeps its meaning, whatever is computed of it beforehand
\* (evaluate.rs shrink_bodyform).
ShrunkMeansTheSame ==
  pass = "shrunk" => \A v \in Inputs :
    ProgramMeaning(source, v) # Fail => ProgramMeaning(program, v) = ProgramMeaning(source, v)

\* A program is refused for a reason: a circular assign form, a name given
\* twice or not at all, an inline function as a value, short of arguments or
\* inside itself (the errors of codegen.rs and inline.rs).
RefusesOnlyTheIllFormed == pass = "error" /\ task \in {Strictly, Cl23} => IllFormed(source)

\* The functions that desugaring e can make: one for each lambda and for each
\* binding that may have a let of its own.
FormsIn(e) ==
  FoldSet(LAMBDA s, n : n + (CASE IsLambda(s) -> 1
                               [] IsLet(s) -> IF Kind(s) = "parallel" THEN 1 ELSE Len(Bindings(s))
                               [] OTHER -> 0), 0, All(e))

Passes == <<"read", "rename", "live", "resolve", "link", "shrink", "frontend_opt", "share", "desugar",
            "desugar_helpers", "start", "fold", "codegen">>

\* How much there is to fold: a number that is not quoted counts twice.
RECURSIVE Weight(_)
Weight(e) == FoldLeft(LAMBDA n, s : n + Weight(s), IF IsValue(e) /\ IsInt(e[2]) THEN 2 ELSE 1, Parts(e))

\* The passes to come, and what is left of the one at hand.
PassesLeft == Cardinality({i \in DOMAIN Passes : \E j \in 1..i : Passes[j] = pass})
TurnsLeft ==
  IF pass = "read" THEN Len(ProgramForms(text)) - turn
  ELSE IF pass = "link"
  THEN 2 * (Len(tour_helpers(program.helpers, <<>>)) - Cardinality(links.done)) + (IF links.new = {} THEN 0 ELSE 1)
  ELSE IF pass = "fold"
  THEN FoldLeft(LAMBDA n, h : n + Weight(h.body), Weight(program.exp), program.helpers)
  ELSE IF pass \notin {"desugar_helpers", "codegen"} THEN 0
  ELSE FoldSet(LAMBDA i, n : n + 1 + FormsIn(program.helpers[i].body), 0, turn..Len(program.helpers))

\* Every compilation ends: desugaring adds to the list of helpers it goes
\* through, and still each turn leaves less to do (codegen.rs
\* process_helper_let_bindings).
EachTurnLeavesLess ==
  [][PassesLeft' < PassesLeft \/ (PassesLeft' = PassesLeft /\ TurnsLeft' < TurnsLeft)]_vars
=============================================================================
