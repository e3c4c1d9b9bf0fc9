----------------------------- MODULE Evaluator -----------------------------
(***************************************************************************)
(* The evaluator of expressions (compiler/evaluate.rs): what can be        *)
(* computed of an expression before it runs.  Inline functions are         *)
(* expanded, and all functions where only_inline is not set; names stand   *)
(* for what env has for them; operations on values are run.                *)
(*                                                                         *)
(* The names of a program are bound once (renaming comes before).  Macros  *)
(* and the folding of conditions for use checking are left out.  Refused   *)
(* is an error, and stands for the panics at (com), (a) and (a PROGRAM).   *)
(***************************************************************************)
EXTENDS CodeGen, Bitwise

CONSTANT StackLimit     \* EVAL_STACK_LIMIT

\* Where an expression is evaluated: how deep, for which argument list, and
\* whether all functions are expanded.
Place(depth, args, only_inline) == [depth |-> depth, args |-> args, only_inline |-> only_inline]

\* VisitedMarker: one level deeper, if the limit allows it.
TooDeep(at) == at.depth >= StackLimit
again(at) == [at EXCEPT !.depth = @ + 1]

select_helper(helpers, name) == SelectSeq(helpers, LAMBDA h : h.name = name)
get_function(helpers, name) == SelectSeq(helpers, LAMBDA h : h.kind = "function" /\ h.name = name)
get_constant(helpers, name) == SelectSeq(helpers, LAMBDA h : h.kind = "constant" /\ h.name = name)

is_primitive(e) == IsQuoted(e) \/ (IsValue(e) /\ ~IsAtom(e[2]) /\ ~IsCons(e[2]))

match_cons(e) == IsHead(e, {"c", "4"}) /\ Len(e[2]) >= 3
is_apply(e) == IsHead(e, {"a", "2"})

(***************************************************************************)
(* What a list of arguments gives a function's names.  Arguments are an    *)
(* expression for all of them or a pair of arguments.                      *)
(***************************************************************************)
Whole(e) == <<"whole", e>>
PairOf(a, b) == <<"pair", a, b>>

RECURSIVE get_bodyform_from_arginput(_), decons_args(_), create_argument_captures(_, _)

get_bodyform_from_arginput(input) ==
  IF input[1] = "whole" THEN input[2]
  ELSE CallOf("c", <<get_bodyform_from_arginput(input[2]), get_bodyform_from_arginput(input[3])>>)

decons_args(e) == IF match_cons(e) THEN PairOf(decons_args(e[2][2]), decons_args(e[2][3])) ELSE Whole(e)

\* The two sides of arguments: those of a quoted value, or operations.
Sides(input) ==
  CASE input[1] = "pair" -> <<input[2], input[3]>>
    [] input[1] = "whole" /\ IsQuoted(input[2]) /\ IsCons(input[2][2]) ->
         <<Whole(Quoted(First(input[2][2]))), Whole(Quoted(Rest(input[2][2])))>>
    [] OTHER -> <<Whole(CallOf("f", <<input[2]>>)), Whole(CallOf("r", <<input[2]>>))>>

\* Fault: the sides are swapped.
create_argument_captures_Swapped(input, spec) ==
  IF IsCons(spec) THEN create_argument_captures(Sides(input)[2], First(spec)) @@ create_argument_captures(Sides(input)[1], Rest(spec))
  ELSE IF IsAtom(spec) THEN NameOf(spec) :> get_bodyform_from_arginput(input) ELSE <<>>

create_argument_captures(input, spec) ==
  CASE IsAtom(spec) -> NameOf(spec) :> get_bodyform_from_arginput(input)
    [] is_at_capture(spec) ->
         create_argument_captures(input, SubOf(spec)) @@ (CaptureOf(spec) :> get_bodyform_from_arginput(input))
    [] IsCons(spec) /\ ~is_at_capture(spec) ->
         create_argument_captures(Sides(input)[2], Rest(spec)) @@ create_argument_captures(Sides(input)[1], First(spec))
    [] OTHER -> <<>>

build_argument_captures(arguments, tail, spec) ==
  create_argument_captures(
    FoldRight(LAMBDA a, rest : PairOf(Whole(a), rest), arguments,
              decons_args(IF tail = NoTail THEN Quoted(Nil) ELSE tail)), spec)

\* An argument list stands for itself.
RECURSIVE build_reflex_captures(_)
build_reflex_captures(args) ==
  CASE IsAtom(args) -> NameOf(args) :> Value(args)
    [] is_at_capture(args) ->
         build_reflex_captures(SubOf(args)) @@ (CaptureOf(args) :> Variable(CaptureOf(args)))
    [] IsCons(args) /\ ~is_at_capture(args) ->
         build_reflex_captures(Rest(args)) @@ build_reflex_captures(First(args))
    [] OTHER -> <<>>

\* The arguments again, from what env has for them.
RECURSIVE synthesize_args(_, _)
synthesize_args(template, env) ==
  LET OfName(n) == IF n \in DOMAIN env THEN env[n] ELSE Refused
      Join(a, b) == IF Refused \in {a, b} THEN Refused ELSE CallOf("c", <<a, b>>)
  IN CASE IsAtom(template) -> OfName(NameOf(template))
       [] is_at_capture(template) -> OfName(CaptureOf(template))
       [] IsCons(template) /\ ~is_at_capture(template) ->
            Join(synthesize_args(First(template), env), synthesize_args(Rest(template), env))
       [] template = Nil -> Quoted(Nil)
       [] OTHER -> Refused

(***************************************************************************)
(* What a pattern of a let takes of a value: the way to each name.  The    *)
(* step is r where path and what is left of it have any bit in common.     *)
(***************************************************************************)
PathTo(path, mask, e) ==
  LET steps[produce \in Nat] ==
        IF produce <= 1 THEN <<>> ELSE <<IF path & produce # 0 THEN "r" ELSE "f">> \o steps[produce \div 2]
  IN FoldLeft(LAMBDA form, op : CallOf(op, <<form>>), e, steps[path + mask])

RECURSIVE compute_paths_of_destructure(_, _, _, _)
compute_paths_of_destructure(structure, path, mask, e) ==
  CASE IsCons(structure) ->
         compute_paths_of_destructure(Rest(structure), mask + path, 2 * mask, e)
           @@ compute_paths_of_destructure(First(structure), path, 2 * mask, e)
    [] IsAtom(structure) -> NameOf(structure) :> PathTo(path, mask, e)
    [] OTHER -> <<>>

update_parallel_bindings(env, bindings) ==
  FoldLeft(LAMBDA m, b : compute_paths_of_destructure(b.pattern, 0, 1, b.body) @@ m, env, bindings)

(***************************************************************************)
(* Code as an expression over the expression for its environment.          *)
(***************************************************************************)
choose_from_env_by_path(path, e) ==
  LET Taken(form, bit) ==
        IF match_cons(form) THEN form[2][2 + bit] ELSE CallOf(IF bit = 1 THEN "r" ELSE "f", <<form>>)
  IN IF path = 0 THEN Quoted(Nil) ELSE FoldLeft(Taken, e, PathBits(path))

KnownOps == Range(Primitives)
WordOf(n) == CHOOSE w \in DOMAIN Primitives : Primitives[w] = n

RECURSIVE promote_program_to_bodyform(_, _)
promote_program_to_bodyform(code, e) ==
  LET op == atom_value(First(code))
      Args == Each(LAMBDA a : promote_program_to_bodyform(a, e), ListItems(Rest(code)))
  IN CASE code = Nil -> Quoted(Nil)
       [] code # Nil /\ ~IsCons(code) -> choose_from_env_by_path(atom_value(code), e)
       [] OTHER ->
            (CASE IsCons(First(code)) \/ op \notin KnownOps -> Refused
               [] ~IsCons(First(code)) /\ op = 1 -> Quoted(Rest(code))
               [] OTHER -> With(Args, LAMBDA args :
                             IF Refused \in Range(args) \/ ListEnd(Rest(code)) # Nil THEN Refused
                             ELSE CallOf(WordOf(op), args)))

\* The captures a lambda still needs, in their places.
RECURSIVE filter_capture_args(_, _)
filter_capture_args(args, known) ==
  CASE IsCons(args) ->
         With(<<filter_capture_args(First(args), known), filter_capture_args(Rest(args), known)>>,
              LAMBDA p : IF p = <<Nil, Nil>> THEN Nil ELSE Pair(p[1], p[2]))
    [] IsAtom(args) -> IF NameOf(args) \in known THEN Nil ELSE args
    [] OTHER -> Nil

(***************************************************************************)
(* A whole compilation at once.                                            *)
(***************************************************************************)
RECURSIVE DesugarFrom(_, _)
DesugarFrom(p, i) == IF i > Len(p.helpers) THEN p ELSE DesugarFrom(HoistHelper(p, i), i + 1)

RECURSIVE CodegenFrom(_, _, _)
CodegenFrom(g, p, i) ==
  IF i > Len(p.helpers) THEN final_codegen(g, p)
  ELSE IF CannotRedefine(g, p.helpers[i]) THEN Fail
  ELSE CodegenFrom(codegen_(g, p.helpers[i]), p, i + 1)

\* Code, if all of it could be made.
Complete(code) == IF HasFail(code) THEN Fail ELSE code
codegen(strict, p) == IF Redefined(p) THEN Fail ELSE Complete(CodegenFrom(start_codegen(strict, FALSE, p), p, 1))

compile_program(strict, p) ==
  IF \E e \in {p.exp} \cup {h.body : h \in Range(p.helpers)} : Circular(e) THEN Fail
  ELSE codegen(strict, DesugarFrom(HoistProgram(compute_live_helpers(rename_children_compileform(p))), 1))

\* create_mod_for_fun: a function as a value is the code of a program with
\* its body, which is not desugared for it.  The functions of the program are
\* desugared when their code is made, where a let can only become inline.
Functions_(helpers) == SelectSeq(helpers, LAMBDA h : h.kind = "function")
Others_(helpers) == SelectSeq(helpers, LAMBDA h : h.kind # "function")
DesugaredFor(ev, f) == Functions_(DesugarFrom(Program(f.args, Functions_(ev.helpers), f.body), 1).helpers)
CodeWith(ev, f, desugared) ==
  IF Len(desugared) # Len(Functions_(ev.helpers)) THEN Fail
  ELSE codegen(ev.strict, Program(f.args, desugared \o Others_(ev.helpers), f.body))
FunctionAsCode(ev, f) == CodeWith(ev, f, DesugaredFor(ev, f))

(***************************************************************************)
(* shrink_bodyform.  ev is an evaluator: the helpers it knows and whether  *)
(* the language is strict.                                                 *)
(***************************************************************************)
RECURSIVE shrink(_, _, _, _), chase_apply(_, _, _)

\* Code as an expression, if it could be made.
OfCode(code) == IF code = Fail THEN Refused ELSE Quoted(code)

\* R(v) for the shrunk v, unless that was refused.
Then(v, R(_)) == With(v, LAMBDA w : IF w = Refused THEN Refused ELSE R(w))

\* The code of an application on the expression for its environment.
continue_apply(ev, at, e, code) ==
  LET there == Place(at.depth, Nil, FALSE)
  IN Then(promote_program_to_bodyform(code, e), LAMBDA promoted :
       Then(shrink(ev, there, <<>>, promoted), LAMBDA r : chase_apply(ev, at, r)))

chase_apply(ev, at, e) ==
  IF ~is_apply(e) THEN e
  ELSE IF Len(e[2]) = 1 THEN Refused
  ELSE IF ~IsQuoted(e[2][2]) THEN e
  ELSE IF Len(e[2]) = 2 THEN Refused ELSE continue_apply(ev, at, e[2][3], e[2][2][2])

\* A lambda on the expression for its arguments.
do_lambda_apply(ev, at, env, lambda, given) ==
  Then(shrink(ev, at, env, Captures(lambda)), LAMBDA captured :
    shrink(ev, [at EXCEPT !.args = ArgsOf(lambda)],
           create_argument_captures(Whole(given), ArgsOf(lambda))
             @@ create_argument_captures(Whole(captured), CaptureArgs(lambda)) @@ env,
           LambdaBody(lambda)))

\* What is known of a lambda's captures goes into its body.
enrich_lambda_site_info(ev, at, env, lambda) ==
  LET Enriched(captured) ==
        LET values == create_argument_captures(decons_args(captured), CaptureArgs(lambda))
            literal == [n \in {n \in DOMAIN values : IsQuoted(values[n])} |-> values[n]]
            inside == [at EXCEPT !.args = Pair(CaptureArgs(lambda), ArgsOf(lambda))]
        IN Then(shrink(ev, inside, literal, LambdaBody(lambda)), LAMBDA body :
             Lambda(ArgsOf(lambda), filter_capture_args(CaptureArgs(lambda), DOMAIN literal), captured, body))
  IN IF CaptureArgs(lambda) = Nil THEN lambda
     ELSE Then(shrink(ev, at, env, Captures(lambda)), Enriched)

\* The number of a primitive; any other word of one letter is left to the
\* machine, which has no such operator.
lookup_prim(name) ==
  IF get_prim(name) # Fail THEN get_prim(name)
  ELSE IF Unmarked(name) /\ Len(name[1]) = 1 THEN AWord ELSE Fail

\* All operands are values: the operation is run.
RunPrimitive(ev, at, e, prim) ==
  LET args == ListOf([k \in 1..(Len(e[2]) - 1) |-> primquote(e[2][k + 1][2])], Nil)
      Result(r) == IF ~Bad(r) THEN Quoted(r) ELSE IF at.only_inline THEN Call(e[2], NoTail) ELSE Refused
  IN Result(IF prim = AWord THEN Fail ELSE Eval(Pair(prim, args), Nil, Fuel))

\* e is a call with its operands shrunk.
OnShrunk(ev, at, env, e, prim) ==
  LET operands == Tail(e[2])
      Twice_(k) == shrink(ev, again(at), env, operands[k])
      Applied(program, given) ==
        IF Refused \in {program, given} THEN Refused
        ELSE IF IsLambda(program) THEN do_lambda_apply(ev, at, env, program, given)
        ELSE chase_apply(ev, at, e)
  IN CASE Refused \in Range(operands) -> Refused
       [] Refused \notin Range(operands) /\ \A o \in Range(operands) : is_primitive(o) -> RunPrimitive(ev, at, e, prim)
       [] OTHER -> IF ~(is_apply(Call(e[2], NoTail)) /\ Len(operands) = 2) THEN chase_apply(ev, at, e)
                   ELSE IF TooDeep(at) THEN Refused
                   ELSE With(Twice_(1), LAMBDA program : With(Twice_(2), LAMBDA given : Applied(program, given)))

invoke_primitive(ev, at, env, e) ==
  LET name == NameOf(e[2][1][2])
      args == Tail(e[2])
      in == again(at)
  IN CASE TooDeep(at) -> Refused
       [] name = Name("@") -> Quoted(Pair(Nil, at.args))
       [] name = Name("com") ->
            IF args = <<>> THEN Refused
            ELSE OfCode(compile_program(ev.strict, Program(at.args, Reverse(ev.helpers), args[1])))
       [] OTHER ->
            IF lookup_prim(name) = Fail THEN Refused
            ELSE With(Call(<<e[2][1]>> \o Each(LAMBDA a : shrink(ev, in, env, a), args), e[3]),
                      LAMBDA shrunk : OnShrunk(ev, in, env, shrunk, lookup_prim(name)))

\* The body of f where f is called: its arguments are shrunk where the call
\* is, then the body with nothing else in sight.
CallOfFunction(ev, at, env, e, f) ==
  LET Shrunk(m) == [n \in DOMAIN m |-> shrink(ev, at, env, m[n])]
      Body(m) == IF Refused \in Range(m) THEN Refused ELSE shrink(ev, [at EXCEPT !.args = f.args], m, f.body)
  IN Then(IF e[3] = NoTail THEN NoTail ELSE shrink(ev, at, env, e[3]), LAMBDA tail :
       With(build_argument_captures(Tail(e[2]), tail, f.args), LAMBDA captures : With(Shrunk(captures), Body)))

handle_invoke(ev, at, env, e) ==
  LET found == select_helper(ev.helpers, NameOf(e[2][1][2]))
  IN IF found # <<>> /\ found[1].kind # "constant"
     THEN IF found[1].kind = "function" /\ at.only_inline THEN e ELSE CallOfFunction(ev, at, env, e, found[1])
     ELSE Then(invoke_primitive(ev, at, env, e), LAMBDA r : chase_apply(ev, at, r))

\* What a name stands for.
ShrunkName(ev, at, env, e) ==
  LET name == NameOf(e[2])
      function == get_function(ev.helpers, name)
      constant == get_constant(ev.helpers, name)
  IN CASE name = Name("@") -> Then(synthesize_args(at.args, env), LAMBDA args : shrink(ev, at, env, args))
       [] name # Name("@") /\ function # <<>> ->
            IF TooDeep(at) THEN Refused ELSE OfCode(FunctionAsCode(ev, function[1]))
       [] name # Name("@") /\ function = <<>> /\ name \in DOMAIN env ->
            IF env[name] = e THEN e ELSE shrink(ev, at, env, env[name])
       [] OTHER -> IF constant = <<>> THEN e ELSE shrink(ev, at, env, constant[1].body)

LeftAlone(at, e) == Hint(e) = "non-inline" /\ at.only_inline

shrink(ev, at_, env, e) ==
  LET at == again(at_)
  IN CASE TooDeep(at_) -> Refused
       [] IsQuoted(e) -> e
       [] IsVariable(e) -> ShrunkName(ev, at, env, e)
       [] IsValue(e) /\ ~IsVariable(e) -> Quoted(e[2])
       [] IsLet(e) /\ LeftAlone(at, e) -> e
       [] IsLet(e) /\ ~LeftAlone(at, e) ->
            (CASE Kind(e) = "parallel" -> shrink(ev, at, update_parallel_bindings(env, Bindings(e)), LetBody(e))
               [] Kind(e) = "sequential" ->
                    IF Bindings(e) = <<>> THEN shrink(ev, at, env, LetBody(e))
                    ELSE shrink(ev, at, update_parallel_bindings(env, <<Bindings(e)[1]>>),
                                Let(Kind(e), Hint(e), Tail(Bindings(e)), LetBody(e)))
               [] Kind(e) = "assign" -> shrink(ev, at, env, hoist_assign_form(e)))
       [] IsCall(e) -> IF IsVariable(e[2][1]) THEN handle_invoke(ev, at, env, e) ELSE Refused
       [] IsLambda(e) -> enrich_lambda_site_info(ev, at, env, e)

Evaluator_(strict, p) == [strict |-> strict, helpers |-> p.helpers]
shrink_bodyform(ev, args, env, e, only_inline) == shrink(ev, Place(1, args, only_inline), env, e)

\* A program's expression with all that is known of it (bins/shrink.rs).
ShrinkProgram(strict, p) == shrink_bodyform(Evaluator_(strict, p), p.args, <<>>, p.exp, FALSE)

(***************************************************************************)
(* fe_opt: the bodies of all functions, and then the expression, which is  *)
(* shrunk as if the program had no arguments.                              *)
(***************************************************************************)
\* Turn i of p: a helper's, and the expression's after the last.
IsMain(p, i) == i = Len(p.helpers) + 1
BodyAt(p, i) == IF IsMain(p, i) THEN p.exp ELSE p.helpers[i].body
ArgsAt(p, i) == IF IsMain(p, i) THEN Nil ELSE p.helpers[i].args
WithBody(p, i, e) == IF IsMain(p, i) THEN [p EXCEPT !.exp = e] ELSE [p EXCEPT !.helpers[i].body = e]

\* The bodies from i on: p as it was, and q as it is so far.  Helpers are
\* shrunk with the helpers as they were.
RECURSIVE OptimizedFrom(_, _, _, _)
OptimizedFrom(strict, p, q, i) ==
  LET helpers == IF IsMain(p, i) THEN q ELSE p
  IN IF i > Len(p.helpers) + 1 THEN q
     ELSE IF ~IsMain(p, i) /\ p.helpers[i].kind = "constant" THEN OptimizedFrom(strict, p, q, i + 1)
     ELSE With(shrink_bodyform(Evaluator_(strict, helpers), ArgsAt(p, i), build_reflex_captures(ArgsAt(p, i)), BodyAt(p, i), TRUE),
               LAMBDA e : IF e = Refused THEN [q EXCEPT !.exp = Refused]
                          ELSE OptimizedFrom(strict, p, WithBody(q, i, e), i + 1))
fe_opt(strict, p) == OptimizedFrom(strict, p, p, 1)
=============================================================================
