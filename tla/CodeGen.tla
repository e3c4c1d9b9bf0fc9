------------------------------- MODULE CodeGen -------------------------------
(***************************************************************************)
(* Code for a program without let or lambda forms (compiler/codegen.rs),   *)
(* with the expansion of inline functions (compiler/inline.rs).            *)
(*                                                                         *)
(* A strict language has an error for a word nothing is known of; others   *)
(* take it for a value, of which no more is kept than that it is a word.   *)
(* From cl-23 on expressions are computed where they can be, and the code  *)
(* is rewritten.  Modules, macros, mod forms, constants in the environment *)
(* and calls of functions that are computed beforehand are left out.       *)
(* Paths are taken to fit in 64 bits.                                      *)
(*                                                                         *)
(* A code generator knows the constants, the inline functions and the      *)
(* shape of the environment, a tree with names for leaves: the functions   *)
(* on the left and the arguments on the right, or, where left_env is       *)
(* false, only the arguments.  Fail anywhere in code is the error of what  *)
(* it is for.                                                              *)
(***************************************************************************)
EXTENDS Hoisting, ClvmSemantics

\* prims.rs, as much as is used here, by its names; and its opcodes.
Primitives == [q |-> 1, a |-> 2, i |-> 3, c |-> 4, f |-> 5, r |-> 6, l |-> 7, x |-> 8] @@ ("+" :> 16) @@ ("not" :> 32)
Opcodes == ("1" :> 1) @@ ("2" :> 2) @@ ("4" :> 4)
Unmarked(name) == name[2] = <<>>

primquote(v) == Pair(Int_(1), v)
primcons(a, b) == ListOf(<<Int_(4), a, b>>, Nil)
primapply(code, env) == ListOf(<<Int_(2), code, env>>, Nil)
code_list(items) == FoldRight(primcons, items, Nil)

RECURSIVE HasFail(_)
HasFail(code) ==
  \/ code = Fail
  \/ IsCons(code) /\ (HasFail(First(code)) \/ HasFail(Rest(code)))

(***************************************************************************)
(* What becomes of generated code from cl-23 on (optimize/mod.rs           *)
(* null_optimization, optimize/double_apply.rs, optimize/brief.rs).  The   *)
(* code is new style: it has no names in it.                               *)
(***************************************************************************)
IsOp(v, n) == (IsInt(v) \/ IsBytes(v)) /\ v[2] = n
IsForm(v, n) == IsCons(v) /\ IsOp(First(v), n)

RECURSIVE null_optimization(_, _), remove_double_apply(_, _), applied_once(_, _), selected_path(_, _), brief_path_selection(_)

\* (q) is nil.  On the spine, the tail of a list, a one is no quote.
null_optimization(v, spine) ==
  CASE ~IsCons(v) -> v
    [] IsForm(v, 1) /\ ~spine -> IF nilp(Rest(v)) THEN Rest(v) ELSE v
    [] OTHER -> Pair(null_optimization(First(v), FALSE), null_optimization(Rest(v), TRUE))

\* (a (q 1 . x) env) is (q . x).
change_apply_double_quote(v) ==
  IF IsForm(v, 2) /\ IsCons(Rest(v)) /\ IsForm(First(Rest(v)), 1) /\ IsForm(Rest(First(Rest(v))), 1)
  THEN Pair(Int_(1), Rest(Rest(First(Rest(v)))))
  ELSE v

\* (a (q . x) 1) is x.
change_double_to_single_apply(v) ==
  IF IsForm(v, 2) /\ IsCons(Rest(v)) /\ IsForm(First(Rest(v)), 1) /\ IsForm(Rest(Rest(v)), 1)
  THEN Rest(First(Rest(v)))
  ELSE v

\* (i condition a b) where the condition is known.
collapse_constant_condition(v) ==
  LET condition == First(Rest(v))
      a == First(Rest(Rest(v)))
      b == First(Rest(Rest(Rest(v))))
  IN IF ~(IsForm(v, 3) /\ IsCons(Rest(v)) /\ IsCons(Rest(Rest(v))) /\ IsCons(Rest(Rest(Rest(v))))) THEN v
     ELSE IF IsForm(condition, 1) THEN IF truthy(Rest(condition)) THEN a ELSE b
     ELSE IF truthy(condition) THEN v ELSE b

\* The three, from the inside, as long as they change something.  Here spine
\* is a form's own place.  What comes of a form is not asked again whether it
\* is quoted.
applied_once(v, spine) ==
  LET Outside(w) == IF spine THEN collapse_constant_condition(change_double_to_single_apply(change_apply_double_quote(w))) ELSE w
  IN IF ~IsCons(v) THEN v
     ELSE With(Outside(Pair(remove_double_apply(First(v), TRUE), remove_double_apply(Rest(v), FALSE))),
               LAMBDA w : IF w = v THEN v ELSE applied_once(w, spine))
remove_double_apply(v, spine) == IF spine /\ IsForm(v, 1) THEN v ELSE applied_once(v, spine)

\* (f (r ... path)) as one path.  target is the path taken so far.
selected_path(v, target) ==
  LET first == IsForm(v, 5)
  IN IF (first \/ IsForm(v, 6)) /\ nilp(ListEnd(v)) /\ Len(ListItems(v)) = 2
     THEN selected_path(First(Rest(v)), 2 * target + (IF first THEN 0 ELSE 1))
     ELSE IF target # 1 /\ IsInt(v) THEN Int_(compose_paths(v[2], target)) ELSE Fail

brief_path_selection(v) ==
  With(selected_path(v, 1), LAMBDA path :
    IF path # Fail THEN path
    ELSE IF ~IsCons(v) \/ ~nilp(ListEnd(v)) \/ Len(ListItems(v)) < 2 \/ IsForm(v, 1) THEN v
    ELSE ListOf(Each(brief_path_selection, ListItems(v)), Nil))

\* post_codegen_function_optimize, post_codegen_output_optimize.
RewrittenCode(code) == brief_path_selection(remove_double_apply(null_optimization(code, TRUE), TRUE))

(***************************************************************************)
(* The environment.                                                        *)
(***************************************************************************)
RECURSIVE build_tree(_)
build_tree(names) ==
  LET mid == Len(names) \div 2
  IN IF Len(names) = 1 THEN Atom(names[1])
     ELSE Pair(build_tree(SubSeq(names, 1, mid)), build_tree(SubSeq(names, mid + 1, Len(names))))

compute_code_shape(names) == IF names = <<>> THEN Nil ELSE build_tree(names)

RECURSIVE create_name_lookup_(_, _)

\* The path of a name in an environment of this shape; 0 for none.
create_name_lookup_(name, shape) ==
  CASE IsAtom(shape) -> IF NameOf(shape) = name THEN 1 ELSE 0
    [] is_at_capture(shape) ->
         IF CaptureOf(shape) = name THEN 1 ELSE create_name_lookup_(name, SubOf(shape))
    [] IsCons(shape) /\ ~is_at_capture(shape) ->
         With(create_name_lookup_(name, First(shape)), LAMBDA left :
           IF left # 0 THEN 2 * left
           ELSE With(create_name_lookup_(name, Rest(shape)), LAMBDA right :
                  IF right # 0 THEN 2 * right + 1 ELSE 0))
    [] OTHER -> 0

\* enable_nil_env_mode_for_stepping_23_or_greater: without functions the
\* environment is the arguments alone.  It may be done twice.
enable_nil_env(g) ==
  IF g.rewrites /\ IsCons(g.env) /\ ~truthy(First(g.env))
  THEN [g EXCEPT !.left_env = FALSE, !.env = Rest(@)] ELSE g

addresses_user_env(e) == Len(e[2]) = 2 /\ e[2][1] \in {Variable(Name("r")), Opcode("4")} /\ e[2][2] = Variable(Name("@*env*"))

combine_defun_env(env, args) == Pair(First(env), args)

\* A function as a value: code that takes arguments and puts the program's
\* functions back in front of them.
lambda_for_defun(path) ==
  LET One == primquote(Int_(1))
  IN code_list(<<primquote(Int_(2)), primcons(One, Int_(path)),
                 code_list(<<primquote(Int_(4)), primcons(One, Int_(2)), One>>)>>)

create_name_lookup(g, name, as_variable) ==
  LET Found(path) ==
        IF path = 0 THEN Fail ELSE IF as_variable /\ name \in g.functions THEN lambda_for_defun(path) ELSE Int_(path)
  IN IF name \in DOMAIN g.constants THEN g.constants[name] ELSE With(create_name_lookup_(name, g.env), Found)

(***************************************************************************)
(* What the head of a call is.                                             *)
(***************************************************************************)
EnvRefs == {Name("@"), Name("@*env*")}

get_prim(name) ==
  IF ~Unmarked(name) THEN Fail
  ELSE IF name[1] \in DOMAIN Primitives THEN Int_(Primitives[name[1]])
  ELSE IF name[1] \in DOMAIN Opcodes THEN Bytes(Opcodes[name[1]], FALSE)
  ELSE Fail

get_callable(g, name) ==
  LET Otherwise(env, prim) ==
        CASE env # Fail -> <<"defun", env>>
          [] env = Fail /\ prim # Fail -> <<"prim", prim>>
          [] env = Fail /\ prim = Fail /\ name = Name("com") -> <<"com">>
          [] env = Fail /\ prim = Fail /\ name \in EnvRefs -> <<"path">>
          [] OTHER -> <<"nothing">>
  IN IF name \in DOMAIN g.inlines THEN <<"inline", g.inlines[name]>>
     ELSE With(<<create_name_lookup(g, name, FALSE), get_prim(name)>>, LAMBDA known : Otherwise(known[1], known[2]))

HeadOf(g, e) == IF IsVariable(e[2][1]) THEN get_callable(g, NameOf(e[2][1][2])) ELSE <<"nothing">>

(***************************************************************************)
(* Inline functions: arguments in place of names.                          *)
(***************************************************************************)
Broken == <<"broken">>
NotThere == <<"not_there">>

\* The part of an argument that a name stands for.
RECURSIVE pick_value_from_arg_element(_, _, _)
pick_value_from_arg_element(pattern, provided, name) ==
  CASE IsAtom(pattern) -> IF NameOf(pattern) = name THEN provided ELSE NotThere
    [] is_at_capture(pattern) ->
         IF CaptureOf(pattern) = name THEN provided
         ELSE pick_value_from_arg_element(SubOf(pattern), provided, name)
    [] IsCons(pattern) /\ ~is_at_capture(pattern) ->
         With(pick_value_from_arg_element(First(pattern), CallOf("f", <<provided>>), name), LAMBDA left :
           IF left # NotThere THEN left
           ELSE pick_value_from_arg_element(Rest(pattern), CallOf("r", <<provided>>), name))
    [] OTHER -> NotThere

At(path, e) == Call(<<Opcode("2"), Value(Int_(path)), e>>, NoTail)

\* Fault: the last argument is looked for in the tail.
choose_arg_from_list_or_tail_Short(args, tail, index) ==
  IF index + 1 < Len(args) THEN args[index + 1]
  ELSE IF tail = NoTail THEN Broken
  ELSE At(2, tail)

\* The index-th argument, from 0; past the end it is looked for in the tail.
\* The path is that of the second argument the tail stands for, and so on.
choose_arg_from_list_or_tail(args, tail, index) ==
  LET past == 2 * 2 ^ (index - Len(args))
  IN IF index < Len(args) THEN args[index + 1]
     ELSE IF tail = NoTail THEN Broken
     ELSE At(past + (past - 1) \div 4, tail)

enlist_remaining_args(args, choice, tail) ==
  FoldRight(make_cons, SubSeq(args, choice + 1, Len(args)), IF tail = NoTail THEN Value(Nil) ELSE tail)

\* The expression for a name, from the choice-th argument on.
RECURSIVE arg_lookup(_, _, _, _, _)
arg_lookup(pattern, choice, args, tail, name) ==
  IF IsCons(pattern)
  THEN With(choose_arg_from_list_or_tail(args, tail, choice), LAMBDA value :
         IF value = Broken THEN Broken
         ELSE With(pick_value_from_arg_element(First(pattern), value, name), LAMBDA picked :
                IF picked # NotThere THEN picked
                ELSE arg_lookup(Rest(pattern), choice + 1, args, tail, name)))
  ELSE LET rest == IF choice > Len(args) /\ tail # NoTail
                   THEN At(2 * 2 ^ (choice - Len(args)) - 1, tail) ELSE tail
       IN pick_value_from_arg_element(pattern, enlist_remaining_args(args, choice, rest), name)

\* The environment an inline function would have had.
Reified(args) ==
  make_cons(CallOf("@", <<Value(Int_(2))>>), FoldRight(make_cons, args, Quoted(Nil)))

RECURSIVE replace_inline_body(_, _, _, _, _, _)

\* e, from the body of the inline function f, where f is called on args.
\* visited are the inline functions e is inside of.
replace_inline_body(g, visited, f, args, tail, e) ==
  LET Replaced(s) == replace_inline_body(g, visited, f, args, tail, s)
      \* The call with its arguments and tail replaced, expanded if it can be.
      Expanded(given, rest, head) ==
        CASE Broken \in Range(given) \cup {rest} \/ head = <<"nothing">> -> Broken
          [] head[1] # "inline" -> Call(<<e[2][1]>> \o given, rest)
          [] OTHER -> IF head[2].name \in visited THEN Broken
                      ELSE replace_inline_body(g, visited \cup {head[2].name}, head[2], given, rest, head[2].body)
      NameReplaced(found) == IF found = NotThere THEN e ELSE found
  IN CASE IsCall(e) ->
            With(<<Each(Replaced, Tail(e[2])), IF e[3] = NoTail THEN NoTail ELSE Replaced(e[3]), HeadOf(g, e)>>,
                 LAMBDA r : Expanded(r[1], r[2], r[3]))
       [] e = Variable(Name("@*env*")) -> Reified(args)
       [] e = Variable(Name("@")) -> e
       [] IsVariable(e) /\ NameOf(e[2]) \notin EnvRefs ->
            With(arg_lookup(f.args, 0, args, tail, NameOf(e[2])), NameReplaced)
       [] IsLet(e) -> Broken
       [] IsLambda(e) ->
            With(Replaced(Captures(e)), LAMBDA c :
              IF c = Broken THEN Broken ELSE Lambda(ArgsOf(e), CaptureArgs(e), c, LambdaBody(e)))
       [] OTHER -> e

(***************************************************************************)
(* Expressions computed beforehand (optimize/mod.rs).  A result is whether *)
(* it is known, and the expression.                                        *)
(***************************************************************************)
\* (i (not c) a b) is (i c b a).
Inverted(e) == Call(<<e[2][1], e[2][2][2][2], e[2][4], e[2][3]>>, NoTail)
is_inverted(e) == Len(e[2]) = 4 /\ e[2][1] \in {Variable(Name("i")), Opcode("3")} /\ IsCallOf(e[2][2], {"not", "32"}, 2)

\* The operator on its arguments, if it has a value.
Folded(op, args, e) ==
  With(IF \A i \in DOMAIN args : IsQuoted(args[i])
       THEN Operate(Int_(op), [i \in DOMAIN args |-> args[i][2]], Nil, Fuel) ELSE Fail,
       LAMBDA v : IF Bad(v) THEN <<FALSE, e>> ELSE <<TRUE, Quoted(v)>>)

RECURSIVE optimize_expr(_, _)
optimize_expr(g, e) ==
  LET Optimized(args, op) ==
        With(Call(<<e[2][1]>> \o Each(LAMBDA a : a[2], args), NoTail), LAMBDA call :
          IF \A i \in DOMAIN args : args[i][1] THEN Folded(op, Tail(call[2]), call) ELSE <<FALSE, call>>)
      Known(s) == optimize_expr(g, s)
      OfHead(head) ==
        CASE head[1] # "prim" -> <<FALSE, e>>
          [] head[1] = "prim" /\ is_inverted(e) -> <<TRUE, Known(Inverted(e))[2]>>
          [] OTHER -> With(Each(Known, Tail(e[2])), LAMBDA args : Optimized(args, atom_value(head[2])))
  IN CASE IsQuoted(e) -> <<TRUE, e>>
       [] IsValue(e) /\ IsInt(e[2]) -> <<TRUE, Quoted(e[2])>>
       [] IsCall(e) -> With(HeadOf(g, e), OfHead)
       [] OTHER -> <<FALSE, e>>

\* As long as it changes.
RECURSIVE defun_body_optimization(_, _)
defun_body_optimization(g, e) ==
  IF ~g.rewrites THEN e
  ELSE With(optimize_expr(g, e), LAMBDA r : IF ~r[1] \/ r[2] = e THEN r[2] ELSE defun_body_optimization(g, r[2]))

\* post_codegen_function_optimize, post_codegen_output_optimize.
Post(g, code) == IF g.rewrites /\ ~HasFail(code) THEN RewrittenCode(code) ELSE code

(***************************************************************************)
(* generate_expr_code.                                                     *)
(***************************************************************************)
RECURSIVE generate_expr_code(_, _)

\* The bytes of a word as a value; no number here is as large.
AWord == Int_(10000)

IsOpcode(name) == Unmarked(name) /\ name[1] \in DOMAIN Opcodes
Literal(v) == IF IsAtom(v) /\ IsOpcode(NameOf(v)) THEN Bytes(Opcodes[NameOf(v)[1]], FALSE) ELSE v

\* A name that is no argument, function or constant stands for itself, in a
\* strict language only if it is no word, as an opcode is not.
VariableCode(g, name) ==
  LET Code(found) ==
        CASE found # Fail -> found
          [] found = Fail /\ IsOpcode(name) -> primquote(Literal(Atom(name)))
          [] OTHER -> IF g.strict THEN Fail ELSE primquote(AWord)
  IN IF name \in EnvRefs THEN Int_(1) ELSE With(create_name_lookup(g, name, TRUE), Code)

generate_args_code(g, args, tail) ==
  FoldRight(LAMBDA a, rest : primcons(generate_expr_code(g, a), rest), args,
            IF tail = NoTail THEN Nil ELSE generate_expr_code(g, tail))

\* A function runs with the functions of the program in front of its arguments.
process_defun_call(path, args) == primapply(path, primcons(Int_(2), args))

\* A program of one expression, in the environment it is given.
ProgramCode(g, e) ==
  With(enable_nil_env(g), LAMBDA h :
    Post(h, primapply(primquote(Post(h, generate_expr_code(h, defun_body_optimization(h, e)))), Int_(1))))

\* (com e): e as a program in the environment it stands in.
com_code(g, e) == primquote(ProgramCode(g, e))

CodeOfCall(g, head, args, tail) ==
  CASE head[1] = "inline" ->
         generate_expr_code(g, replace_inline_body(g, {head[2].name}, head[2], args, tail, head[2].body))
    [] head[1] = "defun" -> process_defun_call(head[2], generate_args_code(g, args, tail))
    [] head[1] = "prim" ->
         Pair(head[2], FoldRight(LAMBDA a, rest : Pair(generate_expr_code(g, a), rest), args, Nil))
    [] head[1] = "com" -> IF args = <<>> THEN Fail ELSE com_code(g, args[1])
    [] head[1] = "path" ->
         IF Len(args) = 1 /\ (IsValue(args[1]) \/ IsQuoted(args[1])) /\ IsInt(args[1][2]) THEN args[1][2] ELSE Fail
    [] OTHER -> Fail

compile_call(g, e) == CodeOfCall(g, HeadOf(g, e), Tail(e[2]), e[3])

generate_expr_code(g, e) ==
  CASE IsQuoted(e)                     -> primquote(Literal(e[2]))
    [] IsVariable(e)                   -> VariableCode(g, NameOf(e[2]))
    [] IsValue(e) /\ ~IsVariable(e)    -> primquote(e[2])
    [] IsCall(e)                       ->
         IF ~g.left_env /\ addresses_user_env(e) THEN generate_expr_code(g, e[2][2]) ELSE compile_call(g, e)
    [] IsLet(e) /\ Kind(e) = "parallel" -> generate_expr_code(g, LetBody(e))
    [] OTHER                           -> Fail

(***************************************************************************)
(* The passes of codegen over a program.                                   *)
(***************************************************************************)
OfKind(helpers, kind) == SelectSeq(helpers, LAMBDA h : h.kind = kind)
NamesOf(helpers) == {h.name : h \in Range(helpers)}
ByName(helpers) == [n \in NamesOf(helpers) |-> CHOOSE h \in Range(helpers) : h.name = n]
Twice(helpers) == Cardinality(NamesOf(helpers)) # Len(helpers)

\* start_codegen and dummy_functions: the constants, the environment's shape
\* and the inline functions.  A simple constant is its body's text.
start_codegen(strict, rewrites, p) ==
  LET functions == OfKind(p.helpers, "function")
      constants == ByName(OfKind(p.helpers, "constant"))
  IN [strict |-> strict,
      rewrites |-> rewrites,
      left_env |-> TRUE,
      constants |-> [n \in DOMAIN constants |-> primquote(constants[n].body[2])],
      inlines |-> ByName(OfKind(p.helpers, "inline")),
      functions |-> NamesOf(functions),
      env |-> Pair(compute_code_shape([k \in DOMAIN functions |-> functions[k].name]), p.args),
      defuns |-> <<>>]

\* Two constants, or two inline functions, of one name.
Redefined(p) == Twice(OfKind(p.helpers, "constant")) \/ Twice(OfKind(p.helpers, "inline"))

\* codegen_ for a function: its code in its own environment.  The code is the
\* program (mod args body), which runs the expression in the environment.
FunctionCode(g, f) == Post(g, ProgramCode([g EXCEPT !.env = combine_defun_env(@, f.args)], f.body))

codegen_(g, f) ==
  IF f.kind # "function" THEN g
  ELSE [g EXCEPT !.defuns = (f.name :> FunctionCode(g, f)) @@ @]

\* "Cannot redefine": the name already has a function.
CannotRedefine(g, f) == f.kind = "function" /\ f.name \in DOMAIN g.inlines \cup DOMAIN g.defuns

RECURSIVE finalize_env(_, _)
finalize_env(g, shape) ==
  CASE IsAtom(shape) -> g.defuns[NameOf(shape)]
    [] IsCons(shape) -> Pair(finalize_env(g, First(shape)), finalize_env(g, Rest(shape)))
    [] OTHER         -> shape

\* final_codegen: the program runs its expression with the functions in front
\* of its arguments.
final_codegen(g, p) ==
  With(enable_nil_env(g), LAMBDA h :
    With(Post(h, generate_expr_code(h, defun_body_optimization(h, p.exp))), LAMBDA code :
      Post(h, IF ~h.left_env THEN code
              ELSE primapply(primquote(code), primcons(primquote(finalize_env(h, First(h.env))), Int_(1))))))

\* One round of start_of_codegen_optimization over the helpers and the
\* expression, without those no longer in use.
start_of_codegen_optimization(g, p) ==
  LET Optimized(h) == IF h.kind = "constant" THEN h ELSE [h EXCEPT !.body = optimize_expr(g, @)[2]]
  IN compute_live_helpers([p EXCEPT !.helpers = Each(Optimized, @), !.exp = optimize_expr(g, @)[2]])
=============================================================================
