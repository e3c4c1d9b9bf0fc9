------------------------------ MODULE Hoisting ------------------------------
(***************************************************************************)
(* Desugaring: let, assign and lambda forms become functions of their own  *)
(* (codegen.rs hoist_body_let_binding, lambda.rs lambda_codegen).          *)
(*                                                                         *)
(* Renaming has left no sequential let.                                    *)
(***************************************************************************)
EXTENDS Renaming

\* The numbers of CLVM's own operators, where the compiler writes one by its
\* opcode, as an atom or an integer.
Opcode(n) == Variable(Name(n))
make_cons(a, b) == Call(<<Opcode("4"), a, b>>, NoTail)
make_list(items) == FoldRight(make_cons, items, Quoted(Nil))

\* What stands for the function's arguments where they are arguments of the
\* function it is inlined in.
RECURSIVE create_let_env_expression(_)
create_let_env_expression(args) ==
  IF IsCons(args)
  THEN CallOf("c", <<create_let_env_expression(First(args)), create_let_env_expression(Rest(args))>>)
  ELSE Value(args)

NoContext == <<"none">>
pass_env(outer) ==
  IF outer = NoContext THEN CallOf("r", <<Variable(Name("@*env*"))>>)
  ELSE create_let_env_expression(outer)

\* A function's code with the captures in front of what it will be given.
lambda_codegen(name, captures) ==
  make_list(<<Opcode("2"), make_cons(Opcode("1"), Variable(name)),
              make_list(<<Opcode("4"), make_cons(Opcode("1"), captures), Opcode("1")>>)>>)

should_inline_let(hint) == hint \in {"inline", "none"}

\* A let form as a function of what is around it and its own names.
generate_let_defun(name, args, hint, bindings, body) ==
  Helper(IF should_inline_let(hint) THEN "inline" ELSE "function", name,
         Pair(args, ListOf([k \in DOMAIN bindings |-> bindings[k].pattern], Nil)), body)

(***************************************************************************)
(* An assign form is a stack of lets: a binding that needs a name that     *)
(* none of the lets before provides starts a new one.                      *)
(***************************************************************************)
\* Fault: the names of the let at hand count as provided.
AssignLets_SameRound(bs) == <<Each(LAMBDA k : bs[k], toposort_assign_bindings(bs))>>

AssignLets(bs) ==
  LET possible == UNION {NamesIn(b.pattern) : b \in Range(bs)}
      Provided(lets) == UNION {NamesIn(b.pattern) : b \in UNION {Range(l) : l \in Range(lets)}}
      Put(lets, k) ==
        IF Mentioned(bs[k].body) \cap possible \subseteq Provided(Front(lets))
        THEN Append(Front(lets), Append(Last(lets), bs[k]))
        ELSE Append(lets, <<bs[k]>>)
  IN FoldLeft(Put, << <<>> >>, toposort_assign_bindings(bs))

hoist_assign_form(e) ==
  FoldRight(LAMBDA bs, inner : Let("parallel", Hint(e), bs, inner), AssignLets(Bindings(e)), LetBody(e))

(***************************************************************************)
(* hoist_body_let_binding: the functions made and what the expression      *)
(* becomes.  outer is the argument list of the inline function it is in;   *)
(* args are the arguments around it.                                       *)
(***************************************************************************)
Hoisted(helpers, expr) == [helpers |-> helpers, expr |-> expr]
HelpersOf(hs) == FlattenSeq([k \in DOMAIN hs |-> hs[k].helpers])

RECURSIVE hoist_body_let_binding(_, _, _, _)

HoistedLet(outer, args, e, at) ==
  LET bs == Bindings(e)
      hs == [k \in DOMAIN bs |-> hoist_body_let_binding(outer, args, bs[k].body, Append(at, k))]
      name == gensym(Name("letbinding"), at)
  IN Hoisted(Append(HelpersOf(hs), generate_let_defun(name, args, Hint(e), bs, LetBody(e))),
             Call(<<Variable(name), pass_env(outer)>> \o [k \in DOMAIN bs |-> hs[k].expr], NoTail))

HoistedCall(outer, args, e, at) ==
  LET hs == [k \in DOMAIN Tail(Parts(e)) |->
               hoist_body_let_binding(outer, args, Tail(Parts(e))[k], Append(at, k))]
      exprs == [k \in DOMAIN hs |-> hs[k].expr]
  IN Hoisted(HelpersOf(hs),
             IF e[3] = NoTail THEN Call(<<e[2][1]>> \o exprs, NoTail)
             ELSE Call(<<e[2][1]>> \o Front(exprs), Last(exprs)))

HoistedLambda(e, at) ==
  LET args == Pair(CaptureArgs(e), ArgsOf(e))
      body == hoist_body_let_binding(args, args, LambdaBody(e), Append(at, 1))
      name == gensym(Name("lambda"), at)
  IN Hoisted(Append(body.helpers, Helper("function", name, args, body.expr)),
             lambda_codegen(name, Captures(e)))

hoist_body_let_binding(outer, args, e, at) ==
  CASE IsLet(e) -> HoistedLet(outer, args, IF Kind(e) = "assign" THEN hoist_assign_form(e) ELSE e, at)
    [] IsCall(e) -> HoistedCall(outer, args, e, at)
    [] IsLambda(e) -> HoistedLambda(e, at)
    [] OTHER -> Hoisted(<<>>, e)

\* do_desugar's first half: the program's expression.
HoistProgram(p) ==
  LET h == hoist_body_let_binding(NoContext, p.args, p.exp, <<1>>)
  IN [p EXCEPT !.helpers = @ \o h.helpers, !.exp = h.expr]

\* Fault: the new functions come both behind it and at the end.
HoistHelper_Twice(p, i) ==
  LET h == hoist_body_let_binding(NoContext, p.helpers[i].args, p.helpers[i].body, <<i + 1>>)
  IN [p EXCEPT !.helpers = SubSeq(@, 1, i - 1) \o <<[p.helpers[i] EXCEPT !.body = h.expr]>>
                             \o h.helpers \o SubSeq(@, i + 1, Len(@)) \o h.helpers]

\* One turn of process_helper_let_bindings: the i-th helper, whose new
\* functions come right behind it and have their turn later.
HoistHelper(p, i) ==
  LET f == p.helpers[i]
      outer == IF f.kind = "inline" THEN f.args ELSE NoContext
      h == hoist_body_let_binding(outer, f.args, f.body, <<i + 1>>)
  IN IF f.kind = "constant" THEN p
     ELSE [p EXCEPT !.helpers = SubSeq(@, 1, i - 1) \o <<[f EXCEPT !.body = h.expr]>>
                                \o h.helpers \o SubSeq(@, i + 1, Len(@))]
=============================================================================
