-------------------------- MODULE ClassicOptimizer --------------------------
(***************************************************************************)
(* The rewriting of compiled code (classic stage_2/optimize.rs): eight     *)
(* optimizers are tried in order, the first that changes the code starts   *)
(* the next round, and what none of them changes is the result.  The table *)
(* of results by tree hash is left out: it holds what is computed here.    *)
(*                                                                         *)
(* Code is what CLVM runs; an atom is Nil or the number its bytes spell,   *)
(* without a sign.                                                         *)
(***************************************************************************)
EXTENDS ClvmSemantics, Functions

CONSTANTS
  Codes,     \* the code to optimize
  Envs       \* what it is run on

VARIABLES
  given,     \* the code as it came
  r,         \* what has been made of it
  state      \* "optimizing", "done" or "error"

vars == <<given, r, state>>

Quote == Int_(1)
Keyword(word) == Int_([a |-> 2, c |-> 4, f |-> 5, r |-> 6, x |-> 8][word])

\* A number as an atom: zero is the empty one.
AtomOf(n) == IF n = 0 THEN Nil ELSE Int_(n)

RECURSIVE Stored(_)
Stored(v) == IF IsCons(v) THEN Pair(Stored(First(v)), Stored(Rest(v))) ELSE AtomOf(atom_value(v))

\* number_from_u8 of an atom: its first bit is a sign.
Signed(v) ==
  LET n == atom_value(v) IN IF n >= 128 /\ n < 256 THEN n - 256 ELSE n

\* proper_list; enlist makes the value of the list.
IsProper(v) == ListEnd(v) = Nil
enlist(items) == ListOf(items, Nil)

IsQuote(v) == IsCons(v) /\ First(v) = Quote

(***************************************************************************)
(* Patterns (pattern_match.rs): ($ . A) matches an atom and (: . A) matches *)
(* anything; A is a number no code has.                                    *)
(***************************************************************************)
ATOM_MATCH == Int_(36)
SEXP_MATCH == Int_(58)
A_ == Int_(1001)
B_ == Int_(1002)
Anything(name) == Pair(SEXP_MATCH, name)

NoMatch == (Nil :> Nil)

unify_bindings(bindings, key, value) ==
  IF key \notin DOMAIN bindings THEN (key :> value) @@ bindings
  ELSE IF bindings[key] = value THEN bindings ELSE NoMatch

RECURSIVE match_sexp(_, _, _)
match_sexp(pattern, sexp, known) ==
  LET left == First(pattern)
      right == Rest(pattern)
      marked == IsCons(pattern) /\ ~IsCons(left) /\ ~IsCons(right)
  IN CASE ~IsCons(pattern) -> IF sexp = pattern THEN known ELSE NoMatch
       [] marked /\ ~IsCons(sexp) ->
            (CASE left \notin {ATOM_MATCH, SEXP_MATCH} -> NoMatch
               [] left = right /\ right = sexp -> <<>>
               [] left = right /\ right = ATOM_MATCH /\ right # sexp -> NoMatch
               [] OTHER -> unify_bindings(known, right, sexp))
       [] marked /\ IsCons(sexp) /\ left = SEXP_MATCH /\ right # SEXP_MATCH ->
            unify_bindings(known, right, sexp)
       [] IsCons(pattern) /\ ~marked /\ ~IsCons(sexp) -> NoMatch
       [] OTHER ->
            With(match_sexp(left, First(sexp), known),
                 LAMBDA b : IF b = NoMatch THEN NoMatch ELSE match_sexp(right, Rest(sexp), b))

\* What becomes of v where it matches the pattern.
Matching(v, pattern, Then(_)) ==
  With(match_sexp(pattern, v, <<>>), LAMBDA b : IF b = NoMatch THEN v ELSE Then(b))

first_path == 2
rest_path == 3

(***************************************************************************)
(* The optimizers.                                                         *)
(***************************************************************************)
RECURSIVE seems_constant(_)
seems_constant(v) ==
  \/ v = Nil
  \/ IsQuote(v)
  \/ /\ IsCons(v) /\ First(v) # Keyword("x")
     /\ IsCons(First(v)) => seems_constant(First(v))
     /\ IsProper(Rest(v)) /\ \A item \in Range(ListItems(Rest(v))) : seems_constant(item)

\* What depends on no argument is computed now.
constant_optimizer(v) ==
  IF IsQuote(v) \/ ~seems_constant(v) \/ v = Nil THEN v
  ELSE With(Eval(v, Nil, Fuel), LAMBDA w : IF Bad(w) THEN Fail ELSE Pair(Quote, Stored(w)))

is_args_call(v) == v = Int_(1)

AppliedQuote == enlist(<<Keyword("a"), Pair(Quote, Anything(A_)), Anything(B_)>>)

\* (a (q . SEXP) @) => SEXP
cons_q_a_optimizer(v) ==
  Matching(v, AppliedQuote, LAMBDA b : IF is_args_call(b[B_]) THEN b[A_] ELSE v)

ConsPattern == enlist(<<Keyword("c"), Anything(A_), Anything(B_)>>)

PartOf(args, part, op) ==
  With(match_sexp(ConsPattern, args, <<>>),
       LAMBDA b : IF b = NoMatch THEN enlist(<<op, args>>) ELSE b[part])

cons_f(args) == PartOf(args, A_, Keyword("f"))
cons_r(args) == PartOf(args, B_, Keyword("r"))

\* The part of new_args a path finds.
path_from_args(v, new_args) ==
  LET n == Signed(v)
      Walk(args, bit) == IF bit = 0 THEN cons_f(args) ELSE cons_r(args)
  IN IF n <= 1 THEN new_args ELSE FoldLeft(Walk, new_args, PathBits(n))

\* The code of an expression with its arguments put in for its paths.
RECURSIVE sub_args(_, _)
sub_args(v, new_args) ==
  CASE ~IsCons(v) -> path_from_args(v, new_args)
    [] IsQuote(v) -> v
    [] IsCons(v) /\ ~IsQuote(v) /\ ~IsProper(Rest(v)) -> new_args
    [] OTHER ->
         Pair(IF IsCons(First(v)) THEN sub_args(First(v), new_args) ELSE First(v),
              enlist(Each(LAMBDA item : sub_args(item, new_args), ListItems(Rest(v)))))

\* An operand that stays an operation.
NonConstant(v) == IsCons(v) /\ ~IsCons(First(v)) /\ First(v) # Quote

RECURSIVE optimize_sexp_(_)

OptimizedItems(v) == Each(optimize_sexp_, ListItems(v))

\* (a (q . (op SEXP1 ...)) ARGS): the arguments are put in, and kept there if
\* no operand is an operation then.
var_change_optimizer_cons_eval(v) ==
  Matching(v, AppliedQuote, LAMBDA b :
    With(sub_args(b[A_], b[B_]), LAMBDA called :
      IF seems_constant(called) THEN optimize_sexp_(called)
      ELSE IF ~IsProper(called) THEN v
      ELSE With(OptimizedItems(called), LAMBDA items :
             IF Fail \in Range(items) THEN Fail
             ELSE IF \E item \in Range(items) : NonConstant(item) THEN v ELSE enlist(items))))

children_optimizer(v) ==
  IF ~IsProper(v) \/ IsQuote(v) THEN v
  ELSE With(OptimizedItems(v), LAMBDA items : IF Fail \in Range(items) THEN Fail ELSE enlist(items))

\* (f (c A B)) => A and (r (c A B)) => B
cons_optimizer(v) ==
  With(Matching(v, enlist(<<Keyword("f"), ConsPattern>>), LAMBDA b : b[A_]), LAMBDA w :
    IF w # v THEN w ELSE Matching(v, enlist(<<Keyword("r"), ConsPattern>>), LAMBDA b : b[B_]))

\* (f N) and (r N) => the path of that part
path_optimizer(v) ==
  LET Of(op, path, w) ==
        Matching(w, enlist(<<op, Pair(ATOM_MATCH, A_)>>),
                 LAMBDA b : AtomOf(compose_paths(atom_value(b[A_]), path)))
  IN Of(Keyword("r"), rest_path, Of(Keyword("f"), first_path, v))

\* (q . 0) => 0
quote_null_optimizer(v) == IF v = Pair(Quote, Nil) THEN Nil ELSE v

\* (a 0 ARGS) => 0
apply_null_optimizer(v) ==
  Matching(v, Pair(Keyword("a"), Pair(Nil, Anything(A_))), LAMBDA b : Nil)

Optimizers ==
  <<"cons", "constant", "cons_q_a", "var_change", "children", "path", "quote_null", "apply_null">>

Optimized(name, v) ==
  CASE name = "cons" -> cons_optimizer(v)
    [] name = "constant" -> constant_optimizer(v)
    [] name = "cons_q_a" -> cons_q_a_optimizer(v)
    [] name = "var_change" -> var_change_optimizer_cons_eval(v)
    [] name = "children" -> children_optimizer(v)
    [] name = "path" -> path_optimizer(v)
    [] name = "quote_null" -> quote_null_optimizer(v)
    [] name = "apply_null" -> apply_null_optimizer(v)

\* One round: the first optimizer that changes v does.
Rewritten(v) ==
  FoldLeft(LAMBDA w, name : IF w = v THEN Optimized(name, v) ELSE w, v, Optimizers)

optimize_sexp_(v) ==
  IF ~IsCons(v) THEN v
  ELSE With(Rewritten(v), LAMBDA w : IF w \in {v, Fail} THEN w ELSE optimize_sexp_(w))

(***************************************************************************)
(* The rounds.                                                             *)
(***************************************************************************)
Start(v) == given = v /\ r = v /\ state = "optimizing"

Init == \E v \in Codes : Start(v)

Round ==
  /\ state = "optimizing" /\ IsCons(r)
  /\ \E w \in {Rewritten(r)} :
       \/ w = Fail /\ state' = "error" /\ UNCHANGED r
       \/ w = r /\ state' = "done" /\ UNCHANGED r
       \/ w \notin {Fail, r} /\ r' = w /\ UNCHANGED state
  /\ UNCHANGED given

ReturnAtom ==
  /\ state = "optimizing" /\ ~IsCons(r)
  /\ state' = "done"
  /\ UNCHANGED <<given, r>>

Next == Round \/ ReturnAtom

Spec == Init /\ [][Next]_vars

\* "Optimize an s-expression R written for clvm to R_opt where
\* (a R args) == (a R_opt args) for ANY args" (optimize.rs optimize_sexp_),
\* where (a R args) has a value.
OptimizedGivesTheSame ==
  \A env \in Envs :
    With(Eval(given, env, Fuel), LAMBDA v :
      ~Bad(v) => With(Eval(r, env, Fuel), LAMBDA w : w = Endless \/ (w # Fail /\ Stored(w) = Stored(v))))
=============================================================================
