------------------------------- MODULE Sharing -------------------------------
(***************************************************************************)
(* Common subexpressions (optimize/cse.rs, optimize/bodyform.rs): what a   *)
(* function computes in several places becomes a let around them.          *)
(*                                                                         *)
(* A path leads into an expression, by the number of an item of a call or  *)
(* of a let's binding, and by 0 to the body of a let or a lambda.  A       *)
(* detection is the paths of one expression in the order of the text.      *)
(*                                                                         *)
(* Nothing is ever merged into an assign form around it (merge_cse_        *)
(* binding): a site is never where a name is bound that the expression     *)
(* needs, which detect_common_cse_root sees to.                            *)
(***************************************************************************)
EXTENDS Frontend

(***************************************************************************)
(* Paths.                                                                  *)
(***************************************************************************)
Body_ == 0
PartAt(e, arc) ==
  IF arc # Body_ THEN Parts(e)[arc] ELSE IF IsLet(e) THEN LetBody(e) ELSE LambdaBody(e)
retrieve_bodyform(path, e) == FoldLeft(PartAt, e, path)

ArcsOf(e) ==
  CASE IsCall(e)   -> [k \in DOMAIN Parts(e) |-> k]
    [] IsLet(e)    -> [k \in 1..Len(Bindings(e)) |-> k] \o <<Body_>>
    [] IsLambda(e) -> <<Body_>>
    [] OTHER       -> <<>>

\* The paths into e, as visit_detect_in_bodyform goes through them.
RECURSIVE PathsIn(_)
PathsIn(e) ==
  FlattenSeq(Each(LAMBDA arc : Each(LAMBDA path : <<arc>> \o path, PathsIn(PartAt(e, arc))), ArcsOf(e))) \o << <<>> >>

\* e with other expressions at some paths, none of which leads into another.
RECURSIVE replace_in_bodyform(_, _)
replace_in_bodyform(new, e) ==
  LET Below(arc) == [path \in {Tail(p) : p \in {p \in DOMAIN new : p[1] = arc}} |-> new[<<arc>> \o path]]
      Part(s, arc) == replace_in_bodyform(Below(arc), s)
  IN IF DOMAIN new = {} THEN e
     ELSE IF <<>> \in DOMAIN new THEN new[<<>>]
     ELSE CASE IsCall(e)   -> Call([k \in DOMAIN e[2] |-> Part(e[2][k], k)],
                                   IF e[3] = NoTail THEN NoTail ELSE Part(e[3], Len(e[2]) + 1))
            [] IsLet(e)    -> Let(Kind(e), Hint(e), WithBodies(Bindings(e), Part), Part(LetBody(e), Body_))
            [] IsLambda(e) -> Lambda(ArgsOf(e), CaptureArgs(e), Captures(e), Part(LambdaBody(e), Body_))

(***************************************************************************)
(* What is computed more than once.                                        *)
(***************************************************************************)
get_com_body(e) == IsCallOf(e, {"com"}, 2)
is_constant(e) == IsQuoted(e) \/ (IsValue(e) /\ ~IsAtom(e[2]))

Repeatable(b, path) ==
  LET e == retrieve_bodyform(path, b)
  IN /\ path # <<>>
     /\ ~(IsCall(retrieve_bodyform(Front(path), b)) /\ Last(path) = 1)
     /\ ~IsVariable(e) /\ ~is_constant(e) /\ ~get_com_body(e)

Within(outer, inner) == IsPrefix(outer, inner)
HasInside(d, f) == \E i \in Range(d) : \E j \in Range(f) : Within(i, j)

\* All of its instances are inside those of one other detection.
is_fully_dominated(d, all) == Cardinality({f \in all : f # d /\ HasInside(f, d)}) = 1

\* Expressions are the same if their texts are.
Repeated(b) ==
  With(SelectSeq(PathsIn(b), LAMBDA path : Repeatable(b, path)), LAMBDA found :
    With(Each(LAMBDA path : to_sexp(FALSE, retrieve_bodyform(path, b)), found), LAMBDA forms :
      {d \in {SelectSeq(found, LAMBDA path : to_sexp(FALSE, retrieve_bodyform(path, b)) = form) : form \in Range(forms)} :
         Len(d) > 1}))
cse_detect(b) == With(Repeated(b), LAMBDA all : {d \in all : ~is_fully_dominated(d, all)})

(***************************************************************************)
(* Conditions, (a (i x (com A) (com B)) 1): what is in one of the branches *)
(* is not always computed.                                                 *)
(***************************************************************************)
is_one_env_ref(e) == e \in {Variable(Name("1")), Variable(Name("@")), Variable(Name("@*env*")), Value(Int_(1))}
is_canonical_apply_parent(path, b) ==
  /\ path # <<>>
  /\ Last(path) = 2
  /\ LET parent == retrieve_bodyform(Front(path), b)
     IN IsCallOf(parent, {"a", "2"}, 3) /\ is_one_env_ref(parent[2][3])

detect_conditions(b) ==
  {path \in Range(PathsIn(b)) : is_canonical_apply_parent(path, b) /\ IsCallOf(retrieve_bodyform(path, b), {"i", "3"}, 4)}
Canonical(b, path) == \A k \in {3, 4} : get_com_body(retrieve_bodyform(Append(path, k), b))

\* Fault: one branch is enough.
cse_is_covering_Either(condition, d) ==
  \E k \in {2, 3, 4} : \E i \in Range(d) : Within(Append(condition, k), i)

cse_is_covering(condition, d) ==
  LET In(k) == \E i \in Range(d) : Within(Append(condition, k), i)
  IN In(2) \/ (In(3) /\ In(4))

\* Whether an expression is computed whenever the conditions around its first
\* instance are come to.
saturated(b, d) ==
  \A c \in detect_conditions(b) : Within(c, d[1]) => Canonical(b, c) /\ cse_is_covering(c, d)

(***************************************************************************)
(* Where the let goes.                                                     *)
(***************************************************************************)
NoPath == <<-1>>

\* The body of the let nearest around an instance that binds a name used.
Ceiling(b, d, used) ==
  LET Binds(path, k) ==
        LET e == retrieve_bodyform(SubSeq(path, 1, k), b) IN IsLet(e) /\ Patterns(e) \cap used # {}
      Bound_(path) == {k \in 0..(Len(path) - 1) : Binds(path, k)}
      Nearest(path) == CHOOSE k \in Bound_(path) : \A j \in Bound_(path) : j <= k
  IN FoldLeft(LAMBDA c, path : IF Bound_(path) = {} THEN c ELSE Append(SubSeq(path, 1, Nearest(path)), Body_), NoPath, d)

\* The innermost body around all instances, if it is below the ceiling.
detect_common_cse_root(ceiling, d) ==
  LET Shared_ == {n \in 0..Len(d[1]) : \A i \in Range(d) : Within(SubSeq(d[1], 1, n), i)}
      bodies == {0} \cup {n \in Shared_ : n > 0 /\ d[1][n] = Body_}
      root == SubSeq(d[1], 1, CHOOSE n \in bodies : \A m \in bodies : m <= n)
  IN IF ceiling = NoPath THEN root
     ELSE IF root # <<>> /\ (Len(root) > Len(ceiling) + 1 \/ Front(root) = ceiling) THEN root ELSE NoPath

find_affected_lambdas(b, d, root) ==
  {path \in Range(PathsIn(b)) :
     IsLambda(retrieve_bodyform(path, b)) /\ ~Within(path, root) /\ \E i \in Range(d) : Within(path, i)}

add_variable_to_lambda_capture(name, e) ==
  Lambda(ArgsOf(e), Pair(Atom(name), CaptureArgs(e)), make_cons(Variable(name), Captures(e)), LambdaBody(e))

(***************************************************************************)
(* Detections are applied in rounds, those that have no other inside first *)
(* (cse_optimize_bodyform).  What is being made has the body so far and    *)
(* the sites of lets.                                                      *)
(***************************************************************************)
Site(root, round, name, e) == [root |-> root, round |-> round, name |-> name, body |-> e]

\* b is the function's body as it was; at is where the function is.
Applied(b, at, round, made, d) ==
  LET e == retrieve_bodyform(d[1], made.body)
      name == gensym(Name("cse"), at \o d[1])
      root == detect_common_cse_root(Ceiling(made.body, d, Used(e)), d)
      lambdas == find_affected_lambdas(b, d, root)
      Captured == [path \in lambdas |-> add_variable_to_lambda_capture(name, retrieve_bodyform(path, made.body))]
      named == [path \in Range(d) |-> Variable(name)]
  IN IF made.body = Refused \/ ~saturated(b, d) THEN made
     ELSE IF root = NoPath THEN made
     ELSE IF \E p, q \in lambdas : p # q /\ Within(p, q) THEN [made EXCEPT !.body = Refused]
     ELSE [body |-> replace_in_bodyform(named, replace_in_bodyform(Captured, made.body)),
           sites |-> made.sites \cup {Site(root, round, name, e)}]

RECURSIVE Rounds(_, _, _, _, _)
Rounds(b, at, round, made, left) ==
  LET ready == {d \in left : \A f \in left : f = d \/ ~HasInside(d, f)}
  IN IF left = {} \/ made.body = Refused THEN made
     ELSE IF ready = {} THEN [made EXCEPT !.body = Refused]
     ELSE Rounds(b, at, round + 1, FoldSet(LAMBDA d, m : With(m, LAMBDA so_far : Applied(b, at, round, so_far, d)), made, ready),
                 left \ ready)

\* The lets, deeper ones first; of two at one place the later is inside.
WithLets(made) ==
  LET places == {<<s.root, s.round>> : s \in made.sites}
      order == SortSeq(SetToSeq(places), LAMBDA p, q : Len(p[1]) > Len(q[1]) \/ (Len(p[1]) = Len(q[1]) /\ p[2] > q[2]))
      At_(place) == SetToSeq({s \in made.sites : <<s.root, s.round>> = place})
      LetAt(b, place) ==
        replace_in_bodyform(place[1] :> Let("parallel", "non-inline",
                              [k \in DOMAIN At_(place) |-> [pattern |-> Atom(At_(place)[k].name), body |-> At_(place)[k].body]],
                              retrieve_bodyform(place[1], b)), b)
  IN FoldLeft(LetAt, made.body, order)

cse_optimize_bodyform(at, b) ==
  With(Rounds(b, at, 1, [body |-> b, sites |-> {}], cse_detect(b)),
       LAMBDA made : IF made.body = Refused THEN Refused ELSE WithLets(made))

\* frontend_optimization of cl-23: the bodies of the functions.
Shared(p) ==
  [p EXCEPT !.helpers =
     [i \in DOMAIN @ |-> IF @[i].kind = "constant" THEN @[i] ELSE [@[i] EXCEPT !.body = cse_optimize_bodyform(<<i + 1>>, @)]]]
=============================================================================
