------------------------------ MODULE Resolve ------------------------------
(***************************************************************************)
(* Linking (compiler/resolve.rs): the helpers a program with namespaces    *)
(* uses, each under its full name, and each expression with full names.    *)
(*                                                                         *)
(* Macros are left out.  An import that leads back to itself by a name it  *)
(* does not have is followed without end, and is not looked at here.       *)
(***************************************************************************)
EXTENDS Frontend, CodeGen

NoTarget == [kind |-> "none"]
Target(long, helper, at) == [kind |-> "target", long |-> long, helper |-> helper, at |-> at]

(***************************************************************************)
(* TourNamespaces: the helpers in all namespaces, each with the one it is  *)
(* in; the root's name is empty.                                           *)
(***************************************************************************)
RECURSIVE tour_helpers(_, _)
tour_helpers(helpers, ns) ==
  FlattenSeq(Each(LAMBDA h : IF h.kind = "namespace" THEN tour_helpers(h.helpers, h.longname)
                             ELSE <<[namespace |-> ns, helper |-> h]>>, helpers))

exposed_name_matches(word, name) == name = (IF word.alias = NoName THEN word.name ELSE word.alias)

\* What name, written child after parent, is under the import's namespace.
ImportedAs(import, parent, name, child) ==
  LET spec == import.spec
      From(word) == Append(import.longname, word)
  IN CASE spec.kind = "qualified" ->
            IF parent = (IF spec.target = <<>> THEN import.longname ELSE spec.target) THEN <<From(child)>> ELSE <<>>
       [] spec.kind = "exposing" ->
            IF parent # <<>> THEN <<>>
            ELSE Each(LAMBDA w : From(w.name), SelectSeq(spec.words, LAMBDA w : exposed_name_matches(w, name)))
       [] spec.kind = "hiding" ->
            IF parent # <<>> \/ \E w \in Range(spec.words) : w.name = name THEN <<>> ELSE <<From(child)>>

\* Fault: imports come before what the namespace has itself.
ImportsFirst(own, imported) == imported \o own
OwnFirst(own, imported) == own \o imported

RECURSIVE find_helper_target(_, _, _, _)

\* The helper that long stands for in a namespace, where it was written name:
\* one of its own, or the first its imports give.
find_helper_target(tour, ns, name, long) ==
  LET parent == Front(long)
      home == SelectSeq([k \in DOMAIN tour |-> k], LAMBDA k : tour[k].namespace = ns)
      IsOwn(k) == /\ parent \in {<<>>, ns}
                  /\ tour[k].helper.kind # "import" /\ tour[k].helper.name = Name(Last(long))
      own == Each(LAMBDA k : Target(Append(ns, Last(long)), tour[k].helper, k), SelectSeq(home, IsOwn))
      Imported(k) == Each(LAMBDA l : find_helper_target(tour, Front(l), name, l),
                          ImportedAs(tour[k].helper, parent, name, Last(long)))
      imported == FlattenSeq(Each(Imported, SelectSeq(home, LAMBDA k : tour[k].helper.kind = "import")))
      found == SelectSeq(OwnFirst(own, imported), LAMBDA t : t # NoTarget)
  IN IF found = <<>> THEN NoTarget ELSE found[1]

(***************************************************************************)
(* An expression with full names, and the targets they name.               *)
(***************************************************************************)
Resolved(exp, targets) == <<exp, targets>>
Unresolved == <<"unresolved">>

capture_scope(args) == NamesIn(args) \ EnvRefs

\* Names of the compiler's and of the machine's own.
BuiltIn(name, long) ==
  \/ name \in {Name("com"), Name("@")}
  \/ Len(long) = 1 /\ get_prim(name) # Fail

ResolvedName(tour, ns, name) ==
  LET long == parse(name[1])
  IN With(find_helper_target(tour, ns, name[1], long), LAMBDA t :
       IF t # NoTarget
       THEN Resolved(Variable(Name(as_u8_vec(t.long))), {[t EXCEPT !.helper = rename_args_helperform(@, <<t.at, 0>>)]})
       ELSE IF BuiltIn(name, long) THEN Resolved(Variable(name), {}) ELSE Unresolved)

add_binding_names(pattern) == NamesIn(pattern)

\* The names around the k-th part of e.
ScopeAt(e, scope, k) ==
  LET bs == Bindings(e)
      Before(order) == UNION {add_binding_names(bs[order[j]].pattern) :
                                j \in {j \in DOMAIN order : \A i \in 1..j : order[i] # k}}
  IN CASE IsLet(e) /\ k > Len(bs) -> scope \cup Patterns(e)
       [] IsLet(e) /\ k <= Len(bs) ->
            (CASE Kind(e) = "parallel"   -> scope
               [] Kind(e) = "sequential" -> scope \cup Before([j \in DOMAIN bs |-> j])
               [] Kind(e) = "assign"     -> scope \cup Before(toposort_assign_bindings(bs)))
       [] IsLambda(e) -> IF k = 1 THEN scope ELSE scope \cup capture_scope(CaptureArgs(e)) \cup capture_scope(ArgsOf(e))
       [] OTHER -> scope

\* e with other parts.
WithParts(e, parts) ==
  CASE IsCall(e)   -> IF e[3] = NoTail THEN Call(parts, NoTail) ELSE Call(Front(parts), Last(parts))
    [] IsLet(e)    -> Let(Kind(e), Hint(e), WithBodies(Bindings(e), LAMBDA b, k : parts[k]), Last(parts))
    [] IsLambda(e) -> Lambda(ArgsOf(e), CaptureArgs(e), parts[1], parts[2])
    [] OTHER       -> e

RECURSIVE resolve_namespaces_in_expr(_, _, _, _)
resolve_namespaces_in_expr(tour, ns, scope, e) ==
  IF IsVariable(e)
  THEN IF NameOf(e[2]) \in scope THEN Resolved(e, {}) ELSE ResolvedName(tour, ns, NameOf(e[2]))
  ELSE With(Each(LAMBDA k : resolve_namespaces_in_expr(tour, ns, ScopeAt(e, scope, k), Parts(e)[k]),
                 [k \in DOMAIN Parts(e) |-> k]), LAMBDA parts :
         IF Unresolved \in Range(parts) THEN Unresolved
         ELSE Resolved(WithParts(e, Each(LAMBDA r : r[1], parts)), UNION {r[2] : r \in Range(parts)}))

namespace_helper(long, h) == [h EXCEPT !.name = Name(as_u8_vec(long))]

\* A target under its full name, with what it uses.
resolve_namespaces_in_helper(tour, t) ==
  LET h == namespace_helper(t.long, t.helper)
  IN With(resolve_namespaces_in_expr(tour, Front(t.long), capture_scope(h.args), h.body), LAMBDA r :
       IF r = Unresolved THEN Unresolved ELSE Resolved([h EXCEPT !.body = r[1]], r[2]))
=============================================================================
