------------------------------ MODULE Renaming ------------------------------
(***************************************************************************)
(* The expressions of a chialisp program between the frontend and the code *)
(* generator (BodyForm of compiler/comptypes.rs), what the passes ask of   *)
(* them, and the first of the passes (compiler/rename.rs): every name a    *)
(* function, a lambda or a let form binds becomes one that nothing else    *)
(* has.                                                                    *)
(*                                                                         *)
(* A name is a word of the source and the marks gensym has put on it, each *)
(* the place of what it was made for, with a zero in front.  gensym counts *)
(* instead; either way no two names it makes are the same.  An atom of the *)
(* source is SExp::Atom with its name for a number.                        *)
(***************************************************************************)
EXTENDS ClvmValues, FiniteSets, Functions, TLC

Name(word) == <<word, <<>>>>
gensym(name, place) == <<name[1], name[2] \o <<0>> \o place>>

Atom(name) == Bytes(name, FALSE)
IsAtom(t) == IsBytes(t)
NameOf(t) == t[2]

(***************************************************************************)
(* Lists of arguments: (@ name sub) has a name for the whole of sub.       *)
(***************************************************************************)
Capturing(name, sub) == Pair(Atom(Name("@")), Pair(Atom(name), Pair(sub, Nil)))

is_at_capture(t) ==
  /\ IsCons(t) /\ First(t) = Atom(Name("@"))
  /\ IsCons(Rest(t)) /\ IsAtom(First(Rest(t)))
  /\ IsCons(Rest(Rest(t))) /\ Rest(Rest(Rest(t))) = Nil
CaptureOf(t) == NameOf(First(Rest(t)))
SubOf(t) == First(Rest(Rest(t)))

RECURSIVE NamesIn(_)

\* make_provides_set, for text.
NamesIn(t) ==
  CASE IsCons(t) -> NamesIn(First(t)) \cup NamesIn(Rest(t))
    [] IsAtom(t) -> {NameOf(t)}
    [] OTHER     -> {}

(***************************************************************************)
(* BodyForm.                                                               *)
(***************************************************************************)
Value(v) == <<"value", v>>
Variable(name) == Value(Atom(name))
Quoted(v) == <<"quoted", v>>

\* The head comes first in the list; tail is what follows &rest.
NoTail == <<"none">>
Call(list, tail) == <<"call", list, tail>>
CallOf(word, args) == Call(<<Variable(Name(word))>> \o args, NoTail)

\* kind: "parallel", "sequential" or "assign"; hint: "none" for let, and what
\* the keyword of an assign asks for.  A binding is [pattern, body].
Let(kind, hint, bindings, body) == <<"let", kind, hint, bindings, body>>
Kind(e) == e[2]
Hint(e) == e[3]
Bindings(e) == e[4]
LetBody(e) == e[5]

Lambda(args, capture_args, captures, body) == <<"lambda", args, capture_args, captures, body>>
ArgsOf(e) == e[2]
CaptureArgs(e) == e[3]
Captures(e) == e[4]
LambdaBody(e) == e[5]

IsValue(e) == e[1] = "value"
IsQuoted(e) == e[1] = "quoted"
IsCall(e) == e[1] = "call"
IsLet(e) == e[1] = "let"
IsLambda(e) == e[1] = "lambda"
IsVariable(e) == IsValue(e) /\ IsAtom(e[2])

\* A call of one of these words, with no more than its items.
IsHead(e, words) == IsCall(e) /\ e[3] = NoTail /\ \E w \in words : e[2][1] = Variable(Name(w))

IsCallOf(e, words, n) == IsHead(e, words) /\ Len(e[2]) = n

\* An expression nothing could be made of.
Refused == <<"refused">>

\* The expressions an expression is made of.
Parts(e) ==
  CASE IsCall(e)   -> e[2] \o (IF e[3] = NoTail THEN <<>> ELSE <<e[3]>>)
    [] IsLet(e)    -> Append([k \in DOMAIN Bindings(e) |-> Bindings(e)[k].body], LetBody(e))
    [] IsLambda(e) -> <<Captures(e), LambdaBody(e)>>
    [] OTHER       -> <<>>

RECURSIVE All(_)
All(e) == {e} \cup UNION {All(s) : s \in Range(Parts(e))}

\* collect_used_names_bodyform.
Used(e) == {NameOf(s[2]) : s \in {s \in All(e) : IsVariable(s)}}

Patterns(e) == UNION {NamesIn(b.pattern) : b \in Range(Bindings(e))}

\* make_provides_set of an expression's text, quotes and patterns and all.
Mentioned(e) ==
  UNION {CASE IsValue(s) \/ IsQuoted(s) -> NamesIn(s[2])
           [] IsLet(s)                  -> Patterns(s)
           [] IsLambda(s)               -> NamesIn(ArgsOf(s)) \cup NamesIn(CaptureArgs(s))
           [] OTHER                     -> {} : s \in All(e)}

(***************************************************************************)
(* toposort_assign_bindings, as a function: the bindings' order, or NoOrder *)
(* where TopoSort comes to a deadlock.                                     *)
(***************************************************************************)
NoOrder == <<0>>

Swapped(s, i, j) == [s EXCEPT ![i] = s[j], ![j] = s[i]]

toposort_assign_bindings(bindings) ==
  LET N == Len(bindings)
      Put(s, i) == <<Swapped(s[1], s[2] + 1, i), s[2] + 1>>
      \* The order of has and needs, the names the bindings give and read.
      Order(has, needs) ==
        LET round[n \in Nat, order \in Seq(1..N)] ==
              LET Ready(done) ==
                    SelectSeq([i \in 1..(N - n) |-> n + i], LAMBDA i : needs[order[i]] \subseteq done)
              IN IF n = N THEN order
                 ELSE With(Ready(UNION {has[order[i]] : i \in 1..n}), LAMBDA ready :
                        IF ready = <<>> THEN NoOrder
                        ELSE With(FoldLeft(Put, <<order, n>>, ready), LAMBDA moved : round[moved[2], moved[1]]))
        IN round[0, [k \in 1..N |-> k]]
      Given == [k \in 1..N |-> NamesIn(bindings[k].pattern)]
  IN With(Given, LAMBDA has :
       With([k \in 1..N |-> Mentioned(bindings[k].body) \cap UNION Range(has)], LAMBDA needs : Order(has, needs)))

\* An assign form somewhere in e whose bindings have no order.
Circular(e) ==
  \E s \in All(e) : IsLet(s) /\ Kind(s) = "assign" /\ toposort_assign_bindings(Bindings(s)) = NoOrder

(***************************************************************************)
(* Renaming.  at is the place of an expression, the way to it from the     *)
(* program, and what gensym marks a name with.  Macros and namespaces are  *)
(* left out, and with them the rewriting of qq forms.                      *)
(***************************************************************************)
RECURSIVE rename_in_cons(_, _), rename_in_bodyform(_, _, _), rename_args_bodyform(_, _)

\* A list that looks like a quote stays as it is.
rename_in_cons(namemap, t) ==
  CASE IsAtom(t) -> IF NameOf(t) \in DOMAIN namemap THEN Atom(namemap[NameOf(t)]) ELSE t
    [] IsCons(t) ->
         IF First(t) \in {Atom(Name("q")), Atom(Name("quote"))} THEN t
         ELSE Pair(rename_in_cons(namemap, First(t)), rename_in_cons(namemap, Rest(t)))
    [] OTHER     -> t

invent_new_names_sexp(t, at) == [n \in NamesIn(t) \ {Name("@")} |-> gensym(n, at)]

\* The bindings with G of the k-th one's body for its body.
WithBodies(bindings, G(_, _)) ==
  [k \in DOMAIN bindings |-> [bindings[k] EXCEPT !.body = G(@, k)]]

\* The names of namemap where they are free in e.  The head of a call is a
\* name of another kind; a lambda's body is renamed on the way.
rename_in_bodyform(namemap, e, at) ==
  LET In(s, k) == rename_in_bodyform(namemap, s, Append(at, k))
  IN CASE IsValue(e) \/ IsQuoted(e) ->
            IF IsAtom(e[2]) THEN <<e[1], rename_in_cons(namemap, e[2])>> ELSE e
       [] IsCall(e) ->
            Call([i \in DOMAIN e[2] |-> IF i = 1 THEN e[2][1] ELSE In(e[2][i], i)],
                 IF e[3] = NoTail THEN NoTail ELSE In(e[3], Len(e[2]) + 1))
       [] IsLet(e) ->
            Let(Kind(e), Hint(e), WithBodies(Bindings(e), In), In(LetBody(e), Len(Bindings(e)) + 1))
       [] IsLambda(e) ->
            Lambda(ArgsOf(e), rename_in_cons(namemap, CaptureArgs(e)), In(Captures(e), 1),
                   In(rename_args_bodyform(LambdaBody(e), Append(at, 2)), 2))

\* let* as lets in lets.
desugar_sequential_let_bindings(bindings, body) ==
  FoldRight(LAMBDA b, inner : Let("parallel", "none", <<b>>, inner), bindings, body)

\* Fault: the bindings of a let see each other's names.
RenamedLet_Recursive(e, at) ==
  LET bs  == Bindings(e)
      own == [k \in DOMAIN bs |-> invent_new_names_sexp(bs[k].pattern, Append(at, k))]
      all == FoldLeft(LAMBDA m, new : new @@ m, <<>>, own)
      Body(exp, place) == rename_in_bodyform(all, rename_args_bodyform(exp, place), place)
  IN Let("parallel", Hint(e),
         [k \in DOMAIN bs |-> [pattern |-> rename_in_cons(own[k], bs[k].pattern), body |-> Body(bs[k].body, Append(at, k))]],
         Body(LetBody(e), Append(at, Len(bs) + 1)))

\* A let gives its bindings' names to its body alone.
RenamedLet(e, at) ==
  LET bs  == Bindings(e)
      end == Append(at, Len(bs) + 1)
      Own == [k \in DOMAIN bs |-> invent_new_names_sexp(bs[k].pattern, Append(at, k))]
      Renamed(own, k) == [pattern |-> rename_in_cons(own[k], bs[k].pattern),
                          body |-> rename_args_bodyform(bs[k].body, Append(at, k))]
  IN With(Own, LAMBDA own :
       Let("parallel", Hint(e), [k \in DOMAIN bs |-> Renamed(own, k)],
           rename_in_bodyform(FoldLeft(LAMBDA m, new : new @@ m, <<>>, own),
                              rename_args_bodyform(LetBody(e), end), end)))

\* An assign goes through its bindings in the order they are computed, and
\* gives each the names so far; it leaves them last to first.
rename_assign_bindings(e, at) ==
  LET bs  == Bindings(e)
      end == Append(at, Len(bs) + 1)
      Renamed(renames, k) ==
        [pattern |-> rename_in_cons(renames, bs[k].pattern),
         body |-> rename_in_bodyform(renames, rename_args_bodyform(bs[k].body, Append(at, k)), Append(at, k))]
      Next_(done, k) ==
        With(done, LAMBDA sofar :
          With(invent_new_names_sexp(bs[k].pattern, Append(at, k)) @@ sofar[1], LAMBDA renames :
            <<renames, <<Renamed(renames, k)>> \o sofar[2]>>))
  IN With(FoldLeft(Next_, << <<>>, <<>> >>, toposort_assign_bindings(bs)), LAMBDA all :
       Let("assign", Hint(e), all[2],
           rename_in_bodyform(all[1], rename_args_bodyform(LetBody(e), end), end)))

\* Everything e binds gets a name of its own.
rename_args_bodyform(e, at) ==
  LET Args(s, k) == rename_args_bodyform(s, Append(at, k))
      own == invent_new_names_sexp(ArgsOf(e), Append(at, 1))
  IN CASE IsCall(e) ->
            Call([i \in DOMAIN e[2] |-> Args(e[2][i], i)],
                 IF e[3] = NoTail THEN NoTail ELSE Args(e[3], Len(e[2]) + 1))
       [] IsLet(e) ->
            (CASE Kind(e) = "sequential" ->
                    rename_args_bodyform(desugar_sequential_let_bindings(Bindings(e), LetBody(e)), at)
               [] Kind(e) = "parallel" -> RenamedLet(e, at)
               [] Kind(e) = "assign" -> rename_assign_bindings(e, at))
       [] IsLambda(e) ->
            Lambda(rename_in_cons(own, ArgsOf(e)), CaptureArgs(e), Captures(e),
                   rename_in_bodyform(own, Args(LambdaBody(e), 2), Append(at, 2)))
       [] OTHER -> e

(***************************************************************************)
(* A program: its arguments, its helpers and its expression.  A helper is  *)
(* a function, an inline function or a constant; or a namespace with       *)
(* helpers of its own, or an import of one (Frontend).                     *)
(***************************************************************************)
Helper(kind, name, args, body) == [kind |-> kind, name |-> name, args |-> args, body |-> body]
Program(args, helpers, exp) == [args |-> args, helpers |-> helpers, exp |-> exp]

is_namespace_decl(h) == h.kind \in {"namespace", "import"}

RECURSIVE rename_args_helperform(_, _)
rename_args_helperform(h, at) ==
  LET own  == invent_new_names_sexp(h.args, Append(at, 1))
      body == rename_args_bodyform(h.body, Append(at, 2))
  IN IF h.kind = "import" THEN h
     ELSE IF h.kind = "namespace"
     THEN [h EXCEPT !.helpers = [k \in DOMAIN @ |-> rename_args_helperform(@[k], Append(at, k))]]
     ELSE IF h.kind = "constant" THEN [h EXCEPT !.body = body]
     ELSE [h EXCEPT !.args = rename_in_cons(own, h.args),
                    !.body = rename_in_bodyform(own, body, Append(at, 2))]

\* The program's own arguments keep their names.
rename_children_compileform(p) ==
  [p EXCEPT !.helpers = [i \in DOMAIN p.helpers |-> rename_args_helperform(p.helpers[i], <<i>>)],
            !.exp = rename_args_bodyform(p.exp, <<Len(p.helpers) + 1>>)]

\* calculate_live_helpers: what the names in use use.
RECURSIVE Reached(_, _)
Reached(names, helpers) ==
  LET more == names \cup UNION {Used(h.body) : h \in {h \in Range(helpers) : h.name \in names}}
  IN IF more = names THEN names ELSE Reached(more, helpers)

compute_live_helpers(p) ==
  [p EXCEPT !.helpers = SelectSeq(@, LAMBDA h : is_namespace_decl(h) \/ h.name \in Reached(Used(p.exp), p.helpers))]
=============================================================================
