------------------------------ MODULE Frontend ------------------------------
(***************************************************************************)
(* The frontend: what a program's text says (compiler/frontend.rs), and    *)
(* how a program is written as text again (to_sexp of                      *)
(* compiler/comptypes.rs).                                                 *)
(*                                                                         *)
(* The language is a strict one, where numbers are no names.  Strings,     *)
(* macros, mod forms, defconst and exports are left out.                   *)
(***************************************************************************)
EXTENDS Hoisting

Malformed == <<"malformed">>
NoHelper == [kind |-> "none"]

Word(w) == Atom(Name(w))
IsWord(t, w) == t = Word(w)
Proper(t) == nilp(ListEnd(t))

\* A number in the place of a name is the name with its bytes.
atomize(t) == IF IsInt(t) THEN Word(ToString(t[2])) ELSE t

(***************************************************************************)
(* Writing.                                                                *)
(***************************************************************************)
get_let_marker_text(e) ==
  CASE Kind(e) = "parallel"   -> "let"
    [] Kind(e) = "sequential" -> "let*"
    [] Kind(e) = "assign"     -> (CASE Hint(e) = "inline"     -> "assign-inline"
                                    [] Hint(e) = "non-inline" -> "assign-lambda"
                                    [] OTHER                  -> "assign")

TextList(items) == ListOf(items, Nil)

\* compose_assign writes the same word for all assign forms; hinted gives each
\* its own, as the author of a program does.
RECURSIVE to_sexp(_, _)
to_sexp(hinted, e) ==
  LET Write(s) == to_sexp(hinted, s)
      marker == Word(IF Kind(e) = "assign" /\ ~hinted THEN "assign" ELSE get_let_marker_text(e))
  IN CASE IsQuoted(e) -> Pair(Word("q"), e[2])
       [] IsValue(e)  -> e[2]
       [] IsCall(e)   ->
            TextList(Each(Write, e[2]) \o (IF e[3] = NoTail THEN <<>> ELSE <<Word("&rest"), Write(e[3])>>))
       [] IsLet(e) /\ Kind(e) = "assign" ->
            TextList(<<marker>> \o FlattenSeq(Each(LAMBDA b : <<b.pattern, Write(b.body)>>, Bindings(e)))
                       \o <<Write(LetBody(e))>>)
       [] IsLet(e) /\ Kind(e) # "assign" ->
            TextList(<<marker, TextList(Each(LAMBDA b : TextList(<<b.pattern, Write(b.body)>>), Bindings(e))),
                       Write(LetBody(e))>>)
       [] IsLambda(e) ->
            TextList(<<Word("lambda"),
                       IF truthy(CaptureArgs(e)) THEN Pair(Pair(Word("&"), CaptureArgs(e)), ArgsOf(e)) ELSE ArgsOf(e),
                       Write(LambdaBody(e))>>)

(***************************************************************************)
(* Namespaces and imports are among a program's helpers.  The name of one  *)
(* is a list of words (ImportLongName), written as one word with dots in   *)
(* it: these are the ones with dots.                                       *)
(***************************************************************************)
Dotted ==
  [w \in {"A.B"} |-> <<"A", "B">>] @@ ("N.F" :> <<"N", "F">>) @@ ("N.G" :> <<"N", "G">>)
    @@ ("Z.F" :> <<"Z", "F">>) @@ ("M.F" :> <<"M", "F">>) @@ ("M.G" :> <<"M", "G">>)
    @@ ("A.B.F" :> <<"A", "B", "F">>) @@ ("A.B.G" :> <<"A", "B", "G">>)
parse(word) == IF word \in DOMAIN Dotted THEN Dotted[word] ELSE <<word>>
as_u8_vec(long) == IF Len(long) = 1 THEN long[1] ELSE CHOOSE w \in DOMAIN Dotted : Dotted[w] = long

Namespace(word, helpers) ==
  [kind |-> "namespace", name |-> Name(word), args |-> Nil, body |-> Value(Nil), longname |-> parse(word), helpers |-> helpers]
Import(word, spec) ==
  [kind |-> "import", name |-> Name(word), args |-> Nil, body |-> Value(Nil), longname |-> parse(word), spec |-> spec]

\* What an import gives names to: all of a namespace's, under its name or
\* another (target, or <<>>); some, maybe under an alias; or all but some.
NoName == ""
Qualified(target) == [kind |-> "qualified", target |-> target]
Exposing(words) == [kind |-> "exposing", words |-> words]
Hiding(words) == [kind |-> "hiding", words |-> words]
ListedName(word, alias) == [name |-> word, alias |-> alias]

ListedText(w) == IF w.alias = NoName THEN Word(w.name) ELSE TextList(<<Word(w.name), Word("as"), Word(w.alias)>>)
ImportText(h) ==
  LET spec == h.spec
      name == Atom(h.name)
  IN CASE spec.kind = "qualified" ->
            TextList(<<Word("qualified"), name>>
                       \o (IF spec.target = <<>> THEN <<>> ELSE <<Word("as"), Word(as_u8_vec(spec.target))>>))
       [] spec.kind = "exposing" -> Pair(name, TextList(<<Word("exposing")>> \o Each(ListedText, spec.words)))
       [] spec.kind = "hiding" ->
            Pair(name, IF spec.words = <<>> THEN Nil
                       ELSE TextList(<<Word("hiding")>> \o Each(ListedText, spec.words)))

Keywords_ == [function |-> "defun", inline |-> "defun-inline", constant |-> "defconstant"]

RECURSIVE HelperText(_, _)
HelperText(hinted, h) ==
  CASE h.kind = "namespace" ->
         TextList(<<Word("namespace"), Atom(h.name)>> \o Each(LAMBDA s : HelperText(hinted, s), h.helpers))
    [] h.kind = "import" -> Pair(Word("import"), ImportText(h))
    [] OTHER -> TextList(<<Word(Keywords_[h.kind]), Atom(h.name)>>
                           \o (IF h.kind = "constant" THEN <<>> ELSE <<h.args>>) \o <<to_sexp(hinted, h.body)>>)

ProgramText(hinted, p) ==
  Pair(p.args, TextList(Each(LAMBDA h : HelperText(hinted, h), p.helpers) \o <<to_sexp(hinted, p.exp)>>))

(***************************************************************************)
(* Reading.                                                                *)
(***************************************************************************)
RECURSIVE compile_bodyform(_), qq_to_expression(_), qq_to_expression_list(_), make_captures(_)

\* Fault: &rest takes whatever comes first behind it.
args_to_expression_list_First(items) ==
  LET rest == {k \in DOMAIN items : IsWord(items[k], "&rest")}
      args == Each(compile_bodyform, SelectSeq(items, LAMBDA t : ~IsWord(t, "&rest")))
  IN IF Malformed \in Range(args) THEN Malformed
     ELSE IF rest = {} \/ Len(args) = 0 THEN <<args, NoTail>>
     ELSE <<Front(args), args[1]>>

\* The arguments of a call: &rest has one item behind it and comes once.
args_to_expression_list(items) ==
  LET rest == {k \in DOMAIN items : IsWord(items[k], "&rest")}
      args == Each(compile_bodyform, SelectSeq(items, LAMBDA t : ~IsWord(t, "&rest")))
  IN IF Malformed \in Range(args) \/ (rest # {} /\ rest # {Len(items) - 1}) THEN Malformed
     ELSE IF rest = {} THEN <<args, NoTail>>
     ELSE <<Front(args), Last(args)>>

application(head, items) ==
  With(args_to_expression_list(items),
       LAMBDA a : IF a = Malformed THEN Malformed ELSE Call(<<Value(head)>> \o a[1], a[2]))

\* R(bindings and body), if all of them could be read.
Bound(patterns, bodies, body, R(_, _)) ==
  IF Malformed \in Range(bodies) \cup {body} THEN Malformed
  ELSE R([k \in DOMAIN patterns |-> [pattern |-> patterns[k], body |-> bodies[k]]], body)

make_let_bindings(kind, list, body) ==
  LET items == ListItems(list)
      IsBinding(b) == Proper(b) /\ Len(ListItems(b)) = 2 /\ IsAtom(First(b))
  IN IF ListEnd(list) # Nil \/ \E b \in Range(items) : ~IsBinding(b) THEN Malformed
     ELSE Bound(Each(First, items), Each(LAMBDA b : compile_bodyform(First(Rest(b))), items), compile_bodyform(body),
                LAMBDA bindings, e : Let(kind, "none", bindings, e))

\* Patterns and expressions by turns, and the body.
handle_assign_form(hint, items) ==
  LET n == Len(items) \div 2
      patterns == [k \in 1..n |-> items[2 * k - 1]]
  IN IF Len(items) % 2 = 0 \/ \E i, j \in 1..n : i # j /\ NamesIn(patterns[i]) \cap NamesIn(patterns[j]) # {}
     THEN Malformed
     ELSE Bound(patterns, [k \in 1..n |-> compile_bodyform(items[2 * k])], compile_bodyform(Last(items)),
                LAMBDA bindings, e : IF bindings = <<>> THEN e ELSE Let("assign", hint, bindings, e))

\* The expression for what a lambda captures under the names of t.
make_captures(t) ==
  CASE IsCons(t) -> make_cons(make_captures(First(t)), make_captures(Rest(t)))
    [] ~IsCons(t) /\ ~truthy(t) -> Quoted(Nil)
    [] OTHER -> Value(t)

\* Arguments of a lambda that start with (& captured ...).
find_captures(t) == IsCons(t) /\ IsCons(First(t)) /\ IsWord(First(First(t)), "&")

handle_lambda(items) ==
  LET captured == IF find_captures(items[1]) THEN Rest(First(items[1])) ELSE Nil
      args == IF find_captures(items[1]) THEN Rest(items[1]) ELSE items[1]
  IN IF Len(items) < 2 THEN Malformed
     ELSE With(compile_bodyform(items[2]),
               LAMBDA e : IF e = Malformed THEN Malformed ELSE Lambda(args, captured, make_captures(captured), e))

qq_to_expression_list(t) ==
  IF ~IsCons(t) THEN IF t = Nil THEN Quoted(Nil) ELSE Malformed
  ELSE With(<<qq_to_expression(First(t)), qq_to_expression_list(Rest(t))>>,
            LAMBDA both : IF Malformed \in Range(both) THEN Malformed ELSE CallOf("c", both))

\* A quoted form, but for what is unquoted in it.
qq_to_expression(t) ==
  LET op == atomize(First(t))
      item == ListItems(Rest(t))
      Marked(word) == IsWord(op, word) /\ Proper(Rest(t))
  IN CASE ~IsCons(t) -> Quoted(t)
       [] IsCons(t) /\ op \in {Word("q"), Word("1")} -> Quoted(t)
       [] IsCons(t) /\ Marked("quote") -> IF Len(item) # 1 THEN Malformed ELSE Quoted(item[1])
       [] IsCons(t) /\ Marked("unquote") -> IF Len(item) # 1 THEN Malformed ELSE compile_bodyform(item[1])
       [] OTHER -> qq_to_expression_list(t)

LetKinds == [let |-> "parallel"] @@ ("let*" :> "sequential")
AssignHints == [assign |-> "any"] @@ ("assign-lambda" :> "non-inline") @@ ("assign-inline" :> "inline")

\* A form whose word and items are known.
SpecialForm(word, items) ==
  CASE word \in DOMAIN LetKinds ->
         IF Len(items) # 2 THEN Malformed ELSE make_let_bindings(LetKinds[word], items[1], items[2])
    [] word \in DOMAIN AssignHints -> handle_assign_form(AssignHints[word], items)
    [] word = "quote"  -> IF Len(items) # 1 THEN Malformed ELSE Quoted(items[1])
    [] word = "qq"     -> IF Len(items) # 1 THEN Malformed ELSE qq_to_expression(items[1])
    [] word = "lambda" -> IF items = <<>> THEN Malformed ELSE handle_lambda(items)
SpecialWords == DOMAIN LetKinds \cup DOMAIN AssignHints \cup {"quote", "qq", "lambda"}

FormOf(head, tail) ==
  CASE head \in {Word("q"), Word("1")} -> Quoted(tail)
    [] head \notin {Word("q"), Word("1")} /\ ~Proper(tail) -> Malformed
    [] OTHER -> IF \E w \in SpecialWords : IsWord(head, w) THEN SpecialForm(NameOf(head)[1], ListItems(tail))
                ELSE application(head, ListItems(tail))

compile_bodyform(t) ==
  IF ~IsCons(t) THEN Value(t)
  ELSE IF IsCons(First(t)) THEN Malformed
  ELSE IF First(t) = Nil THEN Quoted(t) ELSE FormOf(atomize(First(t)), Rest(t))

\* A definition: its word, its name, its arguments and its body; of a short
\* one the rest is nil.
Definition(kind, items) ==
  LET whole == Len(items) >= 3 /\ ~IsCons(items[2]) /\ items[2] # Nil
      name == IF whole THEN NameOf(atomize(items[2])) ELSE Name("")
      args == IF whole THEN items[3] ELSE Nil
      body == IF whole /\ Len(items) > 3 THEN items[4] ELSE Nil
  IN IF kind = "constant" THEN Helper("constant", name, Nil, Value(args))
     ELSE With(compile_bodyform(body),
               LAMBDA e : IF e = Malformed THEN NoHelper ELSE Helper(kind, name, args, e))

\* A name an import lists; only one it exposes has an alias.
ReadListed(t) ==
  LET items == ListItems(t)
  IN IF IsAtom(t) THEN ListedName(NameOf(t)[1], NoName)
     ELSE IF ~Proper(t) \/ Len(items) \notin {1, 3} \/ ~IsAtom(items[1]) THEN NoHelper
     ELSE IF Len(items) = 1 THEN ListedName(NameOf(items[1])[1], NoName)
     ELSE IF ~IsWord(items[2], "as") \/ ~IsAtom(items[3]) THEN NoHelper
     ELSE ListedName(NameOf(items[1])[1], NameOf(items[3])[1])

QualifiedImport(items) ==
  IF Len(items) \notin {3, 5} \/ ~IsAtom(items[3]) THEN NoHelper
  ELSE IF Len(items) = 3 THEN Import(NameOf(items[3])[1], Qualified(<<>>))
  ELSE IF ~IsWord(items[4], "as") \/ ~IsAtom(items[5]) THEN NoHelper
  ELSE Import(NameOf(items[3])[1], Qualified(parse(NameOf(items[5])[1])))

compile_nsref(items) ==
  LET words == Each(ReadListed, SubSeq(items, 4, Len(items)))
      exposing == Len(items) > 2 /\ IsWord(items[3], "exposing")
      hiding == Len(items) > 2 /\ IsWord(items[3], "hiding") /\ \A i \in 4..Len(items) : IsAtom(items[i])
  IN IF Len(items) < 2 THEN NoHelper
     ELSE IF ~IsAtom(items[2]) THEN NoHelper
     ELSE IF IsWord(items[2], "qualified") THEN QualifiedImport(items)
     ELSE IF Len(items) = 2 THEN Import(NameOf(items[2])[1], Hiding(<<>>))
     ELSE IF ~(exposing \/ hiding) \/ NoHelper \in Range(words) THEN NoHelper
     ELSE Import(NameOf(items[2])[1], IF exposing THEN Exposing(words) ELSE Hiding(words))

RECURSIVE compile_helperform(_)
compile_namespace(items) ==
  IF Len(items) < 2 THEN NoHelper
  ELSE IF ~IsAtom(items[2]) THEN NoHelper
  ELSE With(Each(compile_helperform, SubSeq(items, 3, Len(items))),
            LAMBDA hs : IF NoHelper \in Range(hs) THEN NoHelper ELSE Namespace(NameOf(items[2])[1], hs))

compile_helperform(t) ==
  LET items == ListItems(t)
      kinds == {kind \in DOMAIN Keywords_ : IsWord(items[1], Keywords_[kind])}
  IN IF ~Proper(t) \/ items = <<>> THEN NoHelper
     ELSE IF kinds # {} THEN Definition(CHOOSE kind \in kinds : TRUE, items)
     ELSE IF IsWord(items[1], "namespace") THEN compile_namespace(items)
     ELSE IF IsWord(items[1], "import") THEN compile_nsref(items)
     ELSE NoHelper

\* The whole of a program's text: its arguments, and forms of which the last
\* is its expression.
ProgramForms(text) == ListItems(Rest(text))
ReadHelpers(text) == Each(compile_helperform, Front(ProgramForms(text)))
ReadExp(text) == compile_bodyform(Last(ProgramForms(text)))
compile_mod(text) == Program(First(text), ReadHelpers(text), ReadExp(text))

(***************************************************************************)
(* A program but for the hints of its assign forms, which are not written. *)
(***************************************************************************)
RECURSIVE Unhinted(_)
Unhinted(e) ==
  CASE IsCall(e) -> Call(Each(Unhinted, e[2]), IF e[3] = NoTail THEN NoTail ELSE Unhinted(e[3]))
    [] IsLet(e) -> Let(Kind(e), IF Kind(e) = "assign" THEN "any" ELSE Hint(e),
                       WithBodies(Bindings(e), LAMBDA b, k : Unhinted(b)), Unhinted(LetBody(e)))
    [] IsLambda(e) -> Lambda(ArgsOf(e), CaptureArgs(e), Unhinted(Captures(e)), Unhinted(LambdaBody(e)))
    [] OTHER -> e

RECURSIVE UnhintedHelper(_)
UnhintedHelper(h) ==
  IF h.kind = "namespace" THEN [h EXCEPT !.helpers = Each(UnhintedHelper, @)]
  ELSE [h EXCEPT !.body = Unhinted(@)]

WithoutHints(p) == Program(p.args, Each(UnhintedHelper, p.helpers), Unhinted(p.exp))

\* A program as it is read again from its text: "a form that can be re-parsed
\* if needed" (comptypes.rs to_sexp).
ReadsAgain(p) == compile_mod(ProgramText(FALSE, p)) = WithoutHints(p)
=============================================================================
