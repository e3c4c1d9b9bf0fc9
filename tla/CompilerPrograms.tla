-------------------------- MODULE CompilerPrograms --------------------------
(***************************************************************************)
(* Small programs for the compiler.  Most names are A or B, so that forms  *)
(* bind what is bound around them.                                         *)
(***************************************************************************)
EXTENDS Renaming, Frontend

V(word) == Variable(Name(word))
N(n) == Value(Int_(n))
T(word) == Atom(Name(word))
A == V("A")
B == V("B")
C == V("C")
D == V("D")

Add(a, b) == CallOf("+", <<a, b>>)
ConsOf(a, b) == CallOf("c", <<a, b>>)
If(a, b, c) == CallOf("a", <<CallOf("i", <<a, CallOf("com", <<b>>), CallOf("com", <<c>>)>>), V("@")>>)
Items(exps) == FoldRight(ConsOf, exps, Quoted(Nil))
Args(words) == ListOf(Each(T, words), Nil)
Binding(pattern, body) == [pattern |-> pattern, body |-> body]
LambdaOf(captured, args, body) == Lambda(Args(args), Args(captured), make_captures(Args(captured)), body)
LetOf(bindings, body) == Let("parallel", "none", bindings, body)

Function(word, args, body) == Helper("function", Name(word), args, body)
Inline(word, args, body) == Helper("inline", Name(word), args, body)
Constant(word, n) == Helper("constant", Name(word), Nil, N(n))
Kinds == {"function", "inline"}

(***************************************************************************)
(* Expressions over A and B.                                               *)
(***************************************************************************)
Lets(body) ==
  {LetOf(<<Binding(T("A"), B), Binding(T("B"), A)>>, body),
   Let("sequential", "none", <<Binding(T("A"), Add(A, B)), Binding(T("B"), A)>>, body),
   LetOf(<<Binding(T("A"), LetOf(<<Binding(T("B"), A)>>, Add(A, B)))>>, body),
   LetOf(<<Binding(T("A"), N(6))>>, LetOf(<<Binding(T("B"), A)>>, body))}

Assigns(body) ==
  {Let("assign", hint, <<Binding(T("D"), Add(V("E"), A)), Binding(Pair(T("E"), T("G")), ConsOf(B, A))>>,
       ConsOf(D, ConsOf(V("G"), body))) : hint \in {"inline", "non-inline", "any"}}
    \cup {Let("assign", "any", <<Binding(T("D"), V("G")), Binding(T("E"), A), Binding(T("G"), Add(V("E"), B))>>,
              ConsOf(V("E"), ConsOf(D, body)))}

Lambdas(body) ==
  {CallOf("a", <<LambdaOf(<<"A">>, <<"B">>, body), Items(<<Add(A, B)>>)>>),
   CallOf("a", <<LambdaOf(<<>>, <<"B", "A">>, body), Items(<<A, B>>)>>),
   CallOf("a", <<LambdaOf(<<"A">>, <<"B">>, CallOf("a", <<LambdaOf(<<"B">>, <<"A">>, body), Items(<<A>>)>>)),
                 Items(<<A>>)>>)}

\* Uses of a function of two arguments.  Only a function is a value, and is
\* given all its arguments after &rest.
Calls(kind, f) ==
  {CallOf(f, <<A, B>>), CallOf(f, <<CallOf(f, <<B, A>>), N(2)>>), Call(<<V(f), A>>, Items(<<B>>))}
    \cup (IF kind = "inline" THEN {}
          ELSE {Call(<<V(f)>>, Items(<<A, B>>)), CallOf("a", <<V(f), Items(<<B, A>>)>>)})

Around(body) == Lets(body) \cup Assigns(body) \cup Lambdas(body) \cup {If(A, body, N(5))}
Exps(kind, f) ==
  UNION {Around(e) : e \in {ConsOf(A, B)} \cup Calls(kind, f)}
    \cup Calls(kind, f) \cup {Add(e, N(1)) : e \in Calls(kind, f)}
LeafExps == {A, N(3), Add(A, B), ConsOf(B, A), LambdaOf(<<"A">>, <<>>, A)}
              \cup Around(ConsOf(A, B)) \cup Lets(If(B, A, N(7)))

(***************************************************************************)
(* Programs.                                                               *)
(***************************************************************************)
AB == Args(<<"A", "B">>)
TheCall == CallOf("F", <<B, Add(A, N(4))>>)

\* A function used in every way, and functions of every form.
OneFunction ==
  UNION {{Program(AB, <<Helper(kind, Name("F"), AB, body)>>, main) :
            body \in {Add(B, A), LetOf(<<Binding(T("A"), B)>>, Add(A, B))}, main \in Exps(kind, "F")}
           \cup {Program(AB, <<Helper(kind, Name("F"), AB, body)>>, main) :
                   body \in LeafExps, main \in Lambdas(TheCall) \cup Lets(TheCall) \cup {TheCall}} : kind \in Kinds}

\* A function that makes use of another, both beside a third.
TwoFunctions ==
  UNION {{Program(AB, <<Helper(j, Name("G"), AB, Add(B, A)), Function("H", AB, A), Helper(k, Name("F"), AB, body)>>,
                  ConsOf(TheCall, CallOf("H", <<B, A>>))) :
            k \in Kinds, body \in Exps(j, "G")} : j \in Kinds}

\* Arguments taken apart.
Shapes ==
  {Pair(T("A"), T("B")), Args(<<"D", "A", "B">>), Pair(T("A"), Args(<<"B", "D">>)),
   Pair(Pair(T("B"), T("D")), Pair(T("A"), Nil)), Pair(T("D"), Pair(T("A"), T("B")))}
Parts_ == {A, B, D, Add(A, B)}
ArgumentLists ==
  {Program(args, <<Helper(kind, Name("F"), shape, body)>>, main) :
     args \in {AB, Pair(T("B"), T("A"))}, kind \in Kinds, shape \in Shapes,
     body \in Parts_ \cup Lets(ConsOf(A, B)),
     main \in {CallOf("F", <<ConsOf(A, N(1)), N(2), N(3)>>), Call(<<V("F"), ConsOf(N(1), B), A>>, Items(<<N(8)>>))}}
Captures_ ==
  {Program(AB, <<Helper(kind, Name("F"), Pair(T("A"), Pair(Capturing(Name("B"), Pair(T("C"), T("D"))), Nil)), body)>>,
           CallOf("F", <<A, ConsOf(A, ConsOf(B, N(9)))>>)) :
     kind \in Kinds, body \in Parts_ \cup {C, ConsOf(B, ConsOf(C, D))}}
    \cup {Program(Capturing(Name("C"), AB), <<Function("F", Capturing(Name("D"), AB), body)>>, CallOf("F", <<B, C>>)) :
            body \in Parts_ \cup {LetOf(<<Binding(T("A"), B), Binding(T("B"), A)>>, ConsOf(A, D))}}

\* Recursion, over a list, alone and by turns.
Summing(g) == If(CallOf("l", <<A>>), Add(CallOf("f", <<A>>), CallOf(g, <<CallOf("r", <<A>>), B>>)), B)
Recursions ==
  {Program(AB, <<Function("F", AB, Summing(g)), Helper(kind, Name("G"), AB, ConsOf(A, CallOf("F", <<A, N(1)>>)))>>,
           main) :
     g \in {"F"}, kind \in Kinds,
     main \in UNION {{CallOf(f, <<Quoted(Args(<<>>)), B>>), CallOf(f, <<Items(<<A, B>>), N(3)>>)} : f \in {"F", "G"}}}
    \cup {Program(AB, <<Function("F", AB, Summing("G")), Function("G", AB, Summing("F"))>>,
                  CallOf("F", <<Items(<<A, B, A>>), N(3)>>))}

\* Constants, and helpers in every order.
Orders(h) == {[i \in DOMAIN h |-> h[((i + k) % Len(h)) + 1]] : k \in 0..(Len(h) - 1)}
Constants ==
  {Program(AB, helpers, ConsOf(TheCall, CallOf("G", <<V("K")>>))) :
     helpers \in Orders(<<Constant("K", 11), Function("F", AB, Add(V("K"), A)),
                          Inline("G", Args(<<"A">>), Add(V("K"), CallOf("H", <<A>>))),
                          Function("H", Args(<<"A">>), LetOf(<<Binding(T("B"), V("K"))>>, Add(A, B)))>>)}

\* Programs with a mistake in them, in a helper in use or in one that is not.
Mistakes ==
  {<<Helper(kind, Name("F"), AB, body)>> :
     kind \in Kinds, body \in {C, CallOf("nothing", <<A>>), CallOf("F", <<A, B>>), Add(V("F"), A), CallOf("F", <<B>>)}}
    \cup {<<Function("F", AB, body)>> :
            body \in {Let("assign", "any", <<Binding(T("C"), D), Binding(T("D"), C)>>, C),
                      CallOf("a", <<LambdaOf(<<>>, <<"B">>, A), Items(<<A>>)>>),
                      LetOf(<<Binding(T("C"), A), Binding(T("D"), C)>>, D)}}
    \cup {<<Helper(j, Name("F"), AB, A), Helper(k, Name("F"), AB, B)>> : j \in Kinds, k \in Kinds}
    \cup {<<Inline("F", AB, CallOf("G", <<A>>)), Helper(k, Name("G"), Args(<<"A">>), CallOf("F", <<A, A>>))>> : k \in Kinds}
    \cup {<<Constant("F", 1), Constant("F", 2)>>}
IllFormed_ == {Program(AB, helpers, main) : helpers \in Mistakes, main \in {TheCall, Add(A, B), V("F"), CallOf("F", <<A>>)}}

MCSources == {OneFunction, TwoFunctions, ArgumentLists, Captures_, Recursions, Constants, IllFormed_}

(***************************************************************************)
(* Programs with namespaces, each with the program without them that is    *)
(* meant, where every helper has its full name.  A word that is to mean    *)
(* nothing is one no helper has.                                           *)
(***************************************************************************)
Plain(word) == word
Full(space, word) == IF word = "nothing" THEN word ELSE as_u8_vec(Append(parse(space), word))
As(word, alias) == ListedName(word, alias)
Only(word) == ListedName(word, NoName)

Library(kind, Named(_)) ==
  <<Helper(kind, Name(Named("F")), AB, ConsOf(A, CallOf(Named("G"), <<B, A>>))), Function(Named("G"), AB, Add(A, A))>>
InSpace(kind, space) == Namespace(space, Library(kind, Plain))
InFull(kind, space) == Library(kind, LAMBDA word : Full(space, word))

\* Ways to import a namespace, what is written then, and which of its words
\* that is.
Ways(space) ==
  {<<Hiding(<<>>), "F", "F">>, <<Hiding(<<>>), Full(space, "F"), "nothing">>,
   <<Hiding(<<Only("G")>>), "F", "F">>, <<Hiding(<<Only("G"), Only("F")>>), "F", "nothing">>,
   <<Exposing(<<Only("F")>>), "F", "F">>, <<Exposing(<<Only("G")>>), "F", "nothing">>,
   <<Exposing(<<Only("G"), As("F", "H")>>), "H", "F">>, <<Exposing(<<As("F", "H")>>), "F", "nothing">>,
   <<Exposing(<<As("F", "G"), As("G", "F")>>), "F", "G">>,
   <<Qualified(<<>>), Full(space, "F"), "F">>, <<Qualified(<<>>), "F", "nothing">>,
   <<Qualified(<<"Z">>), "Z.F", "F">>, <<Qualified(<<"Z">>), Full(space, "F"), "nothing">>}

\* Uses of a function by what is written; some bind names the import gives.
Uses_(word) ==
  <<CallOf(word, <<A, B>>),
    LetOf(<<Binding(T("F"), A), Binding(T("H"), B)>>, CallOf(word, <<V("F"), V("H")>>)),
    Let("assign", "any", <<Binding(T("G"), D), Binding(T("D"), CallOf(word, <<B, A>>))>>, ConsOf(V("G"), A)),
    CallOf("a", <<LambdaOf(<<"A">>, <<"F">>, CallOf(word, <<V("F"), A>>)), Items(<<B>>)>>),
    CallOf("a", <<V(word), Items(<<B, A>>)>>)>>

Spaces == {"N", "A.B"}
Imported(kind, space) ==
  {<<Program(AB, IF first THEN <<Import(space, way[1]), Namespace("M", <<InSpace(kind, space)>>)>>
                 ELSE <<InSpace(kind, space), Import(space, way[1])>>, Uses_(way[2])[u]),
     Program(AB, InFull(kind, space), Uses_(Full(space, way[3]))[u])>> :
     first \in BOOLEAN, way \in Ways(space), u \in 1..(IF kind = "inline" THEN 4 ELSE 5)}

\* A namespace that imports another, with a word of its own or without.
ThroughM(kind, space) ==
  {<<Program(AB, <<InSpace(kind, space),
                   Namespace("M", <<Import(space, way[1]), Function("G", AB, CallOf(way[2], <<B, A>>))>> \o own),
                   Import("M", up[1])>>, CallOf(up[2], <<A, B>>)),
     Program(AB, InFull(kind, space) \o
                   <<Function("M.F", AB, Add(B, B)),
                     Function("M.G", AB, CallOf(IF own # <<>> /\ way[2] = "F" THEN "M.F" ELSE Full(space, way[3]), <<B, A>>))>>,
             CallOf("M.G", <<A, B>>))>> :
     way \in Ways(space), own \in {<<>>, <<Function("F", AB, Add(B, B))>>},
     up \in {<<Qualified(<<>>), "M.G">>, <<Exposing(<<As("G", "F")>>), "F">>}}

\* What an import gives is not given on; what is defined comes before what is
\* imported, and the first import before the next; and functions that call
\* each other.
OnlyOwn ==
  {<<Program(AB, <<InSpace("function", "N"), Namespace("M", <<Import("N", Hiding(<<>>))>>), Import("M", way[1])>>, CallOf(way[2], <<A, B>>)),
     Program(AB, <<>>, CallOf("nothing", <<A, B>>))>> : way \in Ways("M")}
InOrder ==
  {<<Program(AB, <<InSpace("function", "N"), Import("N", one), InSpace("inline", "A.B"), Import("A.B", two)>> \o own, CallOf("F", <<A, B>>)),
     Program(AB, InFull("function", "N") \o InFull("inline", "A.B") \o own,
             CallOf(IF own # <<>> THEN "F" ELSE IF one = Hiding(<<Only("F")>>) THEN "A.B.F" ELSE "N.F", <<A, B>>))>> :
     one \in {Hiding(<<>>), Exposing(<<Only("F")>>), Hiding(<<Only("F")>>)}, two \in {Hiding(<<>>), Exposing(<<Only("F")>>)},
     own \in {<<>>, <<Function("F", AB, Add(A, B))>>}}
InTurns ==
  {<<Program(AB, <<Namespace("N", <<Import("A.B", way[1]), Function("F", AB, Summing(way[2]))>>),
                   Namespace("A.B", <<Import("N", Qualified(<<"Z">>)), Function("F", AB, Summing("Z.F"))>>),
                   Import("N", Hiding(<<>>))>>, CallOf("F", <<Items(<<A, B, A>>), N(3)>>)),
     Program(AB, <<Function("N.F", AB, Summing("A.B.F")), Function("A.B.F", AB, Summing("N.F"))>>,
             CallOf("N.F", <<Items(<<A, B, A>>), N(3)>>))>> :
     way \in {<<Qualified(<<>>), "A.B.F">>, <<Exposing(<<As("F", "G")>>), "G">>}}

MCLinked ==
  {Imported(kind, space) : kind \in Kinds, space \in Spaces} \cup {ThroughM(kind, space) : kind \in Kinds, space \in Spaces}
    \cup {OnlyOwn, InOrder, InTurns}

(***************************************************************************)
(* What the evaluator is given.  In cl-22 it leaves a call of a function   *)
(* as it is, and a com as it was, also where it takes away what binds the  *)
(* names in them; it knows nothing of the main expression's arguments; and *)
(* a function as a value loses its lets (MCCompilerFlaws has the           *)
(* first).  Programs without these are left.                               *)
(***************************************************************************)
Binds(e) == IsLet(e) \/ IsLambda(e)
LeavesCalls(p, e) ==
  \E s \in All(e) : IsCall(s) /\ NameOf(s[2][1][2]) \in {Name("com")} \cup {h.name : h \in {h \in Range(p.helpers) : h.kind = "function"}}
Uses(e, name) == Variable(name) \in All(e)
Survives(p) ==
  /\ ~Uses(p.exp, Name("@"))
  /\ \A e \in {p.exp} \cup {h.body : h \in Range(p.helpers)} : \A s \in All(e) : Binds(s) => ~LeavesCalls(p, s)
  /\ \A h \in Range(p.helpers) :
       /\ h.kind = "inline" => ~LeavesCalls(p, h.body)
       /\ Uses(p.exp, h.name) => \A s \in All(h.body) : ~IsLet(s)

(***************************************************************************)
(* Texts that may be no program's: forms of every word over items that are *)
(* names, numbers, forms and lists of them, and definitions that are       *)
(* short, or none.                                                         *)
(***************************************************************************)
Few == {T("A"), Int_(3), Args(<<"F", "A">>), Pair(T("A"), T("B")), T("&rest"), ListOf(<<Args(<<"A", "B">>)>>, Nil)}
More_ == Few \cup {Args(<<"unquote", "A">>), ListOf(<<Args(<<"unquote", "B">>), Int_(3)>>, Nil), Pair(T("q"), T("A")),
                  ListOf(<<Args(<<"&", "B">>), T("A")>>, Nil), Nil, Pair(Nil, T("A"))}
Heads == {T(w) : w \in {"F", "q", "quote", "qq", "let", "let*", "assign", "assign-inline", "lambda"}}
           \cup {Int_(1), Int_(4), Args(<<"F">>)}
Tails_ == {Nil} \cup {Pair(x, Nil) : x \in More_}
Tails ==
  Tails_ \cup {T("A")} \cup {Pair(x, t) : x \in More_, t \in Tails_}
    \cup {Pair(x, Pair(y, Pair(z, Nil))) : x, y \in Few \ {Args(<<"F", "A">>)}, z \in Few}
Definitions ==
  {ListOf(<<T(w)>> \o rest, Nil) : w \in {"defun", "defun-inline", "defconstant", "definition"},
     rest \in {<<>>} \cup {<<x>> : x \in More_} \cup {<<x, y>> : x, y \in More_} \cup {<<T("F"), AB, z>> : z \in More_}
                \cup {<<T("F"), T("A"), T("B"), T("C")>>}}
Listed == {T("F"), T("as"), Int_(3), Args(<<"F">>), Args(<<"F", "as", "H">>), Args(<<"F", "to", "H">>), Args(<<"F", "H">>)}
Imports ==
  {ListOf(<<T("import")>> \o first \o rest, Nil) :
     first \in {<<T("N")>>, <<T("qualified")>>, <<T("qualified"), T("N")>>, <<Int_(3)>>, <<>>},
     rest \in {<<>>} \cup {<<T(w)>> \o items : w \in {"exposing", "hiding", "as", "N"},
                 items \in {<<>>} \cup {<<x>> : x \in Listed} \cup {<<x, y>> : x, y \in Listed}}}
Namespaces ==
  {ListOf(<<T("namespace")>> \o rest, Nil) :
     rest \in {<<>>, <<T("N")>>, <<Int_(3)>>, <<Nil, Nil>>, <<T("A.B"), T("A")>>}
                \cup {<<T("A.B"), d>> : d \in {ListOf(<<T("defun"), T("F"), AB, z>>, Nil) : z \in More_}}
                \cup {<<T("N"), ListOf(<<T("namespace"), T("M"), d>>, Nil), d>> :
                         d \in {ListOf(<<T("import"), T("N")>>, Nil), ListOf(<<T("import"), T("N"), T("N")>>, Nil)}}}
MCTexts ==
  {{ListOf(<<AB, Pair(head, tail)>>, Nil) : tail \in Tails} : head \in Heads}
    \cup {{ListOf(<<AB, d, T("A")>>, Nil) : d \in forms} : forms \in {Definitions, Imports, Namespaces, More_}}

(***************************************************************************)
(* Functions that compute e several times.  F of A and B is called with an *)
(* A that may be 0, and a B that is a pair only if A is not: e may fail    *)
(* where A is 0, in programs that do not compute it then.                  *)
(***************************************************************************)
Twofold(e) ==
  {ConsOf(e, e), ConsOf(e, If(A, e, N(5))), If(A, e, e), If(e, ConsOf(e, A), N(5)), If(A, If(B, e, A), ConsOf(e, e)),
   ConsOf(If(A, e, N(5)), If(A, e, N(5))), ConsOf(ConsOf(e, N(4)), ConsOf(N(4), ConsOf(e, N(4)))),
   If(CallOf("not", <<A>>), ConsOf(A, e), e)}
Scattered(e) ==
  {LetOf(<<Binding(T("C"), e)>>, ConsOf(C, e)), LetOf(<<Binding(T("B"), e)>>, If(A, ConsOf(B, e), e)),
   LetOf(<<Binding(T("C"), A), Binding(T("D"), e)>>, LetOf(<<Binding(T("A"), Add(C, A))>>, ConsOf(Add(C, A), ConsOf(D, A)))),
   Let("sequential", "none", <<Binding(T("C"), e), Binding(T("A"), ConsOf(C, e))>>, ConsOf(A, e)),
   Let("assign", "non-inline", <<Binding(T("C"), ConsOf(D, e)), Binding(T("D"), e)>>, ConsOf(C, e)),
   CallOf("a", <<LambdaOf(<<"A", "B">>, <<"D">>, ConsOf(ConsOf(e, D), e)), Items(<<e>>)>>),
   CallOf("a", <<LambdaOf(<<>>, <<"A", "B">>, If(A, ConsOf(e, e), e)), Items(<<e, B>>)>>)}
Guarded(bodies) == {If(A, body, N(5)) : body \in bodies} \cup {If(A, ConsOf(A, body), ConsOf(B, A)) : body \in bodies}

TwiceIn(kind, exps, Shapes_(_)) ==
  {Program(AB, <<Constant("K", 11), Function("G", AB, ConsOf(B, A)), Helper(kind, Name("F"), AB, body),
                 Function("H", AB, If(A, ConsOf(A, B), N(7)))>>,
           CallOf("F", <<A, CallOf("H", <<A, B>>)>>)) : body \in UNION {Shapes_(e) : e \in exps}}
Computing == {ConsOf(A, B), ConsOf(Add(A, N(1)), Add(A, N(1))), CallOf("G", <<A, CallOf("G", <<A, B>>)>>), Add(V("K"), N(1))}
Failing == {CallOf("f", <<B>>), Add(A, CallOf("r", <<B>>))}

\* What can be computed beforehand.
Known ==
  {Add(Add(N(1), N(2)), A), CallOf("f", <<ConsOf(N(1), N(2))>>), If(N(1), A, B), If(Quoted(Nil), A, B),
   CallOf("i", <<CallOf("not", <<A>>), N(1), B>>), CallOf("i", <<CallOf("not", <<CallOf("not", <<A>>)>>), A, Add(N(1), N(1))>>),
   CallOf("i", <<A, N(1), CallOf("i", <<N(0), A, ConsOf(N(2), Add(N(3), N(4)))>>)>>),
   If(CallOf("l", <<Quoted(Nil)>>), CallOf("f", <<N(1)>>), ConsOf(A, N(1))), CallOf("f", <<ConsOf(CallOf("f", <<ConsOf(A, B)>>), B)>>),
   CallOf("+", <<V("K"), CallOf("i", <<CallOf("not", <<N(0)>>), N(4), N(5)>>)>>), CallOf("r", <<CallOf("r", <<ConsOf(A, ConsOf(A, B))>>)>>)}
Foldable ==
  {Program(args, <<Constant("K", 11), Helper(kind, Name("F"), shape, body)>>, main) :
     args \in {Pair(T("B"), T("A"))}, kind \in Kinds, shape \in {AB, Pair(T("A"), Args(<<"B", "D">>))}, body \in Known,
     main \in {CallOf("F", <<A, B, N(3)>>), Add(N(1), CallOf("i", <<A, N(2), Add(N(2), N(3))>>))}}

MCShared ==
  UNION {{TwiceIn(kind, Computing, Twofold), TwiceIn(kind, Computing, Scattered),
          TwiceIn(kind, Failing, LAMBDA e : Guarded(Twofold(e))), TwiceIn(kind, Failing, LAMBDA e : Guarded(Scattered(e)))} : kind \in Kinds}
    \cup {Foldable, Captures_, Recursions, Constants, IllFormed_,
          {p \in OneFunction : p.helpers[1].kind = "inline" /\ IsLet(p.helpers[1].body) /\ Kind(p.helpers[1].body) = "assign"}}

MCShrunk == {OneFunction, TwoFunctions, ArgumentLists, Captures_, Recursions, Constants}
MCOptimized == {{p \in some : Survives(p)} : some \in {OneFunction, TwoFunctions, ArgumentLists, Captures_, Recursions}}
MCInputs == {ListOf(<<Int_(a), Int_(2)>>, Nil) : a \in {0, 1}}
=============================================================================
