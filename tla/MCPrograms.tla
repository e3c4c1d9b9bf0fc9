----------------------------- MODULE MCPrograms -----------------------------
(***************************************************************************)
(* Programs for the instances of the step machine and the debuggers: every *)
(* small form over a few atoms and operators, right or wrong, and programs *)
(* that loop over a list.                                                  *)
(***************************************************************************)
EXTENDS ClvmSemantics, TLC

\* Names of one letter, as the byte they are, and an opcode of two bytes.
MCPrimMap == (97 :> Int_(2)) @@ (113 :> Int_(1)) @@ (120 :> Int_(8)) @@ (500 :> Bytes(500, FALSE))

\* Some operators of clvm_rs: l, =, + and some others, and x that always fails.
MCClvmOp(op, args) ==
  CASE op = 7 /\ Len(args) = 1 -> IF IsCons(args[1]) THEN Int_(1) ELSE Nil
    [] op = 9 /\ Len(args) = 2 /\ \A i \in 1..2 : ~IsCons(args[i]) ->
         IF atom_value(args[1]) = atom_value(args[2]) THEN Int_(1) ELSE Nil
    [] op = 16 /\ \A i \in DOMAIN args : args[i] # Fail /\ ~IsCons(args[i]) ->
         LET sum == FoldLeft(LAMBDA s, v : s + atom_value(v), 0, args)
         IN IF sum = 0 THEN Nil ELSE Int_(sum)
    \* sha256 of atoms and 34 (a print is a call of it): any value of their own
    [] op = 11 /\ \A i \in DOMAIN args : args[i] # Fail /\ ~IsCons(args[i]) -> Int_(1000 + Len(args))
    [] op = 34 -> Nil
    [] OTHER -> Fail

\* number?, the macro function of a two byte name.
MCExtFuns == {500}
MCExtEval(name, args) ==
  IF Len(args) = 1 THEN IF IsInt(args[1]) THEN Int_(1) ELSE Nil ELSE Fail

\* Programs stand for themselves.
NoMock(prog, args) == NoOverride

Quote(v) == Pair(Int_(1), v)
Form(op, args) == ListOf(<<Int_(op)>> \o args, Nil)

Env == ListOf(<<Int_(7), Pair(Int_(8), Nil)>>, Nil)

Atoms == {Nil, Int_(0), Int_(1), Int_(2), Int_(5), Int_(11), Bytes(2, FALSE), Bytes(0, TRUE)}
Quotes == {Quote(v) : v \in {Nil, Int_(4), Bytes(0, FALSE), Pair(Int_(3), Int_(4))}}
Leaves == Atoms \cup Quotes
Few == {Nil, Int_(1), Int_(5), Quote(Int_(4))}

Forms(ops, args) == {Form(op, a) : op \in ops, a \in args}

Nullary == Forms({2, 7, 16}, {<<>>})
Unary == Forms({5, 6, 7, 16}, {<<a>> : a \in Leaves})
Binary == Forms({2, 4, 9, 16, 97}, Leaves \X Leaves)
Ternary == Forms({3}, Few \X Few \X Few)

\* Heads that are not opcodes, list ends that are not nil.
Odd == {Pair(h, ListOf(<<Int_(2)>>, Nil)) : h \in
          { Nil, Bytes(113, FALSE), Bytes(16, FALSE), Bytes(500, FALSE), Int_(500), Int_(99),
            ListOf(<<Int_(16)>>, Nil), ListOf(<<Int_(1)>>, Nil), ListOf(<<Int_(2)>>, Nil),
            ListOf(<<ListOf(<<Int_(1)>>, Nil)>>, Nil), ListOf(<<Int_(16), Int_(2)>>, Nil) }}
       \cup {ListOf(<<Int_(16), Int_(2)>>, end) :
               end \in {Int_(0), Int_(3), Bytes(0, FALSE), Bytes(0, TRUE), Bytes(3, FALSE)}}

Small == Leaves \cup Nullary \cup Unary \cup Odd \cup Forms({2, 4, 16}, Few \X Few)
Nested == Forms({4, 16, 2}, {<<a, b>> : a \in Small, b \in {Int_(2), Quote(Int_(4))}})
          \cup Forms({4, 2}, {<<b, a>> : a \in Small, b \in {Int_(5), Quote(Int_(1))}})
          \cup Forms({3}, {<<a, b, c>> : a \in Unary, b \in {Int_(2)}, c \in Odd})

\* F, called with (F . list), goes down the list: last thing it does, or with
\* an addition still to make.
Again == Form(2, <<Int_(2), Form(4, <<Int_(2), Form(6, <<Int_(3)>>)>>)>>)
Walk(again) ==
  Form(2, <<Form(3, <<Int_(3), Quote(again), Quote(Quote(Int_(9)))>>), Int_(1)>>)
WalkTail == Walk(Again)
WalkSum == Walk(Form(16, <<Quote(Int_(1)), Again>>))
\* F called again on the whole list: never comes to an end.
WalkOn == Form(2, <<Int_(2), Int_(1)>>)
Call(f) == Form(2, <<Quote(f), Form(4, <<Quote(f), Int_(1)>>)>>)
Listing(n) == ListOf([i \in 1..n |-> Int_(i)], Nil)

SmallPrograms ==
  ((Small \cup Binary \cup Ternary \cup Nested) \X {Env, Nil})
    \cup ({Call(WalkTail), Call(WalkSum)} \X {Listing(n) : n \in 0..3})
=============================================================================
