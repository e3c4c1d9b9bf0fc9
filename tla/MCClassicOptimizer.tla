------------------------- MODULE MCClassicOptimizer -------------------------
(***************************************************************************)
(* Instances of the optimizer of code: operations on paths and quoted      *)
(* values, one in the other, and quoted code applied to arguments.         *)
(***************************************************************************)
EXTENDS ClassicOptimizer

NoPrimMap == <<>>
NoExtension(name, args) == Fail
NoOverrides(prog, args) == NoOverride
Sum_(args) == FoldLeft(LAMBDA s, v : s + atom_value(v), 0, args)

\* The operators code uses besides the machine's own: l (7) and + (16).
ListpAndPlus(op, args) ==
  CASE op = 7 /\ Len(args) = 1 -> IF IsCons(args[1]) THEN Int_(1) ELSE Nil
    [] op = 16 /\ \A i \in DOMAIN args : args[i] # Fail /\ ~IsCons(args[i]) -> Int_(Sum_(args))
    [] OTHER -> Fail

CodeOf(word, operands) == enlist(<<Keyword(word)>> \o operands)
Quoted_(v) == Pair(Quote, v)
Plus(a, b) == enlist(<<Int_(16), a, b>>)
If_(a, b, c) == enlist(<<Int_(3), a, b, c>>)
Apply_(code, args) == CodeOf("a", <<code, args>>)

Values_ == {Nil, Int_(7), Pair(Int_(2), Pair(Int_(3), Nil))}
Leaves == {Int_(n) : n \in {1, 5}} \cup {Quoted_(v) : v \in Values_}
Conses == {CodeOf("c", <<a, b>>) : a \in Leaves, b \in Leaves}
Simple_ ==
  Conses \cup UNION {{CodeOf(word, <<a>>) : a \in Leaves \cup Conses \cup {Int_(64), Int_(200)}} : word \in {"f", "r"}}
    \cup {Plus(a, Int_(2)) : a \in Leaves}
    \cup {If_(a, Int_(2), CodeOf("x", <<Int_(1)>>)) : a \in Leaves}
SomeArguments == {Int_(2), CodeOf("c", <<Quoted_(Int_(9)), Int_(1)>>)}
ArgumentsOf ==
  SomeArguments
    \cup {Int_(1), Quoted_(Pair(Int_(2), Int_(3))), CodeOf("c", <<Int_(2), Int_(3)>>), CodeOf("r", <<Int_(1)>>)}

Applied == {Apply_(Quoted_(e), args) : e \in Simple_ \cup Leaves, args \in ArgumentsOf}
Branches ==
  {Apply_(If_(a, Quoted_(b), Quoted_(CodeOf("x", <<Int_(1)>>))), args) :
     a \in {Int_(1), Quoted_(Nil)}, b \in Simple_, args \in {Int_(1), Int_(2)}}
Outer ==
  UNION {{CodeOf("c", <<e, Int_(2)>>), CodeOf("f", <<e>>), Plus(Int_(5), e)} : 
            e \in Simple_ \cup {Apply_(Quoted_(s), args) : s \in Conses, args \in SomeArguments}}
    \cup {Apply_(Quoted_(CodeOf("c", <<e, Int_(2)>>)), args) :
            e \in Simple_, args \in {Int_(2), CodeOf("c", <<Int_(2), Int_(3)>>), CodeOf("c", <<CodeOf("f", <<Int_(1)>>), Int_(1)>>)}}
    \cup {Apply_(Quoted_(e), args) : e \in {Apply_(Quoted_(s), args) : s \in Conses, args \in SomeArguments}, args \in ArgumentsOf}

MCCodes == Leaves \cup Simple_ \cup Applied \cup Branches \cup Outer

List_(items) == ListOf(items, Nil)
MCEnvs ==
  {List_(<<Pair(Int_(3), Int_(4)), Pair(Int_(5), Nil), Int_(6)>>),
   Pair(List_(<<Int_(1), Int_(2), Int_(3)>>), Int_(9))}

\* A list that begins with nothing.
NilOperand == {Apply_(Quoted_(CodeOf("c", <<Nil, Int_(1)>>)), Int_(2))}
=============================================================================
