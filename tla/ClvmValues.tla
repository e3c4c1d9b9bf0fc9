----------------------------- MODULE ClvmValues -----------------------------
(***************************************************************************)
(* The values CLVM computes with (SExp of compiler/sexp.rs) and the pure   *)
(* helpers of compiler/clvm.rs over them.                                  *)
(*                                                                         *)
(* An SExp is a tagged tuple.  The three ways the compiler has to write an *)
(* atom are kept apart because clvm.rs tells them apart:                   *)
(*   <<"nil">>             SExp::Nil                                       *)
(*   <<"int", n>>          SExp::Integer; n is the number after            *)
(*                         flatten_signed_int, a natural                   *)
(*   <<"bytes", n, e>>     SExp::Atom / SExp::QuotedString: n is           *)
(*                         number_from_u8 of the bytes, e says they are    *)
(*                         empty                                           *)
(*   <<"cons", a, b>>      SExp::Cons                                      *)
(* Source locations are left out.                                          *)
(***************************************************************************)
EXTENDS Integers, Sequences, SequencesExt

CONSTANTS
  NewStyle,       \* NewStyleIntConversion::setting()
  PrimMap         \* prim_map: the number a primitive's name spells |-> its head

\* F of v, with v computed once, and of each element of s.
With(v, F(_)) == CHOOSE r \in {F(w) : w \in {v}} : TRUE
Each(F(_), s) ==
  LET upto[n \in Nat] == IF n = 0 THEN <<>> ELSE Append(upto[n - 1], F(s[n]))
  IN upto[Len(s)]

Nil == <<"nil">>
Int_(n) == <<"int", n>>
Bytes(n, empty) == <<"bytes", n, empty>>
Pair(a, b) == <<"cons", a, b>>

\* The value of Result::Err; it is no SExp.
Fail == <<"fail">>

IsNil(v) == v[1] = "nil"
IsInt(v) == v[1] = "int"
IsBytes(v) == v[1] = "bytes"
IsCons(v) == v[1] = "cons"
First(v) == v[2]
Rest(v) == v[3]

\* atom_value, for a value that is no cons.
atom_value(v) == IF IsNil(v) THEN 0 ELSE v[2]

\* sexp.rs nilp: the nil the compiler recognises.
nilp(v) ==
  \/ IsNil(v)
  \/ IsInt(v) /\ v[2] = 0
  \/ IsBytes(v) /\ v[3]

\* Old style integers take every spelling of zero for false, new style
\* integers only the empty string and the number zero.
truthy(v) ==
  \/ IsCons(v)
  \/ IsBytes(v) /\ NewStyle /\ ~v[3]
  \/ ~(IsBytes(v) /\ NewStyle) /\ ~IsCons(v) /\ atom_value(v) # 0

\* The conses along the tail of v: the elements and what ends them.
Tail_(v, n) ==
  LET t[i \in Nat] == IF i = 0 THEN v ELSE Rest(t[i - 1]) IN t[n]

ListItems(v) ==
  LET from[i \in Nat] ==
        LET t == Tail_(v, i)
        IN IF IsCons(t) THEN <<First(t)>> \o from[i + 1] ELSE <<>>
  IN from[0]

ListEnd(v) == Tail_(v, Len(ListItems(v)))

ListOf(items, end) ==
  LET from[i \in Nat] == IF i > Len(items) THEN end ELSE Pair(items[i], from[i + 1])
  IN from[1]

\* The path number p read from its low bit up to, not including, its top bit.
PathBits(p) ==
  LET bits[n \in Nat] == IF n <= 1 THEN <<>> ELSE <<n % 2>> \o bits[n \div 2]
  IN bits[p]

\* choose_path walks left on an even number and right on an odd one, and
\* fails on an atom.  Zero never becomes one, so the walk to the left ends
\* at an atom: path 0 always fails.
choose_path(p, context) ==
  LET Walk(v, bit) ==
        IF ~IsCons(v) THEN Fail ELSE IF bit = 0 THEN First(v) ELSE Rest(v)
  IN IF p = 0 THEN Fail ELSE FoldLeft(Walk, context, PathBits(p))

\* Fault: the paths are followed in the other order.
compose_paths_Swapped(p, q) == LET n == Len(PathBits(q)) IN p * 2^n + (q % 2^n)

\* node_path.rs: the path that follows p and then q.
compose_paths(p, q) == LET n == Len(PathBits(p)) IN q * 2^n + (p % 2^n)

(***************************************************************************)
(* apply_op hands an operator to the external VM as (op 5 11 23 ...) with  *)
(* the environment (() . args): generate_argument_refs numbers the paths   *)
(* of the arguments.                                                       *)
(***************************************************************************)
\* Fault: the reference is not moved on to the next argument.
generate_argument_refs_Stays(start, n) == [i \in 1..n |-> start]

generate_argument_refs(start, n) ==
  LET ref[i \in 1..n] == IF i = 1 THEN start ELSE 1 + 2 * ref[i - 1]
  IN [i \in 1..n |-> ref[i]]

ArgumentsSeen(args) ==
  LET env  == Pair(Nil, ListOf(args, Nil))
      refs == generate_argument_refs(5, Len(args))
  IN [i \in DOMAIN args |-> choose_path(refs[i], env)]
=============================================================================
