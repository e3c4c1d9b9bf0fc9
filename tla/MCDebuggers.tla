---------------------------- MODULE MCDebuggers ----------------------------
(***************************************************************************)
(* Instances of the two debuggers and of the service thread, in one graph: *)
(* one of them runs and the others stay at their beginning.                *)
(*                                                                         *)
(* The flat one gets programs that call functions the symbol table names,  *)
(* some of them overridden, hash values computed before and ask for        *)
(* prints; the hierarchical one functions called in each other's arguments *)
(* and bodies, with too few and too many arguments, failing at the top and *)
(* inside.                                                                 *)
(*                                                                         *)
(* The service thread has runs of up to three steps, every set of steps    *)
(* that call an override or give a row, and undecodable programs.          *)
(***************************************************************************)
EXTENDS MCPrograms, Cldb, CldbHierarchy, CldbService

VARIABLE debugger    \* "cldb", "hierarchy" or "service"

varsOfAll == <<debugger, cldbVars, hierarchyVars, vars>>

\* sha256tree does not see how an atom is written.
RECURSIVE TreeHashOf(_)
TreeHashOf(v) ==
  IF IsCons(v) THEN <<TreeHashOf(First(v)), TreeHashOf(Rest(v))>>
  ELSE IF nilp(v) THEN <<0>> ELSE <<v[2]>>

CallOn(f, args) == Form(2, <<Quote(f)>> \o args)
Add == Form(16, <<Int_(2), Int_(5)>>)

(***************************************************************************)
(* For the flat debugger: add is overridden, first is not, and the         *)
(* override of bad raises.                                                 *)
(***************************************************************************)
Fst == Form(5, <<Int_(1)>>)
Raising == Form(16, <<Int_(1), Quote(Int_(1))>>)
NamedFunctions ==
  (TreeHashOf(Add) :> "add") @@ (TreeHashOf(Fst) :> "first") @@ (TreeHashOf(Raising) :> "bad")
FlatOverrides == {"add", "bad"}
CallOf(name, args) == IF name = "add" THEN Int_(77) ELSE Fail

\* What the overrides mean, said without hashes: the functions by their text.
SpelledAdd == Form(16, <<Bytes(2, FALSE), Int_(5)>>)
MockOverride(prog, args) ==
  CASE prog \in {Add, SpelledAdd} -> Int_(77)
    [] prog = Raising                 -> Fail
    [] OTHER                      -> NoOverride

Word == 600
PrintOf(v) == Form(34, <<Quote(Int_(Word)), v>>)
Args == {Int_(2), Quote(Int_(4)), Form(16, <<Int_(2), Quote(Int_(1))>>)}
FlatCalls == {CallOn(f, <<a>>) : f \in {Add, Fst, Raising, SpelledAdd}, a \in Args}
             \cup {CallOn(f, <<>>) : f \in {Add, Fst}}
Hashes == Forms({11}, {<<a, b>> : a \in Args \cup FlatCalls, b \in Args})
Prints == {PrintOf(a) : a \in Args}
FlatOuter ==
  Forms({4, 11, 16}, {<<a, b>> : a \in FlatCalls \cup Hashes \cup Prints,
                                 b \in {Int_(2), PrintOf(Int_(2)), Form(11, <<Int_(2), Quote(Int_(4))>>)}})

FlatPrograms ==
  ((Args \cup FlatCalls \cup Hashes \cup Prints \cup FlatOuter) \X {Env})
    \cup ({Call(WalkTail), Call(WalkSum)} \X {Listing(2)})

(***************************************************************************)
(* For the hierarchical debugger: Via applies another function, Deep two,  *)
(* and Again is applied by itself.                                         *)
(***************************************************************************)
FstOfFst == Form(5, <<Int_(2)>>)
Raise == Form(8, <<Int_(1)>>)
Via == Form(16, <<CallOn(Add, <<Int_(1)>>), Quote(Int_(1))>>)
Deep == Form(4, <<CallOn(Via, <<Int_(1)>>), CallOn(Add, <<Int_(1)>>)>>)
AnyFunction == [h \in {TreeHashOf(f) : f \in {Add, FstOfFst, Raise, Via, Deep, Again, WalkTail}} |-> "f"]

Two(a, b) == ListOf(<<a, b>>, Nil)
Arguments == {<<Int_(1)>>, <<Quote(Two(Int_(3), Int_(4)))>>, <<>>, <<Int_(1), Nil>>,
              <<Form(4, <<CallOn(Add, <<Int_(1)>>), Quote(Pair(Int_(2), Nil))>>)>>}
Calls == {CallOn(f, a) : f \in {Add, FstOfFst, Raise, Via, Deep}, a \in Arguments}
Outer == Forms({4}, Calls \X Calls) \cup Forms({16}, Calls \X {Int_(2)})

LeveledPrograms ==
  ((Calls \cup Outer) \X {Two(Int_(7), Int_(8))})
    \cup ({Call(WalkTail), Call(WalkSum)} \X {Listing(n) : n \in 0..2})

\* What both debuggers know: the functions that may be overridden by their names.
Symbols == NamedFunctions @@ AnyFunction

\* Steps call overrides only when there are overrides to clone.
ServiceRuns ==
  {r \in UNION {[length : {n}, calls : SUBSET (1..n), shows : {s \cup {n} : s \in SUBSET (1..(n - 1))},
                  clones : BOOLEAN, valid : BOOLEAN] : n \in 1..3} :
     (r.calls # {} => r.clones) /\ (~r.valid => r.calls = {} /\ ~r.clones)}

(***************************************************************************)
(* The debuggers side by side.                                             *)
(***************************************************************************)
Unused == <<Nil, Nil>>

InitOfAll ==
  \/ debugger = "cldb" /\ CldbInit /\ HierarchyStart(Unused) /\ Init /\ run = CHOOSE r \in Runs : TRUE
  \/ debugger = "hierarchy" /\ HierarchyInit /\ CldbStart(Unused, FALSE) /\ Init /\ run = CHOOSE r \in Runs : TRUE
  \/ debugger = "service" /\ Init /\ HierarchyStart(Unused) /\ CldbStart(Unused, FALSE)

NextOfAll ==
  /\ \/ debugger = "cldb" /\ CldbNext /\ UNCHANGED <<hierarchyVars, vars>>
     \/ debugger = "hierarchy" /\ HierarchyNext /\ UNCHANGED <<cldbVars, vars>>
     \/ debugger = "service" /\ Next /\ UNCHANGED <<cldbVars, hierarchyVars>>
  /\ UNCHANGED debugger

SpecOfAll == InitOfAll /\ [][NextOfAll]_varsOfAll /\ Fairness

(***************************************************************************)
(* Properties                                                              *)
(***************************************************************************)

\* The types of the debuggers' states.
TypesOK == TypeOK /\ CldbTypeOK /\ HierarchyTypeOK

\* Debugging a program, printing or not, comes to what running it comes to
\* when every overridden function is what the consumer says it is (cldb.rs
\* CldbRun).
Mocked == INSTANCE ClvmSemantics WITH MockOf <- MockOverride

FlatRun == INSTANCE Evaluation WITH
  Value      <- LAMBDA i : Mocked!Eval(i.prog, i.env, Fuel),
  MayTimeOut <- LAMBDA i : FALSE,
  NoValue    <- Fail,
  Unknown    <- Endless,
  outcome    <- IF ~cldbrun.ended THEN <<"pending">>
                ELSE IF cldbrun.final_result = NoResult THEN <<"error">>
                ELSE cldbrun.final_result

DebugsFaithfully == FlatRun!Spec

\* The rows an entry stands for, and the rows of a level, as they are read.
RECURSIVE RowsOf(_)
RowsOf(entries) ==
  LET rowsOf(e) == IF e[1] = "row" THEN <<e[2]>> ELSE RowsOf(e[2])
  IN FoldLeft(LAMBDA read, e : read \o rowsOf(e), <<>>, entries)

RowsFromTo(entries, m, n) == RowsOf(entries) = [i \in 1..(n - m) |-> m + i]

\* Seen from outside the stack of runs is one run: a program with a value is
\* debugged to that value (cldb_hierarchy.rs HierarchialRunner::step).  (A
\* program that fails may come to a value here: applications are recognised
\* before their arguments are counted.)
LevelsRun == INSTANCE Evaluation WITH
  Value      <- LAMBDA i : With(Eval(i.prog, i.env, Fuel), LAMBDA v : IF v = Fail THEN Endless ELSE v),
  MayTimeOut <- LAMBDA i : FALSE,
  NoValue    <- Fail,
  Unknown    <- Endless,
  input      <- program,
  outcome    <- IF ~is_ended THEN <<"pending">>
                ELSE IF error THEN <<"error">>
                ELSE running[1].run.final_result

RunsLikeTheProgram == LevelsRun!Spec
=============================================================================
