----------------------------- MODULE ClvmMachine -----------------------------
(***************************************************************************)
(* The CLVM step machine of compiler/clvm.rs: RunStep, combine, run_step   *)
(* and start_step.                                                         *)
(*                                                                         *)
(* A RunStep points at the step its value is returned to, down to the Done *)
(* step start_step makes.  Here it is a chain: the sequence of steps with  *)
(* the outermost first and the current one last.  The empty chain is the   *)
(* Err result of run_step.                                                 *)
(***************************************************************************)
EXTENDS ClvmValues

CONSTANTS
  ClvmOp(_, _),      \* external: clvm_rs applying an operator to its arguments
  ExtFuns,           \* the names a PrimOverride answers for; {} for no override
  ExtEval(_, _)      \* ExtensionFunction::try_eval(name, arguments)

Failed == <<>>
NoOverride == <<"none">>

Done(v) == [kind |-> "Done", val |-> v]
OpResult(v) == [kind |-> "OpResult", val |-> v]
Step(s, e) == [kind |-> "Step", sexp |-> s, ctx |-> e]

\* RunStep::Op(.., Some(rest), ..): args are the values computed so far, in
\* order, in front of the list end the program wrote.
Op(h, e, args, end, rest) ==
  [kind |-> "Op", head |-> h, ctx |-> e, args |-> args, end |-> end, rest |-> rest]

\* RunStep::Op(.., None, ..): every argument has its value.
ReadyOp(h, e, args, end) ==
  [kind |-> "ReadyOp", head |-> h, ctx |-> e, args |-> args, end |-> end]

Top(c) == Last(c)
ParentOf(c) == Front(c)
ReplaceTop(c, f) == Append(Front(c), f)

Kinds == {"Done", "OpResult", "Step", "Op", "ReadyOp"}

\* The shape every chain has: the Done step of start_step at the bottom,
\* callers collecting arguments above it, then the current step; a result
\* may still have the step it came from under it.
WellFormed(c) ==
  /\ Len(c) > 0
  /\ c[1].kind = "Done"
  /\ \A i \in 1..Len(c) : c[i].kind \in Kinds /\ (c[i].kind = "Done" => i = 1)
  /\ \A i \in 1..Len(c) : c[i].kind = "OpResult" => i = Len(c)
  /\ \A i \in 1..Len(c) : c[i].kind \in {"Step", "ReadyOp"} => i >= Len(c) - 1
  /\ \A i \in 1..(Len(c) - 1) :
        c[i].kind \in {"Step", "ReadyOp"} => c[i + 1].kind = "OpResult"

start_step(prog, env) == <<Done(prog), Step(prog, env)>>

\* The step of c that takes a value: combine passes over Step and Op(None).
Receiver(c) ==
  CHOOSE i \in 1..Len(c) :
    /\ c[i].kind \notin {"Step", "ReadyOp"}
    /\ \A j \in (i + 1)..Len(c) : c[j].kind \in {"Step", "ReadyOp"}

\* Fault: the value goes behind the arguments that already have one.
combine_AppendsArgument(v, c) ==
  LET k == Receiver(c)
  IN IF c[k].kind = "Op"
     THEN Append(SubSeq(c, 1, k - 1), [c[k] EXCEPT !.args = Append(@, v)])
     ELSE <<Done(v)>>

\* Fault: a finished operator is taken for the one waiting for its value.
combine_SkipsWaitingCaller(v, c) ==
  LET k == Receiver(c)
  IN IF c[k].kind = "Op" /\ c[k].rest # <<>>
     THEN Append(SubSeq(c, 1, k - 1), [c[k] EXCEPT !.args = <<v>> \o @])
     ELSE <<Done(v)>>

\* combine(Done(v), c): an operator collecting arguments takes v in front of
\* those it has (they are evaluated last to first); Done ends the run.
combine(v, c) ==
  LET k == Receiver(c)
  IN IF c[k].kind = "Op"
     THEN Append(SubSeq(c, 1, k - 1), [c[k] EXCEPT !.args = <<v>> \o @])
     ELSE <<Done(v)>>

\* step_return_value: the top step's operation gives v.
step_return_value(c, v) ==
  IF Len(c) = 1 THEN <<Done(v)>> ELSE ReplaceTop(c, OpResult(v))

wanted_args(op) ==
  CASE op = 3 -> 3 [] op \in {2, 4} -> 2 [] op \in {5, 6} -> 1 [] OTHER -> -1

\* apply_op: the external VM sees each argument through its reference and
\* never a list that does not end.
apply_op(h, args) == ClvmOp(atom_value(h), ArgumentsSeen(args))

\* The value of the one element form (h): translate_head runs it with no
\* override and no limit.
NullaryValue(h) ==
  IF h = Fail \/ IsCons(h) THEN Fail
  ELSE IF atom_value(h) = 1 THEN Nil
  ELSE IF wanted_args(atom_value(h)) # -1 THEN Fail
  ELSE apply_op(h, <<>>)

Primitive(n) == IF n \in DOMAIN PrimMap THEN PrimMap[n] ELSE Int_(n)

\* translate_head: an atom that spells a primitive becomes its opcode, ((x))
\* is run, nil and any other list are refused.
translate_head(a) ==
  LET inner[i \in Nat] == IF i = 0 THEN a ELSE First(inner[i - 1])
      head[i \in Nat] ==
        LET s == inner[i]
        IN CASE IsNil(s)                          -> Fail
             [] IsInt(s) \/ IsBytes(s)            -> Primitive(s[2])
             [] IsCons(s) /\ IsNil(Rest(s))       -> NullaryValue(head[i + 1])
             [] IsCons(s) /\ ~IsNil(Rest(s))      -> Fail
  IN head[0]

\* eval_args: every argument form is still to evaluate.
eval_args(h, b, c) ==
  IF truthy(ListEnd(b))
  THEN Failed
  ELSE ReplaceTop(c, Op(h, Top(c).ctx, <<>>, ListEnd(b), ListItems(b)))

\* run_step on a Step.
step_expression(c) ==
  LET s == Top(c).sexp
      v == choose_path(s[2], Top(c).ctx)
      h == translate_head(First(s))
  IN CASE IsNil(s)   -> Append(c, OpResult(s))
       [] IsInt(s)   -> IF v = Fail THEN Failed ELSE Append(c, OpResult(v))
       [] IsBytes(s) -> ReplaceTop(c, Step(Int_(s[2]), Top(c).ctx))
       [] OTHER      -> \* a cons
                        IF h = Fail \/ IsCons(h) THEN Failed
                        ELSE IF atom_value(h) = 1 THEN combine(Rest(s), c)
                        ELSE eval_args(h, Rest(s), c)

\* run_step on Op(Some(rest)): pop the last form, or stop collecting.
next_argument(c) ==
  LET t == Top(c)
  IN IF t.rest = <<>>
     THEN ReplaceTop(c, ReadyOp(t.head, t.ctx, t.args, t.end))
     ELSE Append(ReplaceTop(c, [t EXCEPT !.rest = Front(@)]),
                 Step(Last(t.rest), t.ctx))

\* Fault: apply keeps its own step on the chain.
Apply_KeepsFrame(c, args) == Append(c, Step(args[1], args[2]))

\* (a prog env) becomes prog in env, returning where the apply would have.
Apply(c, args) == ReplaceTop(c, Step(args[1], args[2]))

\* The operators run_step knows, on as many arguments as they want.
run_primitive(c, op, args) ==
  CASE op = 2 -> Apply(c, args)
    [] op = 3 -> combine(IF truthy(args[1]) THEN args[2] ELSE args[3], c)
    [] op = 4 -> Append(c, OpResult(Pair(args[1], args[2])))
    [] op \in {5, 6} ->
         IF ~IsCons(args[1]) THEN Failed
         ELSE Append(c, OpResult(IF op = 5 THEN First(args[1]) ELSE Rest(args[1])))
    [] OTHER ->
         LET v == apply_op(Top(c).head, args)
         IN IF v = Fail THEN Failed ELSE Append(c, OpResult(v))

\* PreprocessorExtension::try_handle: the macro language's own functions, known
\* by name, on a proper argument list.
try_handle(h, args, end) ==
  IF IsBytes(h) /\ nilp(end) /\ h[2] \in ExtFuns THEN ExtEval(h[2], args) ELSE NoOverride

\* run_step on Op(None).  The override comes before the argument checks and
\* its value goes to the parent.
run_operator(c) ==
  LET t   == Top(c)
      ovr == try_handle(t.head, t.args, t.end)
      op  == atom_value(t.head)
  IN CASE ovr = Fail -> Failed
       [] ovr \notin {Fail, NoOverride} -> ReplaceTop(c, OpResult(ovr))
       [] OTHER ->
            IF \/ ~nilp(t.end)
               \/ wanted_args(op) \notin {-1, Len(t.args)}
            THEN Failed
            ELSE run_primitive(c, op, t.args)

run_step(c) ==
  CASE Top(c).kind = "OpResult" -> combine(Top(c).val, ParentOf(c))
    [] Top(c).kind = "Done"     -> c
    [] Top(c).kind = "Step"     -> step_expression(c)
    [] Top(c).kind = "Op"       -> next_argument(c)
    [] Top(c).kind = "ReadyOp"  -> run_operator(c)
=============================================================================
