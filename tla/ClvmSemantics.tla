---------------------------- MODULE ClvmSemantics ----------------------------
(***************************************************************************)
(* What a CLVM program means, as a value computed in one go by recursion   *)
(* on the program, and what a chain of the step machine still owes.  The   *)
(* step machine is right when no step changes that debt.                   *)
(*                                                                         *)
(* Fuel bounds the depth of the recursion: Endless stands for a program    *)
(* that needs more, and every value is taken to agree with it.             *)
(***************************************************************************)
EXTENDS ClvmMachine, FiniteSets

CONSTANTS
  Fuel,
  MockOf(_, _)    \* what stands in for a program applied to arguments, or NoOverride

Endless == <<"endless">>
Bad(v) == v \in {Fail, Endless}

\* The first bad value from the right: arguments are evaluated last to first.
FirstBad(vals) ==
  LET i == CHOOSE i \in DOMAIN vals :
             Bad(vals[i]) /\ \A j \in (i + 1)..Len(vals) : ~Bad(vals[j])
  IN vals[i]

RECURSIVE Eval(_, _, _)

\* The value of an operator on its arguments' values.
Operate(h, vals, end, fuel) ==
  LET op   == atom_value(h)
      ovr  == try_handle(h, vals, end)
      mock == IF h = Int_(2) /\ vals # <<>> THEN MockOf(vals[1], Tail(vals)) ELSE NoOverride
  IN IF \E i \in DOMAIN vals : Bad(vals[i]) THEN FirstBad(vals)
     ELSE IF mock # NoOverride THEN mock
     ELSE IF ovr # NoOverride THEN ovr
     ELSE IF ~nilp(end) \/ wanted_args(op) \notin {-1, Len(vals)} THEN Fail
     ELSE CASE op = 2 -> IF fuel = 0 THEN Endless ELSE Eval(vals[1], vals[2], fuel - 1)
            [] op = 3 -> IF truthy(vals[1]) THEN vals[2] ELSE vals[3]
            [] op = 4 -> Pair(vals[1], vals[2])
            [] op = 5 -> IF IsCons(vals[1]) THEN First(vals[1]) ELSE Fail
            [] op = 6 -> IF IsCons(vals[1]) THEN Rest(vals[1]) ELSE Fail
            [] OTHER  -> ClvmOp(op, vals)

EvalAll(forms, e, fuel) == [i \in DOMAIN forms |-> Eval(forms[i], e, fuel)]

\* The value of the operator h on the values of forms and then vals.
OperateOn(h, forms, e, vals, end, fuel) ==
  With(EvalAll(forms, e, fuel), LAMBDA first : Operate(h, first \o vals, end, fuel))

\* The value of the program s in environment e.
Eval(s, e, fuel) ==
  CASE IsNil(s)               -> Nil
    [] IsInt(s) \/ IsBytes(s) -> choose_path(s[2], e)
    [] IsCons(s)              ->
         With(translate_head(First(s)), LAMBDA h :
           IF h = Fail \/ IsCons(h) THEN Fail
           ELSE IF atom_value(h) = 1 THEN Rest(s)
           ELSE IF truthy(ListEnd(Rest(s))) THEN Fail
           ELSE OperateOn(h, ListItems(Rest(s)), e, <<>>, ListEnd(Rest(s)), fuel))

RECURSIVE Owed(_, _)

\* What the callers c make of the value v.
Owed(v, c) ==
  LET t == Top(c)
  IN IF Bad(v) THEN v
     ELSE CASE t.kind = "Done" -> v
            [] t.kind = "Op"   ->
                 With(OperateOn(t.head, t.rest, t.ctx, <<v>> \o t.args, t.end, Fuel),
                      LAMBDA w : Owed(w, Front(c)))
            [] OTHER           -> Owed(v, Front(c))

\* What the whole chain will come to.
Meaning(c) ==
  LET t == Top(c)
      v == CASE t.kind = "Done"     -> t.val
             [] t.kind = "OpResult" -> t.val
             [] t.kind = "Step"     -> Eval(t.sexp, t.ctx, Fuel)
             [] t.kind = "Op"       -> OperateOn(t.head, t.rest, t.ctx, t.args, t.end, Fuel)
             [] t.kind = "ReadyOp"  -> Operate(t.head, t.args, t.end, Fuel)
  IN IF t.kind = "Done" THEN v ELSE With(v, LAMBDA w : Owed(w, Front(c)))

\* Two values, or a value and one that is not known.
Agree(v, w) == With({v, w}, LAMBDA both : Endless \in both \/ Cardinality(both) = 1)
=============================================================================
