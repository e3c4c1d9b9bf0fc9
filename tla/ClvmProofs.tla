----------------------------- MODULE ClvmProofs -----------------------------
(***************************************************************************)
(* For every program, environment, limit and set of operators: the chain   *)
(* of the step machine keeps its shape, and a run returns a value only     *)
(* when no operator is waiting for one.                                    *)
(***************************************************************************)
EXTENDS Clvm, StepProofs

\* The inductive invariant: the types, and that the chain is a sequence.
IInv == TypeOK /\ IsChain(step)

LEMMA InitShape == Init => IInv
<1> SUFFICES ASSUME Init PROVE IInv
  OBVIOUS
<1>1. input.limit \in Nat \cup {NoLimit}
  BY LimitAssumption DEF Init
<1>2. IsChain(step) /\ WellFormed(step)
  BY StartShape DEF Init
<1> QED
  BY <1>1, <1>2 DEF Init, IInv, TypeOK

\* One turn of the loop, whatever the kind of step.
LEMMA TurnShape ==
  ASSUME IInv, NEW kind \in Kinds \ {"Done"}, Turn(kind)
  PROVE  IInv' /\ (status' = "ok" => \A i \in 1..Len(step) : step[i].kind # "Op")
<1>1. input' = input /\ iters' \in Nat
  BY DEF Turn, IInv, TypeOK
<1>2. CASE run_step(step) = Failed
  BY <1>1, <1>2 DEF Turn, IInv, TypeOK
<1>3. CASE run_step(step) # Failed
  <2>1. step' = run_step(step)
    BY <1>3 DEF Turn
  <2>2. /\ IsChain(step') /\ WellFormed(step')
        /\ Top(step').kind = "Done" => \A i \in 1..Len(step) : step[i].kind # "Op"
    BY <1>3, <2>1, RunStepShape DEF Turn, IInv, TypeOK
  <2>3. /\ status = "running" /\ status' \in {"running", "ok"}
        /\ status' = "ok" => Top(step').kind = "Done"
    BY <1>3, <2>1 DEF Turn
  <2> QED
    BY <1>1, <2>2, <2>3 DEF IInv, TypeOK
<1> QED
  BY <1>2, <1>3

\* Every step of run, with the fact NoCallerDropped states about it.
LEMMA NextShape ==
  ASSUME IInv, [Next]_vars
  PROVE  /\ IInv'
         /\ status # "ok" /\ status' = "ok" => \A i \in 1..Len(step) : step[i].kind # "Op"
<1>1. CASE Timeout
  BY <1>1 DEF Timeout, IInv, TypeOK
<1>2. CASE ReturnValue
  BY <1>2, TurnShape DEF ReturnValue, Kinds
<1>3. CASE Evaluate
  BY <1>3, TurnShape DEF Evaluate, Kinds
<1>4. CASE NextArgument
  BY <1>4, TurnShape DEF NextArgument, Kinds
<1>5. CASE RunOperator
  BY <1>5, TurnShape DEF RunOperator, Kinds
<1>6. CASE Terminated \/ UNCHANGED vars
  BY <1>6 DEF Terminated, vars, IInv, TypeOK
<1> QED
  BY <1>1, <1>2, <1>3, <1>4, <1>5, <1>6 DEF Next

\* The loop's state keeps its type and the chain its shape: at most one
\* finished step under a result, callers only below it, one Done at the
\* bottom (clvm.rs run_step, combine).
THEOREM TypeCorrect == Spec => []TypeOK
<1>1. IInv /\ [Next]_vars => IInv'
  BY NextShape
<1>2. IInv => TypeOK
  BY DEF IInv
<1> QED
  BY InitShape, <1>1, <1>2, PTL DEF Spec

\* A run never returns a value while an operator on the chain is collecting
\* its arguments (clvm.rs combine).
THEOREM ValueAnswersAll == Spec => NoCallerDropped
<1> DEFINE Answered == status # "ok" /\ status' = "ok" =>
                         \A i \in 1..Len(step) : step[i].kind # "Op"
<1>1. IInv /\ [Next]_vars => IInv' /\ [Answered]_vars
  BY NextShape
<1> QED
  BY InitShape, <1>1, PTL DEF Spec, NoCallerDropped

(***************************************************************************)
(* What a run comes to.                                                    *)
(***************************************************************************)

\* A run that returns a value returns one its program comes to, and one that
\* returns an error is that of a program that fails.
OutcomeIsDerived ==
  /\ status = "ok" => Comes(Step(input.prog, input.env), result)
  /\ status = "err" => Fails(Step(input.prog, input.env))

\* The inductive invariant: a run that goes on has a sound chain.
Derived ==
  LET w == Step(input.prog, input.env)
  IN /\ status = "running" => Sound(w, step)
     /\ status = "ok" => Comes(w, result)
     /\ status = "err" => Fails(w)

LEMMA TurnDerived ==
  ASSUME Rules({}), IInv, Derived, NEW kind \in Kinds \ {"Done"}, Turn(kind)
  PROVE  Derived'
<1> DEFINE w == Step(input.prog, input.env)
           next == run_step(step)
<1>1. /\ status = "running" /\ input' = input /\ Top(step).kind # "Done"
      /\ IsChain(step) /\ WellFormed(step)
  BY DEF Turn, IInv, TypeOK
<1>2. Outcome(w, next)
  <2>1. Sound(w, step)
    BY <1>1 DEF Derived
  <2>2. ~is_overridden(Top(step), {})
    BY DEF is_overridden
  <2> HIDE DEF w
  <2> QED
    BY <1>1, <2>1, <2>2, RunStepSound
<1>3. CASE next = Failed
  <2>1. Fails(w) /\ status' = "err"
    BY <1>2, <1>3 DEF Outcome, Turn
  <2> QED
    BY <1>1, <2>1 DEF Derived
<1>4. CASE next # Failed
  <2>1. Sound(w, next)
    BY <1>2, <1>4 DEF Outcome
  <2>2. step' = next
    BY <1>4 DEF Turn
  <2>3. CASE Top(next).kind = "Done"
    <3>1. status' = "ok" /\ result' = Top(next).val
      BY <1>4, <2>3 DEF Turn
    <3>2. IsChain(next) /\ WellFormed(next)
      BY <1>1, <1>4, RunStepShape
    <3>3. Comes(w, Top(next).val)
      BY <2>1, <2>3, <3>2, DoneComes
    <3>4. Comes(w, result')
      BY <3>1, <3>3
    <3> QED
      BY <1>1, <3>1, <3>4 DEF Derived
  <2>4. CASE Top(next).kind # "Done"
    <3>1. status' = "running"
      BY <1>1, <1>4, <2>4 DEF Turn
    <3> QED
      BY <1>1, <2>1, <2>2, <3>1 DEF Derived
  <2> QED
    BY <2>3, <2>4
<1> QED
  BY <1>3, <1>4

\* A run returns only a value that CLVM's rules give its program, and an error
\* only if they give the program none to go on with, whatever operators there
\* are outside the machine (clvm.rs run, run_step, combine).
THEOREM RunsAreDerived ==
  ASSUME Rules({})
  PROVE  Spec => []OutcomeIsDerived
<1>1. Init => Derived
  <2> SUFFICES ASSUME Init PROVE Derived
    OBVIOUS
  <2>1. Sound(Step(input.prog, input.env), step) /\ status = "running"
    BY StartSound DEF Init
  <2> QED
    BY <2>1 DEF Derived
<1>2. IInv /\ Derived /\ [Next]_vars => Derived'
  <2> SUFFICES ASSUME IInv, Derived, [Next]_vars PROVE Derived'
    OBVIOUS
  <2>1. CASE Timeout
    BY <2>1 DEF Timeout, Derived
  <2>2. CASE ReturnValue \/ Evaluate \/ NextArgument \/ RunOperator
    BY <2>2, TurnDerived DEF ReturnValue, Evaluate, NextArgument, RunOperator, Kinds
  <2>3. CASE Terminated \/ UNCHANGED vars
    BY <2>3 DEF Terminated, vars, Derived
  <2> QED
    BY <2>1, <2>2, <2>3 DEF Next
<1>3. Derived => OutcomeIsDerived
  BY DEF Derived, OutcomeIsDerived
<1>4. IInv /\ [Next]_vars => IInv'
  BY NextShape
<1> QED
  BY InitShape, <1>1, <1>2, <1>3, <1>4, PTL DEF Spec
=============================================================================
