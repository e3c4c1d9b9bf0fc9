------------------------------- MODULE MCClvm -------------------------------
(***************************************************************************)
(* Instances of the step machine, and the machine against the meaning of   *)
(* its program: every step keeps it, and a whole run implements evaluation *)
(* in one step.                                                            *)
(***************************************************************************)
EXTENDS Clvm, MCPrograms

TailCallers == {Call(WalkTail), Call(WalkOn)}
AllPrograms == SmallPrograms \cup (TailCallers \X {Listing(n) : n \in 0..3})

SomeLimits == {NoLimit, 0, 9}

\* A function that calls itself last runs in the space of one call: the
\* chain holds the operators nested in the function's text and nothing of the
\* calls before (clvm.rs run_step, the apply case).
TextDepth == 6
TailCallsKeepTheChainShort == input.prog \in TailCallers => Len(step) <= TextDepth

\* What the program has come to so far, the error included.
Outcome ==
  CASE status = "running" -> Meaning(step)
    [] status = "ok"      -> result
    [] status = "err"     -> Fail
    [] status = "timeout" -> Endless

\* No step of the machine changes what the run will come to: a value, or an
\* error (clvm.rs run_step, combine).
MeaningKept == [][Agree(Outcome, Outcome')]_vars

\* The machine implements evaluation in one step: it returns the program's
\* value or an error, once, and times out only under a limit.
Whole == INSTANCE Evaluation WITH
  Value      <- LAMBDA i : Eval(i.prog, i.env, Fuel),
  MayTimeOut <- LAMBDA i : i.limit # NoLimit,
  NoValue    <- Fail,
  Unknown    <- Endless,
  outcome    <- CASE status = "running" -> <<"pending">>
                  [] status = "ok"      -> result
                  [] status = "err"     -> <<"error">>
                  [] status = "timeout" -> <<"timeout">>

EvaluatesInOneStep == Whole!Spec
=============================================================================
