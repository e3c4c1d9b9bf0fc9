-------------------------------- MODULE Clvm --------------------------------
(***************************************************************************)
(* compiler/clvm.rs run: the loop that steps a program to its value, with  *)
(* an optional bound on the number of steps.                               *)
(***************************************************************************)
EXTENDS ClvmMachine

CONSTANTS
  Programs,     \* the (program, environment) pairs run is called with
  IterLimits    \* the iter_limit arguments: naturals, or NoLimit for None

NoLimit == -1

ASSUME ProgramsAssumption == Programs # {}
ASSUME LimitAssumption == IterLimits \subseteq Nat \cup {NoLimit}

VARIABLES
  input,     \* the arguments of run: prog, env, limit
  step,      \* the chain of RunSteps
  iters,     \* steps taken
  status,    \* "running", or how run returned: "ok", "err", "timeout"
  result     \* the value returned, when status = "ok"

vars == <<input, step, iters, status, result>>

Init ==
  /\ \E p \in Programs, l \in IterLimits :
        input = [prog |-> p[1], env |-> p[2], limit |-> l]
  /\ step = start_step(input.prog, input.env)
  /\ iters = 0
  /\ status = "running"
  /\ result = Nil

\* Fault: the limit is tested for equality, one turn off.
LimitReached_Equal == input.limit # NoLimit /\ input.limit = iters + 1

LimitReached == input.limit # NoLimit /\ input.limit <= iters

Timeout ==
  /\ status = "running" /\ LimitReached
  /\ status' = "timeout"
  /\ UNCHANGED <<input, step, iters, result>>

\* One turn of the loop, from a step of the given kind.  The count of turns
\* is only ever compared with the limit: it is kept until it exceeds it.
Turn(kind) ==
  /\ status = "running" /\ ~LimitReached
  /\ Top(step).kind = kind
  /\ iters' = IF iters > input.limit THEN iters ELSE iters + 1
  /\ LET next == run_step(step)
     IN IF next = Failed
        THEN status' = "err" /\ UNCHANGED <<step, result>>
        ELSE /\ step' = next
             /\ IF Top(next).kind = "Done"
                THEN status' = "ok" /\ result' = Top(next).val
                ELSE UNCHANGED <<status, result>>
  /\ UNCHANGED input

ReturnValue == Turn("OpResult")
Evaluate == Turn("Step")
NextArgument == Turn("Op")
RunOperator == Turn("ReadyOp")

Terminated == status # "running" /\ UNCHANGED vars

Next ==
  \/ Timeout
  \/ ReturnValue
  \/ Evaluate
  \/ NextArgument
  \/ RunOperator
  \/ Terminated

Spec == Init /\ [][Next]_vars

\* The loop runs on the caller's thread and never waits.
FairSpec == Spec /\ WF_vars(Next)

(***************************************************************************)
(* Properties                                                              *)
(***************************************************************************)

\* The type of the loop's state, with the shape of the chain.
TypeOK ==
  /\ input.limit \in Nat \cup {NoLimit}
  /\ iters \in Nat
  /\ status \in {"running", "ok", "err", "timeout"}
  /\ WellFormed(step)

\* run returns a value only when no caller is still waiting for one: combine
\* passes over finished steps and never over an operator that is collecting
\* its arguments (clvm.rs combine).
NoCallerDropped ==
  [][status # "ok" /\ status' = "ok" =>
       \A i \in 1..Len(step) : step[i].kind # "Op"]_vars

\* Under a limit every run returns, the ones of programs that never end
\* included (clvm.rs run).
LimitedRunReturns == (input.limit # NoLimit) ~> (status # "running")

=============================================================================
