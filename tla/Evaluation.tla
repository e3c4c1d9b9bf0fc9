----------------------------- MODULE Evaluation -----------------------------
(***************************************************************************)
(* What running a program promises, without the steps: a call of run       *)
(* comes to the program's value if it has one, to an error if it has none, *)
(* and to a timeout only if the caller set a limit.                        *)
(***************************************************************************)
CONSTANTS
  Value(_),          \* the value of an input
  MayTimeOut(_),     \* whether the input carries a step limit
  NoValue,           \* the value of an input whose program fails
  Unknown            \* the value of an input nothing is known about

VARIABLES input, outcome

Pending == <<"pending">>
Error == <<"error">>
TimedOut == <<"timeout">>

Init == outcome = Pending

Finish ==
  /\ outcome = Pending /\ outcome' # Pending
  /\ \E v \in {Value(input)} :
       \/ v \notin {NoValue, Unknown} /\ outcome' = v
       \/ v = NoValue /\ outcome' = Error
       \/ v = Unknown
       \/ MayTimeOut(input) /\ outcome' = TimedOut
  /\ UNCHANGED input

Next == Finish

Spec == Init /\ [][Next]_<<input, outcome>>
=============================================================================
