------------------------------- MODULE StepApi -------------------------------
(***************************************************************************)
(* What the step handle given to Python promises (py/api.rs                *)
(* PythonRunStep): every call of step that returns gives what the next     *)
(* step of the run gave, up to the step that ends it.  A handle that was   *)
(* told to drop its run may also say that it is over.                      *)
(***************************************************************************)
EXTENDS Naturals

VARIABLES
  length,    \* the number of steps the run takes
  shows,     \* those of them that give a row
  taken,     \* the steps whose results the caller has
  last,      \* the step the latest row came from
  ended,     \* what is_ended answers
  dropped    \* drop was called

vars == <<length, shows, taken, last, ended, dropped>>

Init == taken = 0 /\ last = 0 /\ ended = FALSE /\ dropped = FALSE

Advance ==
  /\ ~ended /\ ~dropped
  /\ taken' = taken + 1
  /\ last' = IF taken + 1 \in shows THEN taken + 1 ELSE last
  /\ ended' = (taken + 1 = length)
  /\ UNCHANGED <<length, shows, dropped>>

Drop == dropped' = TRUE /\ UNCHANGED <<length, shows, taken, last, ended>>

GiveUp == dropped /\ ended' = TRUE /\ UNCHANGED <<length, shows, taken, last, dropped>>

Next == Advance \/ Drop \/ GiveUp

Spec == Init /\ [][Next]_vars
=============================================================================
