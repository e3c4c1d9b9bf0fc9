----------------------------- MODULE Compiling ------------------------------
(***************************************************************************)
(* What compiling promises when nothing is cached: a compile that ends     *)
(* gives the meaning of the sources it read, and one that does not gives   *)
(* nothing.                                                                *)
(***************************************************************************)
CONSTANTS
  Procs,         \* the compiler processes
  Meaning(_)     \* what sources compile to

VARIABLES
  reading,    \* the sources each process read last
  answer      \* the set of what each process gave for them: none or one

vars == <<reading, answer>>

Init == answer = [p \in Procs |-> {}]

Read(p) ==
  /\ \A q \in Procs \ {p} : reading'[q] = reading[q]
  /\ answer' = [answer EXCEPT ![p] = {}]

Answer(p) ==
  /\ UNCHANGED reading
  /\ answer[p] = {} /\ answer'[p] # {}
  /\ answer' = [answer EXCEPT ![p] = {Meaning(reading[p])}]

Next == \E p \in Procs : Read(p) \/ Answer(p)

Spec == Init /\ [][Next]_vars
=============================================================================
