---------------------------- MODULE CldbHierarchy ----------------------------
(***************************************************************************)
(* compiler/cldb_hierarchy.rs HierarchialRunner, and the loop of           *)
(* classic/clvm_tools/cmds.rs cldb_hierarchy that gathers its rows in a    *)
(* tree.                                                                   *)
(*                                                                         *)
(* When a run is about to apply a function of the symbol table the runner  *)
(* puts two frames on its stack: one stands for the function's own run and *)
(* the other, above it, computes the value.  Values go down the stack: the *)
(* frame below goes on from the step it was at as if it had returned.      *)
(*                                                                         *)
(* Names of arguments and locations are left out, and so is the hex        *)
(* presentation of values (improve_presentation with FAVOR_HEX).           *)
(***************************************************************************)
EXTENDS CldbRun, FiniteSets

CONSTANTS
  HierarchyPrograms,   \* the (program, environment) pairs debugged
  Tells(_, _, _)       \* entries of the tree, read from left to right, are the rows m + 1 to n

VARIABLES
  program,        \* prog and env
  running,        \* the frames, the current one last
  error,          \* a frame's run has failed
  output_stack,   \* the rows gathered so far for each level
  shown           \* how many rows the runs have given

hierarchyVars == <<program, running, error, output_stack, shown>>

\* Every run has a CldbNoOverride.
RunFrom(chain) == new_run(chain, {})

Frame(purpose, prog, env, chain) ==
  [purpose |-> purpose, prog |-> prog, env |-> env, run |-> RunFrom(chain)]

HierarchyStart(p) ==
  /\ program = [prog |-> p[1], env |-> p[2]]
  /\ running = <<Frame("Main", p[1], p[2], start_step(p[1], p[2]))>>
  /\ error = FALSE
  /\ output_stack = << <<>> >>
  /\ shown = 0

HierarchyInit == \E p \in HierarchyPrograms : HierarchyStart(p)

\* Fault: the run is not over while a frame is left.
is_ended_UntilEmpty == running = <<>> \/ error

is_ended ==
  \/ running = <<>>
  \/ error
  \/ Len(running) = 1 /\ running[1].run.ended

\* relevant_run_step_info: an application whose arguments are all known, of
\* a function in the symbol table.
relevant_run_step_info(c) ==
  LET t == Top(c)
  IN /\ t.kind = "Op" /\ t.rest = <<>>
     /\ ~IsNil(t.head) /\ atom_value(t.head) = 2
     /\ Len(t.args) >= 2
     /\ TreeHash(t.args[1]) \in DOMAIN SymbolTable

current_step == Last(running).run.step

\* Fault: the frame below takes the value for its whole run's.
Resume_EndsRun(stack, outcome) ==
  [stack EXCEPT ![Len(stack)].env = outcome,
                ![Len(stack)].run = RunFrom(<<Done(outcome)>>)]

\* The frame below goes on with outcome as the value of its step.
Resume(stack, outcome) ==
  [stack EXCEPT ![Len(stack)].env = outcome,
                ![Len(stack)].run = RunFrom(step_return_value(@.step, outcome))]

\* step, when the top frame's run has its value.
LeaveFunction ==
  /\ ~is_ended
  /\ Last(running).run.final_result # NoResult
  /\ running' = IF Len(running) = 1 THEN <<>>
                ELSE Resume(Front(running), Last(running).run.final_result)
  /\ UNCHANGED <<program, error, output_stack, shown>>

\* Fault: the two frames the other way round.
push_synthetic_stack_frame_Swapped(stack, prog, args) ==
  LET env == Last(stack).env
  IN stack \o << Frame("ComputeArgument", prog, args, start_step(prog, args)),
                 Frame("Main", prog, env, start_step(prog, env)) >>

push_synthetic_stack_frame(stack, prog, args) ==
  LET env == Last(stack).env
  IN stack \o << Frame("Main", prog, env, start_step(prog, env)),
                 Frame("ComputeArgument", prog, args, start_step(prog, args)) >>

EnterFunction ==
  /\ ~is_ended
  /\ Last(running).run.final_result = NoResult
  /\ relevant_run_step_info(current_step)
  /\ running' = push_synthetic_stack_frame(running, Top(current_step).args[1], Top(current_step).args[2])
  /\ UNCHANGED <<program, error, output_stack, shown>>

Row(n) == <<"row", n>>
Compute(entries) == <<"compute", entries>>

running_frames(frames) == Cardinality({i \in DOMAIN frames : frames[i].purpose = "Main"})

\* A level that is not there yet is made for the row to go to.
Deepen(stack, n) ==
  IF Len(stack) > n THEN stack ELSE stack \o [i \in 1..(n + 1 - Len(stack)) |-> <<>>]

\* Fault: the levels that are left take their rows along.
Nest_Drops(stack, n) == SubSeq(stack, 1, n)

\* The levels beyond the n-th become part of the level above them.
Nest(stack, n) ==
  LET level[i \in 1..Len(stack)] ==
        IF i = Len(stack) THEN stack[i] ELSE Append(stack[i], Compute(level[i + 1]))
  IN [i \in 1..n |-> IF i < n THEN stack[i] ELSE level[n]]

AddRow(stack, n) ==
  LET deep == Deepen(stack, n)
  IN Nest([deep EXCEPT ![Len(deep)] = Append(@, Row(shown + 1))], n)

\* The top frame's run takes a step; rows go to the current level.
StepRun(showing) ==
  /\ ~is_ended
  /\ Last(running).run.final_result = NoResult
  /\ ~relevant_run_step_info(current_step)
  /\ \E s \in {cldb_step(Last(running).run, FALSE)} :
       /\ showing <=> s.out # NothingShown
       /\ running' = [running EXCEPT ![Len(running)].run = s.run]
       /\ error' = (s.out.kind = "Failure")
  /\ IF showing
     THEN /\ output_stack' = AddRow(output_stack, running_frames(running'))
          /\ shown' = shown + 1
     ELSE UNCHANGED <<output_stack, shown>>
  /\ UNCHANGED program

StepSilently == StepRun(FALSE)
StepShowing == StepRun(TRUE)

HierarchyTerminated == is_ended /\ UNCHANGED hierarchyVars

HierarchyNext ==
  \/ EnterFunction
  \/ LeaveFunction
  \/ StepSilently
  \/ StepShowing
  \/ HierarchyTerminated

HierarchySpec == HierarchyInit /\ [][HierarchyNext]_hierarchyVars

(***************************************************************************)
(* Properties                                                              *)
(***************************************************************************)

\* The state's types; the chain of every frame's run has its shape, and a run
\* that has its value has ended.
HierarchyTypeOK ==
  /\ running # <<>>
  /\ \A i \in DOMAIN running :
       /\ running[i].purpose \in {"Main", "ComputeArgument"}
       /\ WellFormed(running[i].run.step)
       /\ running[i].run.final_result # NoResult => running[i].run.ended
  /\ error \in BOOLEAN
  /\ shown \in Nat
  /\ Len(output_stack) >= 1

\* Above the program's own frame the stack is made of functions: a frame that
\* stands for the function and has not moved, with one computing its value on
\* top, and the run below both is at the application that computes.
Matched(frames) ==
  /\ \A i \in DOMAIN frames :
       frames[i].purpose = IF i % 2 = 1 /\ i > 1 THEN "ComputeArgument" ELSE "Main"
  /\ \A i \in 1..(Len(frames) - 1) :
       LET chain == frames[i].run.step
           above == frames[i + 1]
       IN IF i % 2 = 0
          THEN chain = start_step(above.prog, frames[i].env)
          ELSE relevant_run_step_info(chain) /\ Top(chain).args[1] = above.prog

\* The frames and their runs stay matched (cldb_hierarchy.rs
\* HierarchialRunner::step, push_synthetic_stack_frame).
FramesMatch == Matched(running)

\* A run that succeeds has told everything, in order: read from left to right
\* the tree has every row there was (cmds.rs cldb_hierarchy).
TreeIsTheWholeRun == is_ended /\ ~error => Tells(output_stack[1], 0, shown)
=============================================================================
