-------------------------------- MODULE Cldb --------------------------------
(***************************************************************************)
(* A consumer stepping a CldbRun until it has ended, as the cldb command   *)
(* (cmds.rs cldb), the wasm run_step and the Python service thread do.     *)
(***************************************************************************)
EXTENDS CldbRun

CONSTANTS
  DebuggedPrograms,   \* the (program, environment) pairs debugged
  Overrides           \* the names of the functions the consumer overrides

VARIABLES
  input,       \* prog, env and the print_only flag
  cldbrun,     \* the CldbRun
  rows         \* what step gave the consumer, in order

cldbVars == <<input, cldbrun, rows>>

CldbStart(p, only) ==
  /\ input = [prog |-> p[1], env |-> p[2], print_only |-> only]
  /\ cldbrun = new_run(start_step(p[1], p[2]), Overrides)
  /\ rows = <<>>

CldbInit == \E p \in DebuggedPrograms, only \in BOOLEAN : CldbStart(p, only)

\* One call of step whose machine step ends in the given kind of row.
Stepped(kind) ==
  /\ ~cldbrun.ended
  /\ \E s \in {cldb_step(cldbrun, input.print_only)} :
       /\ s.out.kind = kind
       /\ cldbrun' = s.run
       /\ rows' = IF kind = "None" THEN rows ELSE Append(rows, s.out)
  /\ UNCHANGED input

ShowNothing == Stepped("None")
ShowValue == Stepped("Value")
ShowPrint == Stepped("Print")
Finish == Stepped("Final")
ReportFailure == Stepped("Failure")

CldbTerminated == cldbrun.ended /\ UNCHANGED cldbVars

CldbNext ==
  \/ ShowNothing
  \/ ShowValue
  \/ ShowPrint
  \/ Finish
  \/ ReportFailure
  \/ CldbTerminated

CldbSpec == CldbInit /\ [][CldbNext]_cldbVars

(***************************************************************************)
(* Properties                                                              *)
(***************************************************************************)

\* The state of the consumer and its run: the rows are numbered as they come,
\* and the machine's chain has its shape until the run has ended.
CldbTypeOK ==
  /\ input.print_only \in BOOLEAN
  /\ cldbrun.ended \in BOOLEAN /\ cldbrun.in_expr \in BOOLEAN
  /\ cldbrun.row = Len(rows)
  /\ \A i \in DOMAIN rows : rows[i].kind \in {"Value", "Print", "Final", "Failure"} /\ rows[i].row = i - 1
  /\ WellFormed(cldbrun.step)
  /\ Top(cldbrun.step).kind = "Done" => cldbrun.ended
  /\ cldbrun.final_result # NoResult => Top(cldbrun.step).kind = "Done"

\* A row that printed the number n.
Printed(row, n) == row.kind = "Value" /\ ~IsCons(row.val) /\ atom_value(row.val) = n

\* An argument of sha256 shown as coming from a row points at an earlier row
\* that printed that very number (cldb.rs get_arg_associations, step).
ReferencesResolve ==
  \A i \in DOMAIN rows : \A j \in DOMAIN rows[i].refs :
    LET ref == rows[i].refs[j]
    IN ref.row + 1 < i /\ Printed(rows[ref.row + 1], ref.arg)
=============================================================================
