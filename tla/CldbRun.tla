------------------------------ MODULE CldbRun -------------------------------
(***************************************************************************)
(* compiler/cldb.rs: a CldbRun, the debugger's view of one run of the step *)
(* machine.  Every call of step moves the machine once and may give the    *)
(* consumer a row of information.                                          *)
(*                                                                         *)
(* A row is abstracted to what it is about.  The texts, locations and      *)
(* presentation flags a row also carries are left out.                     *)
(***************************************************************************)
EXTENDS ClvmMachine

CONSTANTS
  TreeHash(_),        \* external: sha256tree
  SymbolTable,        \* tree hash |-> function name
  CallOverride(_, _), \* external: the consumer's get_override(name, arguments)
  PrintWord           \* the number "$print$" spells

NoResult == <<"no result">>

\* A run from the step c on: its CldbRunEnv overrides the functions of the
\* given names.
new_run(c, names) ==
  [step |-> c, overrides |-> names, ended |-> FALSE, final_result |-> NoResult, in_expr |-> FALSE,
   row |-> 0, to_print |-> <<>>, outputs_to_step |-> <<>>]

NothingShown == [kind |-> "None"]

\* The call of a function whose hash the symbol table knows under one of the
\* names that are overridden.
is_overridden(t, names) ==
  /\ t.kind = "ReadyOp" /\ t.head = Int_(2) /\ t.args # <<>>
  /\ TreeHash(t.args[1]) \in {h \in DOMAIN SymbolTable : SymbolTable[h] \in names}

OverrideValue(t) == CallOverride(SymbolTable[TreeHash(t.args[1])], Tail(t.args))

\* Fault: an override that raises is passed over.
replace_step_RaisingIgnored(c) ==
  IF OverrideValue(Top(c)) = Fail THEN run_step(c) ELSE ReplaceTop(c, OpResult(OverrideValue(Top(c))))

\* replace_step, of an overridden call: the consumer's value goes to the caller.
replace_step(c) ==
  IF OverrideValue(Top(c)) = Fail THEN Failed ELSE ReplaceTop(c, OpResult(OverrideValue(Top(c))))

next_step(r) ==
  IF is_overridden(Top(r.step), r.overrides) THEN replace_step(r.step) ELSE run_step(r.step)

\* get_arg_associations: for each argument, by its place, the row that printed
\* its number, if there was one.
get_arg_associations(outputs, args) ==
  LET known == {i \in DOMAIN args : ~IsCons(args[i]) /\ atom_value(args[i]) \in DOMAIN outputs}
  IN [i \in known |-> [arg |-> atom_value(args[i]), row |-> outputs[atom_value(args[i])]]]

is_print_request(args) ==
  args # <<>> /\ ~IsCons(args[1]) /\ atom_value(args[1]) = PrintWord

\* A row goes out: it is numbered by row and takes what to_print gathered.
Produce(r, kind, v) ==
  [run |-> [r EXCEPT !.row = @ + 1, !.to_print = <<>>],
   out |-> [kind |-> kind, val |-> v, row |-> r.row, refs |-> r.to_print]]

Silent(r) == [run |-> r, out |-> NothingShown]

\* What a HashMap is after insert(key, value).
Inserted(map, key, value) ==
  [k \in DOMAIN map \cup {key} |-> IF k = key THEN value ELSE map[k]]

\* Fault: the row is remembered under the number the next one will have.
ValueRow_NextRow(r, v) ==
  LET p == Produce([r EXCEPT !.in_expr = FALSE], "Value", v)
  IN IF IsCons(v) THEN p
     ELSE [p EXCEPT !.run.outputs_to_step = Inserted(@, atom_value(v), r.row + 1)]

\* An operator's value: the row remembers which number it printed.
ValueRow(r, v) ==
  LET p == Produce([r EXCEPT !.in_expr = FALSE], "Value", v)
  IN IF IsCons(v) THEN p
     ELSE [p EXCEPT !.run.outputs_to_step = Inserted(@, atom_value(v), r.row)]

\* An operator about to run: sha256 (11) shows where its arguments came from,
\* 34 may be a request to print.
OperatorRow(r, t, print_only) ==
  LET op   == atom_value(t.head)
      refs == IF op = 11 /\ ~print_only
              THEN get_arg_associations(r.outputs_to_step, t.args)
              ELSE r.to_print
      q    == [r EXCEPT !.to_print = refs]
      p    == IF op = 34 /\ is_print_request(t.args)
              THEN Produce(q, "Print", ListOf(Tail(t.args), t.end))
              ELSE Silent(q)
  IN [p EXCEPT !.run.in_expr = IF print_only THEN @ ELSE TRUE]

\* What the run r gives when its machine goes on to next, whose top step is t.
\* A failed step leaves the machine where it was.
MoveTo(r, next, t, print_only) ==
  IF next = Failed
  THEN Produce([r EXCEPT !.ended = TRUE], "Failure", Fail)
  ELSE LET q == [r EXCEPT !.step = next]
       IN CASE t.kind = "OpResult" /\ r.in_expr /\ ~print_only -> ValueRow(q, t.val)
            [] t.kind = "OpResult" /\ (~r.in_expr \/ print_only) ->
                 Silent([q EXCEPT !.in_expr = FALSE])
            [] t.kind = "Done" ->
                 Produce([q EXCEPT !.ended = TRUE, !.final_result = t.val], "Final", t.val)
            [] t.kind = "ReadyOp" -> OperatorRow(q, t, print_only)
            [] t.kind \in {"Step", "Op"} -> Silent(q)

\* CldbRun::step.
cldb_step(r, print_only) ==
  CHOOSE s \in {MoveTo(r, next, Top(next), print_only) : next \in {next_step(r)}} : TRUE
=============================================================================
