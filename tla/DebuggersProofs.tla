--------------------------- MODULE DebuggersProofs ---------------------------
(***************************************************************************)
(* For every program, whatever functions are overridden and whatever the   *)
(* overrides return: the rows a CldbRun gives are numbered in order and    *)
(* refer to earlier rows that printed what they are referred to for.  For  *)
(* every program and every symbol table: the frames of the hierarchical    *)
(* debugger stay matched with the runs they stand for, and the tree of its *)
(* rows has them all in order.  What either debugger comes to, the program *)
(* comes to by the rules of CLVM.                                          *)
(***************************************************************************)
EXTENDS Cldb, CldbHierarchy, StepProofs, FiniteSetTheorems

(***************************************************************************)
(* The flat debugger.                                                      *)
(***************************************************************************)

\* Every one of refs leads to one of the first n rows, which printed it.
RefersBack(refs, printed, n) ==
  \A j \in DOMAIN refs :
    refs[j].row \in 0..(n - 1) /\ Printed(printed[refs[j].row + 1], refs[j].arg)

\* What a run remembers of the rows it gave.
Remembers(outputs, printed) ==
  \A n \in DOMAIN outputs :
    outputs[n] \in 0..(Len(printed) - 1) /\ Printed(printed[outputs[n] + 1], n)

\* The inductive invariant.  References are only good because the run's
\* memory of its rows is, and because what it has gathered for the next row
\* was good when it was gathered.
CldbIInv ==
  /\ input.print_only \in BOOLEAN
  /\ IsRun(cldbrun) /\ IsChain(rows) /\ cldbrun.row = Len(rows)
  /\ Remembers(cldbrun.outputs_to_step, rows)
  /\ RefersBack(cldbrun.to_print, rows, Len(rows))
  /\ \A i \in 1..Len(rows) :
       /\ rows[i].kind \in RowKinds /\ rows[i].row = i - 1
       /\ RefersBack(rows[i].refs, rows, i - 1)

LEMMA CldbInitHolds == CldbInit => CldbIInv
<1> SUFFICES ASSUME NEW p, NEW only \in BOOLEAN, CldbStart(p, only)
             PROVE  CldbIInv
  BY DEF CldbInit
<1>1. IsChain(start_step(p[1], p[2])) /\ WellFormed(start_step(p[1], p[2])) /\ Top(start_step(p[1], p[2])).kind = "Step"
  BY StartShape
<1>2. IsRun(cldbrun) /\ cldbrun.row = 0 /\ cldbrun.outputs_to_step = <<>> /\ cldbrun.to_print = <<>>
  BY <1>1 DEF CldbStart, new_run, IsRun, RunFields
<1>3. rows = <<>> /\ IsChain(rows) /\ Len(rows) = 0 /\ input.print_only \in BOOLEAN
  <2>1. <<>> \in Seq({}) /\ Len(<<>>) = 0
    OBVIOUS
  <2> QED
    BY <2>1 DEF CldbStart, IsChain
<1> QED
  BY <1>2, <1>3 DEF CldbIInv, Remembers, RefersBack

\* Whatever step gathers leads to rows that were given.
LEMMA GatheredRefersBack ==
  ASSUME CldbIInv, NEW refs, Gathered(cldbrun, refs)
  PROVE  RefersBack(refs, rows, Len(rows))
<1>1. CASE refs = cldbrun.to_print
  BY <1>1 DEF CldbIInv
<1>2. ASSUME NEW args, refs = get_arg_associations(cldbrun.outputs_to_step, args)
      PROVE  RefersBack(refs, rows, Len(rows))
  <2>1. \A j \in DOMAIN refs : \E n \in DOMAIN cldbrun.outputs_to_step :
          refs[j] = [arg |-> n, row |-> cldbrun.outputs_to_step[n]]
    BY <1>2 DEF get_arg_associations
  <2> QED
    BY <2>1 DEF CldbIInv, Remembers, RefersBack
<1> QED
  BY <1>1, <1>2 DEF Gathered

\* Rows that come later leave a reference as it is.
LEMMA OneMoreRow ==
  ASSUME IsChain(rows), NEW row, NEW refs, NEW n \in 0..Len(rows), RefersBack(refs, rows, n)
  PROVE  RefersBack(refs, Append(rows, row), n)
<1>1. Len(rows) \in Nat /\ \A i \in 1..Len(rows) : Append(rows, row)[i] = rows[i]
  BY AppendChain DEF IsChain
<1> QED
  BY <1>1 DEF RefersBack

\* One call of step keeps the invariant.
LEMMA SteppedKeeps ==
  ASSUME CldbIInv, NEW kind, Stepped(kind)
  PROVE  CldbIInv'
<1> DEFINE s == cldb_step(cldbrun, input.print_only)
<1>1. ~cldbrun.ended /\ cldbrun' = s.run /\ input' = input
  BY DEF Stepped
<1>2. rows' = IF s.out.kind = "None" THEN rows ELSE Append(rows, s.out)
  BY DEF Stepped
<1>3. /\ IsRun(s.run)
      /\ \/ s.out = NothingShown /\ GoesOn(cldbrun, s.run)
         \/ GivesRow(cldbrun, s.run, s.out)
  BY <1>1, StepShape DEF CldbIInv
<1>4. Len(rows) \in Nat
  BY DEF CldbIInv, IsChain
<1> HIDE DEF s
<1>5. CASE s.out = NothingShown /\ GoesOn(cldbrun, s.run)
  <2>1. rows' = rows
    BY <1>2, <1>5 DEF NothingShown
  <2>2. cldbrun'.row = cldbrun.row /\ cldbrun'.outputs_to_step = cldbrun.outputs_to_step /\ Gathered(cldbrun, cldbrun'.to_print)
    BY <1>1, <1>5 DEF GoesOn
  <2>3. RefersBack(cldbrun'.to_print, rows, Len(rows))
    BY <2>2, GatheredRefersBack
  <2> QED
    BY <1>1, <1>3, <2>1, <2>2, <2>3 DEF CldbIInv
<1>6. CASE GivesRow(cldbrun, s.run, s.out)
  <2> DEFINE more == Append(rows, s.out)
  <2>1. rows' = more
    BY <1>2, <1>6 DEF GivesRow, RowKinds
  <2>2. /\ IsChain(more) /\ Len(more) = Len(rows) + 1
        /\ \A i \in 1..Len(rows) : more[i] = rows[i]
        /\ more[Len(rows) + 1] = s.out
    BY AppendChain DEF CldbIInv
  <2>3. RefersBack(s.out.refs, more, Len(rows))
    BY <1>4, <1>6, GatheredRefersBack, OneMoreRow DEF GivesRow, CldbIInv
  <2>4. \A i \in 1..Len(rows) : RefersBack(rows[i].refs, more, i - 1)
    BY <1>4, OneMoreRow DEF CldbIInv
  <2> HIDE DEF more
  <2>5. \A i \in 1..Len(more) :
          /\ more[i].kind \in RowKinds /\ more[i].row = i - 1
          /\ RefersBack(more[i].refs, more, i - 1)
    <3> SUFFICES ASSUME NEW i \in 1..Len(more)
                 PROVE  /\ more[i].kind \in RowKinds /\ more[i].row = i - 1
                        /\ RefersBack(more[i].refs, more, i - 1)
      OBVIOUS
    <3>1. CASE i \in 1..Len(rows)
      BY <2>2, <2>4, <3>1 DEF CldbIInv
    <3>2. CASE i = Len(rows) + 1
      BY <1>4, <1>6, <2>2, <2>3, <3>2 DEF CldbIInv, GivesRow
    <3> QED
      BY <1>4, <2>2, <3>1, <3>2
  <2>6. Remembers(cldbrun'.outputs_to_step, more)
    <3>1. Remembers(cldbrun.outputs_to_step, more)
      BY <1>4, <2>2 DEF CldbIInv, Remembers
    <3>2. ASSUME s.out.kind = "Value", ~IsCons(s.out.val),
                 cldbrun'.outputs_to_step = Inserted(cldbrun.outputs_to_step, atom_value(s.out.val), cldbrun.row)
          PROVE  Remembers(cldbrun'.outputs_to_step, more)
      <4>1. cldbrun.row \in 0..(Len(more) - 1) /\ Printed(more[cldbrun.row + 1], atom_value(s.out.val))
        BY <1>4, <2>2, <3>2 DEF CldbIInv, Printed
      <4> QED
        BY <3>1, <3>2, <4>1 DEF Remembers, Inserted
    <3> QED
      BY <1>1, <1>6, <3>1, <3>2 DEF GivesRow
  <2>7. cldbrun'.row = Len(more) /\ RefersBack(cldbrun'.to_print, more, Len(more))
    BY <1>1, <1>6, <2>2 DEF CldbIInv, GivesRow, RefersBack
  <2> QED
    BY <1>1, <1>3, <2>1, <2>2, <2>5, <2>6, <2>7 DEF CldbIInv
<1> QED
  BY <1>3, <1>5, <1>6

LEMMA CldbNextKeeps ==
  ASSUME CldbIInv, [CldbNext]_cldbVars
  PROVE  CldbIInv'
<1>1. CASE ShowNothing \/ ShowValue \/ ShowPrint \/ Finish \/ ReportFailure
  BY <1>1, SteppedKeeps DEF ShowNothing, ShowValue, ShowPrint, Finish, ReportFailure
<1>2. CASE CldbTerminated \/ UNCHANGED cldbVars
  BY <1>2 DEF CldbTerminated, cldbVars, CldbIInv
<1> QED
  BY <1>1, <1>2 DEF CldbNext

LEMMA CldbInductive == CldbSpec => []CldbIInv
<1>1. CldbIInv /\ [CldbNext]_cldbVars => CldbIInv'
  BY CldbNextKeeps
<1> QED
  BY CldbInitHolds, <1>1, PTL DEF CldbSpec

\* The consumer's state keeps its type: rows are numbered in order, the chain
\* keeps its shape and ends with the run (cldb.rs CldbRun).
THEOREM CldbTypeCorrect == CldbSpec => []CldbTypeOK
<1>1. CldbIInv => CldbTypeOK
  <2> SUFFICES ASSUME CldbIInv PROVE CldbTypeOK
    OBVIOUS
  <2>1. DOMAIN rows = 1..Len(rows)
    BY DEF CldbIInv, IsChain
  <2> QED
    BY <2>1 DEF CldbIInv, IsRun, CldbTypeOK, RowKinds
<1> QED
  BY CldbInductive, <1>1, PTL

\* Every reference of every row leads to an earlier row that printed the
\* number it is given for (cldb.rs get_arg_associations, step).
THEOREM ReferencesLeadBack == CldbSpec => []ReferencesResolve
<1>1. CldbIInv => ReferencesResolve
  <2> SUFFICES ASSUME CldbIInv, NEW i \in DOMAIN rows, NEW j \in DOMAIN rows[i].refs
               PROVE  /\ rows[i].refs[j].row + 1 < i
                      /\ Printed(rows[rows[i].refs[j].row + 1], rows[i].refs[j].arg)
    BY DEF ReferencesResolve
  <2>1. i \in 1..Len(rows) /\ Len(rows) \in Nat
    BY DEF CldbIInv, IsChain
  <2>2. /\ rows[i].refs[j].row \in 0..((i - 1) - 1)
        /\ Printed(rows[rows[i].refs[j].row + 1], rows[i].refs[j].arg)
    BY <2>1 DEF CldbIInv, RefersBack
  <2> QED
    BY <2>1, <2>2
<1> QED
  BY CldbInductive, <1>1, PTL

\* The final row shows a value that the program comes to with the functions
\* overridden, and a run is reported as failed only if the program fails.
ShownIsDerived ==
  LET w == Step(input.prog, input.env)
  IN /\ \A i \in DOMAIN rows : /\ rows[i].kind = "Final" => Comes(w, rows[i].val)
                               /\ rows[i].kind = "Failure" => Fails(w)
     /\ cldbrun.final_result # NoResult => Comes(w, cldbrun.final_result)

\* Sound chains all the way: what the last rows will show.
CldbDerived ==
  /\ ShownIsDerived
  /\ cldbrun.overrides = Overrides
  /\ ~cldbrun.ended => Sound(Step(input.prog, input.env), cldbrun.step) /\ Top(cldbrun.step).kind # "Done"

LEMMA SteppedDerived ==
  ASSUME Rules(Overrides), CldbIInv, CldbDerived, NEW kind, Stepped(kind)
  PROVE  CldbDerived'
<1> DEFINE w == Step(input.prog, input.env)
           r == cldbrun
           s == cldb_step(r, input.print_only)
           next == next_step(r)
<1>1. /\ ~r.ended /\ cldbrun' = s.run /\ input' = input
      /\ rows' = IF s.out.kind = "None" THEN rows ELSE Append(rows, s.out)
  BY DEF Stepped
<1>2. /\ IsChain(r.step) /\ WellFormed(r.step) /\ DOMAIN r = RunFields /\ IsChain(rows)
      /\ input.print_only \in BOOLEAN
  BY DEF CldbIInv, IsRun
<1>3. Sound(w, r.step) /\ Top(r.step).kind # "Done" /\ r.overrides = Overrides
  BY <1>1 DEF CldbDerived
<1>4. Outcome(w, next)
  <2> HIDE DEF w
  <2> QED
    BY <1>2, <1>3, NextStepSound
<1>5. /\ next = Failed =>
           s.out.kind = "Failure" /\ Core(s.run, r.step, r.overrides, TRUE, r.final_result)
      /\ next # Failed /\ Top(next).kind = "Done" =>
           /\ s.out.kind = "Final" /\ s.out.val = Top(next).val
           /\ Core(s.run, next, r.overrides, TRUE, Top(next).val)
      /\ next # Failed /\ Top(next).kind \in Kinds \ {"Done"} =>
           /\ s.out.kind \notin {"Final", "Failure"}
           /\ Core(s.run, next, r.overrides, r.ended, r.final_result)
  BY <1>2, StepCore
<1>6. next # Failed => Sound(w, next) /\ IsChain(next) /\ WellFormed(next)
  BY <1>2, <1>4, NextStepShape DEF Outcome
<1>7. next # Failed => Top(next).kind \in Kinds
  BY <1>6 DEF IsChain, WellFormed, Top, Last
<1>8. \A i \in DOMAIN rows' : (i \in DOMAIN rows /\ rows'[i] = rows[i]) \/ rows'[i] = s.out
  <2> HIDE DEF s
  <2>1. DOMAIN rows = 1..Len(rows) /\ Len(rows) \in Nat
    BY <1>2 DEF IsChain
  <2> DEFINE more == Append(rows, s.out)
  <2>2. /\ DOMAIN more = 1..(Len(rows) + 1)
        /\ \A i \in 1..Len(rows) : more[i] = rows[i]
        /\ more[Len(rows) + 1] = s.out
    BY <1>2, AppendChain DEF IsChain
  <2> HIDE DEF more
  <2>3. rows' = rows \/ rows' = more
    BY <1>1 DEF more
  <2> QED
    BY <2>1, <2>2, <2>3
<1>9. Step(input'.prog, input'.env) = w
  BY <1>1
<1> SUFFICES /\ \A i \in DOMAIN rows' : /\ rows'[i].kind = "Final" => Comes(w, rows'[i].val)
                                        /\ rows'[i].kind = "Failure" => Fails(w)
             /\ s.run.final_result # NoResult => Comes(w, s.run.final_result)
             /\ s.run.overrides = Overrides
             /\ ~s.run.ended => Sound(w, s.run.step) /\ Top(s.run.step).kind # "Done"
  BY <1>1, <1>9 DEF CldbDerived, ShownIsDerived
<1>10. /\ \A i \in DOMAIN rows : /\ rows[i].kind = "Final" => Comes(w, rows[i].val)
                                 /\ rows[i].kind = "Failure" => Fails(w)
       /\ r.final_result # NoResult => Comes(w, r.final_result)
  BY DEF CldbDerived, ShownIsDerived
<1> HIDE DEF w, s, next, r
<1> SUFFICES /\ s.out.kind = "Final" => Comes(w, s.out.val)
             /\ s.out.kind = "Failure" => Fails(w)
             /\ s.run.final_result # NoResult => Comes(w, s.run.final_result)
             /\ s.run.overrides = Overrides
             /\ ~s.run.ended => Sound(w, s.run.step) /\ Top(s.run.step).kind # "Done"
  BY <1>8, <1>10
<1>11. CASE next = Failed
  BY <1>3, <1>4, <1>5, <1>10, <1>11 DEF Outcome, Core
<1>12. CASE next # Failed /\ Top(next).kind = "Done"
  <2>1. Comes(w, Top(next).val)
    BY <1>6, <1>12, DoneComes
  <2> QED
    BY <1>3, <1>5, <1>12, <2>1 DEF Core
<1>13. CASE next # Failed /\ Top(next).kind # "Done"
  BY <1>3, <1>5, <1>6, <1>7, <1>10, <1>13 DEF Core
<1> QED
  BY <1>11, <1>12, <1>13

\* What the debugger shows is what the program comes to, with the consumer's
\* values for the functions it overrides: whatever functions those are and
\* whatever they are given (cldb.rs CldbRun::step, replace_step).
THEOREM DebuggingIsDerived ==
  ASSUME Rules(Overrides)
  PROVE  CldbSpec => []ShownIsDerived
<1>1. CldbInit => CldbDerived
  <2> SUFFICES ASSUME NEW p, NEW only \in BOOLEAN, CldbStart(p, only)
               PROVE  CldbDerived
    BY DEF CldbInit
  <2> DEFINE c == start_step(p[1], p[2])
  <2>1. Sound(Step(p[1], p[2]), c) /\ Top(c).kind = "Step"
    BY StartSound, StartShape
  <2>2. input.prog = p[1] /\ input.env = p[2] /\ cldbrun = new_run(c, Overrides) /\ rows = <<>>
    BY DEF CldbStart
  <2> HIDE DEF c
  <2>3. cldbrun.step = c /\ cldbrun.overrides = Overrides /\ cldbrun.final_result = NoResult /\ DOMAIN rows = {}
    BY <2>2 DEF new_run
  <2> QED
    BY <2>1, <2>2, <2>3 DEF CldbDerived, ShownIsDerived
<1>2. CldbIInv /\ CldbDerived /\ [CldbNext]_cldbVars => CldbDerived'
  <2> SUFFICES ASSUME CldbIInv, CldbDerived, [CldbNext]_cldbVars PROVE CldbDerived'
    OBVIOUS
  <2>1. CASE ShowNothing \/ ShowValue \/ ShowPrint \/ Finish \/ ReportFailure
    BY <2>1, SteppedDerived DEF ShowNothing, ShowValue, ShowPrint, Finish, ReportFailure
  <2>2. CASE CldbTerminated \/ UNCHANGED cldbVars
    BY <2>2 DEF CldbTerminated, cldbVars, CldbDerived, ShownIsDerived
  <2> QED
    BY <2>1, <2>2 DEF CldbNext
<1>3. CldbDerived => ShownIsDerived
  BY DEF CldbDerived
<1>4. CldbIInv /\ [CldbNext]_cldbVars => CldbIInv'
  BY CldbNextKeeps
<1> QED
  BY CldbInitHolds, <1>1, <1>2, <1>3, <1>4, PTL DEF CldbSpec

(***************************************************************************)
(* The hierarchical debugger.                                              *)
(***************************************************************************)

FrameFields == {"purpose", "prog", "env", "run"}

\* A chain on its way down: nothing is left but to return a value.
OnlyReturns(c) ==
  /\ Len(c) \in {1, 2} /\ c[1].kind = "Done"
  /\ Len(c) = 2 => c[2].kind = "OpResult"

\* The inductive invariant.  A frame that stands for a function is on top
\* only when the function's value has come back to it, and then its run
\* returns that value and enters no function; without this a pair of frames
\* could be put on half a pair.
HierarchyIInv ==
  /\ FramesMatch
  /\ IsChain(running) /\ Len(running) > 0
  /\ \A i \in 1..Len(running) : DOMAIN running[i] = FrameFields /\ IsRun(running[i].run)
  /\ Len(running) % 2 = 0 => OnlyReturns(Last(running).run.step)
  /\ error \in BOOLEAN /\ shown \in Nat /\ Len(output_stack) >= 1

\* A run that begins with a chain that is not finished.
LEMMA NewRun ==
  ASSUME NEW c, IsChain(c), WellFormed(c), Top(c).kind # "Done"
  PROVE  IsRun(RunFrom(c)) /\ RunFrom(c).step = c /\ RunFrom(c).final_result = NoResult
BY DEF RunFrom, new_run, IsRun, RunFields

LEMMA HierarchyInitHolds == HierarchyInit => HierarchyIInv
<1> SUFFICES ASSUME NEW p, HierarchyStart(p) PROVE HierarchyIInv
  BY DEF HierarchyInit
<1> DEFINE c == start_step(p[1], p[2])
           f == Frame("Main", p[1], p[2], c)
<1>1. IsRun(RunFrom(c))
  BY StartShape, NewRun
<1>2. DOMAIN f = FrameFields /\ f.run = RunFrom(c) /\ f.purpose = "Main"
  BY DEF Frame, FrameFields
<1> HIDE DEF c, f
<1>3. <<f>> \in Seq({f}) /\ Len(<<f>>) = 1 /\ <<f>>[1] = f /\ DOMAIN <<f>> = {1}
  OBVIOUS
<1>4. running = <<f>>
  BY DEF HierarchyStart, f, c
<1>5. FramesMatch
  BY <1>2, <1>3, <1>4 DEF FramesMatch, Matched
<1>6. Len(output_stack) >= 1 /\ error \in BOOLEAN /\ shown \in Nat
  <2>1. Len(output_stack) = 1
    BY DEF HierarchyStart
  <2>2. error \in BOOLEAN
    BY Zenon DEF HierarchyStart
  <2>3. shown \in Nat
    BY DEF HierarchyStart
  <2> QED
    BY <2>1, <2>2, <2>3
<1>7. IsChain(running) /\ Len(running) = 1
  BY <1>3, <1>4 DEF IsChain
<1>8. \A i \in 1..Len(running) : DOMAIN running[i] = FrameFields /\ IsRun(running[i].run)
  BY <1>1, <1>2, <1>3, <1>4
<1> QED
  BY <1>5, <1>6, <1>7, <1>8 DEF HierarchyIInv

\* A run that only returns a value goes on doing that.
LEMMA ReturningShape ==
  ASSUME NEW r, IsRun(r), OnlyReturns(r.step), NEW s, s = cldb_step(r, FALSE)
  PROVE  OnlyReturns(s.run.step)
<1> DEFINE c == r.step
<1>1. s.run.step \in {c, next_step(r)}
  BY StepShape
<1>2. IsChain(c) /\ WellFormed(c) /\ Len(c) \in Nat /\ Top(c) = c[Len(c)] /\ OnlyReturns(c)
  BY DEF IsRun, IsChain, Top, Last
<1> HIDE DEF c
<1>3. Top(c).kind \in {"Done", "OpResult"}
  BY <1>2 DEF OnlyReturns
<1>4. next_step(r) = run_step(c)
  BY <1>3 DEF next_step, is_overridden, c
<1>5. CASE Len(c) = 1
  <2>1. run_step(c) = c
    BY <1>2, <1>5 DEF OnlyReturns, run_step
  <2> QED
    BY <1>1, <1>2, <1>4, <2>1
<1>6. CASE Len(c) = 2
  <2> DEFINE p == Front(c)
             d == <<Done(Top(c).val)>>
  <2>0. IsChain(p) /\ Len(p) = 1 /\ p[1] = c[1]
    <3>1. Len(c) > 0 /\ IsChain(c)
      BY <1>2, <1>6
    <3>2. /\ IsChain(Front(c)) /\ Len(Front(c)) = Len(c) - 1
          /\ \A i \in 1..(Len(c) - 1) : Front(c)[i] = c[i]
      BY <3>1, TopChain
    <3> QED
      BY <1>6, <3>2
  <2>1. /\ IsChain(p) /\ Len(p) = 1 /\ p[1] = c[1]
        /\ c[1].kind = "Done" /\ Top(c).kind = "OpResult"
    BY <1>2, <1>6, <2>0 DEF OnlyReturns
  <2> HIDE DEF p
  <2>2. WellFormed(p)
    BY <2>1 DEF WellFormed, Kinds
  <2>3. Receiver(p) = 1
    <3>1. IsParent(p)
      BY <2>1, <2>2 DEF IsParent
    <3> QED
      BY <2>1, <3>1, ReceiverIsNear
  <2>4. run_step(c) = d
    BY <2>1, <2>3 DEF run_step, ParentOf, combine, p
  <2>5. OnlyReturns(d)
    BY DEF OnlyReturns, Done
  <2> QED
    BY <1>1, <1>2, <1>4, <2>4, <2>5
<1> QED
  BY <1>2, <1>5, <1>6 DEF OnlyReturns

\* A run that only returns a value is at no application.
LEMMA ReturningEntersNothing ==
  ASSUME NEW c, IsChain(c), OnlyReturns(c)
  PROVE  ~relevant_run_step_info(c)
<1>1. Top(c).kind \in {"Done", "OpResult"}
  BY DEF OnlyReturns, Top, Last, IsChain
<1> QED
  BY <1>1 DEF relevant_run_step_info

\* Another frame for the same function in the last one's place.
LEMMA TopReplaced ==
  ASSUME NEW fs, IsChain(fs), Len(fs) > 0, Matched(fs),
         NEW g, g.purpose = fs[Len(fs)].purpose, g.prog = fs[Len(fs)].prog
  PROVE  LET d == [fs EXCEPT ![Len(fs)] = g]
         IN /\ IsChain(d) /\ Len(d) = Len(fs) /\ d[Len(fs)] = g
            /\ \A i \in 1..(Len(fs) - 1) : d[i] = fs[i]
            /\ Matched(d)
<1> DEFINE d == [fs EXCEPT ![Len(fs)] = g]
<1>1. PICK S : fs \in Seq(S)
  BY DEF IsChain
<1>2. fs \in Seq(S \cup {g}) /\ Len(fs) \in Nat /\ DOMAIN fs = 1..Len(fs)
  BY <1>1
<1>3. d \in Seq(S \cup {g}) /\ Len(d) = Len(fs)
  BY <1>2
<1>4. DOMAIN d = 1..Len(fs) /\ d[Len(fs)] = g /\ \A i \in 1..(Len(fs) - 1) : d[i] = fs[i]
  BY <1>2
<1> HIDE DEF d
<1>5. \A i \in 1..Len(fs) : d[i].purpose = fs[i].purpose /\ d[i].prog = fs[i].prog
  BY <1>2, <1>4
<1>6. Matched(d)
  BY <1>2, <1>3, <1>4, <1>5 DEF Matched
<1> QED
  BY <1>3, <1>4, <1>6 DEF IsChain, d

\* The last frame's run takes a step: nothing else changes on the stack.
LEMMA StepFrames ==
  ASSUME HierarchyIInv, NEW showing \in BOOLEAN, StepRun(showing)
  PROVE  /\ Matched(running') /\ IsChain(running') /\ Len(running') = Len(running)
         /\ \A i \in 1..Len(running) : DOMAIN running'[i] = FrameFields /\ IsRun(running'[i].run)
         /\ Len(running) % 2 = 0 => OnlyReturns(Last(running').run.step)
         /\ \A i \in 1..(Len(running) - 1) : running'[i] = running[i]
         /\ running'[Len(running)].run = cldb_step(running[Len(running)].run, FALSE).run
<1>1. PICK n : n = Len(running)
  OBVIOUS
<1> DEFINE r == running[n].run
<1>2. PICK s : s = cldb_step(r, FALSE)
  OBVIOUS
<1> DEFINE g == [running[n] EXCEPT !.run = s.run]
<1>3. n \in Nat /\ n > 0 /\ Last(running) = running[n]
  BY <1>1 DEF HierarchyIInv, IsChain, Last
<1>4. running' = [running EXCEPT ![n] = g]
  BY <1>1, <1>2, <1>3 DEF StepRun
<1>5. DOMAIN g = FrameFields /\ g.run = s.run /\ g.purpose = running[n].purpose /\ g.prog = running[n].prog
  BY <1>1, <1>3 DEF HierarchyIInv, FrameFields
<1>6. IsRun(r)
  BY <1>1, <1>3 DEF HierarchyIInv
<1>7. IsRun(s.run) /\ (OnlyReturns(r.step) => OnlyReturns(s.run.step))
  BY <1>2, <1>6, StepShape, ReturningShape
<1> HIDE DEF g
<1>8. /\ IsChain(running') /\ Len(running') = n /\ running'[n] = g
      /\ \A i \in 1..(n - 1) : running'[i] = running[i]
      /\ Matched(running')
  <2>1. /\ IsChain(running) /\ Len(running) > 0 /\ Matched(running)
        /\ g.purpose = running[Len(running)].purpose /\ g.prog = running[Len(running)].prog
    BY <1>1, <1>5 DEF HierarchyIInv, FramesMatch
  <2>2. running' = [running EXCEPT ![Len(running)] = g]
    BY <1>1, <1>4
  <2> DEFINE d == [running EXCEPT ![Len(running)] = g]
  <2>3. /\ IsChain(d) /\ Len(d) = Len(running) /\ d[Len(running)] = g
        /\ \A i \in 1..(Len(running) - 1) : d[i] = running[i]
        /\ Matched(d)
    BY <2>1, TopReplaced
  <2> HIDE DEF d
  <2> QED
    BY <1>1, <2>2, <2>3 DEF d
<1>9. n % 2 = 0 => OnlyReturns(r.step)
  BY <1>1, <1>3 DEF HierarchyIInv
<1>10. Last(running') = g
  BY <1>8 DEF Last
<1>11. \A i \in 1..n : DOMAIN running'[i] = FrameFields /\ IsRun(running'[i].run)
  BY <1>1, <1>3, <1>5, <1>7, <1>8 DEF HierarchyIInv
<1> QED
  BY <1>1, <1>2, <1>5, <1>7, <1>8, <1>9, <1>10, <1>11

\* Two frames more.
LEMMA PushedChain ==
  ASSUME NEW fs, IsChain(fs), NEW f, NEW g
  PROVE  LET d == fs \o <<f, g>>
         IN /\ IsChain(d) /\ Len(d) = Len(fs) + 2 /\ Len(fs) \in Nat
            /\ \A i \in 1..Len(fs) : d[i] = fs[i]
            /\ d[Len(fs) + 1] = f /\ d[Len(fs) + 2] = g
<1>1. PICK S : fs \in Seq(S)
  BY DEF IsChain
<1> DEFINE T == S \cup {f, g}
           two == <<f, g>>
           d == fs \o two
<1>2. fs \in Seq(T) /\ two \in Seq(T) /\ Len(two) = 2 /\ two[1] = f /\ two[2] = g
  BY <1>1
<1> HIDE DEF T, two
<1>3. d \in Seq(T) /\ Len(d) = Len(fs) + 2
  <2>1. fs \o two \in Seq(T) /\ Len(fs \o two) = Len(fs) + Len(two)
    BY <1>2, ConcatProperties
  <2> QED
    BY <1>2, <2>1
<1>4. \A i \in 1..Len(d) : d[i] = IF i <= Len(fs) THEN fs[i] ELSE two[i - Len(fs)]
  BY <1>2, ConcatProperties
<1>5. Len(fs) \in Nat
  BY <1>2
<1> QED
  BY <1>2, <1>3, <1>4, <1>5 DEF IsChain, two

\* Two frames are put on the stack: only ever on whole pairs.
LEMMA EnterFrames ==
  ASSUME HierarchyIInv, EnterFunction
  PROVE  /\ Matched(running') /\ IsChain(running') /\ Len(running') = Len(running) + 2
         /\ Len(running) % 2 = 1
         /\ \A i \in 1..Len(running') : DOMAIN running'[i] = FrameFields /\ IsRun(running'[i].run)
         /\ \A i \in 1..Len(running) : running'[i] = running[i]
         /\ relevant_run_step_info(running[Len(running)].run.step)
         /\ LET t == Top(running[Len(running)].run.step)
            IN /\ \E e : running'[Len(running) + 1].run = RunFrom(start_step(t.args[1], e))
               /\ running'[Len(running) + 2].run = RunFrom(start_step(t.args[1], t.args[2]))
<1>1. PICK n : n = Len(running)
  OBVIOUS
<1>2. n \in Nat /\ n > 0 /\ Last(running) = running[n]
  BY <1>1 DEF HierarchyIInv, IsChain, Last
<1>3. PICK c : c = running[n].run.step
  OBVIOUS
<1>4. relevant_run_step_info(c)
  BY <1>2, <1>3 DEF EnterFunction, current_step
<1>5. n % 2 = 1
  <2>1. IsChain(c)
    BY <1>1, <1>2, <1>3 DEF HierarchyIInv, IsRun
  <2>2. ~OnlyReturns(c)
    BY <1>4, <2>1, ReturningEntersNothing
  <2>3. n % 2 # 0
    BY <1>1, <1>2, <1>3, <2>2 DEF HierarchyIInv
  <2> QED
    BY <1>2, <2>3
<1>6. PICK prog, args, env : prog = Top(c).args[1] /\ args = Top(c).args[2] /\ env = running[n].env
  OBVIOUS
<1> DEFINE f == Frame("Main", prog, env, start_step(prog, env))
           g == Frame("ComputeArgument", prog, args, start_step(prog, args))
           d == running \o <<f, g>>
<1>7. running' = d
  BY <1>2, <1>3, <1>6 DEF EnterFunction, push_synthetic_stack_frame, current_step
<1>8. /\ DOMAIN f = FrameFields /\ f.purpose = "Main" /\ f.prog = prog /\ f.env = env
      /\ f.run = RunFrom(start_step(prog, env))
      /\ DOMAIN g = FrameFields /\ g.purpose = "ComputeArgument" /\ g.prog = prog
      /\ g.run = RunFrom(start_step(prog, args))
  BY DEF Frame, FrameFields
<1>9. IsRun(f.run) /\ f.run.step = start_step(prog, env) /\ IsRun(g.run)
  BY <1>8, StartShape, NewRun
<1> HIDE DEF f, g
<1>10. /\ IsChain(d) /\ Len(d) = Len(running) + 2
       /\ \A i \in 1..Len(running) : d[i] = running[i]
       /\ d[Len(running) + 1] = f /\ d[Len(running) + 2] = g
  BY PushedChain DEF HierarchyIInv
<1> HIDE DEF d
<1>11. /\ IsChain(d) /\ Len(d) = n + 2 /\ DOMAIN d = 1..(n + 2)
       /\ \A i \in 1..n : d[i] = running[i]
       /\ d[n + 1] = f /\ d[n + 2] = g
  BY <1>1, <1>2, <1>10 DEF IsChain
<1>12. \A i \in 1..(n + 2) : DOMAIN d[i] = FrameFields /\ IsRun(d[i].run)
  <2> SUFFICES ASSUME NEW i \in 1..(n + 2)
               PROVE  DOMAIN d[i] = FrameFields /\ IsRun(d[i].run)
    OBVIOUS
  <2>1. CASE i \in 1..n
    BY <1>1, <1>11, <2>1 DEF HierarchyIInv
  <2>2. CASE i \in {n + 1, n + 2}
    BY <1>8, <1>9, <1>11, <2>2
  <2> QED
    BY <1>2, <2>1, <2>2
<1>13. \A i \in 1..(n + 2) : d[i].purpose = IF i % 2 = 1 /\ i > 1 THEN "ComputeArgument" ELSE "Main"
  <2>1. DOMAIN running = 1..n
    BY <1>1 DEF HierarchyIInv, IsChain
  <2>2. \A i \in 1..n : d[i].purpose = IF i % 2 = 1 /\ i > 1 THEN "ComputeArgument" ELSE "Main"
    BY <1>11, <2>1 DEF HierarchyIInv, FramesMatch, Matched
  <2>3. d[n + 1].purpose = "Main" /\ (n + 1) % 2 = 0
    BY <1>2, <1>5, <1>8, <1>11
  <2>4. d[n + 2].purpose = "ComputeArgument" /\ (n + 2) % 2 = 1 /\ n + 2 > 1
    BY <1>2, <1>5, <1>8, <1>11
  <2> QED
    BY <1>2, <2>2, <2>3, <2>4
<1>14. \A i \in 1..(n + 1) :
         IF i % 2 = 0
         THEN d[i].run.step = start_step(d[i + 1].prog, d[i].env)
         ELSE relevant_run_step_info(d[i].run.step) /\ Top(d[i].run.step).args[1] = d[i + 1].prog
  <2> SUFFICES ASSUME NEW i \in 1..(n + 1)
               PROVE  IF i % 2 = 0
                      THEN d[i].run.step = start_step(d[i + 1].prog, d[i].env)
                      ELSE relevant_run_step_info(d[i].run.step) /\ Top(d[i].run.step).args[1] = d[i + 1].prog
    OBVIOUS
  <2>1. CASE i \in 1..(n - 1)
    <3>1. d[i] = running[i] /\ d[i + 1] = running[i + 1]
      BY <1>2, <1>11, <2>1
    <3> QED
      BY <1>1, <2>1, <3>1 DEF HierarchyIInv, FramesMatch, Matched
  <2>2. CASE i = n
    <3>1. i % 2 = 1 /\ d[i].run.step = c /\ d[i + 1] = f
      BY <1>2, <1>3, <1>5, <1>11, <2>2
    <3> QED
      BY <1>4, <1>6, <1>8, <3>1
  <2>3. CASE i = n + 1
    <3>1. i % 2 = 0 /\ d[i] = f /\ d[i + 1] = g
      BY <1>2, <1>5, <1>11, <2>3
    <3> QED
      BY <1>8, <1>9, <3>1
  <2> QED
    BY <1>2, <2>1, <2>2, <2>3
<1>15. Matched(d)
  BY <1>2, <1>11, <1>13, <1>14 DEF Matched
<1>16. \E e : d[n + 1].run = RunFrom(start_step(prog, e))
  BY <1>8, <1>11
<1> QED
  BY <1>1, <1>2, <1>3, <1>4, <1>5, <1>6, <1>7, <1>8, <1>11, <1>12, <1>15, <1>16

\* A value in the place of a step that waits for it.
LEMMA ResumedShape ==
  ASSUME NEW c, IsChain(c), WellFormed(c), Top(c).kind \in {"Op", "Step"},
         NEW v, NEW d, d = step_return_value(c, v)
  PROVE  /\ IsRun(RunFrom(d)) /\ RunFrom(d).step = d
         /\ Len(d) = Len(c) /\ d[Len(d)].kind = "OpResult"
         /\ Len(d) > 1 /\ d[1] = c[1]
<1>1. Len(c) \in Nat /\ Len(c) > 0 /\ Top(c) = c[Len(c)] /\ c[1].kind = "Done"
  BY DEF IsChain, WellFormed, Top, Last
<1>2. Len(c) > 1
  BY <1>1
<1> DEFINE f == OpResult(v)
<1>3. f.kind = "OpResult"
  BY DEF OpResult
<1> HIDE DEF f
<1>4. d = ReplaceTop(c, f)
  BY <1>1, <1>2 DEF step_return_value, f
<1>5. IsParent(c) /\ c[Len(c)].kind # "Done"
  BY <1>1 DEF IsParent
<1>6. IsChain(d) /\ WellFormed(d) /\ Top(d) = f
  BY <1>3, <1>4, <1>5, ReplaceShape DEF Kinds
<1>7. Len(d) = Len(c) /\ d[Len(c)] = f /\ d[1] = c[1]
  BY <1>1, <1>2, <1>4, TopChain
<1> QED
  BY <1>2, <1>3, <1>6, <1>7, NewRun

\* The frame below goes on; below it nothing changes.
LEMMA LeaveFrames ==
  ASSUME HierarchyIInv, LeaveFunction
  PROVE  /\ Matched(running') /\ IsChain(running') /\ Len(running') > 0
         /\ \A i \in 1..Len(running') : DOMAIN running'[i] = FrameFields /\ IsRun(running'[i].run)
         /\ Len(running') % 2 = 0 => OnlyReturns(Last(running').run.step)
         /\ Len(running') = Len(running) - 1 /\ running[Len(running)].run.final_result # NoResult
         /\ \A i \in 1..(Len(running') - 1) : running'[i] = running[i]
         /\ running'[Len(running')].run =
              RunFrom(step_return_value(running[Len(running')].run.step, running[Len(running)].run.final_result))
<1>1. PICK n : n = Len(running)
  OBVIOUS
<1>2. n \in Nat /\ n > 0 /\ Last(running) = running[n] /\ DOMAIN running = 1..n
  BY <1>1 DEF HierarchyIInv, IsChain, Last
<1>3. PICK v : v = running[n].run.final_result
  OBVIOUS
<1>4. v # NoResult
  BY <1>2, <1>3 DEF LeaveFunction
<1>5. running[n].run.ended
  BY <1>1, <1>2, <1>3, <1>4 DEF HierarchyIInv, IsRun
<1>6. n > 1
  BY <1>1, <1>2, <1>5 DEF LeaveFunction, is_ended
<1>7. PICK m : m = n - 1
  OBVIOUS
<1>8. PICK fs : fs = Front(running)
  OBVIOUS
<1>9. IsChain(fs) /\ Len(fs) = m /\ m \in Nat /\ m > 0 /\ \A i \in 1..m : fs[i] = running[i]
  BY <1>1, <1>2, <1>6, <1>7, <1>8, TopChain DEF HierarchyIInv
<1>10. Matched(fs)
  <2>1. DOMAIN fs = 1..m /\ Matched(running)
    BY <1>9 DEF IsChain, HierarchyIInv, FramesMatch
  <2>2. \A i \in 1..m : i \in 1..n /\ fs[i] = running[i]
    BY <1>2, <1>7, <1>9
  <2>3. \A i \in 1..(m - 1) : i \in 1..(n - 1) /\ fs[i] = running[i] /\ fs[i + 1] = running[i + 1]
    BY <1>2, <1>7, <1>9
  <2>4. \A i \in DOMAIN fs : fs[i].purpose = IF i % 2 = 1 /\ i > 1 THEN "ComputeArgument" ELSE "Main"
    BY <1>2, <2>1, <2>2 DEF Matched
  <2>5. \A i \in 1..(m - 1) :
          LET chain == fs[i].run.step
              above == fs[i + 1]
          IN IF i % 2 = 0
             THEN chain = start_step(above.prog, fs[i].env)
             ELSE relevant_run_step_info(chain) /\ Top(chain).args[1] = above.prog
    BY <1>1, <2>1, <2>3 DEF Matched
  <2> QED
    BY <1>9, <2>4, <2>5 DEF Matched
<1>11. PICK c : c = running[m].run.step
  OBVIOUS
<1>12. IsChain(c) /\ WellFormed(c)
  BY <1>1, <1>7, <1>9, <1>11 DEF HierarchyIInv, IsRun
<1>13. /\ Top(c).kind \in {"Op", "Step"}
       /\ m % 2 = 0 => Len(c) = 2 /\ c[1].kind = "Done"
  <2>1. CASE m % 2 = 0
    <3>1. PICK p, e : c = start_step(p, e)
      BY <1>1, <1>2, <1>7, <1>9, <1>11, <2>1 DEF HierarchyIInv, FramesMatch, Matched
    <3>2. Len(c) = 2 /\ Top(c).kind = "Step"
      BY <3>1, StartShape
    <3> QED
      BY <1>12, <3>2 DEF WellFormed
  <2>2. CASE m % 2 # 0
    <3>1. relevant_run_step_info(c)
      BY <1>1, <1>2, <1>7, <1>9, <1>11, <2>2 DEF HierarchyIInv, FramesMatch, Matched
    <3> QED
      BY <2>2, <3>1 DEF relevant_run_step_info
  <2> QED
    BY <2>1, <2>2
<1>14. PICK d : d = step_return_value(c, v)
  OBVIOUS
<1>15. /\ IsRun(RunFrom(d)) /\ RunFrom(d).step = d
       /\ Len(d) = Len(c) /\ d[Len(d)].kind = "OpResult" /\ d[1] = c[1]
  BY <1>12, <1>13, <1>14, ResumedShape
<1> DEFINE g == [fs[m] EXCEPT !.env = v, !.run = RunFrom(d)]
           new == [fs EXCEPT ![m] = g]
<1>16. running' = new
  <2>1. running' = Resume(fs, v)
    BY <1>1, <1>2, <1>3, <1>6, <1>8 DEF LeaveFunction
  <2>2. DOMAIN fs[m] = FrameFields /\ fs[m].run.step = c /\ DOMAIN fs = 1..m
    BY <1>1, <1>2, <1>7, <1>9, <1>11 DEF HierarchyIInv, IsChain
  <2>3. Resume(fs, v) = [fs EXCEPT ![m].env = v, ![m].run = RunFrom(d)]
    BY <1>9, <1>14, <2>2 DEF Resume, FrameFields
  <2>4. [fs EXCEPT ![m].env = v, ![m].run = RunFrom(d)] = new
    BY <1>9, <2>2 DEF FrameFields
  <2> QED
    BY <2>1, <2>3, <2>4
<1>17. DOMAIN g = FrameFields /\ g.run = RunFrom(d) /\ g.purpose = fs[m].purpose /\ g.prog = fs[m].prog
  BY <1>1, <1>2, <1>7, <1>9 DEF HierarchyIInv, FrameFields
<1> HIDE DEF g
<1>18. /\ IsChain(new) /\ Len(new) = m /\ new[m] = g
       /\ \A i \in 1..(m - 1) : new[i] = fs[i]
       /\ Matched(new)
  <2>1. Len(fs) > 0 /\ g.purpose = fs[Len(fs)].purpose /\ g.prog = fs[Len(fs)].prog
    BY <1>9, <1>17
  <2> DEFINE d2 == [fs EXCEPT ![Len(fs)] = g]
  <2>2. /\ IsChain(d2) /\ Len(d2) = Len(fs) /\ d2[Len(fs)] = g
        /\ \A i \in 1..(Len(fs) - 1) : d2[i] = fs[i]
        /\ Matched(d2)
    BY <1>9, <1>10, <2>1, TopReplaced
  <2> HIDE DEF d2
  <2>3. d2 = new
    BY <1>9 DEF d2
  <2> QED
    BY <1>9, <2>2, <2>3
<1> HIDE DEF new
<1>19. \A i \in 1..m : DOMAIN new[i] = FrameFields /\ IsRun(new[i].run)
  <2> SUFFICES ASSUME NEW i \in 1..m
               PROVE  DOMAIN new[i] = FrameFields /\ IsRun(new[i].run)
    OBVIOUS
  <2>1. CASE i = m
    BY <1>15, <1>17, <1>18, <2>1
  <2>2. CASE i \in 1..(m - 1)
    <3>1. new[i] = running[i] /\ i \in 1..Len(running)
      BY <1>1, <1>2, <1>7, <1>9, <1>18, <2>2
    <3> QED
      BY <3>1 DEF HierarchyIInv
  <2> QED
    BY <1>9, <2>1, <2>2
<1>20. m % 2 = 0 => OnlyReturns(Last(new).run.step)
  BY <1>13, <1>15, <1>17, <1>18 DEF OnlyReturns, Last
<1>21. \A i \in 1..(m - 1) : new[i] = running[i]
  BY <1>9, <1>18
<1>22. new[m].run = RunFrom(step_return_value(running[m].run.step, v)) /\ m = n - 1
  BY <1>7, <1>11, <1>14, <1>17, <1>18
<1> QED
  BY <1>1, <1>3, <1>4, <1>9, <1>16, <1>18, <1>19, <1>20, <1>21, <1>22

\* The program's own frame and one more for each function being run.
LEMMA FramesCounted ==
  ASSUME NEW fs, IsChain(fs), Len(fs) > 0, Matched(fs)
  PROVE  /\ running_frames(fs) \in Nat /\ running_frames(fs) > 0
         /\ Len(fs) = 1 => running_frames(fs) = 1
<1> DEFINE mains == {i \in DOMAIN fs : fs[i].purpose = "Main"}
           n == Cardinality(mains)
<1>1. Len(fs) \in Nat /\ DOMAIN fs = 1..Len(fs)
  BY DEF IsChain
<1>2. IsFiniteSet(mains)
  <2>1. IsFiniteSet(1..Len(fs))
    BY <1>1, FS_Interval
  <2> QED
    BY <1>1, <2>1, FS_Subset
<1>3. 1 \in mains
  BY <1>1 DEF Matched
<1>4. n \in Nat /\ n > 0
  BY <1>2, <1>3, FS_CardinalityType, FS_EmptySet
<1>5. n = running_frames(fs)
  BY DEF running_frames
<1>6. Len(fs) = 1 => n = 1
  <2>1. Len(fs) = 1 => mains = {1}
    BY <1>1, <1>3
  <2> QED
    BY <2>1, FS_Singleton
<1> QED
  BY <1>4, <1>5, <1>6

\* The rows stay in as many levels as there are functions being run, the
\* program's own at least.
LEMMA RowsKept ==
  ASSUME NEW fs, IsChain(fs), Len(fs) > 0, Matched(fs), NEW stack
  PROVE  Len(AddRow(stack, running_frames(fs))) >= 1
<1>1. PICK n \in Nat : n = running_frames(fs) /\ n > 0
  BY FramesCounted
<1>2. \A s : Len(Nest(s, n)) = n
  BY <1>1 DEF Nest
<1> QED
  BY <1>1, <1>2 DEF AddRow

\* Every step keeps the invariant.
LEMMA HierarchyNextKeeps ==
  ASSUME HierarchyIInv, [HierarchyNext]_hierarchyVars
  PROVE  HierarchyIInv'
<1>1. CASE EnterFunction
  <2>1. Len(running') % 2 = 1 /\ Len(running') > 0
    <3>1. Len(running') = Len(running) + 2 /\ Len(running) % 2 = 1
      BY <1>1, EnterFrames
    <3>2. Len(running) \in Nat
      BY DEF HierarchyIInv, IsChain
    <3> QED
      BY <3>1, <3>2
  <2> QED
    BY <1>1, <2>1, EnterFrames DEF EnterFunction, HierarchyIInv, FramesMatch
<1>2. CASE LeaveFunction
  BY <1>2, LeaveFrames DEF LeaveFunction, HierarchyIInv, FramesMatch
<1>3. ASSUME NEW showing \in BOOLEAN, StepRun(showing)
      PROVE  HierarchyIInv'
  <2>1. /\ Matched(running') /\ IsChain(running') /\ Len(running') = Len(running)
        /\ \A i \in 1..Len(running) : DOMAIN running'[i] = FrameFields /\ IsRun(running'[i].run)
        /\ Len(running) % 2 = 0 => OnlyReturns(Last(running').run.step)
    BY <1>3, StepFrames
  <2>2. Len(output_stack') >= 1 /\ shown' \in Nat
    <3>1. CASE showing
      <4>1. output_stack' = AddRow(output_stack, running_frames(running')) /\ shown' = shown + 1
        BY <1>3, <3>1 DEF StepRun
      <4>2. PICK fs : fs = running'
        OBVIOUS
      <4>3. Len(AddRow(output_stack, running_frames(fs))) >= 1
        BY <2>1, <4>2, RowsKept DEF HierarchyIInv
      <4> QED
        BY <4>1, <4>2, <4>3 DEF HierarchyIInv
    <3>2. CASE ~showing
      BY <1>3, <3>2 DEF StepRun, HierarchyIInv
    <3> QED
      BY <3>1, <3>2
  <2>3. error' \in BOOLEAN
    BY <1>3, Zenon DEF StepRun
  <2> QED
    BY <2>1, <2>2, <2>3 DEF HierarchyIInv, FramesMatch
<1>4. CASE HierarchyTerminated \/ UNCHANGED hierarchyVars
  BY <1>4 DEF HierarchyTerminated, hierarchyVars, HierarchyIInv, FramesMatch
<1> QED
  BY <1>1, <1>2, <1>3, <1>4 DEF HierarchyNext, StepSilently, StepShowing

LEMMA HierarchyInductive == HierarchySpec => []HierarchyIInv
<1>1. HierarchyIInv /\ [HierarchyNext]_hierarchyVars => HierarchyIInv'
  BY HierarchyNextKeeps
<1> QED
  BY HierarchyInitHolds, <1>1, PTL DEF HierarchySpec

\* The state keeps its type, and the chain of every frame's run its shape,
\* the ones that were resumed with a function's value included
\* (cldb_hierarchy.rs HierarchialRunner::step).
THEOREM HierarchyTypeCorrect == HierarchySpec => []HierarchyTypeOK
<1>1. HierarchyIInv => HierarchyTypeOK
  <2> SUFFICES ASSUME HierarchyIInv PROVE HierarchyTypeOK
    OBVIOUS
  <2>1. DOMAIN running = 1..Len(running) /\ running # <<>>
    BY DEF HierarchyIInv, IsChain
  <2>2. \A i \in DOMAIN running :
          /\ running[i].purpose \in {"Main", "ComputeArgument"}
          /\ WellFormed(running[i].run.step)
          /\ running[i].run.final_result # NoResult => running[i].run.ended
    BY <2>1 DEF HierarchyIInv, FramesMatch, Matched, IsRun
  <2> QED
    BY <2>1, <2>2 DEF HierarchyIInv, HierarchyTypeOK
<1> QED
  BY HierarchyInductive, <1>1, PTL

\* Frames and runs stay matched, however functions are nested in each other's
\* arguments and bodies (cldb_hierarchy.rs push_synthetic_stack_frame, step).
THEOREM FramesStayMatched == HierarchySpec => []FramesMatch
<1>1. HierarchyIInv => FramesMatch
  BY DEF HierarchyIInv
<1> QED
  BY HierarchyInductive, <1>1, PTL
\* What the hierarchical debugger adds to the rules.  It enters a function as
\* soon as the arguments of the application are known, before run_step has
\* counted them: two of more arguments are enough (relevant_run_step_info).
CallRule(t) == relevant_run_step_info(<<t>>) => Leads(Step(t.args[1], t.args[2]), t)

LevelRules == Rules({}) /\ \A t : CallRule(t)

\* What the run of the i-th frame computes: the program's value, or that of
\* the function the run below the frame's pair is about to apply.
Goal(w, fs, i) ==
  LET t == Top(fs[IF i % 2 = 0 THEN i - 1 ELSE i - 2].run.step)
  IN IF i = 1 THEN w ELSE Step(t.args[1], t.args[2])

\* The runs that compute are sound, and so is one that takes over a value.
FramesSound(w, fs) ==
  /\ \A i \in 1..Len(fs) : fs[i].run.overrides = {}
  /\ \A i \in 1..Len(fs) : i % 2 = 1 \/ i = Len(fs) =>
       /\ Sound(Goal(w, fs, i), fs[i].run.step)
       /\ Fails(Goal(w, fs, i)) => Fails(w)

\* A run that has ended well has its value.
HasItsValue(r) == Top(r.step).kind = "Done" /\ r.final_result = Top(r.step).val

\* The debugger shows a value that the program comes to, and reports only a
\* program that fails as failed.
LevelsDerived ==
  LET w == Step(program.prog, program.env)
  IN /\ is_ended /\ ~error => Comes(w, running[1].run.final_result)
     /\ error => Fails(w)

LevelsInv ==
  LET w == Step(program.prog, program.env)
      r == running[Len(running)].run
  IN /\ FramesSound(w, running)
     /\ error => Fails(w)
     /\ r.ended /\ ~error => HasItsValue(r)

\* An application that is entered fails if its function does, and takes the
\* function's value as its own.
LEMMA CallSound ==
  ASSUME \A t : CallRule(t), NEW w, NEW c, IsChain(c), WellFormed(c), Sound(w, c),
         relevant_run_step_info(c)
  PROVE  LET f == Step(Top(c).args[1], Top(c).args[2])
         IN /\ Fails(f) => Fails(w)
            /\ \A v : Comes(f, v) => Sound(w, step_return_value(c, v))
<1> DEFINE t == Top(c)
           f == Step(t.args[1], t.args[2])
<1>1. PICK n \in Nat : Len(c) = n /\ n > 1 /\ t = c[n] /\ t.kind = "Op"
  BY DEF IsChain, WellFormed, Top, Last, relevant_run_step_info
<1>2. PICK g : Callers(w, g, c, n - 1) /\ Answers(c[n], g[n])
  BY <1>1 DEF Sound
<1>3. Waiting(w, g, c)
  BY <1>1, <1>2 DEF Waiting, Answers
<1>4. Leads(f, t)
  <2>1. Top(<<t>>) = t
    BY DEF Top, Last
  <2>2. relevant_run_step_info(<<t>>)
    BY <2>1 DEF relevant_run_step_info
  <2> QED
    BY <2>2 DEF CallRule
<1> HIDE DEF f, t
<1>5. Leads(f, g[n])
  BY <1>1, <1>2, <1>4, LeadsOn DEF Answers
<1>6. Fails(f) => Fails(w)
  <2>1. n \in 2..((n - 1) + 1)
    BY <1>1
  <2> QED
    BY <1>2, <1>5, <2>1 DEF Leads, Callers
<1>7. ASSUME NEW v, Comes(f, v) PROVE Sound(w, step_return_value(c, v))
  <2> DEFINE d == ReplaceTop(c, OpResult(v))
  <2>1. Answers(OpResult(v), g[Len(c)])
    BY <1>1, <1>5, <1>7 DEF Leads, Answers, Framed, OpResult
  <2>2. Outcome(w, d)
    BY <1>3, <2>1, ReplaceSound
  <2>3. Len(d) = n /\ step_return_value(c, v) = d
    BY <1>1, TopChain DEF step_return_value
  <2> HIDE DEF d
  <2> QED
    BY <1>1, <2>2, <2>3 DEF Outcome, Failed
<1> QED
  BY <1>6, <1>7 DEF f, t

\* The frame of a function takes over the value of the function.
LEMMA TakesOver ==
  ASSUME NEW w, NEW v, Comes(w, v), NEW p, NEW e
  PROVE  Sound(w, step_return_value(start_step(p, e), v))
<1> DEFINE a == Done(p)
           b == Step(p, e)
           f == OpResult(v)
           c == <<a, b>>
           d == ReplaceTop(c, f)
           g == [i \in Nat |-> w]
<1>1. Answers(f, w)
  BY DEF Answers, Framed, OpResult
<1>2. start_step(p, e) = c
  BY DEF start_step
<1> HIDE DEF a, b, f
<1>3. IsChain(c) /\ Len(c) = 2
  <2>1. c \in Seq({a, b})
    OBVIOUS
  <2> QED
    BY <2>1 DEF IsChain
<1> HIDE DEF c
<1>4. Len(d) = 2 /\ d[2] = f /\ step_return_value(c, v) = d
  BY <1>3, TopChain DEF step_return_value, f
<1> HIDE DEF d
<1>5. g[2] = w /\ \A i \in 2..(1 + 1) : g[i] = w
  OBVIOUS
<1> HIDE DEF g
<1>6. Callers(w, g, d, 1)
  BY <1>5 DEF Callers
<1>7. 2 - 1 = 1 /\ 2 > 1 /\ 2 \in Nat
  OBVIOUS
<1> QED
  BY <1>1, <1>2, <1>4, <1>5, <1>6, <1>7 DEF Sound

\* Frames that share their callers share their goals.
LEMMA SameGoals ==
  ASSUME NEW w, NEW fs, NEW gs, NEW n \in Nat, \A i \in 1..n : gs[i] = fs[i]
  PROVE  \A i \in 1..(n + 1) : Goal(w, gs, i) = Goal(w, fs, i)
<1> SUFFICES ASSUME NEW i \in 1..(n + 1) PROVE Goal(w, gs, i) = Goal(w, fs, i)
  OBVIOUS
<1>1. CASE i = 1
  BY <1>1 DEF Goal
<1>2. CASE i # 1
  <2>1. CASE i % 2 = 0
    <3>1. i - 1 \in 1..n
      BY <1>2
    <3> QED
      BY <1>2, <2>1, <3>1 DEF Goal
  <2>2. CASE i % 2 # 0
    <3>1. i - 2 \in 1..n
      BY <1>2, <2>2
    <3> QED
      BY <1>2, <2>2, <3>1 DEF Goal
  <2> QED
    BY <2>1, <2>2
<1> QED
  BY <1>1, <1>2

\* The program's own frame is sound before the first step.
LEMMA LevelsInitHolds == HierarchyInit => LevelsInv
<1> SUFFICES ASSUME NEW p, HierarchyStart(p) PROVE LevelsInv
  BY DEF HierarchyInit
<1> DEFINE c == start_step(p[1], p[2])
           w == Step(p[1], p[2])
           f == Frame("Main", p[1], p[2], c)
<1>1. Sound(w, c)
  BY StartSound
<1>2. f.run.step = c /\ f.run.overrides = {} /\ f.run.ended = FALSE
  BY DEF Frame, RunFrom, new_run
<1>3. Step(program.prog, program.env) = w /\ running = <<f>> /\ error = FALSE
  BY DEF HierarchyStart
<1> HIDE DEF c, w, f
<1>4. <<f>>[1] = f /\ Len(<<f>>) = 1
  OBVIOUS
<1>5. Goal(w, running, 1) = w
  BY DEF Goal
<1> QED
  BY <1>1, <1>2, <1>3, <1>4, <1>5 DEF LevelsInv, FramesSound

\* A run that is sound stays so, and does not fail unless its goal does.
LEMMA SoundRunSteps ==
  ASSUME Rules({}), NEW r, IsRun(r), r.overrides = {}, r.ended => HasItsValue(r),
         NEW w, Sound(w, r.step), NEW s, s = cldb_step(r, FALSE)
  PROVE  /\ s.run.overrides = {} /\ Sound(w, s.run.step)
         /\ s.out.kind = "Failure" => Fails(w)
         /\ s.run.ended /\ s.out.kind # "Failure" => HasItsValue(s.run)
<1> DEFINE c == r.step
           next == next_step(r)
<1>1. IsChain(c) /\ WellFormed(c) /\ DOMAIN r = RunFields
  BY DEF IsRun
<1>2. Top(c).kind = "Done" => next = c /\ next # Failed
  <2>1. c # Failed
    BY <1>1 DEF WellFormed, Failed
  <2> QED
    BY <2>1 DEF next_step, run_step, is_overridden
<1>3. /\ next = Failed =>
           s.out.kind = "Failure" /\ Core(s.run, c, r.overrides, TRUE, r.final_result)
      /\ next # Failed /\ Top(next).kind = "Done" =>
           /\ s.out.kind = "Final" /\ s.out.val = Top(next).val
           /\ Core(s.run, next, r.overrides, TRUE, Top(next).val)
      /\ next # Failed /\ Top(next).kind \in Kinds \ {"Done"} =>
           /\ s.out.kind \notin {"Final", "Failure"}
           /\ Core(s.run, next, r.overrides, r.ended, r.final_result)
  BY <1>1, StepCore
<1>4. CASE Top(c).kind = "Done"
  <2> HIDE DEF next
  <2> QED
    BY <1>2, <1>3, <1>4 DEF Core, HasItsValue
<1>5. CASE Top(c).kind # "Done"
  <2>1. Outcome(w, next)
    BY <1>1, <1>5, NextStepSound
  <2>2. next # Failed => Sound(w, next) /\ Top(next).kind \in Kinds
    <3>1. next # Failed => IsChain(next) /\ WellFormed(next)
      BY <1>1, NextStepShape
    <3> QED
      BY <2>1, <3>1 DEF Outcome, IsChain, WellFormed, Top, Last
  <2>3. ~r.ended
    BY <1>5 DEF HasItsValue, IsRun
  <2> HIDE DEF next
  <2> QED
    BY <1>3, <2>1, <2>2, <2>3 DEF Core, HasItsValue, Outcome
<1> QED
  BY <1>4, <1>5

\* The last frame's run takes a step.
LEMMA StepLevels ==
  ASSUME LevelRules, HierarchyIInv, LevelsInv, NEW showing \in BOOLEAN, StepRun(showing)
  PROVE  LevelsInv'
<1> DEFINE w == Step(program.prog, program.env)
<1>1. PICK n \in Nat : n = Len(running) /\ n > 0
  BY DEF HierarchyIInv, IsChain
<1>2. PICK r : r = running[n].run
  OBVIOUS
<1>3. PICK s : s = cldb_step(r, FALSE)
  OBVIOUS
<1>4. PICK fs : fs = running
  OBVIOUS
<1>5. PICK gs : gs = running'
  OBVIOUS
<1>6. /\ Len(fs) = n /\ Len(gs) = n /\ gs[n].run = s.run
      /\ \A i \in 1..(n - 1) : gs[i] = fs[i]
  BY <1>1, <1>2, <1>3, <1>4, <1>5, StepFrames
<1>7. ~error /\ Last(running) = running[n]
  BY <1>1 DEF StepRun, is_ended, Last
<1>8. error' = (s.out.kind = "Failure") /\ program' = program
  BY <1>2, <1>3, <1>7 DEF StepRun
<1>9. FramesSound(w, fs)
  BY <1>4 DEF LevelsInv
<1> HIDE DEF w
<1>10. /\ IsRun(r) /\ r.overrides = {} /\ Sound(Goal(w, fs, n), r.step)
       /\ Fails(Goal(w, fs, n)) => Fails(w)
       /\ r.ended => HasItsValue(r)
  <2>1. n \in 1..n
    BY <1>1
  <2>2. IsRun(r)
    BY <1>1, <1>2, <2>1 DEF HierarchyIInv
  <2>3. r.ended => HasItsValue(r)
    BY <1>1, <1>2, <1>7 DEF LevelsInv
  <2> QED
    BY <1>2, <1>4, <1>6, <1>9, <2>1, <2>2, <2>3 DEF FramesSound
<1>11. /\ s.run.overrides = {} /\ Sound(Goal(w, fs, n), s.run.step)
       /\ s.out.kind = "Failure" => Fails(Goal(w, fs, n))
       /\ s.run.ended /\ s.out.kind # "Failure" => HasItsValue(s.run)
  BY <1>3, <1>10, SoundRunSteps DEF LevelRules
<1>12. \A i \in 1..n : Goal(w, gs, i) = Goal(w, fs, i)
  <2>1. PICK m \in Nat : n = m + 1
    <3>1. n - 1 \in Nat /\ n = (n - 1) + 1
      BY <1>1
    <3> QED
      BY <3>1
  <2>2. \A i \in 1..m : gs[i] = fs[i]
    BY <1>6, <2>1
  <2> QED
    BY <2>1, <2>2, SameGoals
<1>13. FramesSound(w, gs)
  <2> SUFFICES ASSUME NEW i \in 1..n
               PROVE  /\ gs[i].run.overrides = {}
                      /\ i % 2 = 1 \/ i = n => /\ Sound(Goal(w, gs, i), gs[i].run.step)
                                               /\ Fails(Goal(w, gs, i)) => Fails(w)
    BY <1>6 DEF FramesSound
  <2>1. CASE i = n
    BY <1>6, <1>10, <1>11, <1>12, <2>1
  <2>2. CASE i # n
    <3>1. i \in 1..(n - 1)
      BY <1>1, <2>2
    <3> QED
      BY <1>6, <1>9, <1>12, <2>2, <3>1 DEF FramesSound
  <2> QED
    BY <2>1, <2>2
<1>14. error' => Fails(w)
  BY <1>8, <1>10, <1>11
<1>15. gs[n].run.ended /\ ~error' => HasItsValue(gs[n].run)
  BY <1>6, <1>8, <1>11
<1>16. w = Step(program'.prog, program'.env)
  BY <1>8 DEF w
<1> QED
  BY <1>5, <1>6, <1>13, <1>14, <1>15, <1>16 DEF LevelsInv

\* A function is entered: its run computes what the application waits for.
LEMMA EnterLevels ==
  ASSUME LevelRules, HierarchyIInv, LevelsInv, EnterFunction
  PROVE  LevelsInv'
<1> DEFINE w == Step(program.prog, program.env)
<1>1. PICK n \in Nat : n = Len(running) /\ n > 0
  BY DEF HierarchyIInv, IsChain
<1>2. PICK fs : fs = running
  OBVIOUS
<1>3. PICK gs : gs = running'
  OBVIOUS
<1>4. PICK c : c = fs[n].run.step
  OBVIOUS
<1>5. PICK f : f = Step(Top(c).args[1], Top(c).args[2])
  OBVIOUS
<1>6. PICK chain : chain = start_step(Top(c).args[1], Top(c).args[2])
  OBVIOUS
<1>7. /\ Len(fs) = n /\ Len(gs) = n + 2 /\ n % 2 = 1
      /\ \A i \in 1..n : gs[i] = fs[i]
      /\ relevant_run_step_info(c)
      /\ \E p, e : gs[n + 1].run = RunFrom(start_step(p, e))
      /\ gs[n + 2].run = RunFrom(chain)
  BY <1>1, <1>2, <1>3, <1>4, <1>6, EnterFrames
<1>8. FramesSound(w, fs)
  BY <1>2 DEF LevelsInv
<1> HIDE DEF w
<1>9. /\ gs[n + 1].run.overrides = {}
      /\ gs[n + 2].run.overrides = {} /\ gs[n + 2].run.step = chain /\ ~gs[n + 2].run.ended
  BY <1>7 DEF RunFrom, new_run
<1>10. Goal(w, gs, n + 2) = f
  <2>1. (n + 2) % 2 # 0 /\ n + 2 # 1 /\ (n + 2) - 2 = n /\ n \in 1..n
    BY <1>1, <1>7
  <2> QED
    BY <1>4, <1>5, <1>7, <2>1 DEF Goal
<1>11. Sound(f, chain)
  BY <1>5, <1>6, StartSound
<1>12. Fails(f) => Fails(w)
  <2>1. n \in 1..n
    BY <1>1
  <2>2. Sound(Goal(w, fs, n), c) /\ (Fails(Goal(w, fs, n)) => Fails(w))
    BY <1>4, <1>7, <1>8, <2>1 DEF FramesSound
  <2>3. IsChain(c) /\ WellFormed(c)
    BY <1>1, <1>2, <1>4, <2>1 DEF HierarchyIInv, IsRun
  <2>4. \A t : CallRule(t)
    BY DEF LevelRules
  <2>5. Fails(f) => Fails(Goal(w, fs, n))
    BY <1>5, <1>7, <2>2, <2>3, <2>4, CallSound
  <2> QED
    BY <2>2, <2>5
<1>13. \A i \in 1..n : Goal(w, gs, i) = Goal(w, fs, i)
  <2>1. \A i \in 1..n : gs[i] = fs[i]
    BY <1>7
  <2>2. \A i \in 1..(n + 1) : Goal(w, gs, i) = Goal(w, fs, i)
    BY <2>1, SameGoals
  <2> QED
    BY <2>2
<1>14. FramesSound(w, gs)
  <2> SUFFICES ASSUME NEW i \in 1..(n + 2)
               PROVE  /\ gs[i].run.overrides = {}
                      /\ i % 2 = 1 \/ i = n + 2 => /\ Sound(Goal(w, gs, i), gs[i].run.step)
                                                   /\ Fails(Goal(w, gs, i)) => Fails(w)
    BY <1>7 DEF FramesSound
  <2>1. CASE i = n + 2
    BY <1>9, <1>10, <1>11, <1>12, <2>1
  <2>2. CASE i = n + 1
    <3>1. i % 2 # 1
      BY <1>1, <1>7, <2>2
    <3> QED
      BY <1>9, <2>2, <3>1
  <2>3. CASE i \in 1..n
    <3>1. i # n + 2 /\ i \in 1..Len(fs) /\ gs[i] = fs[i]
      BY <1>1, <1>7, <2>3
    <3> QED
      BY <1>8, <1>13, <2>3, <3>1 DEF FramesSound
  <2> QED
    BY <1>1, <2>1, <2>2, <2>3
<1>15. program' = program /\ error' = error /\ ~error
  BY DEF EnterFunction, is_ended
<1>16. w = Step(program'.prog, program'.env)
  BY <1>15 DEF w
<1> QED
  BY <1>3, <1>7, <1>9, <1>14, <1>15, <1>16 DEF LevelsInv

\* A frame is left: the run below takes the value it has been waiting for.
LEMMA LeaveLevels ==
  ASSUME LevelRules, HierarchyIInv, LevelsInv, LeaveFunction
  PROVE  LevelsInv'
<1> DEFINE w == Step(program.prog, program.env)
<1>1. PICK fs : fs = running
  OBVIOUS
<1>2. PICK gs : gs = running'
  OBVIOUS
<1>3. PICK n \in Nat : n = Len(running)
  BY DEF HierarchyIInv, IsChain
<1>4. PICK v : v = fs[n].run.final_result
  OBVIOUS
<1>5. Len(gs) \in Nat
  BY <1>2, LeaveFrames DEF IsChain
<1>6. PICK m \in Nat : m = Len(gs)
  BY <1>5
<1>7. PICK c : c = fs[m].run.step
  OBVIOUS
<1>8. /\ Len(fs) = n /\ Len(gs) = m /\ n = m + 1 /\ m > 0
      /\ \A i \in 1..(m - 1) : gs[i] = fs[i]
      /\ gs[m].run = RunFrom(step_return_value(c, v))
      /\ v # NoResult
  <2>1. /\ Len(running') > 0 /\ Len(running') = Len(running) - 1
        /\ running[Len(running)].run.final_result # NoResult
        /\ \A i \in 1..(Len(running') - 1) : running'[i] = running[i]
        /\ running'[Len(running')].run =
             RunFrom(step_return_value(running[Len(running')].run.step, running[Len(running)].run.final_result))
    BY LeaveFrames
  <2> QED
    BY <1>1, <1>2, <1>3, <1>4, <1>6, <1>7, <2>1
<1>9. FramesSound(w, fs) /\ ~error
  BY <1>1 DEF LevelsInv, LeaveFunction, is_ended
<1>10. program' = program /\ error' = error
  BY DEF LeaveFunction
<1>11. w = Step(program'.prog, program'.env)
  BY <1>10
<1> HIDE DEF w
<1>12. /\ Comes(Goal(w, fs, n), v)
       /\ Fails(Goal(w, fs, n)) => Fails(w)
  <2>1. n \in 1..n
    BY <1>8
  <2>2. IsRun(fs[n].run)
    BY <1>1, <1>3, <2>1 DEF HierarchyIInv
  <2>3. fs[n].run.ended
    BY <1>4, <1>8, <2>2 DEF IsRun
  <2>4. HasItsValue(fs[n].run)
    BY <1>1, <1>3, <1>9, <2>3 DEF LevelsInv
  <2>5. Sound(Goal(w, fs, n), fs[n].run.step) /\ (Fails(Goal(w, fs, n)) => Fails(w))
    BY <1>8, <1>9, <2>1 DEF FramesSound
  <2> QED
    BY <1>4, <2>2, <2>4, <2>5, DoneComes DEF IsRun, HasItsValue
<1>13. PICK d : d = step_return_value(c, v)
  OBVIOUS
<1>14. gs[m].run.overrides = {} /\ gs[m].run.step = d /\ ~gs[m].run.ended
  BY <1>8, <1>13 DEF RunFrom, new_run
<1>15. \A i \in 1..m : Goal(w, gs, i) = Goal(w, fs, i)
  <2>1. PICK k \in Nat : m = k + 1
    <3>1. m - 1 \in Nat /\ m = (m - 1) + 1
      BY <1>8
    <3> QED
      BY <3>1
  <2>2. \A i \in 1..k : gs[i] = fs[i]
    BY <1>8, <2>1
  <2> QED
    BY <2>1, <2>2, SameGoals
<1>16. IsChain(c) /\ WellFormed(c) /\ m \in 1..Len(fs) /\ m \in 1..(Len(fs) - 1)
  BY <1>1, <1>7, <1>8 DEF HierarchyIInv, IsRun
<1>17. Matched(fs)
  BY <1>1 DEF HierarchyIInv, FramesMatch
<1>18. /\ Sound(Goal(w, fs, m), d)
       /\ Fails(Goal(w, fs, m)) => Fails(w)
  <2>1. CASE m % 2 = 0
    <3>1. PICK p, e : c = start_step(p, e)
      BY <1>7, <1>16, <1>17, <2>1 DEF Matched
    <3>2. Goal(w, fs, m) = Goal(w, fs, n)
      <4>1. n # 1 /\ m # 1 /\ n % 2 # 0 /\ n - 2 = m - 1
        BY <1>8, <2>1
      <4> QED
        BY <2>1, <4>1 DEF Goal
    <3> QED
      BY <1>12, <1>13, <3>1, <3>2, TakesOver
  <2>2. CASE m % 2 # 0
    <3>1. m % 2 = 1
      BY <2>2
    <3>2. Sound(Goal(w, fs, m), c) /\ (Fails(Goal(w, fs, m)) => Fails(w))
      BY <1>7, <1>9, <1>16, <3>1 DEF FramesSound
    <3>3. relevant_run_step_info(c)
      BY <1>7, <1>16, <1>17, <2>2 DEF Matched
    <3>4. Goal(w, fs, n) = Step(Top(c).args[1], Top(c).args[2])
      <4>1. n # 1 /\ n % 2 = 0 /\ n - 1 = m
        BY <1>8, <3>1
      <4> QED
        BY <1>7, <4>1 DEF Goal
    <3>5. \A t : CallRule(t)
      BY DEF LevelRules
    <3>6. \A u : Comes(Goal(w, fs, n), u) => Sound(Goal(w, fs, m), step_return_value(c, u))
      BY <1>16, <3>2, <3>3, <3>4, <3>5, CallSound
    <3> QED
      BY <1>12, <1>13, <3>2, <3>6
  <2> QED
    BY <2>1, <2>2
<1>19. FramesSound(w, gs)
  <2> SUFFICES ASSUME NEW i \in 1..m
               PROVE  /\ gs[i].run.overrides = {}
                      /\ i % 2 = 1 \/ i = m => /\ Sound(Goal(w, gs, i), gs[i].run.step)
                                               /\ Fails(Goal(w, gs, i)) => Fails(w)
    BY <1>8 DEF FramesSound
  <2>1. CASE i = m
    BY <1>14, <1>15, <1>18, <2>1
  <2>2. CASE i # m
    <3>1. i \in 1..(m - 1) /\ i \in 1..Len(fs) /\ i # Len(fs)
      BY <1>8, <2>2
    <3> QED
      BY <1>8, <1>9, <1>15, <2>2, <3>1 DEF FramesSound
  <2> QED
    BY <2>1, <2>2
<1> QED
  BY <1>2, <1>8, <1>9, <1>10, <1>11, <1>14, <1>19 DEF LevelsInv

\* Seen from outside the stack of runs is one run: what it comes to at last
\* the program comes to, and it fails only if the program does, however
\* functions call each other (cldb_hierarchy.rs HierarchialRunner::step).
THEOREM LevelsAreDerived ==
  ASSUME LevelRules
  PROVE  HierarchySpec => []LevelsDerived
<1>1. HierarchyIInv /\ LevelsInv /\ [HierarchyNext]_hierarchyVars => LevelsInv'
  <2> SUFFICES ASSUME HierarchyIInv, LevelsInv, [HierarchyNext]_hierarchyVars PROVE LevelsInv'
    OBVIOUS
  <2>1. CASE EnterFunction
    BY <2>1, EnterLevels
  <2>2. CASE LeaveFunction
    BY <2>2, LeaveLevels
  <2>3. ASSUME NEW showing \in BOOLEAN, StepRun(showing) PROVE LevelsInv'
    BY <2>3, StepLevels
  <2>4. CASE HierarchyTerminated \/ UNCHANGED hierarchyVars
    BY <2>4 DEF HierarchyTerminated, hierarchyVars, LevelsInv
  <2> QED
    BY <2>1, <2>2, <2>3, <2>4 DEF HierarchyNext, StepSilently, StepShowing
<1>2. HierarchyIInv /\ LevelsInv => LevelsDerived
  <2> SUFFICES ASSUME HierarchyIInv, LevelsInv, is_ended, ~error
               PROVE  Comes(Step(program.prog, program.env), running[1].run.final_result)
    BY DEF LevelsInv, LevelsDerived
  <2> DEFINE w == Step(program.prog, program.env)
             r == running[1].run
  <2>1. Len(running) = 1 /\ r.ended
    <3>1. Len(running) # 0
      BY DEF HierarchyIInv
    <3> QED
      BY <3>1 DEF is_ended
  <2>2. HasItsValue(r)
    BY <2>1 DEF LevelsInv
  <2>3. Goal(w, running, 1) = w
    BY DEF Goal
  <2>4. Sound(w, r.step)
    <3>1. FramesSound(w, running) /\ 1 \in 1..Len(running)
      BY <2>1 DEF LevelsInv
    <3> QED
      BY <2>1, <2>3, <3>1 DEF FramesSound
  <2>5. IsChain(r.step) /\ WellFormed(r.step)
    BY <2>1 DEF HierarchyIInv, IsRun
  <2> HIDE DEF w
  <2> QED
    BY <2>2, <2>4, <2>5, DoneComes DEF HasItsValue, w
<1>3. HierarchyIInv /\ [HierarchyNext]_hierarchyVars => HierarchyIInv'
  BY HierarchyNextKeeps
<1> QED
  BY HierarchyInitHolds, LevelsInitHolds, <1>1, <1>2, <1>3, PTL DEF HierarchySpec
(***************************************************************************)
(* The tree of the hierarchical debugger's rows.                           *)
(***************************************************************************)

\* Induction over the numbers, with a set in the place of a predicate.
LEMMA SetInduction ==
  ASSUME NEW S, 0 \in S, \A n \in Nat : n \in S => n + 1 \in S
  PROVE  \A n \in Nat : n \in S
<1> DEFINE T == Nat \ S
           R == OpToRel(<, Nat)
<1>1. IsWellFoundedOn(R, Nat)
  BY NatLessThanWellFounded
<1> SUFFICES ASSUME T # {} PROVE FALSE
  OBVIOUS
<1>2. \A x, y \in Nat : x < y => <<x, y>> \in R
  BY DEF OpToRel
<1> HIDE DEF R
<1>3. T \subseteq Nat
  OBVIOUS
<1>4. PICK x \in T : \A y \in T : ~ (<<y, x>> \in R)
  <2> HIDE DEF T
  <2> QED
    BY <1>1, <1>3, WFMin
<1>5. x # 0 /\ x - 1 \in Nat /\ x - 1 < x /\ (x - 1) + 1 = x
  OBVIOUS
<1>6. x - 1 \notin T
  BY <1>2, <1>4, <1>5
<1> QED
  BY <1>4, <1>5, <1>6

\* The levels of a stack, each with the ones beyond it.
Levels(stack, f) ==
  \A i \in 1..Len(stack) : f[i] = IF i = Len(stack) THEN stack[i] ELSE Append(stack[i], Compute(f[i + 1]))

\* The first n of them, with what the last one has become.
Cut(stack, f, n) == [i \in 1..n |-> IF i < n THEN stack[i] ELSE f[n]]

\* Nesting levels is putting each, from the last on, behind the one before it.
LEMMA NestLevels ==
  ASSUME NEW st, Len(st) \in Nat, NEW n
  PROVE  \E f : Levels(st, f) /\ Nest(st, n) = Cut(st, f, n)
<1> PICK L \in Nat : L = Len(st)
  OBVIOUS
<1> DEFINE Body(f, i) == IF i = L THEN st[i] ELSE Append(st[i], Compute(f[i + 1]))
           From(k) == (L - k + 1)..L
           S == {k \in Nat : k <= L => \E f : f = [i \in From(k) |-> Body(f, i)]}
<1>1. 0 \in S
  <2> DEFINE f == [i \in {} |-> 0]
  <2>1. From(0) = {}
    OBVIOUS
  <2>2. f = [i \in From(0) |-> Body(f, i)]
    BY <2>1
  <2> QED
    BY <2>2
<1>2. ASSUME NEW k \in Nat, k \in S PROVE k + 1 \in S
  <2> SUFFICES ASSUME k + 1 <= L PROVE \E f : f = [i \in From(k + 1) |-> Body(f, i)]
    OBVIOUS
  <2>1. PICK f : f = [i \in From(k) |-> Body(f, i)]
    BY <1>2
  <2> DEFINE g == [i \in From(k + 1) |-> IF i \in From(k) THEN f[i] ELSE Body(f, i)]
  <2>2. \A i \in From(k + 1) : i \in From(k) \/ i = L - k
    OBVIOUS
  <2>3. \A i \in From(k) : i \in From(k + 1) /\ g[i] = f[i]
    OBVIOUS
  <2>4. \A i \in From(k) : Body(f, i) = Body(g, i)
    <3>1. \A i \in From(k) : i # L => i + 1 \in From(k)
      OBVIOUS
    <3> HIDE DEF g
    <3> QED
      BY <2>3, <3>1
  <2>5. L - k \in From(k + 1) /\ Body(f, L - k) = Body(g, L - k)
    <3>1. L - k # L => (L - k) + 1 \in From(k)
      OBVIOUS
    <3> HIDE DEF g
    <3> QED
      BY <2>3, <3>1
  <2>6. g = [i \in From(k + 1) |-> Body(g, i)]
    <3>1. \A i \in From(k + 1) : g[i] = Body(g, i)
      <4> SUFFICES ASSUME NEW i \in From(k + 1) PROVE g[i] = Body(g, i)
        OBVIOUS
      <4>1. CASE i \in From(k)
        <5>1. f[i] = Body(f, i)
          BY <2>1, <4>1
        <5> HIDE DEF g, Body
        <5> QED
          BY <2>3, <2>4, <4>1, <5>1
      <4>2. CASE i \notin From(k)
        <5>1. g[i] = Body(f, i) /\ i = L - k
          BY <2>2, <4>2
        <5> HIDE DEF g, Body
        <5> QED
          BY <2>5, <5>1
      <4> QED
        BY <4>1, <4>2
    <3> QED
      BY <3>1
  <2> QED
    BY <2>6
<1>3. L \in S
  <2> HIDE DEF S
  <2> QED
    BY <1>1, <1>2, SetInduction
<1>4. PICK f : f = [i \in 1..L |-> Body(f, i)]
  BY <1>3
<1> DEFINE level == CHOOSE g : g = [i \in 1..L |-> Body(g, i)]
<1>5. level = [i \in 1..L |-> Body(level, i)]
  BY <1>4
<1>6. Nest(st, n) = Cut(st, level, n)
  BY DEF Nest, Cut
<1> HIDE DEF level
<1>7. Levels(st, level)
  BY <1>5 DEF Levels
<1> QED
  BY <1>6, <1>7

\* How a tree is read: an entry after the ones before it.
ReadingRules ==
  /\ \A n \in Nat : Tells(<<>>, n, n)
  /\ \A es : \A m, n \in Nat :
       IsChain(es) /\ Tells(es, m, n) => Tells(Append(es, Row(n + 1)), m, n + 1)
  /\ \A es, inner : \A m, k, n \in Nat :
       IsChain(es) /\ Tells(es, m, k) /\ Tells(inner, k, n) => Tells(Append(es, Compute(inner)), m, n)

\* The levels, one after the other, are the first n rows.
Bounds(stack, n, b) ==
  /\ b[1] = 0 /\ b[Len(stack) + 1] = n
  /\ \A i \in 1..(Len(stack) + 1) : b[i] \in Nat
  /\ \A i \in 1..Len(stack) : IsChain(stack[i]) /\ Tells(stack[i], b[i], b[i + 1])

Told(stack, n) == IsChain(stack) /\ Len(stack) > 0 /\ \E b : Bounds(stack, n, b)

\* A level that is made has no rows yet.
LEMMA DeepenTold ==
  ASSUME ReadingRules, NEW st, NEW k \in Nat, Told(st, k), NEW n \in Nat, n > 0
  PROVE  Told(Deepen(st, n), k) /\ Len(Deepen(st, n)) > n
<1>1. PICK L \in Nat : L = Len(st) /\ L > 0
  BY DEF Told, IsChain
<1>2. PICK b : Bounds(st, k, b)
  BY DEF Told
<1>3. PICK S : st \in Seq(S)
  BY DEF Told, IsChain
<1>4. CASE L > n
  BY <1>1, <1>4 DEF Deepen
<1>5. CASE L <= n
  <2> DEFINE new == [i \in 1..(n + 1 - L) |-> <<>>]
             d == st \o new
             c == [i \in 1..(n + 2) |-> IF i <= L + 1 THEN b[i] ELSE k]
  <2>1. st \in Seq(S \cup {<<>>}) /\ new \in Seq(S \cup {<<>>}) /\ Len(new) = n + 1 - L
    <3>1. n + 1 - L \in Nat
      BY <1>5
    <3> QED
      BY <1>3, <3>1
  <2>2. \A i \in 1..(n + 1 - L) : new[i] = <<>>
    OBVIOUS
  <2> HIDE DEF new
  <2>3. /\ d \in Seq(S \cup {<<>>}) /\ Len(d) = n + 1
        /\ \A i \in 1..(n + 1) : d[i] = IF i <= L THEN st[i] ELSE new[i - L]
    BY <1>1, <1>5, <2>1, ConcatProperties
  <2> HIDE DEF d
  <2>4. ASSUME NEW i \in 1..(n + 1) PROVE d[i] = IF i <= L THEN st[i] ELSE <<>>
    <3>1. CASE i <= L
      BY <2>3, <3>1
    <3>2. CASE ~(i <= L)
      <4>1. i - L \in 1..(n + 1 - L)
        BY <1>1, <3>2
      <4> QED
        BY <2>2, <2>3, <3>2, <4>1
    <3> QED
      BY <3>1, <3>2
  <2>5. \A i \in 1..(n + 2) : c[i] = IF i <= L + 1 THEN b[i] ELSE k
    OBVIOUS
  <2> HIDE DEF c
  <2>6. <<>> \in Seq({0}) /\ \A i \in Nat : Tells(<<>>, i, i)
    BY DEF ReadingRules
  <2>7. b[L + 1] = k
    BY <1>1, <1>2 DEF Bounds
  <2>8. \A i \in (L + 1)..(n + 2) : c[i] = k
    BY <1>1, <2>5, <2>7
  <2>9. c[1] = 0 /\ c[Len(d) + 1] = k /\ \A i \in 1..(Len(d) + 1) : c[i] \in Nat
    <3>1. c[1] = 0
      BY <1>1, <1>2, <2>5 DEF Bounds
    <3>2. \A i \in 1..(n + 2) : c[i] \in Nat
      BY <1>1, <1>2, <2>5 DEF Bounds
    <3>3. Len(d) + 1 = n + 2 /\ n + 2 \in (L + 1)..(n + 2)
      BY <1>1, <1>5, <2>3
    <3> QED
      BY <2>8, <3>1, <3>2, <3>3
  <2>10. ASSUME NEW i \in 1..(n + 1) PROVE IsChain(d[i]) /\ Tells(d[i], c[i], c[i + 1])
    <3>1. CASE i <= L
      <4>1. c[i] = b[i] /\ c[i + 1] = b[i + 1] /\ d[i] = st[i] /\ i \in 1..L
        BY <1>1, <2>4, <2>5, <3>1
      <4> QED
        BY <1>1, <1>2, <4>1 DEF Bounds
    <3>2. CASE i > L
      <4>1. c[i] = k /\ c[i + 1] = k /\ d[i] = <<>>
        BY <1>1, <2>4, <2>8, <3>2
      <4> QED
        BY <2>6, <4>1 DEF IsChain
    <3> QED
      BY <1>1, <3>1, <3>2
  <2>11. Bounds(d, k, c)
    BY <2>3, <2>9, <2>10 DEF Bounds
  <2>12. Deepen(st, n) = d
    BY <1>1, <1>5 DEF Deepen, d, new
  <2> QED
    BY <2>3, <2>11, <2>12 DEF Told, IsChain
<1> QED
  BY <1>4, <1>5

\* The next row goes to the last level.
LEMMA RowTold ==
  ASSUME ReadingRules, NEW st, NEW k \in Nat, Told(st, k)
  PROVE  LET d == [st EXCEPT ![Len(st)] = Append(@, Row(k + 1))]
         IN Told(d, k + 1) /\ Len(d) = Len(st)
<1>1. PICK L \in Nat : L = Len(st) /\ L > 0
  BY DEF Told, IsChain
<1>2. PICK b : Bounds(st, k, b)
  BY DEF Told
<1>3. PICK S : st \in Seq(S)
  BY DEF Told, IsChain
<1> DEFINE x == Append(st[L], Row(k + 1))
           d == [st EXCEPT ![L] = x]
           c == [b EXCEPT ![L + 1] = k + 1]
           e == [i \in 1..(L + 1) |-> IF i = L + 1 THEN k + 1 ELSE b[i]]
<1>4. IsChain(st[L]) /\ Tells(st[L], b[L], k) /\ b[L] \in Nat
  BY <1>1, <1>2 DEF Bounds
<1>5. IsChain(x) /\ Tells(x, b[L], k + 1)
  BY <1>4, AppendChain DEF ReadingRules
<1> HIDE DEF x
<1>6. d \in Seq(S \cup {x}) /\ Len(d) = L /\ d[L] = x /\ \A i \in 1..L : i # L => d[i] = st[i]
  <2>1. st \in Seq(S \cup {x}) /\ DOMAIN st = 1..L
    BY <1>1, <1>3
  <2> QED
    BY <1>1, <2>1
<1>7. \A i \in 1..(L + 1) : e[i] = IF i = L + 1 THEN k + 1 ELSE b[i]
  OBVIOUS
<1> HIDE DEF e, d
<1>8. ASSUME NEW i \in 1..L PROVE IsChain(d[i]) /\ Tells(d[i], e[i], e[i + 1])
  <2>1. CASE i = L
    BY <1>1, <1>5, <1>6, <1>7, <2>1
  <2>2. CASE i # L
    <3>1. e[i] = b[i] /\ e[i + 1] = b[i + 1] /\ d[i] = st[i]
      BY <1>1, <1>6, <1>7, <2>2
    <3> QED
      BY <1>1, <1>2, <3>1 DEF Bounds
  <2> QED
    BY <2>1, <2>2
<1>9. e[1] = 0 /\ e[L + 1] = k + 1 /\ \A i \in 1..(L + 1) : e[i] \in Nat
  BY <1>1, <1>2, <1>7 DEF Bounds
<1>10. Bounds(d, k + 1, e)
  BY <1>6, <1>8, <1>9 DEF Bounds
<1>11. d = [st EXCEPT ![Len(st)] = Append(@, Row(k + 1))]
  BY <1>1 DEF d, x
<1> QED
  BY <1>1, <1>6, <1>10, <1>11 DEF Told, IsChain

\* Each level with the ones beyond it is read to the end.
LEMMA NestTold ==
  ASSUME ReadingRules, NEW st, NEW k \in Nat, Told(st, k), NEW n \in 1..Len(st)
  PROVE  Told(Nest(st, n), k) /\ Len(Nest(st, n)) = n
<1>1. PICK L \in Nat : L = Len(st) /\ L > 0 /\ n \in 1..L
  BY DEF Told, IsChain
<1>2. PICK b : Bounds(st, k, b)
  BY DEF Told
<1>3. PICK f : Levels(st, f) /\ Nest(st, n) = Cut(st, f, n)
  <2>1. Len(st) \in Nat
    BY <1>1
  <2> QED
    BY <2>1, NestLevels
<1>4. \A i \in 1..L : f[i] = IF i = L THEN st[i] ELSE Append(st[i], Compute(f[i + 1]))
  BY <1>1, <1>3 DEF Levels
<1>5. /\ b[1] = 0 /\ b[L + 1] = k
      /\ \A i \in 1..(L + 1) : b[i] \in Nat
      /\ \A i \in 1..L : IsChain(st[i]) /\ Tells(st[i], b[i], b[i + 1])
  BY <1>1, <1>2 DEF Bounds
<1> DEFINE S == {j \in Nat : j < L => IsChain(f[L - j]) /\ Tells(f[L - j], b[L - j], k)}
<1>6. 0 \in S
  BY <1>1, <1>4, <1>5
<1>7. ASSUME NEW j \in Nat, j \in S PROVE j + 1 \in S
  <2> SUFFICES ASSUME j + 1 < L
               PROVE  IsChain(f[L - (j + 1)]) /\ Tells(f[L - (j + 1)], b[L - (j + 1)], k)
    OBVIOUS
  <2>1. PICK i \in 1..L : i = L - (j + 1) /\ i # L /\ i + 1 = L - j /\ i + 1 \in 1..(L + 1)
    <3>1. L \in Nat /\ j \in Nat /\ j + 1 < L
      BY <1>1
    <3>2. L - (j + 1) \in 1..L
      BY <3>1
    <3>3. L - (j + 1) # L /\ (L - (j + 1)) + 1 = L - j /\ (L - (j + 1)) + 1 \in 1..(L + 1)
      BY <3>1
    <3> QED
      BY <3>2, <3>3
  <2>2. Tells(f[i + 1], b[i + 1], k)
    BY <1>7, <2>1
  <2>3. f[i] = Append(st[i], Compute(f[i + 1]))
    BY <1>4, <2>1
  <2>4. IsChain(st[i]) /\ Tells(st[i], b[i], b[i + 1]) /\ b[i] \in Nat /\ b[i + 1] \in Nat
    BY <1>5, <2>1
  <2>5. IsChain(f[i])
    BY <2>3, <2>4, AppendChain
  <2>6. Tells(f[i], b[i], k)
    BY <2>2, <2>3, <2>4 DEF ReadingRules
  <2> QED
    BY <2>1, <2>5, <2>6
<1>8. \A j \in Nat : j \in S
  <2> HIDE DEF S
  <2> QED
    BY <1>6, <1>7, SetInduction
<1>9. IsChain(f[n]) /\ Tells(f[n], b[n], k)
  <2>1. L - n \in Nat /\ L - n < L /\ L - (L - n) = n
    BY <1>1
  <2>2. L - n \in S
    BY <1>8, <2>1
  <2> QED
    BY <2>1, <2>2
<1> DEFINE d == [i \in 1..n |-> IF i < n THEN st[i] ELSE f[n]]
           e == [i \in 1..(n + 1) |-> IF i <= n THEN b[i] ELSE k]
<1>10. PICK Q : st \in Seq(Q)
  BY DEF Told, IsChain
<1>11. d \in Seq(Q \cup {f[n]}) /\ Len(d) = n
  <2>1. \A i \in 1..n : d[i] \in Q \cup {f[n]}
    BY <1>1, <1>10
  <2> QED
    BY <1>1, <2>1
<1>12. \A i \in 1..n : d[i] = IF i < n THEN st[i] ELSE f[n]
  OBVIOUS
<1>13. \A i \in 1..(n + 1) : e[i] = IF i <= n THEN b[i] ELSE k
  OBVIOUS
<1>14. Nest(st, n) = d
  BY <1>3 DEF Cut
<1> HIDE DEF d, e
<1>15. ASSUME NEW i \in 1..n PROVE IsChain(d[i]) /\ Tells(d[i], e[i], e[i + 1])
  <2>1. CASE i = n
    <3>1. e[i] = b[n] /\ e[i + 1] = k /\ d[i] = f[n]
      BY <1>1, <1>12, <1>13, <2>1
    <3> QED
      BY <1>9, <3>1
  <2>2. CASE i # n
    <3>1. e[i] = b[i] /\ e[i + 1] = b[i + 1] /\ d[i] = st[i] /\ i \in 1..L
      BY <1>1, <1>12, <1>13, <2>2
    <3> QED
      BY <1>5, <3>1
  <2> QED
    BY <2>1, <2>2
<1>16. e[1] = 0 /\ e[n + 1] = k /\ \A i \in 1..(n + 1) : e[i] \in Nat
  <2>1. 1 \in 1..(n + 1) /\ n + 1 \in 1..(n + 1) /\ 1 <= n /\ ~(n + 1 <= n)
    BY <1>1
  <2>2. \A i \in 1..(n + 1) : i <= n => i \in 1..(L + 1)
    BY <1>1
  <2> QED
    BY <1>5, <1>13, <2>1, <2>2
<1>17. Bounds(d, k, e)
  BY <1>11, <1>15, <1>16 DEF Bounds
<1> QED
  BY <1>1, <1>11, <1>14, <1>17 DEF Told, IsChain

\* However the levels are made and nested for it, a row that is added is told
\* after the ones before it.
LEMMA AddRowTold ==
  ASSUME ReadingRules, shown \in Nat, NEW st, Told(st, shown), NEW n \in Nat, n > 0
  PROVE  Told(AddRow(st, n), shown + 1) /\ Len(AddRow(st, n)) = n
<1> DEFINE deep == Deepen(st, n)
           more == [deep EXCEPT ![Len(deep)] = Append(@, Row(shown + 1))]
<1>1. Told(deep, shown) /\ Len(deep) > n
  BY DeepenTold
<1>2. AddRow(st, n) = Nest(more, n)
  BY DEF AddRow
<1>3. Told(more, shown + 1) /\ Len(more) = Len(deep)
  <2> HIDE DEF deep
  <2> QED
    BY <1>1, RowTold
<1> HIDE DEF more, deep
<1>4. n \in 1..Len(more)
  BY <1>1, <1>3 DEF Told, IsChain
<1>5. shown + 1 \in Nat
  OBVIOUS
<1> QED
  BY <1>2, <1>3, <1>4, <1>5, NestTold

\* What has been shown is in the tree, and at the end in its first level.
TreeInv ==
  /\ Told(output_stack, shown)
  /\ Len(running) = 1 /\ running[1].run.ended => error \/ Len(output_stack) = 1

\* There are no rows yet.
LEMMA TreeInitHolds ==
  ASSUME ReadingRules, HierarchyInit
  PROVE  TreeInv
<1>1. PICK p : HierarchyStart(p)
  BY DEF HierarchyInit
<1>2. PICK empty : empty = <<>>
  OBVIOUS
<1>3. PICK st : st = <<empty>>
  OBVIOUS
<1>4. output_stack = st /\ shown = 0
  BY <1>1, <1>2, <1>3 DEF HierarchyStart
<1>5. IsChain(empty) /\ Tells(empty, 0, 0)
  <2>1. empty \in Seq({0})
    BY <1>2
  <2> QED
    BY <1>2, <2>1 DEF IsChain, ReadingRules
<1>6. IsChain(st) /\ Len(st) = 1 /\ st[1] = empty
  <2>1. st \in Seq({empty})
    BY <1>3
  <2> QED
    BY <1>3, <2>1 DEF IsChain
<1> DEFINE b == [i \in 1..2 |-> 0]
<1>7. b[1] = 0 /\ b[2] = 0 /\ \A i \in 1..2 : b[i] \in Nat
  OBVIOUS
<1> HIDE DEF b
<1>8. Bounds(st, 0, b)
  BY <1>5, <1>6, <1>7 DEF Bounds
<1>9. Told(output_stack, shown)
  BY <1>4, <1>6, <1>8 DEF Told
<1>10. ~running[1].run.ended
  BY <1>1 DEF HierarchyStart, Frame, RunFrom, new_run
<1> QED
  BY <1>9, <1>10 DEF TreeInv

\* Each step tells what it shows, and the last one nests what is left.
LEMMA StepTree ==
  ASSUME ReadingRules, HierarchyIInv, TreeInv, NEW showing \in BOOLEAN, StepRun(showing)
  PROVE  TreeInv'
<1>1. PICK fs : fs = running'
  OBVIOUS
<1>2. PICK n : n = running_frames(fs)
  OBVIOUS
<1>3. /\ Matched(fs) /\ IsChain(fs) /\ Len(fs) = Len(running) /\ Len(fs) > 0
  BY <1>1, StepFrames DEF HierarchyIInv
<1>4. n \in Nat /\ n > 0 /\ (Len(fs) = 1 => n = 1)
  BY <1>2, <1>3, FramesCounted
<1>5. CASE showing
  <2>1. output_stack' = AddRow(output_stack, n) /\ shown' = shown + 1
    BY <1>1, <1>2, <1>5 DEF StepRun
  <2>2. Told(AddRow(output_stack, n), shown + 1) /\ Len(AddRow(output_stack, n)) = n
    BY <1>4, AddRowTold DEF HierarchyIInv, TreeInv
  <2> QED
    BY <1>1, <1>4, <2>1, <2>2 DEF TreeInv
<1>6. CASE ~showing
  <2>1. output_stack' = output_stack /\ shown' = shown
    BY <1>6 DEF StepRun
  <2>2. ASSUME Len(running) = 1 PROVE ~fs[1].run.ended
    <3>1. PICK r : r = running[1].run
      OBVIOUS
    <3>2. PICK s : s = cldb_step(r, FALSE)
      OBVIOUS
    <3>3. Last(running) = running[1] /\ ~r.ended
      BY <2>2, <3>1 DEF StepRun, is_ended, Last
    <3>4. s.out = NothingShown
      BY <1>6, <3>1, <3>2, <3>3 DEF StepRun
    <3>5. fs[1].run = s.run
      BY <1>1, <2>2, <3>1, <3>2, StepFrames
    <3>6. s.out.kind = "None"
      BY <3>4 DEF NothingShown
    <3>7. IsRun(r)
      BY <2>2, <3>1 DEF HierarchyIInv
    <3>8. next_step(r) # Failed => Top(next_step(r)).kind \in Kinds
      <4>1. next_step(r) # Failed => IsChain(next_step(r)) /\ WellFormed(next_step(r))
        BY <3>7, NextStepShape DEF IsRun
      <4> QED
        BY <4>1 DEF IsChain, WellFormed, Top, Last
    <3> DEFINE next == next_step(r)
    <3>9. /\ next = Failed => s.out.kind = "Failure"
          /\ next # Failed /\ Top(next).kind = "Done" => s.out.kind = "Final"
          /\ next # Failed /\ Top(next).kind \in Kinds \ {"Done"} =>
               Core(s.run, next, r.overrides, r.ended, r.final_result)
      BY <3>2, <3>7, StepCore DEF IsRun
    <3> HIDE DEF next
    <3> QED
      BY <3>3, <3>5, <3>6, <3>8, <3>9 DEF Core, next
  <2> QED
    BY <1>1, <1>3, <2>1, <2>2 DEF TreeInv
<1> QED
  BY <1>5, <1>6

\* However deep functions are entered between two rows, the tree of a run that
\* succeeds has every row there was, in order (cmds.rs cldb_hierarchy).
THEOREM TreeTellsTheRun ==
  ASSUME ReadingRules
  PROVE  HierarchySpec => []TreeIsTheWholeRun
<1>1. HierarchyIInv /\ TreeInv /\ [HierarchyNext]_hierarchyVars => TreeInv'
  <2> SUFFICES ASSUME HierarchyIInv, TreeInv, [HierarchyNext]_hierarchyVars PROVE TreeInv'
    OBVIOUS
  <2>1. CASE EnterFunction
    <3>1. Len(running') = Len(running) + 2 /\ Len(running) \in Nat
      BY <2>1, EnterFrames DEF HierarchyIInv, IsChain
    <3> QED
      BY <2>1, <3>1 DEF EnterFunction, TreeInv
  <2>2. CASE LeaveFunction
    <3>1. Len(running') = 1 => ~running'[1].run.ended
      BY <2>2, LeaveFrames DEF RunFrom, new_run
    <3> QED
      BY <2>2, <3>1 DEF LeaveFunction, TreeInv
  <2>3. ASSUME NEW showing \in BOOLEAN, StepRun(showing) PROVE TreeInv'
    BY <2>3, StepTree
  <2>4. CASE HierarchyTerminated \/ UNCHANGED hierarchyVars
    BY <2>4 DEF HierarchyTerminated, hierarchyVars, TreeInv
  <2> QED
    BY <2>1, <2>2, <2>3, <2>4 DEF HierarchyNext, StepSilently, StepShowing
<1>2. HierarchyIInv /\ TreeInv => TreeIsTheWholeRun
  <2> SUFFICES ASSUME HierarchyIInv, TreeInv, is_ended, ~error
               PROVE  Tells(output_stack[1], 0, shown)
    BY DEF TreeIsTheWholeRun
  <2>1. Len(running) = 1 /\ running[1].run.ended
    <3>1. Len(running) # 0
      BY DEF HierarchyIInv
    <3> QED
      BY <3>1 DEF is_ended
  <2>2. Len(output_stack) = 1
    BY <2>1 DEF TreeInv
  <2>3. PICK b : Bounds(output_stack, shown, b)
    BY DEF TreeInv, Told
  <2> QED
    BY <2>2, <2>3 DEF Bounds
<1>3. HierarchyIInv /\ [HierarchyNext]_hierarchyVars => HierarchyIInv'
  BY HierarchyNextKeeps
<1>4. HierarchyInit => TreeInv
  BY TreeInitHolds
<1> QED
  BY HierarchyInitHolds, <1>1, <1>2, <1>3, <1>4, PTL DEF HierarchySpec
=============================================================================
