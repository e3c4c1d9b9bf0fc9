----------------------------- MODULE StepProofs -----------------------------
(***************************************************************************)
(* For every program and every set of operators.  What a step of the       *)
(* machine makes of a well formed chain: another well formed chain, which  *)
(* is finished only if no operator was waiting.  What a call of step makes *)
(* of a CldbRun, whatever functions are overridden and whatever the        *)
(* overrides return.                                                       *)
(***************************************************************************)
EXTENDS CldbRun, SequenceTheorems, TLAPS

\* What a step comes to, and the steps that fail: see Rules.
CONSTANTS Comes(_, _), Fails(_)

(***************************************************************************)
(* The machine.                                                            *)
(***************************************************************************)

IsChain(c) == \E S : c \in Seq(S)

\* A chain a value can be returned to: well formed and with no result on top.
IsParent(c) == IsChain(c) /\ WellFormed(c) /\ c[Len(c)].kind # "OpResult"

\* Append on a chain, whatever is appended.
LEMMA AppendChain ==
  ASSUME NEW c, IsChain(c), NEW f
  PROVE  /\ IsChain(Append(c, f))
         /\ Len(Append(c, f)) = Len(c) + 1
         /\ Len(c) \in Nat
         /\ \A i \in 1..Len(c) : Append(c, f)[i] = c[i]
         /\ Append(c, f)[Len(c) + 1] = f
<1>1. PICK S : c \in Seq(S)
  BY DEF IsChain
<1>2. c \in Seq(S \cup {f})
  BY <1>1
<1>3. Append(c, f) \in Seq(S \cup {f})
  BY <1>2
<1> QED
  BY <1>2, <1>3 DEF IsChain

\* Taking a prefix of a chain.
LEMMA PrefixChain ==
  ASSUME NEW c, IsChain(c), NEW n \in 0..Len(c)
  PROVE  /\ IsChain(SubSeq(c, 1, n))
         /\ Len(SubSeq(c, 1, n)) = n
         /\ \A i \in 1..n : SubSeq(c, 1, n)[i] = c[i]
<1>1. PICK S : c \in Seq(S)
  BY DEF IsChain
<1>2. SubSeq(c, 1, n) \in Seq(S)
  BY <1>1
<1> QED
  BY <1>1, <1>2 DEF IsChain

\* The chain without its last step, and with another last step.
LEMMA TopChain ==
  ASSUME NEW c, IsChain(c), Len(c) > 0, NEW f
  PROVE  /\ Len(c) \in Nat
         /\ Top(c) = c[Len(c)]
         /\ IsChain(Front(c))
         /\ Len(Front(c)) = Len(c) - 1
         /\ \A i \in 1..(Len(c) - 1) : Front(c)[i] = c[i]
         /\ IsChain(ReplaceTop(c, f))
         /\ Len(ReplaceTop(c, f)) = Len(c)
         /\ \A i \in 1..(Len(c) - 1) : ReplaceTop(c, f)[i] = c[i]
         /\ ReplaceTop(c, f)[Len(c)] = f
<1>1. PICK S : c \in Seq(S)
  BY DEF IsChain
<1>2. Len(c) \in Nat /\ Len(c) - 1 \in 0..Len(c)
  BY <1>1
<1>3. Front(c) = SubSeq(c, 1, Len(c) - 1)
  BY DEF Front
<1>4. /\ IsChain(Front(c))
      /\ Len(Front(c)) = Len(c) - 1
      /\ \A i \in 1..(Len(c) - 1) : Front(c)[i] = c[i]
  BY <1>2, <1>3, PrefixChain
<1>5. /\ IsChain(Append(Front(c), f))
      /\ Len(Append(Front(c), f)) = Len(c)
      /\ \A i \in 1..(Len(c) - 1) : Append(Front(c), f)[i] = c[i]
      /\ Append(Front(c), f)[Len(c)] = f
  BY <1>2, <1>4, AppendChain
<1> QED
  BY <1>2, <1>4, <1>5 DEF Top, Last, ReplaceTop

\* The steps of such a chain, one by one.
LEMMA ParentSteps ==
  ASSUME NEW c, IsParent(c)
  PROVE  /\ Len(c) \in Nat /\ Len(c) > 0 /\ IsChain(c)
         /\ c[1].kind = "Done"
         /\ \A i \in 2..Len(c) : c[i].kind # "Done"
         /\ \A i \in 1..(Len(c) - 1) : c[i].kind \in {"Done", "Op"}
         /\ c[Len(c)].kind \in {"Done", "Op", "Step", "ReadyOp"}
<1>1. Len(c) \in Nat /\ Len(c) > 0
  BY DEF IsParent, IsChain, WellFormed
<1> QED
  BY <1>1 DEF IsParent, WellFormed, Kinds

\* Such steps make a well formed chain.
LEMMA StepsShape ==
  ASSUME NEW c, IsChain(c), Len(c) > 0,
         c[1].kind = "Done",
         \A i \in 1..(Len(c) - 1) : c[i].kind \in {"Done", "Op"},
         \A i \in 2..Len(c) : c[i].kind \in Kinds \ {"Done"}
  PROVE  WellFormed(c)
<1>1. Len(c) \in Nat
  BY DEF IsChain
<1> QED
  BY <1>1 DEF WellFormed, Kinds

\* A value goes to the last step or to the one under it.
LEMMA ReceiverIsNear ==
  ASSUME NEW c, IsParent(c)
  PROVE  /\ Receiver(c) \in {Len(c), Len(c) - 1} \cap 1..Len(c)
         /\ c[Receiver(c)].kind \in {"Done", "Op"}
         /\ \A j \in (Receiver(c) + 1)..Len(c) : c[j].kind \in {"Step", "ReadyOp"}
<1>1. Len(c) \in Nat /\ Len(c) > 0
  BY ParentSteps
<1>2. \A i \in 1..(Len(c) - 1) : c[i].kind \in {"Done", "Op"}
  BY ParentSteps
<1>3. c[Len(c)].kind \in {"Done", "Op", "Step", "ReadyOp"}
  BY ParentSteps
<1> DEFINE Is(i) == /\ c[i].kind \notin {"Step", "ReadyOp"}
                    /\ \A j \in (i + 1)..Len(c) : c[j].kind \in {"Step", "ReadyOp"}
<1>4. \E i \in 1..Len(c) : Is(i)
  <2>1. CASE c[Len(c)].kind \in {"Done", "Op"}
    <3>1. Is(Len(c)) /\ Len(c) \in 1..Len(c)
      BY <1>1, <2>1
    <3> QED
      BY <3>1
  <2>2. CASE c[Len(c)].kind \in {"Step", "ReadyOp"}
    <3>1. Len(c) > 1
      BY <1>1, <2>2, ParentSteps
    <3>2. Is(Len(c) - 1) /\ Len(c) - 1 \in 1..Len(c)
      BY <1>1, <1>2, <2>2, <3>1
    <3> QED
      BY <3>2
  <2> QED
    BY <1>3, <2>1, <2>2
<1>5. Receiver(c) \in 1..Len(c) /\ Is(Receiver(c))
  BY <1>4 DEF Receiver
<1>6. Receiver(c) < Len(c) - 1 => FALSE
  BY <1>1, <1>2, <1>5
<1> QED
  BY <1>1, <1>2, <1>3, <1>5, <1>6

\* combine keeps the shape, and ends the run only when nobody waits.
LEMMA CombineShape ==
  ASSUME NEW c, IsParent(c), NEW v
  PROVE  /\ IsChain(combine(v, c)) /\ WellFormed(combine(v, c))
         /\ Top(combine(v, c)).kind = "Done" => \A i \in 1..Len(c) : c[i].kind # "Op"
<1> DEFINE k == Receiver(c)
<1>1. Len(c) \in Nat /\ Len(c) > 0
  BY ParentSteps
<1>2. /\ k \in {Len(c), Len(c) - 1} \cap 1..Len(c)
      /\ c[k].kind \in {"Done", "Op"}
      /\ \A j \in (k + 1)..Len(c) : c[j].kind \in {"Step", "ReadyOp"}
  BY ReceiverIsNear
<1> HIDE DEF k
<1>3. CASE c[k].kind = "Op"
  <2> DEFINE taken == [c[k] EXCEPT !.args = <<v>> \o @]
             rest  == SubSeq(c, 1, k - 1)
             d     == Append(rest, taken)
  <2>1. combine(v, c) = d
    BY <1>3 DEF combine, k
  <2>2. taken.kind = "Op"
    BY <1>3
  <2>3. k - 1 \in 0..Len(c)
    BY <1>1, <1>2
  <2>4. /\ IsChain(rest) /\ Len(rest) = k - 1
        /\ \A i \in 1..(k - 1) : rest[i] = c[i]
    BY <2>3, PrefixChain DEF IsParent
  <2> HIDE DEF taken, rest
  <2>5. /\ IsChain(d) /\ Len(d) = k
        /\ \A i \in 1..(k - 1) : d[i] = c[i]
        /\ d[k] = taken
    BY <1>1, <1>2, <2>4, AppendChain
  <2> HIDE DEF d
  <2>6. k \in 2..Len(c)
    BY <1>1, <1>2, <1>3, ParentSteps
  <2>7. d[1].kind = "Done"
    BY <2>5, <2>6, ParentSteps
  <2>8a. \A i \in 1..(k - 1) : d[i].kind \in {"Done", "Op"}
    BY <1>1, <2>5, <2>6, ParentSteps
  <2>8b. \A i \in 2..k : d[i].kind \in Kinds \ {"Done"}
    BY <1>1, <2>2, <2>5, <2>6, <2>8a, ParentSteps DEF Kinds
  <2>8. WellFormed(d)
    BY <1>1, <2>5, <2>6, <2>7, <2>8a, <2>8b, StepsShape
  <2>9. Top(d) = taken
    BY <1>1, <1>2, <2>5 DEF Top, Last
  <2> QED
    BY <2>1, <2>2, <2>5, <2>8, <2>9
<1>4. CASE c[k].kind = "Done"
  <2>1. combine(v, c) = <<Done(v)>>
    BY <1>4 DEF combine, k
  <2>2. k = 1
    BY <1>1, <1>2, <1>4, ParentSteps
  <2>3. \A i \in 1..Len(c) : c[i].kind # "Op"
    BY <1>1, <1>2, <1>4, <2>2
  <2>4. <<Done(v)>> \in Seq({Done(v)}) /\ Len(<<Done(v)>>) = 1 /\ <<Done(v)>>[1] = Done(v)
    OBVIOUS
  <2>5. Done(v).kind = "Done"
    BY DEF Done
  <2>6. WellFormed(<<Done(v)>>)
    BY <2>4, <2>5 DEF WellFormed, Kinds
  <2> QED
    BY <2>1, <2>3, <2>4, <2>6 DEF IsChain
<1> QED
  BY <1>2, <1>3, <1>4

\* A result on top of a well formed chain that has none.
LEMMA ResultShape ==
  ASSUME NEW c, IsParent(c), c[Len(c)].kind # "Done", NEW v
  PROVE  LET d == Append(c, OpResult(v))
         IN IsChain(d) /\ WellFormed(d) /\ Top(d).kind = "OpResult"
<1> DEFINE d == Append(c, OpResult(v))
<1>1. IsChain(c) /\ Len(c) \in Nat /\ Len(c) > 0
  BY ParentSteps
<1>2. /\ IsChain(d) /\ Len(d) = Len(c) + 1
      /\ \A i \in 1..Len(c) : d[i] = c[i]
      /\ d[Len(c) + 1] = OpResult(v)
  BY <1>1, AppendChain
<1>3. OpResult(v).kind = "OpResult"
  BY DEF OpResult
<1> HIDE DEF d
<1>4. \A i \in 1..(Len(c) - 1) : c[i].kind \in {"Done", "Op"}
  BY ParentSteps
<1>5a. Len(d) > 0 /\ d[1].kind = "Done"
  BY <1>1, <1>2, ParentSteps
<1>5b. c[Len(c)].kind \in {"Op", "Step", "ReadyOp"}
  BY ParentSteps
<1>5c. \A i \in 1..(Len(c) - 1) : d[i].kind \in {"Done", "Op"}
  BY <1>1, <1>2, <1>4
<1>5d. \A i \in 2..Len(c) : d[i].kind \in {"Op", "Step", "ReadyOp"}
  BY <1>1, <1>2, <1>4, <1>5b, <1>5c, ParentSteps
<1>5e. d[Len(c) + 1].kind = "OpResult" /\ Len(c) + 1 = Len(d)
  BY <1>2, <1>3
<1>5. WellFormed(d)
  BY <1>1, <1>5a, <1>5c, <1>5d, <1>5e DEF WellFormed, Kinds
<1>6. Top(d).kind = "OpResult"
  BY <1>1, <1>2, <1>3 DEF Top, Last
<1> QED
  BY <1>2, <1>5, <1>6 DEF d

\* Any step but Done in the place of the last step of a well formed chain
\* that ends in no result.
LEMMA ReplaceShape ==
  ASSUME NEW c, IsParent(c), c[Len(c)].kind # "Done", NEW f, f.kind \in Kinds \ {"Done"}
  PROVE  LET d == ReplaceTop(c, f)
         IN IsChain(d) /\ WellFormed(d) /\ Top(d) = f
<1> DEFINE d == ReplaceTop(c, f)
<1>1. IsChain(c) /\ Len(c) \in Nat /\ Len(c) > 0
  BY ParentSteps
<1>2. /\ IsChain(d) /\ Len(d) = Len(c)
      /\ \A i \in 1..(Len(c) - 1) : d[i] = c[i]
      /\ d[Len(c)] = f
  BY <1>1, TopChain
<1> HIDE DEF d
<1>3. \A i \in 1..(Len(c) - 1) : c[i].kind \in {"Done", "Op"}
  BY ParentSteps
<1>4. Len(c) > 1 /\ d[1].kind = "Done"
  BY <1>1, <1>2, ParentSteps
<1>5a. \A i \in 1..(Len(d) - 1) : d[i].kind \in {"Done", "Op"}
  BY <1>1, <1>2, <1>3
<1>5b. \A i \in 2..Len(d) : d[i].kind \in Kinds \ {"Done"}
  BY <1>1, <1>2, <1>5a, ParentSteps DEF Kinds
<1>5. WellFormed(d)
  BY <1>1, <1>2, <1>4, <1>5a, <1>5b, StepsShape
<1>6. Top(d) = f
  BY <1>1, <1>2 DEF Top, Last
<1> QED
  BY <1>2, <1>5, <1>6 DEF d

\* A Step above an operator that collects its arguments.
LEMMA DescendShape ==
  ASSUME NEW c, IsParent(c), c[Len(c)].kind = "Op", NEW f, f.kind = "Step"
  PROVE  LET d == Append(c, f)
         IN IsChain(d) /\ WellFormed(d) /\ Top(d) = f
<1> DEFINE d == Append(c, f)
<1>1. IsChain(c) /\ Len(c) \in Nat /\ Len(c) > 0
  BY ParentSteps
<1>2. /\ IsChain(d) /\ Len(d) = Len(c) + 1
      /\ \A i \in 1..Len(c) : d[i] = c[i]
      /\ d[Len(c) + 1] = f
  BY <1>1, AppendChain
<1> HIDE DEF d
<1>3. \A i \in 1..Len(c) : c[i].kind \in {"Done", "Op"}
  BY <1>1, ParentSteps
<1>4a. d[1].kind = "Done" /\ \A i \in 1..(Len(d) - 1) : d[i].kind \in {"Done", "Op"}
  BY <1>1, <1>2, <1>3, ParentSteps
<1>4b. \A i \in 2..Len(d) : d[i].kind \in Kinds \ {"Done"}
  BY <1>1, <1>2, <1>3, ParentSteps DEF Kinds
<1>4. WellFormed(d)
  BY <1>1, <1>2, <1>4a, <1>4b, StepsShape
<1>5. Top(d) = f
  BY <1>1, <1>2 DEF Top, Last
<1> QED
  BY <1>2, <1>4, <1>5 DEF d

\* The chain a run begins with.
LEMMA StartShape ==
  ASSUME NEW prog, NEW env
  PROVE  LET c == start_step(prog, env)
         IN IsChain(c) /\ WellFormed(c) /\ Len(c) = 2 /\ Top(c).kind = "Step"
<1> DEFINE d == Done(prog)
           s == Step(prog, env)
           c == <<d, s>>
<1>1. c \in Seq({d, s}) /\ Len(c) = 2 /\ c[1] = d /\ c[2] = s
  OBVIOUS
<1>2. d.kind = "Done" /\ s.kind = "Step" /\ c = start_step(prog, env)
  BY DEF Done, Step, start_step
<1> HIDE DEF d, s, c
<1>3. IsChain(c)
  BY <1>1 DEF IsChain
<1>4. \A i \in 1..(Len(c) - 1) : c[i].kind \in {"Done", "Op"}
  BY <1>1, <1>2
<1>5. \A i \in 2..Len(c) : c[i].kind \in Kinds \ {"Done"}
  BY <1>1, <1>2 DEF Kinds
<1>6. Len(c) > 0 /\ c[1].kind = "Done"
  BY <1>1, <1>2
<1>7. WellFormed(c)
  BY <1>3, <1>4, <1>5, <1>6, StepsShape
<1> QED
  BY <1>1, <1>2, <1>3, <1>7 DEF Top, Last

\* Every step run_step makes of a well formed chain that is not finished is
\* well formed, and finishes only when no caller waits.
LEMMA RunStepShape ==
  ASSUME NEW c, IsChain(c), WellFormed(c), Top(c).kind # "Done", run_step(c) # Failed
  PROVE  /\ IsChain(run_step(c)) /\ WellFormed(run_step(c))
         /\ Top(run_step(c)).kind = "Done" => \A i \in 1..Len(c) : c[i].kind # "Op"
<1> DEFINE Good(d) == /\ IsChain(d) /\ WellFormed(d)
                      /\ Top(d).kind = "Done" => \A i \in 1..Len(c) : c[i].kind # "Op"
<1>1. Len(c) \in Nat /\ Len(c) > 0 /\ Top(c) = c[Len(c)]
  BY DEF IsChain, WellFormed, Top, Last
<1>2. c[Len(c)].kind \in {"OpResult", "Step", "Op", "ReadyOp"}
  BY <1>1 DEF WellFormed, Kinds
<1>3. CASE c[Len(c)].kind = "OpResult"
  <2> DEFINE p == Front(c)
  <2>1. Len(c) > 1
    BY <1>1, <1>3 DEF WellFormed
  <2>2. /\ IsChain(p) /\ Len(p) = Len(c) - 1
        /\ \A i \in 1..(Len(c) - 1) : p[i] = c[i]
    BY <1>1, TopChain
  <2> HIDE DEF p
  <2>3. p[Len(p)].kind # "OpResult"
    BY <1>1, <2>1, <2>2 DEF WellFormed
  <2>4. WellFormed(p)
    <3>1. Len(p) > 0 /\ p[1].kind = "Done"
      BY <1>1, <2>1, <2>2 DEF WellFormed
    <3>2. \A i \in 1..(Len(p) - 1) : p[i].kind \in {"Done", "Op"}
      BY <1>1, <2>1, <2>2 DEF WellFormed, Kinds
    <3>3. \A i \in 2..Len(p) : p[i].kind \in Kinds \ {"Done"}
      BY <1>1, <2>1, <2>2 DEF WellFormed, Kinds
    <3> QED
      BY <2>2, <3>1, <3>2, <3>3, StepsShape
  <2>5. run_step(c) = combine(c[Len(c)].val, p)
    BY <1>1, <1>3 DEF run_step, ParentOf, p
  <2>6. IsParent(p)
    BY <2>2, <2>3, <2>4 DEF IsParent
  <2>7. /\ IsChain(run_step(c)) /\ WellFormed(run_step(c))
        /\ Top(run_step(c)).kind = "Done" => \A i \in 1..Len(p) : p[i].kind # "Op"
    BY <2>5, <2>6, CombineShape
  <2> QED
    BY <1>1, <1>3, <2>2, <2>7
<1>4. ASSUME c[Len(c)].kind # "OpResult"
      PROVE  IsParent(c) /\ c[Len(c)].kind # "Done"
  BY <1>1, <1>4 DEF IsParent
<1>5. ASSUME NEW v, c[Len(c)].kind # "OpResult"
      PROVE  Good(combine(v, c)) /\ Good(Append(c, OpResult(v))) /\ Good(ReplaceTop(c, OpResult(v)))
  <2>1. OpResult(v).kind = "OpResult"
    BY DEF OpResult
  <2> QED
    BY <1>4, <1>5, <2>1, CombineShape, ResultShape, ReplaceShape DEF Kinds
<1>6. ASSUME NEW f, f.kind \in {"Step", "Op", "ReadyOp"}, c[Len(c)].kind # "OpResult"
      PROVE  Good(ReplaceTop(c, f))
  BY <1>4, <1>6, ReplaceShape DEF Kinds
<1> SUFFICES Good(run_step(c))
  OBVIOUS
<1> HIDE DEF Good
<1>7. CASE c[Len(c)].kind = "Step"
  <2>1. run_step(c) = step_expression(c)
    BY <1>1, <1>7 DEF run_step
  <2>2. \A s, e : Step(s, e).kind = "Step"
    BY DEF Step
  <2>3. \A h, e, args, end, rest : Op(h, e, args, end, rest).kind = "Op"
    BY DEF Op
  <2>4. \A h, b : eval_args(h, b, c) # Failed => Good(eval_args(h, b, c))
    BY <1>6, <1>7, <2>3 DEF eval_args
  <2> DEFINE s == Top(c).sexp
             h == translate_head(First(s))
  <2>5. CASE IsNil(s)
    <3>1. step_expression(c) = Append(c, OpResult(s))
      BY <2>5 DEF step_expression, IsNil, IsInt, IsBytes
    <3> HIDE DEF s
    <3> QED
      BY <1>5, <1>7, <2>1, <3>1
  <2>6. CASE IsInt(s) /\ ~IsNil(s)
    <3> DEFINE v == choose_path(s[2], Top(c).ctx)
    <3>1. step_expression(c) = IF v = Fail THEN Failed ELSE Append(c, OpResult(v))
      <4>1. ~IsNil(s) /\ IsInt(s) /\ ~IsBytes(s)
        BY <2>6 DEF IsInt, IsBytes
      <4> QED
        BY <4>1, Zenon DEF step_expression
    <3> HIDE DEF v
    <3> QED
      BY <1>5, <1>7, <2>1, <3>1
  <2>7. CASE IsBytes(s) /\ ~IsInt(s) /\ ~IsNil(s)
    BY <1>6, <1>7, <2>1, <2>2, <2>7 DEF step_expression, IsNil, IsInt, IsBytes
  <2>8. CASE ~IsNil(s) /\ ~IsInt(s) /\ ~IsBytes(s)
    <3>1. \/ step_expression(c) = Failed
          \/ step_expression(c) = combine(Rest(s), c)
          \/ step_expression(c) = eval_args(h, Rest(s), c)
      BY <2>8 DEF step_expression
    <3> QED
      BY <1>5, <1>7, <2>1, <2>4, <3>1
  <2> QED
    BY <2>5, <2>6, <2>7, <2>8
<1>8. CASE c[Len(c)].kind = "Op"
  <2> DEFINE t == c[Len(c)]
  <2>1. run_step(c) = next_argument(c)
    BY <1>1, <1>8 DEF run_step
  <2>2. CASE t.rest = <<>>
    <3>1. ReadyOp(t.head, t.ctx, t.args, t.end).kind = "ReadyOp"
      BY DEF ReadyOp
    <3> QED
      BY <1>1, <1>6, <1>8, <2>1, <2>2, <3>1 DEF next_argument
  <2>3. CASE t.rest # <<>>
    <3> DEFINE f == [t EXCEPT !.rest = Front(@)]
               d == ReplaceTop(c, f)
               g == Step(Last(t.rest), t.ctx)
    <3>1. f.kind = "Op" /\ g.kind = "Step"
      BY <1>8 DEF Step
    <3>2. run_step(c) = Append(d, g)
      BY <1>1, <2>1, <2>3 DEF next_argument
    <3> HIDE DEF f, g
    <3>3. IsChain(d) /\ WellFormed(d) /\ Top(d) = f
      BY <1>4, <1>8, <3>1, ReplaceShape DEF Kinds
    <3>4. IsParent(d) /\ d[Len(d)].kind = "Op"
      BY <3>1, <3>3 DEF IsParent, Top, Last
    <3> HIDE DEF d
    <3>5. /\ IsChain(Append(d, g)) /\ WellFormed(Append(d, g))
          /\ Top(Append(d, g)).kind = "Step"
      BY <3>1, <3>4, DescendShape
    <3> QED
      BY <3>2, <3>5 DEF Good
  <2> QED
    BY <2>2, <2>3
<1>9. CASE c[Len(c)].kind = "ReadyOp"
  <2>1. run_step(c) = run_operator(c)
    BY <1>1, <1>9 DEF run_step
  <2>2. \A s, e : Step(s, e).kind = "Step"
    BY DEF Step
  <2>3. \A op, args : run_primitive(c, op, args) # Failed => Good(run_primitive(c, op, args))
    <3> SUFFICES ASSUME NEW op, NEW args, run_primitive(c, op, args) # Failed
                 PROVE  Good(run_primitive(c, op, args))
      OBVIOUS
    <3>1. CASE op = 2
      BY <1>6, <1>9, <2>2, <3>1 DEF run_primitive, Apply
    <3>2. CASE op = 3
      BY <1>5, <1>9, <3>2 DEF run_primitive
    <3>3. CASE op = 4
      BY <1>5, <1>9, <3>3 DEF run_primitive
    <3>4. CASE op \in {5, 6}
      BY <1>5, <1>9, <3>4 DEF run_primitive
    <3>5. CASE op \notin {2, 3, 4, 5, 6}
      <4> DEFINE v == apply_op(Top(c).head, args)
      <4>1. run_primitive(c, op, args) = IF v = Fail THEN Failed ELSE Append(c, OpResult(v))
        BY <3>5 DEF run_primitive
      <4> HIDE DEF v
      <4> QED
        BY <1>5, <1>9, <4>1
    <3> QED
      BY <3>1, <3>2, <3>3, <3>4, <3>5
  <2> DEFINE t == Top(c)
             ovr == try_handle(t.head, t.args, t.end)
  <2>4. \/ run_operator(c) = Failed
        \/ run_operator(c) = ReplaceTop(c, OpResult(ovr))
        \/ run_operator(c) = run_primitive(c, atom_value(t.head), t.args)
    BY DEF run_operator
  <2> HIDE DEF ovr, t
  <2> QED
    BY <1>5, <1>9, <2>1, <2>3, <2>4
<1> QED
  BY <1>2, <1>3, <1>7, <1>8, <1>9 DEF Good

(***************************************************************************)
(* The runs of the debuggers.                                              *)
(***************************************************************************)

RunFields ==
  {"step", "overrides", "ended", "final_result", "in_expr", "row", "to_print", "outputs_to_step"}

\* A run between two calls of step.
IsRun(r) ==
  /\ DOMAIN r = RunFields
  /\ r.ended \in BOOLEAN /\ r.in_expr \in BOOLEAN /\ r.row \in Nat
  /\ IsChain(r.step) /\ WellFormed(r.step)
  /\ Top(r.step).kind = "Done" => r.ended
  /\ r.final_result # NoResult => Top(r.step).kind = "Done"

RowKinds == {"Value", "Print", "Final", "Failure"}

\* What step may gather in to_print.
Gathered(r, refs) ==
  \/ refs = r.to_print
  \/ \E args : refs = get_arg_associations(r.outputs_to_step, args)

\* A step of r that gives no row leaves this run.
GoesOn(r, q) ==
  /\ q.row = r.row
  /\ q.outputs_to_step = r.outputs_to_step
  /\ Gathered(r, q.to_print)

\* A step of r that gives this row leaves this run.
GivesRow(r, q, out) ==
  /\ out.kind \in RowKinds
  /\ out.row = r.row /\ q.row = r.row + 1
  /\ Gathered(r, out.refs) /\ q.to_print = <<>>
  /\ \/ q.outputs_to_step = r.outputs_to_step
     \/ /\ out.kind = "Value" /\ ~IsCons(out.val)
        /\ q.outputs_to_step = Inserted(r.outputs_to_step, atom_value(out.val), r.row)

\* The machine's step, overridden or not, keeps the shape of the chain.
LEMMA NextStepShape ==
  ASSUME NEW r, NEW c, c = r.step, IsChain(c), WellFormed(c), next_step(r) # Failed
  PROVE  /\ IsChain(next_step(r)) /\ WellFormed(next_step(r))
         /\ Top(c).kind = "Done" => next_step(r) = c
<1>1. CASE Top(c).kind = "Done"
  BY <1>1 DEF next_step, run_step, is_overridden
<1>2. CASE ~is_overridden(Top(c), r.overrides) /\ Top(c).kind # "Done"
  BY <1>2, RunStepShape DEF next_step
<1>3. CASE is_overridden(Top(c), r.overrides)
  <2> DEFINE f == OpResult(OverrideValue(Top(c)))
  <2>1. next_step(r) = ReplaceTop(c, f)
    BY <1>3 DEF next_step, replace_step
  <2>2. f.kind = "OpResult"
    BY DEF OpResult
  <2> HIDE DEF f
  <2>3. Top(c) = c[Len(c)] /\ Top(c).kind = "ReadyOp"
    BY <1>3 DEF is_overridden, Top, Last
  <2>4. IsParent(c)
    BY <2>3 DEF IsParent
  <2> QED
    BY <2>1, <2>2, <2>3, <2>4, ReplaceShape DEF Kinds
<1> QED
  BY <1>1, <1>2, <1>3

\* The other fields of a run, when some are set.
Same(r, q, fields) == \A f \in RunFields \ fields : q[f] = r[f]

\* A row goes out.
LEMMA ProduceShape ==
  ASSUME NEW r, IsRun(r), NEW kind, NEW v, NEW p, p = Produce(r, kind, v)
  PROVE  /\ IsRun(p.run) /\ Same(r, p.run, {"row", "to_print"})
         /\ p.run.row = r.row + 1 /\ p.run.to_print = <<>>
         /\ p.out = [kind |-> kind, val |-> v, row |-> r.row, refs |-> r.to_print]
         /\ DOMAIN p = {"run", "out"}
<1> DEFINE q == [r EXCEPT !.row = @ + 1, !.to_print = <<>>]
<1>1. DOMAIN q = RunFields /\ q.row = r.row + 1 /\ q.to_print = <<>> /\ Same(r, q, {"row", "to_print"})
  BY DEF IsRun, Same, RunFields
<1>2. p.run = q /\ p.out = [kind |-> kind, val |-> v, row |-> r.row, refs |-> r.to_print] /\ DOMAIN p = {"run", "out"}
  BY DEF Produce
<1> HIDE DEF q
<1>3. IsRun(q)
  BY <1>1 DEF IsRun, Same, RunFields
<1> QED
  BY <1>1, <1>2, <1>3

\* What a call of step may do to a run.
LEMMA StepShape ==
  ASSUME NEW r, IsRun(r), NEW only \in BOOLEAN,
         NEW s, s = cldb_step(r, only)
  PROVE  /\ IsRun(s.run)
         /\ s.run.step \in {r.step, next_step(r)}
         /\ \/ s.out = NothingShown /\ GoesOn(r, s.run)
            \/ GivesRow(r, s.run, s.out)
<1> DEFINE next == next_step(r)
           t == Top(next)
<1> SUFFICES /\ IsRun(s.run)
             /\ s.run.step \in {r.step, next}
             /\ \/ s.out = NothingShown /\ GoesOn(r, s.run)
                \/ GivesRow(r, s.run, s.out)
  OBVIOUS
<1>1. s = MoveTo(r, next, t, only)
  BY DEF cldb_step
<1>2. next # Failed => /\ IsChain(next) /\ WellFormed(next)
                       /\ r.final_result # NoResult => t.kind = "Done"
  BY NextStepShape DEF IsRun
<1>3. DOMAIN r = RunFields /\ r.in_expr \in BOOLEAN /\ r.row \in Nat
  BY DEF IsRun
<1> HIDE DEF next
<1>4. CASE next = Failed
  <2> DEFINE q == [r EXCEPT !.ended = TRUE]
  <2>1. s = Produce(q, "Failure", Fail)
    BY <1>1, <1>4 DEF MoveTo
  <2>2. DOMAIN q = RunFields /\ q.ended = TRUE /\ Same(r, q, {"ended"})
    BY <1>3 DEF Same, RunFields
  <2> HIDE DEF q
  <2>3. IsRun(q)
    BY <2>2 DEF IsRun, Same, RunFields
  <2>4. /\ IsRun(s.run) /\ Same(q, s.run, {"row", "to_print"})
        /\ s.run.row = q.row + 1 /\ s.run.to_print = <<>>
        /\ s.out = [kind |-> "Failure", val |-> Fail, row |-> q.row, refs |-> q.to_print]
    BY <2>1, <2>3, ProduceShape
  <2> QED
    BY <2>2, <2>4 DEF Same, RunFields, GivesRow, Gathered, RowKinds
<1>5. CASE next # Failed
  <2> DEFINE q == [r EXCEPT !.step = next]
  <2>1. t.kind \in Kinds
    BY <1>2, <1>5 DEF WellFormed, IsChain, Top, Last
  <2>2. DOMAIN q = RunFields /\ q.step = next /\ Same(r, q, {"step"})
    BY <1>3 DEF Same, RunFields
  <2>3. t.kind # "Done" => IsRun(q)
    BY <1>2, <1>3, <1>5, <2>2 DEF IsRun, Same, RunFields
  <2>4. s = MoveTo(r, next, t, only)
    BY <1>1
  <2>5. CASE t.kind = "OpResult" /\ r.in_expr /\ ~only
    <3> DEFINE b == [q EXCEPT !.in_expr = FALSE]
               p == Produce(b, "Value", t.val)
    <3>1. s = IF IsCons(t.val) THEN p
              ELSE [p EXCEPT !.run.outputs_to_step = Inserted(@, atom_value(t.val), q.row)]
      BY <2>4, <1>5, <2>5 DEF MoveTo, ValueRow
    <3>2. DOMAIN b = RunFields /\ b.in_expr = FALSE /\ Same(q, b, {"in_expr"})
      BY <2>2 DEF Same, RunFields
    <3> HIDE DEF b
    <3>3. IsRun(b)
      BY <2>3, <2>5, <3>2 DEF IsRun, Same, RunFields
    <3>4. /\ IsRun(p.run) /\ Same(b, p.run, {"row", "to_print"})
          /\ p.run.row = b.row + 1 /\ p.run.to_print = <<>>
          /\ p.out = [kind |-> "Value", val |-> t.val, row |-> b.row, refs |-> b.to_print]
          /\ DOMAIN p = {"run", "out"}
      BY <3>3, ProduceShape
    <3>5. /\ Same(r, p.run, {"step", "in_expr", "row", "to_print"}) /\ p.run.step = next
          /\ b.row = r.row /\ b.to_print = r.to_print /\ q.row = r.row
      BY <2>2, <3>2, <3>4 DEF Same, RunFields
    <3> HIDE DEF p, q, t
    <3>6. CASE IsCons(t.val)
      BY <3>1, <3>4, <3>5, <3>6 DEF Same, RunFields, GivesRow, Gathered, RowKinds
    <3>7. CASE ~IsCons(t.val)
      <4> DEFINE o == Inserted(p.run.outputs_to_step, atom_value(t.val), q.row)
                 d == [p.run EXCEPT !.outputs_to_step = o]
      <4>1. s.run = d /\ s.out = p.out
        BY <3>1, <3>4, <3>7
      <4>2. DOMAIN d = RunFields /\ d.outputs_to_step = o /\ Same(p.run, d, {"outputs_to_step"})
        BY <3>4 DEF IsRun, Same, RunFields
      <4>3. o = Inserted(r.outputs_to_step, atom_value(t.val), r.row)
        BY <3>5 DEF Same, RunFields
      <4> HIDE DEF d, o
      <4>4. IsRun(d)
        BY <3>4, <4>2 DEF IsRun, Same, RunFields
      <4>5. s.run.step = next
        BY <3>5, <4>1, <4>2 DEF Same, RunFields
      <4> QED
        BY <3>4, <3>5, <3>7, <4>1, <4>2, <4>3, <4>4, <4>5 DEF Same, RunFields, GivesRow, Gathered, RowKinds
    <3> QED
      BY <3>6, <3>7
  <2>6. CASE t.kind = "OpResult" /\ (~r.in_expr \/ only)
    <3> DEFINE b == [q EXCEPT !.in_expr = FALSE]
    <3>1. s.run = b /\ s.out = NothingShown
      BY <2>4, <1>5, <2>6 DEF MoveTo, Silent
    <3>2. DOMAIN b = RunFields /\ b.in_expr = FALSE /\ Same(q, b, {"in_expr"})
      BY <2>2 DEF Same, RunFields
    <3> HIDE DEF b
    <3>3. IsRun(b)
      BY <2>3, <2>6, <3>2 DEF IsRun, Same, RunFields
    <3> QED
      BY <2>2, <3>1, <3>2, <3>3 DEF Same, RunFields, GoesOn, Gathered
  <2>7. CASE t.kind = "Done"
    <3> DEFINE d == [q EXCEPT !.ended = TRUE, !.final_result = t.val]
    <3>1. s = Produce(d, "Final", t.val)
      BY <2>4, <1>5, <2>7 DEF MoveTo
    <3>2. DOMAIN d = RunFields /\ d.ended = TRUE /\ d.final_result = t.val /\ Same(q, d, {"ended", "final_result"})
      BY <2>2 DEF Same, RunFields
    <3> HIDE DEF d
    <3>3. IsRun(d)
      BY <1>2, <1>3, <1>5, <2>2, <2>7, <3>2 DEF IsRun, Same, RunFields
    <3>4. /\ IsRun(s.run) /\ Same(d, s.run, {"row", "to_print"})
          /\ s.run.row = d.row + 1 /\ s.run.to_print = <<>>
          /\ s.out = [kind |-> "Final", val |-> t.val, row |-> d.row, refs |-> d.to_print]
      BY <3>1, <3>3, ProduceShape
    <3> QED
      BY <2>2, <3>2, <3>4 DEF Same, RunFields, GivesRow, Gathered, RowKinds
  <2>8. CASE t.kind = "ReadyOp"
    <3>1. s = OperatorRow(q, t, only)
      BY <2>4, <1>5, <2>8 DEF MoveTo
    <3>2. PICK refs : /\ Gathered(r, refs)
                      /\ \E p \in {Produce([q EXCEPT !.to_print = refs], "Print", ListOf(Tail(t.args), t.end)),
                                   Silent([q EXCEPT !.to_print = refs])} :
                           s = [p EXCEPT !.run.in_expr = IF only THEN @ ELSE TRUE]
      BY <2>2, <3>1 DEF OperatorRow, Gathered, Same, RunFields
    <3> DEFINE g == [q EXCEPT !.to_print = refs]
    <3>3. DOMAIN g = RunFields /\ g.to_print = refs /\ Same(q, g, {"to_print"})
      BY <2>2 DEF Same, RunFields
    <3>4. PICK p : /\ p = Produce(g, "Print", ListOf(Tail(t.args), t.end)) \/ p = Silent(g)
                   /\ s = [p EXCEPT !.run.in_expr = IF only THEN @ ELSE TRUE]
      BY <3>2
    <3> HIDE DEF g
    <3>5. IsRun(g)
      BY <2>3, <2>8, <3>3 DEF IsRun, Same, RunFields
    <3>6. /\ IsRun(p.run) /\ DOMAIN p = {"run", "out"}
          /\ \/ p.out = NothingShown /\ p.run = g
             \/ /\ Same(g, p.run, {"row", "to_print"})
                /\ p.run.row = g.row + 1 /\ p.run.to_print = <<>>
                /\ p.out = [kind |-> "Print", val |-> ListOf(Tail(t.args), t.end), row |-> g.row, refs |-> refs]
      BY <3>3, <3>4, <3>5, ProduceShape DEF Silent
    <3> DEFINE d == [p.run EXCEPT !.in_expr = IF only THEN @ ELSE TRUE]
    <3>7. s.run = d /\ s.out = p.out
      BY <3>4, <3>6
    <3>8. DOMAIN d = RunFields /\ d.in_expr \in BOOLEAN /\ Same(p.run, d, {"in_expr"})
      BY <3>6 DEF IsRun, Same, RunFields
    <3> HIDE DEF d
    <3>9. IsRun(d)
      BY <3>6, <3>8 DEF IsRun, Same, RunFields
    <3>10. Same(r, g, {"step", "to_print"}) /\ g.row = r.row
      BY <2>2, <3>3 DEF Same, RunFields
    <3>11. g.outputs_to_step = r.outputs_to_step
      BY <3>10 DEF Same, RunFields
    <3>12. Same(p.run, s.run, {"in_expr"})
      BY <3>7, <3>8
    <3>13. s.run.step = next
      <4>1. s.run.step = p.run.step
        BY <3>12 DEF Same, RunFields
      <4>2. p.run.step = g.step
        BY <3>6 DEF Same, RunFields
      <4>3. g.step = next
        BY <2>2, <3>3 DEF Same, RunFields
      <4> QED
        BY <4>1, <4>2, <4>3
    <3> HIDE DEF q, t
    <3>14. CASE p.out = NothingShown /\ p.run = g
      <4>1. GoesOn(r, s.run)
        BY <3>2, <3>3, <3>10, <3>11, <3>12, <3>14 DEF Same, RunFields, GoesOn
      <4> QED
        BY <3>7, <3>9, <3>14, <3>13, <4>1
    <3>15. CASE ~(p.out = NothingShown /\ p.run = g)
      <4>1. /\ s.run.row = p.run.row /\ s.run.to_print = p.run.to_print
            /\ s.run.outputs_to_step = p.run.outputs_to_step
        BY <3>12 DEF Same, RunFields
      <4>2. p.run.outputs_to_step = g.outputs_to_step
        BY <3>6, <3>15 DEF Same, RunFields
      <4>3. /\ p.run.row = g.row + 1 /\ p.run.to_print = <<>>
            /\ p.out.kind = "Print" /\ p.out.row = g.row /\ p.out.refs = refs
        BY <3>6, <3>15
      <4>4. GivesRow(r, s.run, s.out)
        BY <3>2, <3>7, <3>10, <3>11, <4>1, <4>2, <4>3, Zenon DEF GivesRow, RowKinds
      <4> QED
        BY <3>7, <3>9, <3>13, <4>4
    <3> QED
      BY <3>14, <3>15
  <2>9. CASE t.kind \in {"Step", "Op"}
    <3>1. s.run = q /\ s.out = NothingShown
      BY <2>4, <1>5, <2>9 DEF MoveTo, Silent
    <3> QED
      BY <2>2, <2>3, <2>9, <3>1 DEF Same, RunFields, GoesOn, Gathered
  <2> QED
    BY <2>1, <2>5, <2>6, <2>7, <2>8, <2>9 DEF Kinds
<1> QED
  BY <1>4, <1>5

(***************************************************************************)
(* What a program comes to.  The rules of CLVM as the sources have them,   *)
(* for any relation Comes between a step and a value and any set Fails of  *)
(* steps that obey them.  Each rule only says what follows from what some  *)
(* steps come to, so there are least ones, and those are evaluation.  The  *)
(* chain keeps a goal for every step, what the step's value is also a      *)
(* value of: the form its caller waits for, whatever tail applications     *)
(* have put in its place.                                                  *)
(***************************************************************************)

\* What f comes to, g comes to.
Leads(f, g) == (\A v : Comes(f, v) => Comes(g, v)) /\ (Fails(f) => Fails(g))

\* A form: nil, a path, a quotation or an operator on its arguments.
FormRule(s, e) ==
  LET g == Step(s, e)
      h == translate_head(First(s))
      v == choose_path(s[2], e)
  IN /\ IsNil(s) => Comes(g, s)
     /\ IsInt(s) => IF v = Fail THEN Fails(g) ELSE Comes(g, v)
     /\ IsBytes(s) => Leads(Step(Int_(s[2]), e), g)
     /\ ~IsNil(s) /\ ~IsInt(s) /\ ~IsBytes(s) =>
          IF h = Fail \/ IsCons(h) THEN Fails(g)
          ELSE IF atom_value(h) = 1 THEN Comes(g, Rest(s))
          ELSE IF truthy(ListEnd(Rest(s))) THEN Fails(g)
          ELSE Leads(Op(h, e, <<>>, ListEnd(Rest(s)), ListItems(Rest(s))), g)

\* An operator with forms left: the last of them, then the ones before it.
ArgumentRule(h, e, args, end, rest) ==
  LET g == Op(h, e, args, end, rest)
      f == Step(Last(rest), e)
  IN IF rest = <<>> THEN Leads(ReadyOp(h, e, args, end), g)
     ELSE /\ Fails(f) => Fails(g)
          /\ \A v : Comes(f, v) => Leads(Op(h, e, <<v>> \o args, end, Front(rest)), g)

\* An operator on the values of its arguments.
OperatorRule(h, e, args, end) ==
  LET g   == ReadyOp(h, e, args, end)
      ovr == try_handle(h, args, end)
      op  == atom_value(h)
      v   == apply_op(h, args)
  IN IF ovr = Fail THEN Fails(g)
     ELSE IF ovr # NoOverride THEN Comes(g, ovr)
     ELSE IF ~nilp(end) \/ wanted_args(op) \notin {-1, Len(args)} THEN Fails(g)
     ELSE /\ op = 2 => Leads(Step(args[1], args[2]), g)
          /\ op = 3 => Comes(g, IF truthy(args[1]) THEN args[2] ELSE args[3])
          /\ op = 4 => Comes(g, Pair(args[1], args[2]))
          /\ op \in {5, 6} =>
               IF ~IsCons(args[1]) THEN Fails(g)
               ELSE Comes(g, IF op = 5 THEN First(args[1]) ELSE Rest(args[1]))
          /\ op \notin {2, 3, 4, 5, 6} => IF v = Fail THEN Fails(g) ELSE Comes(g, v)

\* A function that is overridden: its consumer's value or error.
OverrideRule(f) ==
  IF OverrideValue(f) = Fail THEN Fails(f) ELSE Comes(f, OverrideValue(f))

\* The rules when the functions of the given names are overridden.
Rules(names) ==
  /\ \A s, e : FormRule(s, e)
  /\ \A h, e, args, end, rest : ArgumentRule(h, e, args, end, rest)
  /\ \A h, e, args, end :
       LET f == ReadyOp(h, e, args, end)
       IN IF is_overridden(f, names) THEN OverrideRule(f) ELSE OperatorRule(h, e, args, end)

\* A step has the fields of its kind and no others.
Framed(f) ==
  /\ f.kind = "Step" => f = Step(f.sexp, f.ctx)
  /\ f.kind = "Op" => f = Op(f.head, f.ctx, f.args, f.end, f.rest)
  /\ f.kind = "ReadyOp" => f = ReadyOp(f.head, f.ctx, f.args, f.end)

\* The operator f takes a value of goal, on the way to its own.
Waits(f, goal, own) ==
  \A v : Comes(goal, v) => Leads(Op(f.head, f.ctx, <<v>> \o f.args, f.end, f.rest), own)

\* The first m steps of c pass a value of g[m + 1] on to the program w.
Callers(w, g, c, m) ==
  /\ g[2] = w
  /\ \A i \in 2..(m + 1) : Fails(g[i]) => Fails(w)
  /\ \A i \in 2..m :
       /\ Framed(c[i])
       /\ c[i].kind = "Op" => Waits(c[i], g[i + 1], g[i])
       /\ c[i].kind \in {"Step", "ReadyOp"} => g[i + 1] = g[i]

Answers(f, goal) ==
  /\ Framed(f)
  /\ f.kind = "OpResult" => Comes(goal, f.val)
  /\ f.kind \in {"Step", "Op", "ReadyOp"} => Leads(f, goal)

\* The chain c of the program w.
Sound(w, c) ==
  LET n == Len(c)
  IN /\ n \in Nat /\ n > 0
     /\ n = 1 => Comes(w, c[1].val)
     /\ n > 1 => \E g : Callers(w, g, c, n - 1) /\ Answers(c[n], g[n])

Outcome(w, c) == IF c = Failed THEN Fails(w) ELSE Sound(w, c)

LEMMA LeadsOn == \A f, g, h : Leads(f, g) /\ Leads(g, h) => Leads(f, h)
  BY DEF Leads

\* Callers only look at the steps they are.
LEMMA CallersOnly ==
  ASSUME NEW w, NEW g, NEW c, NEW m \in Nat, Callers(w, g, c, m),
         NEW d, \A i \in 1..m : d[i] = c[i]
  PROVE  Callers(w, g, d, m)
<1>1. \A i \in 2..m : d[i] = c[i]
  OBVIOUS
<1> QED
  BY <1>1, Zenon DEF Callers

\* One more goal, and one more step that passes its value on.
LEMMA CallersMore ==
  ASSUME NEW w, NEW g, NEW c, NEW m \in Nat, m > 0, Callers(w, g, c, m),
         Framed(c[m + 1]), NEW goal,
         Fails(goal) => Fails(w),
         c[m + 1].kind = "Op" => Waits(c[m + 1], goal, g[m + 1]),
         c[m + 1].kind \in {"Step", "ReadyOp"} => goal = g[m + 1]
  PROVE  \E q : Callers(w, q, c, m + 1) /\ q[m + 2] = goal
<1> DEFINE q == [i \in Nat |-> IF i <= m + 1 THEN g[i] ELSE goal]
<1>1. (\A i \in 2..(m + 1) : q[i] = g[i]) /\ q[m + 2] = goal /\ q[2] = g[2]
  OBVIOUS
<1> HIDE DEF q
<1>2. /\ g[2] = w
      /\ \A i \in 2..(m + 1) : Fails(g[i]) => Fails(w)
      /\ \A i \in 2..m :
           /\ Framed(c[i])
           /\ c[i].kind = "Op" => Waits(c[i], g[i + 1], g[i])
           /\ c[i].kind \in {"Step", "ReadyOp"} => g[i + 1] = g[i]
  BY DEF Callers
<1>3. ASSUME NEW i \in 2..((m + 1) + 1) PROVE Fails(q[i]) => Fails(w)
  <2>1. i \in 2..(m + 1) \/ i = m + 2
    OBVIOUS
  <2> QED
    BY <1>1, <1>2, <2>1
<1>4. ASSUME NEW i \in 2..(m + 1)
      PROVE  /\ Framed(c[i])
             /\ c[i].kind = "Op" => Waits(c[i], q[i + 1], q[i])
             /\ c[i].kind \in {"Step", "ReadyOp"} => q[i + 1] = q[i]
  <2>1. CASE i = m + 1
    <3>1. i + 1 = m + 2 /\ q[i] = g[m + 1]
      BY <1>1, <2>1
    <3> QED
      BY <1>1, <2>1, <3>1
  <2>2. CASE i # m + 1
    <3>1. i \in 2..m /\ i + 1 \in 2..(m + 1)
      BY <2>2
    <3>2. q[i] = g[i] /\ q[i + 1] = g[i + 1]
      BY <1>1, <3>1
    <3> QED
      BY <1>2, <3>1, <3>2
  <2> QED
    BY <2>1, <2>2
<1>5. Callers(w, q, c, m + 1)
  BY <1>1, <1>2, <1>3, <1>4 DEF Callers
<1> QED
  BY <1>1, <1>5

LEMMA SoundOutcome == \A w, d : Sound(w, d) => Outcome(w, d)
<1> SUFFICES ASSUME NEW w, NEW d, Sound(w, d) PROVE Outcome(w, d)
  OBVIOUS
<1>1. Len(d) # 0
  BY DEF Sound
<1>2. Len(<<>>) = 0
  BY EmptySeq
<1> QED
  BY <1>1, <1>2 DEF Outcome, Failed

\* A value goes to the caller that waits for it.
LEMMA CombineSound ==
  ASSUME NEW w, NEW g, NEW c, IsParent(c), Callers(w, g, c, Len(c)),
         NEW v, Comes(g[Len(c) + 1], v)
  PROVE  Outcome(w, combine(v, c))
<1> DEFINE k == Receiver(c)
<1>1. PICK n \in Nat : Len(c) = n /\ n > 0
  BY ParentSteps
<1>2. /\ k \in {n, n - 1} \cap 1..n
      /\ c[k].kind \in {"Done", "Op"}
      /\ \A j \in (k + 1)..n : c[j].kind \in {"Step", "ReadyOp"}
  BY <1>1, ReceiverIsNear
<1>3. /\ g[2] = w
      /\ \A i \in 2..(n + 1) : Fails(g[i]) => Fails(w)
      /\ \A i \in 2..n :
           /\ Framed(c[i])
           /\ c[i].kind = "Op" => Waits(c[i], g[i + 1], g[i])
           /\ c[i].kind \in {"Step", "ReadyOp"} => g[i + 1] = g[i]
  BY <1>1 DEF Callers
<1> HIDE DEF k
<1>4. Comes(g[k + 1], v)
  <2>1. CASE k = n
    BY <1>1, <2>1
  <2>2. CASE k = n - 1
    <3>1. n \in (k + 1)..n /\ n \in 2..n /\ k + 1 = n
      BY <1>1, <1>2, <2>2
    <3>2. g[n + 1] = g[n]
      BY <1>2, <1>3, <3>1
    <3> QED
      BY <1>1, <3>1, <3>2
  <2> QED
    BY <1>2, <2>1, <2>2
<1>5. CASE c[k].kind = "Op"
  <2> DEFINE f == c[k]
             taken == [f EXCEPT !.args = <<v>> \o @]
             under == SubSeq(c, 1, k - 1)
             d == Append(under, taken)
  <2>1. combine(v, c) = d
    BY <1>5 DEF combine, k
  <2>2. k \in 2..n
    BY <1>1, <1>2, <1>5, ParentSteps
  <2>3. Framed(f) /\ Waits(f, g[k + 1], g[k])
    BY <1>3, <1>5, <2>2
  <2>4. taken = Op(f.head, f.ctx, <<v>> \o f.args, f.end, f.rest)
    <3>1. PICK h, e, args, end, rest : f = Op(h, e, args, end, rest)
      BY <1>5, <2>3 DEF Framed
    <3>2. f.head = h /\ f.ctx = e /\ f.args = args /\ f.end = end /\ f.rest = rest
      BY <3>1 DEF Op
    <3> DEFINE new == <<v>> \o args
    <3> HIDE DEF new
    <3>3. [Op(h, e, args, end, rest) EXCEPT !.args = new] = Op(h, e, new, end, rest)
      BY DEF Op
    <3>4. taken = [Op(h, e, args, end, rest) EXCEPT !.args = new]
      BY <3>1, <3>2 DEF new
    <3>5. Op(f.head, f.ctx, <<v>> \o f.args, f.end, f.rest) = Op(h, e, new, end, rest)
      BY <3>2 DEF new
    <3> QED
      BY <3>3, <3>4, <3>5
  <2>5. Leads(taken, g[k])
    BY <1>4, <2>3, <2>4 DEF Waits
  <2>6. Framed(taken) /\ taken.kind = "Op"
    BY <2>4 DEF Framed, Op
  <2>7. Answers(taken, g[k])
    BY <2>5, <2>6 DEF Answers
  <2>8. IsChain(under) /\ Len(under) = k - 1 /\ \A i \in 1..(k - 1) : under[i] = c[i]
    <3>1. k - 1 \in 0..Len(c)
      BY <1>1, <2>2
    <3> QED
      BY <3>1, PrefixChain DEF IsParent
  <2> HIDE DEF taken, under
  <2>9. Len(d) = k /\ d[k] = taken /\ \A i \in 1..(k - 1) : d[i] = c[i]
    BY <2>2, <2>8, AppendChain
  <2> HIDE DEF d
  <2>10. Callers(w, g, d, k - 1)
    <3>1. \A i \in 2..(k - 1) : i \in 2..n /\ i \in 1..(k - 1)
      BY <1>1, <2>2
    <3>2. \A i \in 2..((k - 1) + 1) : i \in 2..(n + 1)
      BY <1>1, <2>2
    <3> QED
      BY <1>3, <2>9, <3>1, <3>2 DEF Callers
  <2>11. k \in Nat /\ k > 1
    BY <1>1, <2>2
  <2>12. Sound(w, d)
    BY <2>7, <2>9, <2>10, <2>11 DEF Sound
  <2> QED
    BY <2>1, <2>12, SoundOutcome DEF d
<1>6. CASE c[k].kind = "Done"
  <2>1. combine(v, c) = <<Done(v)>>
    BY <1>6 DEF combine, k
  <2>2. k = 1
    BY <1>1, <1>2, <1>6, ParentSteps
  <2>3. Comes(w, v)
    BY <1>3, <1>4, <2>2
  <2> DEFINE d == <<Done(v)>>
  <2>4. Len(d) = 1 /\ d[1].val = v
    BY DEF Done
  <2> HIDE DEF d
  <2>5. Sound(w, d)
    BY <2>3, <2>4 DEF Sound
  <2> QED
    BY <2>1, <2>5, SoundOutcome DEF d
<1> QED
  BY <1>2, <1>5, <1>6

\* A chain that is not finished: the callers of its last step, and the goal of it.
Waiting(w, g, c) ==
  LET n == Len(c)
  IN /\ IsChain(c) /\ n \in Nat /\ n > 1
     /\ Callers(w, g, c, n - 1)
     /\ Framed(c[n])
     /\ c[n].kind \in {"Step", "Op", "ReadyOp"}
     /\ Leads(c[n], g[n])

\* Another step in the place of the last.
LEMMA ReplaceSound ==
  ASSUME NEW w, NEW g, NEW c, Waiting(w, g, c), NEW f, Answers(f, g[Len(c)])
  PROVE  Outcome(w, ReplaceTop(c, f))
<1> DEFINE d == ReplaceTop(c, f)
<1>1. PICK n \in Nat : Len(c) = n /\ n > 1 /\ IsChain(c) /\ Callers(w, g, c, n - 1)
  BY DEF Waiting
<1>2. Len(d) = n /\ d[n] = f /\ \A i \in 1..(n - 1) : d[i] = c[i]
  BY <1>1, TopChain
<1> HIDE DEF d
<1>3. Callers(w, g, d, n - 1)
  <2>1. n - 1 \in Nat
    BY <1>1
  <2> QED
    BY <1>1, <1>2, <2>1, CallersOnly
<1>4. Sound(w, d)
  BY <1>1, <1>2, <1>3 DEF Sound
<1> QED
  BY <1>4, SoundOutcome DEF d

\* One more step on top of the last.
LEMMA AppendSound ==
  ASSUME NEW w, NEW g, NEW c, IsChain(c), Len(c) > 0, Callers(w, g, c, Len(c)),
         NEW f, Answers(f, g[Len(c) + 1])
  PROVE  Outcome(w, Append(c, f))
<1> DEFINE d == Append(c, f)
<1>1. PICK n \in Nat : Len(c) = n
  BY AppendChain
<1>2. Len(d) = n + 1 /\ d[n + 1] = f /\ \A i \in 1..n : d[i] = c[i]
  BY <1>1, AppendChain
<1> HIDE DEF d
<1>3. Callers(w, g, d, n)
  BY <1>1, <1>2, CallersOnly
<1>4. n + 1 \in Nat /\ n + 1 > 1 /\ (n + 1) - 1 = n
  BY <1>1
<1>5. Sound(w, d)
  BY <1>1, <1>2, <1>3, <1>4 DEF Sound
<1> QED
  BY <1>5, SoundOutcome DEF d

\* The last step passes the value on that it gets.
LEMMA PassOn ==
  ASSUME NEW w, NEW g, NEW c, Waiting(w, g, c), c[Len(c)].kind \in {"Step", "ReadyOp"}
  PROVE  \E q : Callers(w, q, c, Len(c)) /\ q[Len(c) + 1] = g[Len(c)]
<1>1. PICK n \in Nat : /\ Len(c) = n /\ n > 1 /\ Callers(w, g, c, n - 1) /\ Framed(c[n])
  BY DEF Waiting
<1>2. PICK m \in Nat : n = m + 1 /\ m > 0
  <2>1. n - 1 \in Nat /\ n = (n - 1) + 1 /\ n - 1 > 0
    BY <1>1
  <2> QED
    BY <2>1
<1>3. Callers(w, g, c, m) /\ n - 1 = m
  BY <1>1, <1>2
<1>4. Fails(g[n]) => Fails(w)
  BY <1>2, <1>3 DEF Callers
<1>5. c[m + 1].kind \in {"Step", "ReadyOp"} /\ Framed(c[m + 1])
  BY <1>1, <1>2
<1>6. \E q : Callers(w, q, c, m + 1) /\ q[m + 2] = g[m + 1]
  BY <1>2, <1>3, <1>4, <1>5, CallersMore
<1>7. m + 2 = n + 1
  BY <1>2
<1> QED
  BY <1>1, <1>2, <1>6, <1>7

\* The three ways a step's value goes on.
LEMMA ValueSound ==
  ASSUME NEW w, NEW g, NEW c, Waiting(w, g, c), WellFormed(c),
         c[Len(c)].kind \in {"Step", "ReadyOp"}, NEW v, Comes(c[Len(c)], v)
  PROVE  /\ Outcome(w, combine(v, c))
         /\ Outcome(w, Append(c, OpResult(v)))
         /\ Outcome(w, ReplaceTop(c, OpResult(v)))
<1>1. PICK n \in Nat : Len(c) = n /\ n > 0 /\ IsChain(c) /\ Comes(g[n], v)
  BY DEF Waiting, Leads
<1>2. PICK q : Callers(w, q, c, n) /\ q[n + 1] = g[n]
  BY <1>1, PassOn
<1>3. IsParent(c)
  BY <1>1 DEF IsParent
<1>4. Outcome(w, combine(v, c))
  BY <1>1, <1>2, <1>3, CombineSound
<1>5. Answers(OpResult(v), g[n])
  BY <1>1 DEF Answers, Framed, OpResult
<1> QED
  BY <1>1, <1>2, <1>4, <1>5, AppendSound, ReplaceSound

LEMMA FailSound ==
  ASSUME NEW w, NEW g, NEW c, Waiting(w, g, c), Fails(c[Len(c)])
  PROVE  Outcome(w, Failed)
<1>1. PICK n \in Nat : Len(c) = n /\ n > 1 /\ Callers(w, g, c, n - 1) /\ Fails(g[n])
  BY DEF Waiting, Leads
<1>2. n \in 2..((n - 1) + 1)
  BY <1>1
<1> QED
  BY <1>1, <1>2 DEF Callers, Outcome

\* The chain without the result on its top is one a value can be returned to.
LEMMA UnderResult ==
  ASSUME NEW c, IsChain(c), WellFormed(c), c[Len(c)].kind = "OpResult"
  PROVE  /\ IsParent(Front(c)) /\ Len(c) \in Nat /\ Len(c) > 1
         /\ Len(Front(c)) = Len(c) - 1
         /\ \A i \in 1..(Len(c) - 1) : Front(c)[i] = c[i]
<1> DEFINE p == Front(c)
<1>1. Len(c) \in Nat /\ Len(c) > 1 /\ c[1].kind = "Done"
  BY DEF IsChain, WellFormed
<1>2. IsChain(p) /\ Len(p) = Len(c) - 1 /\ \A i \in 1..(Len(c) - 1) : p[i] = c[i]
  BY <1>1, TopChain
<1> HIDE DEF p
<1>3. p[Len(p)].kind # "OpResult"
  BY <1>1, <1>2 DEF WellFormed
<1>4. WellFormed(p)
  <2>1. Len(p) > 0 /\ p[1].kind = "Done"
    BY <1>1, <1>2
  <2>2. \A i \in 1..(Len(p) - 1) : p[i].kind \in {"Done", "Op"}
    BY <1>1, <1>2 DEF WellFormed, Kinds
  <2>3. \A i \in 2..Len(p) : p[i].kind \in Kinds \ {"Done"}
    BY <1>1, <1>2 DEF WellFormed, Kinds
  <2> QED
    BY <1>2, <2>1, <2>2, <2>3, StepsShape
<1> QED
  BY <1>1, <1>2, <1>3, <1>4 DEF IsParent, p

\* A form is evaluated.
LEMMA FormSound ==
  ASSUME \A s, e : FormRule(s, e),
         NEW w, NEW g, NEW c, Waiting(w, g, c), WellFormed(c), c[Len(c)].kind = "Step"
  PROVE  Outcome(w, step_expression(c))
<1>1. PICK n \in Nat : Len(c) = n /\ n > 1 /\ Top(c) = c[n] /\ Leads(c[n], g[n]) /\ Framed(c[n])
  BY DEF Waiting, Top, Last
<1>2. PICK s, e : c[n] = Step(s, e) /\ Top(c).sexp = s /\ Top(c).ctx = e
  <2>1. PICK s, e : c[n] = Step(s, e)
    BY <1>1 DEF Framed
  <2> QED
    BY <1>1, <2>1 DEF Step
<1>3. FormRule(s, e)
  OBVIOUS
<1> DEFINE t == Step(s, e)
           h == translate_head(First(s))
           v == choose_path(s[2], e)
<1>4. /\ IsNil(s) => Comes(t, s)
      /\ IsInt(s) => IF v = Fail THEN Fails(t) ELSE Comes(t, v)
      /\ IsBytes(s) => Leads(Step(Int_(s[2]), e), t)
      /\ ~IsNil(s) /\ ~IsInt(s) /\ ~IsBytes(s) =>
           IF h = Fail \/ IsCons(h) THEN Fails(t)
           ELSE IF atom_value(h) = 1 THEN Comes(t, Rest(s))
           ELSE IF truthy(ListEnd(Rest(s))) THEN Fails(t)
           ELSE Leads(Op(h, e, <<>>, ListEnd(Rest(s)), ListItems(Rest(s))), t)
  BY <1>3, Zenon DEF FormRule
<1>5. c[Len(c)] = t
  BY <1>1, <1>2
<1> HIDE DEF t
<1>6. \A u : Comes(t, u) => Outcome(w, combine(u, c)) /\ Outcome(w, Append(c, OpResult(u)))
  BY <1>5, ValueSound
<1>7. Fails(t) => Outcome(w, Failed)
  BY <1>5, FailSound
<1>8. ASSUME NEW f, Framed(f), f.kind \in {"Step", "Op", "ReadyOp"}, Leads(f, t)
      PROVE  Outcome(w, ReplaceTop(c, f))
  <2>1. Leads(f, g[n])
    BY <1>1, <1>2, <1>8, LeadsOn DEF t
  <2>2. Answers(f, g[n])
    BY <1>8, <2>1 DEF Answers
  <2> QED
    BY <1>1, <2>2, ReplaceSound
<1>9. CASE IsNil(s)
  <2>1. step_expression(c) = Append(c, OpResult(s))
    BY <1>2, <1>9 DEF step_expression, IsNil, IsInt, IsBytes
  <2> QED
    BY <1>4, <1>6, <1>9, <2>1
<1>10. CASE IsInt(s) /\ ~IsNil(s)
  <2>1. step_expression(c) = IF v = Fail THEN Failed ELSE Append(c, OpResult(v))
    <3>1. ~IsNil(s) /\ IsInt(s) /\ ~IsBytes(s)
      BY <1>10 DEF IsInt, IsBytes
    <3> QED
      BY <1>2, <3>1, Zenon DEF step_expression
  <2>2. IF v = Fail THEN Fails(t) ELSE Comes(t, v)
    BY <1>4, <1>10
  <2> HIDE DEF v
  <2> QED
    BY <1>6, <1>7, <2>1, <2>2
<1>11. CASE IsBytes(s) /\ ~IsInt(s) /\ ~IsNil(s)
  <2> DEFINE f == Step(Int_(s[2]), e)
  <2>1. step_expression(c) = ReplaceTop(c, f)
    BY <1>2, <1>11 DEF step_expression
  <2>2. Framed(f) /\ f.kind = "Step"
    BY DEF Framed, Step
  <2>3. Leads(f, t)
    BY <1>4, <1>11
  <2> HIDE DEF f
  <2> QED
    BY <1>8, <2>1, <2>2, <2>3
<1>12. CASE ~IsNil(s) /\ ~IsInt(s) /\ ~IsBytes(s)
  <2>1. step_expression(c) = IF h = Fail \/ IsCons(h) THEN Failed
                             ELSE IF atom_value(h) = 1 THEN combine(Rest(s), c)
                             ELSE eval_args(h, Rest(s), c)
    BY <1>2, <1>12, Zenon DEF step_expression
  <2> DEFINE f == Op(h, e, <<>>, ListEnd(Rest(s)), ListItems(Rest(s)))
  <2>2. eval_args(h, Rest(s), c) = IF truthy(ListEnd(Rest(s))) THEN Failed ELSE ReplaceTop(c, f)
    BY <1>2 DEF eval_args
  <2>3. IF h = Fail \/ IsCons(h) THEN Fails(t)
        ELSE IF atom_value(h) = 1 THEN Comes(t, Rest(s))
        ELSE IF truthy(ListEnd(Rest(s))) THEN Fails(t)
        ELSE Leads(f, t)
    BY <1>4, <1>12
  <2>4. Framed(f) /\ f.kind = "Op"
    BY DEF Framed, Op
  <2> HIDE DEF f, h
  <2> QED
    BY <1>6, <1>7, <1>8, <2>1, <2>2, <2>3, <2>4
<1> QED
  BY <1>9, <1>10, <1>11, <1>12

\* The last form left is taken, or every argument has its value.
LEMMA ArgumentSound ==
  ASSUME \A h, e, args, end, rest : ArgumentRule(h, e, args, end, rest),
         NEW w, NEW g, NEW c, Waiting(w, g, c), WellFormed(c), c[Len(c)].kind = "Op"
  PROVE  Outcome(w, next_argument(c))
<1>1. PICK n \in Nat : /\ Len(c) = n /\ n > 1 /\ Top(c) = c[n]
                      /\ IsChain(c) /\ Callers(w, g, c, n - 1)
                      /\ Leads(c[n], g[n]) /\ Framed(c[n])
  BY DEF Waiting, Top, Last
<1>2. PICK h, e, args, end, rest : c[n] = Op(h, e, args, end, rest)
  BY <1>1 DEF Framed
<1> DEFINE t == Top(c)
<1>3. t.head = h /\ t.ctx = e /\ t.args = args /\ t.end = end /\ t.rest = rest
  BY <1>1, <1>2 DEF Op
<1>4. ArgumentRule(h, e, args, end, rest)
  OBVIOUS
<1>5. CASE rest = <<>>
  <2> DEFINE f == ReadyOp(h, e, args, end)
  <2>1. next_argument(c) = ReplaceTop(c, f)
    BY <1>3, <1>5 DEF next_argument
  <2>2. Framed(f) /\ f.kind = "ReadyOp"
    BY DEF Framed, ReadyOp
  <2>3. Leads(f, c[n])
    BY <1>2, <1>4, <1>5 DEF ArgumentRule
  <2> HIDE DEF f
  <2>4. Answers(f, g[n])
    BY <1>1, <2>2, <2>3, LeadsOn DEF Answers
  <2> QED
    BY <1>1, <2>1, <2>4, ReplaceSound
<1>6. CASE rest # <<>>
  <2> DEFINE left == Front(rest)
             f == Op(h, e, args, end, left)
             s == Step(Last(rest), e)
             d == ReplaceTop(c, f)
  <2>1. next_argument(c) = Append(d, s)
    <3> DEFINE o == Op(h, e, args, end, rest)
    <3>1. t = o
      BY <1>1, <1>2
    <3> HIDE DEF left
    <3>2. [o EXCEPT !.rest = left] = f
      BY DEF Op
    <3> HIDE DEF o, f, d
    <3>3. [t EXCEPT !.rest = Front(t.rest)] = f
      BY <1>3, <3>1, <3>2 DEF left
    <3>4. next_argument(c) = Append(ReplaceTop(c, [t EXCEPT !.rest = Front(t.rest)]), Step(Last(t.rest), t.ctx))
      BY <1>3, <1>6 DEF next_argument
    <3> QED
      BY <1>3, <3>3, <3>4 DEF d
  <2>2. /\ Fails(s) => Fails(c[n])
        /\ \A v : Comes(s, v) => Leads(Op(h, e, <<v>> \o args, end, left), c[n])
    BY <1>2, <1>4, <1>6 DEF ArgumentRule
  <2>3. Framed(f) /\ f.kind = "Op" /\ f.head = h /\ f.ctx = e /\ f.args = args /\ f.end = end /\ f.rest = left
    BY DEF Framed, Op
  <2>4. Framed(s) /\ s.kind = "Step"
    BY DEF Framed, Step
  <2> HIDE DEF f, s, left
  <2>5. Waits(f, s, g[n])
    BY <1>1, <2>2, <2>3, LeadsOn DEF Waits
  <2>6. Fails(g[n]) => Fails(w)
    <3>1. n \in 2..((n - 1) + 1)
      BY <1>1
    <3> QED
      BY <1>1, <3>1 DEF Callers
  <2>7. Fails(s) => Fails(w)
    BY <1>1, <2>2, <2>6 DEF Leads
  <2>8. IsChain(d) /\ Len(d) = n /\ d[n] = f /\ \A i \in 1..(n - 1) : d[i] = c[i]
    BY <1>1, TopChain
  <2> HIDE DEF d
  <2>9. PICK m \in Nat : n = m + 1 /\ m > 0 /\ m = n - 1
    <3>1. n - 1 \in Nat /\ n = (n - 1) + 1 /\ n - 1 > 0
      BY <1>1
    <3> QED
      BY <3>1
  <2>10. Callers(w, g, d, m)
    BY <1>1, <2>8, <2>9, CallersOnly
  <2>11. PICK q : Callers(w, q, d, n) /\ q[n + 1] = s
    <3>1. d[m + 1] = f /\ g[m + 1] = g[n] /\ m + 2 = n + 1
      BY <2>8, <2>9
    <3>2. /\ Framed(d[m + 1])
          /\ d[m + 1].kind = "Op" => Waits(d[m + 1], s, g[m + 1])
          /\ d[m + 1].kind \in {"Step", "ReadyOp"} => s = g[m + 1]
      BY <2>3, <2>5, <3>1
    <3>3. \E q : Callers(w, q, d, m + 1) /\ q[m + 2] = s
      BY <2>7, <2>9, <2>10, <3>2, CallersMore
    <3> QED
      BY <2>9, <3>1, <3>3
  <2>12. Answers(s, q[n + 1])
    <3>1. Leads(s, s)
      BY DEF Leads
    <3> QED
      BY <2>4, <2>11, <3>1 DEF Answers
  <2> QED
    BY <1>1, <2>1, <2>8, <2>11, <2>12, AppendSound
<1> QED
  BY <1>5, <1>6

\* An operator that has its arguments is applied.
LEMMA OperatorSound ==
  ASSUME NEW c,
         \A h, e, args, end : c[Len(c)] = ReadyOp(h, e, args, end) => OperatorRule(h, e, args, end),
         NEW w, NEW g, Waiting(w, g, c), WellFormed(c), c[Len(c)].kind = "ReadyOp"
  PROVE  Outcome(w, run_operator(c))
<1>1. PICK n \in Nat : Len(c) = n /\ n > 1 /\ Top(c) = c[n] /\ Leads(c[n], g[n]) /\ Framed(c[n])
  BY DEF Waiting, Top, Last
<1>2. PICK h, e, args, end :
        /\ c[n] = ReadyOp(h, e, args, end)
        /\ Top(c).head = h /\ Top(c).args = args /\ Top(c).end = end
  <2>1. PICK h, e, args, end : c[n] = ReadyOp(h, e, args, end)
    BY <1>1 DEF Framed
  <2> QED
    BY <1>1, <2>1 DEF ReadyOp
<1>3. OperatorRule(h, e, args, end)
  BY <1>1, <1>2
<1> DEFINE t == ReadyOp(h, e, args, end)
           ovr == try_handle(h, args, end)
           op == atom_value(h)
           v == apply_op(h, args)
           wrong == ~nilp(end) \/ wanted_args(op) \notin {-1, Len(args)}
           third == IF truthy(args[1]) THEN args[2] ELSE args[3]
           part == IF op = 5 THEN First(args[1]) ELSE Rest(args[1])
<1>4. IF ovr = Fail THEN Fails(t)
      ELSE IF ovr # NoOverride THEN Comes(t, ovr)
      ELSE IF wrong THEN Fails(t)
      ELSE /\ op = 2 => Leads(Step(args[1], args[2]), t)
           /\ op = 3 => Comes(t, third)
           /\ op = 4 => Comes(t, Pair(args[1], args[2]))
           /\ op \in {5, 6} => IF ~IsCons(args[1]) THEN Fails(t) ELSE Comes(t, part)
           /\ op \notin {2, 3, 4, 5, 6} => IF v = Fail THEN Fails(t) ELSE Comes(t, v)
  BY <1>3 DEF OperatorRule
<1>5. c[Len(c)] = t
  BY <1>1, <1>2
<1>6. run_operator(c) = IF ovr = Fail THEN Failed
                        ELSE IF ovr # NoOverride THEN ReplaceTop(c, OpResult(ovr))
                        ELSE IF wrong THEN Failed ELSE run_primitive(c, op, args)
  BY <1>2 DEF run_operator
<1>7. /\ op = 2 => run_primitive(c, op, args) = ReplaceTop(c, Step(args[1], args[2]))
      /\ op = 3 => run_primitive(c, op, args) = combine(third, c)
      /\ op = 4 => run_primitive(c, op, args) = Append(c, OpResult(Pair(args[1], args[2])))
      /\ op \in {5, 6} => run_primitive(c, op, args) =
                            IF ~IsCons(args[1]) THEN Failed ELSE Append(c, OpResult(part))
      /\ op \notin {2, 3, 4, 5, 6} => run_primitive(c, op, args) =
                                        IF v = Fail THEN Failed ELSE Append(c, OpResult(v))
  <2> HIDE DEF op
  <2>1. CASE op = 2
    BY <2>1 DEF run_primitive, Apply
  <2>2. CASE op = 3
    BY <2>2 DEF run_primitive
  <2>3. CASE op = 4
    BY <2>3 DEF run_primitive
  <2>4. CASE op \in {5, 6}
    BY <2>4 DEF run_primitive
  <2>5. CASE op \notin {2, 3, 4, 5, 6}
    BY <1>2, <2>5 DEF run_primitive
  <2> QED
    BY <2>1, <2>2, <2>3, <2>4, <2>5
<1> HIDE DEF t, ovr, op, v, wrong, third, part
<1>8. \A u : Comes(t, u) => /\ Outcome(w, combine(u, c))
                           /\ Outcome(w, Append(c, OpResult(u)))
                           /\ Outcome(w, ReplaceTop(c, OpResult(u)))
  BY <1>5, ValueSound
<1>9. Fails(t) => Outcome(w, Failed)
  BY <1>5, FailSound
<1> DEFINE s == Step(args[1], args[2])
<1>10. Leads(s, t) => Outcome(w, ReplaceTop(c, s))
  <2>1. Framed(s) /\ s.kind = "Step"
    BY DEF Framed, Step
  <2> HIDE DEF s
  <2>2. Leads(t, g[n])
    BY <1>1, <1>5
  <2>3. Leads(s, t) => Answers(s, g[n])
    BY <2>1, <2>2, LeadsOn DEF Answers
  <2> QED
    BY <1>1, <2>3, ReplaceSound
<1> HIDE DEF s
<1>11. CASE ovr = Fail \/ ovr # NoOverride \/ wrong
  BY <1>4, <1>6, <1>8, <1>9, <1>11
<1>12. CASE ~(ovr = Fail \/ ovr # NoOverride \/ wrong)
  <2>1. run_operator(c) = run_primitive(c, op, args)
    BY <1>6, <1>12
  <2>2. CASE op = 2
    BY <1>4, <1>7, <1>10, <1>12, <2>1, <2>2 DEF s
  <2>3. CASE op = 3
    BY <1>4, <1>7, <1>8, <1>12, <2>1, <2>3
  <2>4. CASE op = 4
    BY <1>4, <1>7, <1>8, <1>12, <2>1, <2>4
  <2>5. CASE op \in {5, 6}
    BY <1>4, <1>7, <1>8, <1>9, <1>12, <2>1, <2>5
  <2>6. CASE op \notin {2, 3, 4, 5, 6}
    BY <1>4, <1>7, <1>8, <1>9, <1>12, <2>1, <2>6
  <2> QED
    BY <2>2, <2>3, <2>4, <2>5, <2>6
<1> QED
  BY <1>11, <1>12

\* Every step of the machine keeps what the run will come to among what the
\* program comes to, and fails only if the program does.
LEMMA RunStepSound ==
  ASSUME NEW names, Rules(names), NEW w, NEW c, IsChain(c), WellFormed(c),
         Top(c).kind # "Done", ~is_overridden(Top(c), names), Sound(w, c)
  PROVE  Outcome(w, run_step(c))
<1>1. PICK n \in Nat : Len(c) = n /\ n > 1 /\ Top(c) = c[n] /\ c[n].kind \in Kinds \ {"Done"}
  BY DEF IsChain, WellFormed, Top, Last
<1>2. PICK g : Callers(w, g, c, n - 1) /\ Answers(c[n], g[n])
  BY <1>1 DEF Sound
<1>3. CASE c[n].kind = "OpResult"
  <2> DEFINE p == Front(c)
  <2>1. IsParent(p) /\ Len(p) = n - 1 /\ \A i \in 1..(n - 1) : p[i] = c[i]
    BY <1>1, <1>3, UnderResult
  <2> HIDE DEF p
  <2>2. Callers(w, g, p, n - 1)
    <3>1. n - 1 \in Nat
      BY <1>1
    <3> QED
      BY <1>2, <2>1, <3>1, CallersOnly
  <2>3. Comes(g[n], c[n].val) /\ (n - 1) + 1 = n
    BY <1>1, <1>2, <1>3 DEF Answers
  <2>4. run_step(c) = combine(c[n].val, p)
    BY <1>1, <1>3 DEF run_step, ParentOf, p
  <2> QED
    BY <2>1, <2>2, <2>3, <2>4, CombineSound
<1>4. c[n].kind # "OpResult" => Waiting(w, g, c)
  BY <1>1, <1>2 DEF Waiting, Answers, Kinds
<1>5. CASE c[n].kind = "Step"
  <2>1. run_step(c) = step_expression(c)
    BY <1>1, <1>5 DEF run_step
  <2> QED
    BY <1>1, <1>4, <1>5, <2>1, FormSound DEF Rules
<1>6. CASE c[n].kind = "Op"
  <2>1. run_step(c) = next_argument(c)
    BY <1>1, <1>6 DEF run_step
  <2> QED
    BY <1>1, <1>4, <1>6, <2>1, ArgumentSound DEF Rules
<1>7. CASE c[n].kind = "ReadyOp"
  <2>1. run_step(c) = run_operator(c)
    BY <1>1, <1>7 DEF run_step
  <2>2. \A h, e, args, end : c[Len(c)] = ReadyOp(h, e, args, end) => OperatorRule(h, e, args, end)
    BY <1>1 DEF Rules
  <2> QED
    BY <1>1, <1>4, <1>7, <2>1, <2>2, OperatorSound
<1> QED
  BY <1>1, <1>3, <1>5, <1>6, <1>7 DEF Kinds

\* The chain a run begins with.
LEMMA StartSound == \A s, e : Sound(Step(s, e), start_step(s, e))
<1> SUFFICES ASSUME NEW s, NEW e PROVE Sound(Step(s, e), start_step(s, e))
  OBVIOUS
<1> DEFINE w == Step(s, e)
           d == Done(s)
           c == <<d, w>>
           g == [i \in Nat |-> w]
<1>1. Len(c) = 2 /\ c[2] = w /\ c = start_step(s, e)
  BY DEF start_step
<1>2. Framed(w) /\ w.kind = "Step" /\ Leads(w, w)
  BY DEF Framed, Step, Leads
<1> HIDE DEF w, d, c
<1>3. g[2] = w /\ \A i \in 2..(1 + 1) : g[i] = w
  OBVIOUS
<1> HIDE DEF g
<1>4. Callers(w, g, c, 1)
  BY <1>3 DEF Callers
<1>5. Answers(c[2], g[2])
  BY <1>1, <1>2, <1>3 DEF Answers
<1>6. Sound(w, c)
  <2>1. 2 - 1 = 1 /\ 2 > 1 /\ 2 \in Nat
    OBVIOUS
  <2> QED
    BY <1>1, <1>4, <1>5, <2>1 DEF Sound
<1> QED
  BY <1>1, <1>6 DEF w

\* A sound chain that is finished has a value of the program.
LEMMA DoneComes ==
  ASSUME NEW w, NEW c, Sound(w, c), IsChain(c), WellFormed(c), Top(c).kind = "Done"
  PROVE  Comes(w, Top(c).val)
<1>1. PICK n \in Nat : Len(c) = n /\ n > 0 /\ Top(c) = c[n]
  BY DEF IsChain, WellFormed, Top, Last
<1>2. n \in 1..Len(c) /\ c[n].kind = "Done"
  BY <1>1
<1>3. \A i \in 1..Len(c) : c[i].kind = "Done" => i = 1
  BY DEF WellFormed
<1>4. n = 1
  BY <1>2, <1>3
<1> QED
  BY <1>1, <1>4 DEF Sound

\* So does every step of a CldbRun, of an overridden function or not.
LEMMA NextStepSound ==
  ASSUME NEW r, Rules(r.overrides), IsChain(r.step), WellFormed(r.step),
         Top(r.step).kind # "Done", NEW w, Sound(w, r.step)
  PROVE  Outcome(w, next_step(r))
<1> DEFINE c == r.step
<1>1. CASE ~is_overridden(Top(c), r.overrides)
  BY <1>1, RunStepSound DEF next_step
<1>2. CASE is_overridden(Top(c), r.overrides)
  <2> DEFINE t == Top(c)
  <2>1. PICK n \in Nat : Len(c) = n /\ n > 1 /\ t = c[n] /\ t.kind = "ReadyOp"
    BY <1>2 DEF IsChain, WellFormed, Top, Last, is_overridden
  <2>2. PICK g : Callers(w, g, c, n - 1) /\ Answers(c[n], g[n])
    BY <2>1 DEF Sound
  <2>3. Waiting(w, g, c)
    BY <2>1, <2>2 DEF Waiting, Answers
  <2>4. PICK h, e, args, end : t = ReadyOp(h, e, args, end)
    BY <2>1, <2>2 DEF Answers, Framed
  <2>5. OverrideRule(t)
    BY <1>2, <2>4 DEF Rules
  <2> DEFINE v == OverrideValue(t)
  <2>6. next_step(r) = IF v = Fail THEN Failed ELSE ReplaceTop(c, OpResult(v))
    BY <1>2 DEF next_step, replace_step
  <2>7. IF v = Fail THEN Fails(t) ELSE Comes(t, v)
    BY <2>5 DEF OverrideRule
  <2> HIDE DEF v, t, c
  <2>8. CASE v = Fail
    BY <2>1, <2>3, <2>6, <2>7, <2>8, FailSound
  <2>9. CASE v # Fail
    <3>1. WellFormed(c) /\ c[Len(c)].kind \in {"Step", "ReadyOp"} /\ Comes(c[Len(c)], v)
      BY <2>1, <2>7, <2>9 DEF c
    <3>2. Outcome(w, ReplaceTop(c, OpResult(v)))
      BY <2>3, <3>1, ValueSound
    <3> QED
      BY <2>6, <2>9, <3>2
  <2> QED
    BY <2>8, <2>9
<1> QED
  BY <1>1, <1>2

\* What of a run the rows have no part in.
Core(r, c, names, ended, v) ==
  /\ DOMAIN r = RunFields
  /\ r.step = c /\ r.overrides = names /\ r.ended = ended /\ r.final_result = v

LEMMA ProduceCore ==
  ASSUME NEW r, DOMAIN r = RunFields, NEW kind, NEW v, NEW p, p = Produce(r, kind, v)
  PROVE  /\ Core(p.run, r.step, r.overrides, r.ended, r.final_result)
         /\ p.out.kind = kind /\ p.out.val = v /\ DOMAIN p = {"run", "out"}
<1> DEFINE q == [r EXCEPT !.row = @ + 1, !.to_print = <<>>]
<1>1. Core(q, r.step, r.overrides, r.ended, r.final_result)
  BY DEF RunFields, Core
<1>2. p.run = q /\ p.out.kind = kind /\ p.out.val = v /\ DOMAIN p = {"run", "out"}
  BY DEF Produce
<1> HIDE DEF q
<1> QED
  BY <1>1, <1>2

\* What a call of step makes of the machine: it fails, finishes or goes on.
LEMMA StepCore ==
  ASSUME NEW r, DOMAIN r = RunFields, NEW only \in BOOLEAN,
         NEW s, s = cldb_step(r, only)
  PROVE  LET next == next_step(r)
         IN /\ next = Failed =>
                 s.out.kind = "Failure" /\ Core(s.run, r.step, r.overrides, TRUE, r.final_result)
            /\ next # Failed /\ Top(next).kind = "Done" =>
                 /\ s.out.kind = "Final" /\ s.out.val = Top(next).val
                 /\ Core(s.run, next, r.overrides, TRUE, Top(next).val)
            /\ next # Failed /\ Top(next).kind \in Kinds \ {"Done"} =>
                 /\ s.out.kind \notin {"Final", "Failure"}
                 /\ Core(s.run, next, r.overrides, r.ended, r.final_result)
<1> DEFINE next == next_step(r)
           t == Top(next)
<1>1. s = MoveTo(r, next, t, only)
  BY DEF cldb_step
<1> HIDE DEF next
<1>2. CASE next = Failed
  <2> DEFINE q == [r EXCEPT !.ended = TRUE]
  <2>1. s = Produce(q, "Failure", Fail)
    BY <1>1, <1>2 DEF MoveTo
  <2>2. Core(q, r.step, r.overrides, TRUE, r.final_result)
    BY DEF Core, RunFields
  <2> HIDE DEF q
  <2>3. DOMAIN q = RunFields
    BY <2>2 DEF Core
  <2>4. /\ Core(s.run, q.step, q.overrides, q.ended, q.final_result)
        /\ s.out.kind = "Failure"
    BY <2>1, <2>3, ProduceCore
  <2>5. Core(s.run, r.step, r.overrides, TRUE, r.final_result)
    BY <2>2, <2>4 DEF Core
  <2> QED
    BY <1>2, <2>4, <2>5 DEF next
<1>3. CASE next # Failed
  <2> DEFINE q == [r EXCEPT !.step = next]
  <2>1. Core(q, next, r.overrides, r.ended, r.final_result)
    BY DEF Core, RunFields
  <2>2. CASE t.kind = "Done"
    <3> DEFINE d == [q EXCEPT !.ended = TRUE, !.final_result = t.val]
    <3>1. s = Produce(d, "Final", t.val)
      BY <1>1, <1>3, <2>2 DEF MoveTo
    <3> HIDE DEF q, t
    <3>2. Core(d, next, r.overrides, TRUE, t.val)
      BY <2>1 DEF Core, RunFields
    <3> HIDE DEF d
    <3>3. DOMAIN d = RunFields
      BY <3>2 DEF Core
    <3>4. /\ Core(s.run, d.step, d.overrides, d.ended, d.final_result)
          /\ s.out.kind = "Final" /\ s.out.val = t.val
      BY <3>1, <3>3, ProduceCore
    <3>5. Core(s.run, next, r.overrides, TRUE, t.val)
      BY <3>2, <3>4 DEF Core
    <3> QED
      BY <1>3, <2>2, <3>4, <3>5 DEF next, t
  <2>3. ASSUME t.kind \in Kinds \ {"Done"}
        PROVE  /\ s.out.kind \notin {"Final", "Failure"}
               /\ Core(s.run, next, r.overrides, r.ended, r.final_result)
    <3>1. s = CASE t.kind = "OpResult" /\ r.in_expr /\ ~only -> ValueRow(q, t.val)
                [] t.kind = "OpResult" /\ (~r.in_expr \/ only) -> Silent([q EXCEPT !.in_expr = FALSE])
                [] t.kind = "Done" -> Produce([q EXCEPT !.ended = TRUE, !.final_result = t.val], "Final", t.val)
                [] t.kind = "ReadyOp" -> OperatorRow(q, t, only)
                [] t.kind \in {"Step", "Op"} -> Silent(q)
      BY <1>1, <1>3 DEF MoveTo
    <3> HIDE DEF q, t
    <3>2. CASE t.kind = "OpResult" /\ r.in_expr /\ ~only
      <4> DEFINE b == [q EXCEPT !.in_expr = FALSE]
                 p == Produce(b, "Value", t.val)
      <4>1. s = IF IsCons(t.val) THEN p
                ELSE [p EXCEPT !.run.outputs_to_step = Inserted(@, atom_value(t.val), q.row)]
        BY <3>1, <3>2 DEF ValueRow
      <4>2. Core(b, next, r.overrides, r.ended, r.final_result)
        BY <2>1 DEF Core, RunFields
      <4> HIDE DEF b
      <4>3. DOMAIN b = RunFields
        BY <4>2 DEF Core
      <4>4. /\ Core(p.run, b.step, b.overrides, b.ended, b.final_result)
            /\ p.out.kind = "Value" /\ DOMAIN p = {"run", "out"}
        BY <4>3, ProduceCore
      <4>5. Core(p.run, next, r.overrides, r.ended, r.final_result)
        BY <4>2, <4>4 DEF Core
      <4> HIDE DEF p
      <4>6. CASE IsCons(t.val)
        BY <4>1, <4>4, <4>5, <4>6
      <4>7. CASE ~IsCons(t.val)
        <5> DEFINE o == Inserted(p.run.outputs_to_step, atom_value(t.val), q.row)
                   d == [p.run EXCEPT !.outputs_to_step = o]
        <5>1. s.run = d /\ s.out = p.out
          BY <4>1, <4>4, <4>7
        <5> HIDE DEF o
        <5>2. Core(d, next, r.overrides, r.ended, r.final_result)
          BY <4>5 DEF Core, RunFields
        <5> QED
          BY <4>4, <5>1, <5>2
      <4> QED
        BY <4>6, <4>7
    <3>3. CASE t.kind = "OpResult" /\ (~r.in_expr \/ only)
      <4> DEFINE b == [q EXCEPT !.in_expr = FALSE]
      <4>1. s.run = b /\ s.out = NothingShown
        BY <3>1, <3>3 DEF Silent
      <4>2. Core(b, next, r.overrides, r.ended, r.final_result)
        BY <2>1 DEF Core, RunFields
      <4> QED
        BY <4>1, <4>2 DEF NothingShown
    <3>4. CASE t.kind = "ReadyOp"
      <4>1. s = OperatorRow(q, t, only)
        BY <3>1, <3>4
      <4>2. PICK refs, p :
              /\ p \in {Produce([q EXCEPT !.to_print = refs], "Print", ListOf(Tail(t.args), t.end)),
                        Silent([q EXCEPT !.to_print = refs])}
              /\ s = [p EXCEPT !.run.in_expr = IF only THEN @ ELSE TRUE]
        BY <4>1 DEF OperatorRow
      <4> DEFINE g == [q EXCEPT !.to_print = refs]
                 v == ListOf(Tail(t.args), t.end)
      <4>3. p = Produce(g, "Print", v) \/ p = Silent(g)
        BY <4>2
      <4>4. Core(g, next, r.overrides, r.ended, r.final_result)
        BY <2>1 DEF Core, RunFields
      <4> HIDE DEF g, v
      <4>5. DOMAIN g = RunFields
        BY <4>4 DEF Core
      <4>6. /\ Core(p.run, next, r.overrides, r.ended, r.final_result)
            /\ p.out.kind \in {"Print", "None"} /\ DOMAIN p = {"run", "out"}
        <5>1. CASE p = Produce(g, "Print", v)
          <6>1. /\ Core(p.run, g.step, g.overrides, g.ended, g.final_result)
                /\ p.out.kind = "Print" /\ DOMAIN p = {"run", "out"}
            BY <4>5, <5>1, ProduceCore
          <6> QED
            BY <4>4, <6>1 DEF Core
        <5>2. CASE p = Silent(g)
          BY <4>4, <5>2 DEF Silent, NothingShown
        <5> QED
          BY <4>3, <5>1, <5>2
      <4> DEFINE d == [p.run EXCEPT !.in_expr = IF only THEN @ ELSE TRUE]
      <4>7. s.run = d /\ s.out = p.out
        BY <4>2, <4>6
      <4>8. Core(d, next, r.overrides, r.ended, r.final_result)
        BY <4>6 DEF Core, RunFields
      <4> QED
        BY <4>6, <4>7, <4>8
    <3>5. CASE t.kind \in {"Step", "Op"}
      <4>1. s.run = q /\ s.out = NothingShown
        BY <3>1, <3>5 DEF Silent
      <4> QED
        BY <2>1, <4>1 DEF NothingShown
    <3> QED
      BY <2>3, <3>2, <3>3, <3>4, <3>5 DEF Kinds
  <2> QED
    BY <1>3, <2>2, <2>3 DEF next, t
<1> QED
  BY <1>2, <1>3 DEF next
=============================================================================
